--------------------------- MODULE MemoriaPruebas ---------------------------
EXTENDS PropiedadesMemoria, FiniteSetTheorems, SequenceTheorems, TLAPS

\* UnSoloPendiente and MarcoExclusivo for every value of the constants.  The
\* first needs to know at which point of an instruction the CPU, the MMU and
\* memoria are: Fases, below.  The second needs more: that nothing is released
\* while a table is resized, which holds because the CPU waits for the answer.
\* SinFugas, PaginasContiguas, TlbAlDia and AccesoPropio, further down, follow one
\* translation from the order of the CPU to the access: InvTraduccion.

-----------------------------------------------------------------------------
(* The protocol between the CPU, its MMU and memoria                       *)

TiposPedido == {"MOV_IN", "MOV_OUT", "RESIZE", "COPY_STRING_2", "IO_STDIN_READ", "LIBERADA"}

SinMensajes == peticion.tipo = "NADA" /\ respuesta.tipo = "NADA"

\* A request of one of these kinds, or its answer, is on its way.
EnCamino(tipos) ==
    \/ peticion.tipo \in tipos /\ respuesta.tipo = "NADA"
    \/ peticion.tipo = "NADA" /\ respuesta.tipo \in tipos

\* n posts wait for the MMU at its first sem_wait, besides the one it still has to
\* take at the second when the last translation failed.
Avisos(n) == \/ mmu = "ESPERA" /\ mmu_ejecucion = n
             \/ mmu = "FRAME" /\ ~ resultado /\ mmu_ejecucion = n + 1

FaseOciosa == ~ cpu.ocupada /\ SinMensajes /\ Avisos(0)
FaseMemoria == cpu.ocupada /\ EnCamino(TiposPedido) /\ Avisos(0)
FaseOrden == cpu.ocupada /\ SinMensajes /\ Avisos(1)
FasePregunta == /\ cpu.ocupada /\ EnCamino({"NUMERO_FRAME"})
                /\ mmu = "FRAME" /\ mmu_ejecucion = 0
FaseFrame == /\ cpu.ocupada /\ SinMensajes
             /\ mmu = "FRAME" /\ resultado /\ mmu_ejecucion = 1

Fases == FaseOciosa \/ FaseMemoria \/ FaseOrden \/ FasePregunta \/ FaseFrame

\* Only the process in the CPU executes.
Turno == /\ cpu.ocupada => cpu.pid \in Pids /\ estado[cpu.pid] = "EXEC"
         /\ \A p \in Pids : estado[p] = "EXEC" => p = cpu.pid

\* The requests whose answer waits for a loop over pages.
TiposBucle == {"RESIZE", "IO_STDIN_READ"}

\* The loop over pages runs for the request of the CPU's process.
EnBucle == /\ bucle.pid # 0 => peticion.tipo \in TiposBucle /\ bucle.pid = peticion.pid
           /\ bucle.pid = 0 => bucle = SinBucle
           /\ peticion.tipo \in TiposBucle \cup {"NUMERO_FRAME"} => peticion.pid = cpu.pid

\* Memoria only releases processes that ended.
Finalizados ==
    /\ liberando.pid # 0 => estado[liberando.pid] = "EXIT"
    /\ \A j \in DOMAIN a_memoria :
          a_memoria[j].tipo = "FINALIZAR_PROCESO" => estado[a_memoria[j].pid] = "EXIT"

Protocolo == Fases /\ Turno /\ EnBucle

\* vars unchanged is every variable unchanged.
LEMMA TuplasIguales ==
    ASSUME UNCHANGED vars
    PROVE  UNCHANGED <<config, procesos, cantidad, tabla, bitmap_array, bytes_usados,
                       liberando, bucle, a_memoria, peticion, respuesta, estado, cpu,
                       mmu, mmu_ejecucion, orden, marco, resultado, tlb,
                       proximo_indice_reemplazo>>
  BY DEF vars, varsMarcos, varsCpu

\* The kernel's steps keep the protocol.
LEMMA ProtocoloKernel ==
    ASSUME Tipos, Protocolo, NEW p \in Pids, PasoKernel(p)
    PROVE  Protocolo'
<1> USE DEF Protocolo, Fases, FaseOciosa, FaseMemoria, FaseOrden, FasePregunta, FaseFrame,
            SinMensajes, EnCamino, Avisos, Turno, EnBucle, TiposBucle, Tipos, TipoCpu
<1>1. CASE KernelCrea(p)
  BY <1>1 DEF KernelCrea, varsCpu
<1>2. CASE KernelDespacha(p)
  BY <1>2 DEF KernelDespacha, varsMarcos
<1>3. CASE CpuDevuelve(p)
  BY <1>3 DEF CpuDevuelve, EntreInstrucciones, varsMarcos, varsCpu
<1>4. CASE CpuExit(p)
  BY <1>4 DEF CpuExit, Finaliza, EntreInstrucciones, varsCpu
<1>5. CASE KernelMata(p)
  BY <1>5 DEF KernelMata, Finaliza, varsCpu
<1> QED
  BY <1>1, <1>2, <1>3, <1>4, <1>5 DEF PasoKernel

\* So do the CPU's two threads, with the answers they take.
LEMMA ProtocoloInstruccion ==
    ASSUME Tipos, Protocolo, NEW p \in Pids, PasoInstruccion(p)
    PROVE  Protocolo'
<1> USE DEF Protocolo, Fases, FaseOciosa, FaseMemoria, FaseOrden, FasePregunta, FaseFrame,
            SinMensajes, EnCamino, Avisos, Turno, EnBucle, TiposBucle, Tipos, TipoCpu,
            EntreInstrucciones, TiposPedido
<1>1. ASSUME NEW codigo, NEW logica, NEW bytes, CpuMov(p, codigo, logica, bytes)
      PROVE  Protocolo'
  BY <1>1 DEF CpuMov, MmuIniciar, varsMarcos
<1>2. ASSUME NEW si, NEW di, NEW bytes, CpuCopyString(p, si, di, bytes)
      PROVE  Protocolo'
  BY <1>2 DEF CpuCopyString, MmuIniciar, varsMarcos
<1>3. ASSUME NEW bytes, CpuResize(p, bytes)
      PROVE  Protocolo'
  BY <1>3 DEF CpuResize, NoPeticion
<1>4. ASSUME NEW logica, NEW bytes, CpuStdinRead(p, logica, bytes)
      PROVE  Protocolo'
  BY <1>4 DEF CpuStdinRead, NoPeticion
<1> QED
  BY <1>1, <1>2, <1>3, <1>4 DEF PasoInstruccion

\* The CPU reads an answer: the next phase, or the end of the instruction.
LEMMA ProtocoloRespuesta ==
    ASSUME Tipos, Protocolo, PasoRespuesta
    PROVE  Protocolo'
<1> USE DEF Protocolo, Fases, FaseOciosa, FaseMemoria, FaseOrden, FasePregunta, FaseFrame,
            SinMensajes, EnCamino, Avisos, Turno, EnBucle, TiposBucle, Tipos, TipoCpu,
            TiposPedido, Recibe, NoRespuesta
<1>1. CASE CpuNumeroFrame
  <2>1. FasePregunta /\ respuesta.tipo = "NUMERO_FRAME" /\ peticion.tipo = "NADA"
    BY <1>1 DEF CpuNumeroFrame
  <2>2. /\ mmu' = "FRAME" /\ mmu_ejecucion' = 1
        /\ respuesta'.tipo = "NADA" /\ peticion' = peticion
        /\ resultado' = respuesta.resultado /\ bucle' = bucle
    BY <1>1, <2>1 DEF CpuNumeroFrame, PostMmu
  <2>3. CASE respuesta.resultado
    <3>1. cpu' = cpu /\ estado' = estado /\ resultado'
      BY <1>1, <2>2, <2>3 DEF CpuNumeroFrame
    <3> QED
      BY <2>1, <2>2, <3>1
  <2>4. CASE ~ respuesta.resultado
    <3>1. /\ cpu' = [cpu EXCEPT !.ocupada = FALSE] /\ ~ resultado'
          /\ estado' = [estado EXCEPT ![cpu.pid] = "READY"]
      BY <1>1, <2>2, <2>4 DEF CpuNumeroFrame
    <3> QED
      BY <2>1, <2>2, <3>1
  <2> QED
    BY <2>3, <2>4
<1>2. CASE CpuMovListo
  BY <1>2 DEF CpuMovListo
<1>3. CASE CpuResizeOCopia
  <2>1. FaseMemoria /\ peticion.tipo = "NADA"
    BY <1>3 DEF CpuResizeOCopia
  <2>2. /\ mmu' = mmu /\ mmu_ejecucion' = mmu_ejecucion /\ resultado' = resultado
        /\ respuesta'.tipo = "NADA" /\ peticion' = peticion /\ bucle' = bucle
        /\ cpu' = [cpu EXCEPT !.ocupada = FALSE]
    BY <1>3 DEF CpuResizeOCopia
  <2>3. estado' = estado \/ estado' = [estado EXCEPT ![cpu.pid] = "EXIT"]
    BY <1>3 DEF CpuResizeOCopia, Finaliza
  <2> QED
    BY <2>1, <2>2, <2>3
<1>4. CASE CpuStdinAsignado
  <2>1. FaseMemoria /\ peticion.tipo = "NADA"
    BY <1>4 DEF CpuStdinAsignado
  <2>2. mmu' = mmu /\ respuesta'.tipo = "NADA" /\ peticion' = peticion /\ bucle' = bucle
    BY <1>4 DEF CpuStdinAsignado
  <2>3. CASE respuesta.resultado
    <3>1. cpu' = cpu /\ estado' = estado /\ mmu_ejecucion' = mmu_ejecucion + 1 /\ ~ resultado'
      BY <1>4, <2>3 DEF CpuStdinAsignado, MmuIniciar
    <3> QED
      BY <2>1, <2>2, <3>1
  <2>4. CASE ~ respuesta.resultado
    <3>1. /\ cpu' = [cpu EXCEPT !.ocupada = FALSE]
          /\ estado' = [estado EXCEPT ![cpu.pid] = "READY"]
          /\ mmu_ejecucion' = mmu_ejecucion /\ resultado' = resultado
      BY <1>4, <2>4 DEF CpuStdinAsignado
    <3> QED
      BY <2>1, <2>2, <3>1
  <2> QED
    BY <2>3, <2>4
<1> QED
  BY <1>1, <1>2, <1>3, <1>4 DEF PasoRespuesta

\* What MmuEnvia does is a request, the order of the second translation, or the
\* end of an IO_STDIN_READ.
LEMMA MmuEnviaHace ==
    ASSUME Tipos, NEW m, MmuEnvia(m)
    PROVE  \/ /\ peticion'.tipo \in {"MOV_IN", "MOV_OUT", "COPY_STRING_2"}
              /\ mmu_ejecucion' = mmu_ejecucion - 1
              /\ UNCHANGED <<cpu, estado>>
           \/ /\ peticion' = peticion
              /\ mmu_ejecucion' = mmu_ejecucion /\ ~ resultado'
              /\ UNCHANGED <<cpu, estado>>
           \/ /\ peticion' = peticion
              /\ mmu_ejecucion' = mmu_ejecucion - 1
              /\ cpu' = [cpu EXCEPT !.ocupada = FALSE]
              /\ estado' = [estado EXCEPT ![cpu.pid] = "READY"]
  BY DEF MmuEnvia, NoPeticion

\* The MMU looks in its TLB or in an answer, and may ask memoria.
LEMMA ProtocoloMmu ==
    ASSUME Tipos, Protocolo, PasoMmu
    PROVE  Protocolo'
<1> USE DEF Protocolo, Fases, FaseOciosa, FaseMemoria, FaseOrden, FasePregunta, FaseFrame,
            SinMensajes, EnCamino, Avisos, Turno, EnBucle, TiposBucle, Tipos, TipoCpu,
            TiposPedido
<1>1. CASE MmuAcierto
  <2>1. FaseOrden /\ mmu = "ESPERA" /\ mmu' = "ESPERA" /\ mmu_ejecucion = 1
    BY <1>1 DEF MmuAcierto
  <2>2. UNCHANGED <<respuesta, bucle>>
    BY <1>1 DEF MmuAcierto, RestoMmu
  <2>3. PICK m : MmuEnvia(m)
    BY <1>1 DEF MmuAcierto
  <2> QED
    BY <2>1, <2>2, <2>3, MmuEnviaHace
<1>2. CASE MmuFallo
  BY <1>2 DEF MmuFallo, RestoMmu, NoPeticion
<1>3. CASE MmuConFrame
  <2>1. FaseFrame /\ mmu' = "ESPERA"
    BY <1>3 DEF MmuConFrame
  <2>2. UNCHANGED <<respuesta, bucle>>
    BY <1>3 DEF MmuConFrame, RestoMmu
  <2>3. PICK m : MmuEnvia(m)
    BY <1>3 DEF MmuConFrame
  <2> QED
    BY <2>1, <2>2, <2>3, MmuEnviaHace
<1>4. CASE MmuSinFrame
  BY <1>4 DEF MmuSinFrame, RestoMmu
<1> QED
  BY <1>1, <1>2, <1>3, <1>4 DEF PasoMmu

\* An answer is only given to a request of its kind.
LEMMA ProtocoloResponder ==
    ASSUME Tipos, Protocolo, NEW tipo, NEW m, NEW bytes, NEW hecho,
           peticion.tipo = tipo, tipo # "NADA", bucle' = SinBucle,
           Responder(tipo, m, bytes, hecho), UNCHANGED <<estado, varsCpu>>
    PROVE  Protocolo'
<1>1. /\ peticion.tipo = tipo /\ respuesta'.tipo = tipo
      /\ peticion'.tipo = "NADA"
      /\ UNCHANGED <<estado, cpu, mmu, mmu_ejecucion, resultado>>
  BY DEF Responder, NoPeticion, varsCpu
<1> QED
  BY <1>1 DEF Protocolo, Fases, FaseOciosa, FaseMemoria, FaseOrden, FasePregunta, FaseFrame,
              SinMensajes, EnCamino, Avisos, Turno, EnBucle, TiposBucle, TiposPedido, SinBucle

\* The two threads of memoria: only that of the CPU moves the phase.
LEMMA ProtocoloMemoria ==
    ASSUME Tipos, Protocolo, PasoMemoria
    PROVE  Protocolo'
<1>1. UNCHANGED <<estado, varsCpu>> /\ (HiloKernelDeMemoria \/ HiloCpuDeMemoria)
  BY DEF PasoMemoria
<1>2. ASSUME UNCHANGED <<peticion, respuesta>>, EnBucle'
      PROVE  Protocolo'
  BY <1>1, <1>2 DEF Protocolo, Fases, FaseOciosa, FaseMemoria, FaseOrden, FasePregunta,
                    FaseFrame, SinMensajes, EnCamino, Avisos, Turno, varsCpu
<1>3. CASE HiloKernelDeMemoria
  <2>1. UNCHANGED <<peticion, respuesta, bucle>>
    BY <1>3 DEF HiloKernelDeMemoria, MemoriaNuevoProceso, MemoriaFinalizar, LiberarMarco,
                LiberarPaginaDeTabla, MemoriaFinalizado
  <2> QED
    BY <1>1, <1>2, <2>1 DEF Protocolo, EnBucle, TiposBucle, varsCpu
<1>4. ASSUME NEW tipo, Atiende(tipo), tipo # "NADA", UNCHANGED bucle,
             NEW m, NEW bytes, NEW hecho, Responder(tipo, m, bytes, hecho)
      PROVE  Protocolo'
  <2>1. bucle' = SinBucle /\ peticion.tipo = tipo
    BY <1>4 DEF Atiende, Protocolo, EnBucle, TiposBucle
  <2> QED
    BY <1>1, <1>4, <2>1, ProtocoloResponder
<1>5. CASE MemoriaNumeroFrame
  BY <1>4, <1>5 DEF MemoriaNumeroFrame
<1>6. CASE MemoriaMovOut
  BY <1>4, <1>6 DEF MemoriaMovOut
<1>7. CASE MemoriaMovIn
  BY <1>4, <1>7 DEF MemoriaMovIn
<1>8. CASE MemoriaCopyString
  BY <1>4, <1>8 DEF MemoriaCopyString
<1>9. CASE MemoriaResizeRechaza
  BY <1>4, <1>9 DEF MemoriaResizeRechaza
<1>15. CASE MemoriaLecturaRechaza
  BY <1>4, <1>15 DEF MemoriaLecturaRechaza
<1>10. CASE MemoriaResize \/ MemoriaLectura
  <2>1. EnBucle' /\ UNCHANGED <<peticion, respuesta>>
    <3>1. /\ peticion.tipo \in TiposBucle /\ bucle'.pid = peticion.pid
          /\ UNCHANGED <<peticion, respuesta, cpu>>
      BY <1>1, <1>10 DEF MemoriaResize, MemoriaLectura, Atiende, TiposBucle, varsCpu
    <3>2. peticion.pid \in Pids
      BY <3>1 DEF Protocolo, EnBucle, TiposBucle, Turno, Fases, FaseOciosa, FaseMemoria, FaseOrden,
                  FasePregunta, FaseFrame, SinMensajes, EnCamino
    <3> QED
      BY <3>1, <3>2 DEF EnBucle, TiposBucle, Protocolo, Pids
  <2> QED
    BY <1>2, <2>1
<1>11. ASSUME UNCHANGED <<peticion, respuesta, cpu>>, bucle.pid # 0,
              bucle'.pid = bucle.pid
       PROVE  Protocolo'
  <2>1. EnBucle'
    BY <1>11 DEF Protocolo, EnBucle, TiposBucle
  <2> QED
    BY <1>2, <1>11, <2>1
<1>12. CASE ResizeLibera
  BY <1>1, <1>11, <1>12 DEF ResizeLibera, Protocolo, EnBucle, TiposBucle, SinBucle, Tipos, TipoMarcos,
                            varsCpu
<1>13. CASE BucleAsigna
  BY <1>1, <1>11, <1>13 DEF BucleAsigna, Protocolo, EnBucle, TiposBucle, SinBucle, Tipos, TipoMarcos,
                            varsCpu
<1>14. CASE BucleResponde
  <2>1. peticion.tipo \in TiposBucle /\ bucle' = SinBucle
    BY <1>14 DEF BucleResponde, Protocolo, EnBucle
  <2>2. peticion.tipo # "NADA"
    BY <2>1 DEF TiposBucle
  <2>3. Responder(peticion.tipo, Invalida, bucle.bytes, TRUE)
    BY <1>14 DEF BucleResponde
  <2> QED
    BY <1>1, <2>1, <2>2, <2>3, ProtocoloResponder
<1>16. CASE LecturaSinMarco
  <2>1. /\ peticion.tipo = "IO_STDIN_READ" /\ peticion'.tipo = "LIBERADA"
        /\ peticion'.pid = peticion.pid /\ bucle' = SinBucle /\ UNCHANGED respuesta
    BY <1>16 DEF LecturaSinMarco, Tipos, TipoMensajes, Peticion
  <2>2. UNCHANGED <<estado, cpu, mmu, mmu_ejecucion, resultado>>
    BY <1>1 DEF varsCpu
  <2> QED
    BY <2>1, <2>2 DEF Protocolo, Fases, FaseOciosa, FaseMemoria, FaseOrden, FasePregunta,
        FaseFrame, SinMensajes, EnCamino, Avisos, Turno, EnBucle, TiposBucle, TiposPedido, SinBucle
<1> QED
  BY <1>1, <1>3, <1>5, <1>6, <1>7, <1>8, <1>9, <1>10, <1>12, <1>13, <1>14, <1>15, <1>16
     DEF HiloCpuDeMemoria

\* Every step keeps the protocol of the CPU, the MMU and memoria.
LEMMA ProtocoloSigue ==
    ASSUME Tipos, Protocolo, [Next]_vars
    PROVE  Protocolo'
<1>1. CASE UNCHANGED vars
  BY <1>1, TuplasIguales
     DEF Protocolo, Fases, FaseOciosa, FaseMemoria, FaseOrden, FasePregunta, FaseFrame,
         SinMensajes, EnCamino, Avisos, Turno, EnBucle, TiposBucle
<1> QED
  BY <1>1, ProtocoloKernel, ProtocoloInstruccion, ProtocoloRespuesta, ProtocoloMmu,
     ProtocoloMemoria DEF Next

-----------------------------------------------------------------------------
(* Arithmetic and sizes                                                    *)

\* What the assumptions say of the page size, the frames and the pids.
LEMMA PaginacionNat ==
    /\ TamPagina \in Nat /\ TamPagina > 0 /\ CantidadMarcos \in Nat
    /\ TamMemoria \in Nat
    /\ 0 \notin Pids /\ Pids \subseteq Nat
  BY PaginacionAssumption DEF TamMemoria, Pids

\* The division of the naturals and its remainder.
LEMMA Division ==
    ASSUME NEW a \in Nat
    PROVE  /\ a \div TamPagina \in Nat
           /\ a % TamPagina \in Nat
           /\ TamPagina * (a \div TamPagina) <= a
  BY PaginacionNat

\* A size of at most k pages takes at most k pages.
LEMMA TechoCota ==
    ASSUME NEW b \in Nat, NEW k \in Nat, b <= TamPagina * k
    PROVE  Techo(b) \in 0 .. k
<1> DEFINE q == (b + TamPagina - 1) \div TamPagina
<1>1. q \in Nat /\ TamPagina * q <= b + TamPagina - 1
  BY PaginacionNat, Division
<1> HIDE DEF q
<1>2. SUFFICES ASSUME q >= k + 1 PROVE FALSE
  BY <1>1 DEF Techo, q
<1>3. TamPagina * q >= TamPagina * (k + 1)
  BY <1>1, <1>2, PaginacionNat
<1>4. TamPagina * (k + 1) = TamPagina * k + TamPagina
  BY PaginacionNat
<1>5. TamPagina * k \in Nat /\ TamPagina * q \in Nat
  BY <1>1, PaginacionNat
<1> QED
  BY <1>1, <1>3, <1>4, <1>5, PaginacionNat

\* A process has no more frames in use than there are.
LEMMA FramesOcupadosCota ==
    ASSUME NEW p
    PROVE  FramesOcupados(p) \in 0 .. CantidadMarcos
<1>1. IsFiniteSet(Paginas) /\ Cardinality(Paginas) = CantidadMarcos
  BY FS_Interval, PaginacionAssumption DEF Paginas
<1>2. Validas(p) \in SUBSET Paginas
  BY DEF Validas
<1> QED
  BY <1>1, <1>2, FS_Subset, FS_CardinalityType, PaginacionNat DEF FramesOcupados

\* The bytes available never exceed the memory.
LEMMA BytesDisponiblesCota ==
    ASSUME TipoMarcos
    PROVE  BytesDisponibles \in Int /\ BytesDisponibles <= TamPagina * CantidadMarcos
<1> DEFINE contados == {p \in procesos : p < cantidad}
           ocupadas == {x \in contados \X Paginas : tabla[x[1]][x[2]] # Invalida}
<1>1. Cardinality(ocupadas) \in Nat
  <2>1. IsFiniteSet(Pids) /\ IsFiniteSet(Paginas)
    BY FS_Interval, PaginacionAssumption DEF Pids, Paginas
  <2>2. IsFiniteSet(Pids \X Paginas)
    BY <2>1, FS_Product
  <2>3. ocupadas \in SUBSET (Pids \X Paginas)
    BY DEF TipoMarcos
  <2> QED
    BY <2>2, <2>3, FS_Subset, FS_CardinalityType
<1> QED
  BY <1>1, PaginacionNat DEF BytesDisponibles, TamMemoria

\* A request that memoria accepts fits in the table.
LEMMA ResizeEntra ==
    ASSUME TipoMarcos, NEW p, NEW b \in Nat, ~ SinMemoria(p, b)
    PROVE  Techo(b) \in 0 .. CantidadMarcos
<1>1. FramesOcupados(p) \in 0 .. CantidadMarcos
  BY FramesOcupadosCota
<1>2. CASE b <= BytesOcupados(p)
  <2>1. TamPagina * FramesOcupados(p) <= TamPagina * CantidadMarcos
    BY <1>1, PaginacionNat
  <2> QED
    BY <1>1, <1>2, <2>1, TechoCota, PaginacionNat DEF BytesOcupados
<1>3. CASE b <= BytesDisponibles
  BY <1>3, BytesDisponiblesCota, TechoCota, PaginacionNat
<1>4. BytesOcupados(p) \in Int /\ BytesDisponibles \in Int
  BY <1>1, PaginacionNat, BytesDisponiblesCota DEF BytesOcupados
<1> QED
  BY <1>2, <1>3, <1>4 DEF SinMemoria

-----------------------------------------------------------------------------
(* Types                                                                   *)

Inductivo == Tipos /\ TipoBucle /\ Protocolo /\ Finalizados

\* What releasing or assigning a page leaves is a table and a bitmap.
LEMMA PaginaTipo ==
    ASSUME TipoMarcos, NEW p \in Pids, NEW n \in Validas(p), LiberarPagina(p, n)
    PROVE  /\ tabla' \in [Pids -> [Paginas -> NumerosMarco \cup {Invalida}]]
           /\ bitmap_array' \in [NumerosMarco -> {0, 1}]
           /\ bytes_usados' \in [NumerosMarco -> Int]
           /\ \A q \in Pids \ {p} : Validas(q)' = Validas(q)
<1>1. n \in Paginas /\ tabla[p][n] \in NumerosMarco
  BY DEF Validas, TipoMarcos
<1>2. 0 - TamPagina \in Int
  BY PaginacionNat
<1> QED
  BY <1>1, <1>2 DEF LiberarPagina, TipoMarcos, Validas

\* Writing in a set of addresses keeps the types of the bitmap and of the bytes used.
LEMMA EscribirTipo ==
    ASSUME TipoMarcos, NEW D, Escribir(D)
    PROVE  /\ bitmap_array' \in [NumerosMarco -> {0, 1}]
           /\ bytes_usados' \in [NumerosMarco -> Int]
<1> DEFINE enMarco(m) == {d \in EnMemoria(D) : MarcoDe(d) = m}
           Tope(n)    == IF n > TamPagina THEN TamPagina + 1 ELSE n
<1>1. ASSUME NEW m \in NumerosMarco
      PROVE  Tope(bytes_usados[m] + Cardinality(enMarco(m))) \in Int
  <2>1. IsFiniteSet(0 .. TamMemoria - 1)
    BY FS_Interval, PaginacionNat
  <2>2. enMarco(m) \in SUBSET (0 .. TamMemoria - 1)
    BY DEF EnMemoria
  <2>3. Cardinality(enMarco(m)) \in Nat
    BY <2>1, <2>2, FS_Subset, FS_CardinalityType
  <2> QED
    BY <2>3, PaginacionNat DEF TipoMarcos
<1> QED
  BY <1>1 DEF Escribir, TipoMarcos

\* What the kernel sends to memoria
DelKernel == [tipo : {"NUEVO_PROCESO", "FINALIZAR_PROCESO"}, pid : Pids]

\* Taking the first message leaves the others, in their order.
LEMMA ColaTipo ==
    ASSUME TipoMensajes, a_memoria # << >>
    PROVE  /\ Cabeza \in DelKernel /\ Cabeza = a_memoria[1] /\ 1 \in DOMAIN a_memoria
           /\ Tail(a_memoria) \in Seq(DelKernel)
           /\ \A j \in DOMAIN Tail(a_memoria) :
                 j + 1 \in DOMAIN a_memoria /\ Tail(a_memoria)[j] = a_memoria[j + 1]
<1>1. a_memoria \in Seq(DelKernel)
  BY DEF TipoMensajes, DelKernel
<1>2. Len(a_memoria) \in Nat /\ DOMAIN a_memoria = 1 .. Len(a_memoria)
  BY <1>1, LenProperties
<1>3. /\ Head(a_memoria) \in DelKernel /\ Tail(a_memoria) \in Seq(DelKernel)
      /\ Len(Tail(a_memoria)) = Len(a_memoria) - 1
      /\ \A i \in 1 .. Len(Tail(a_memoria)) : Tail(a_memoria)[i] = a_memoria[i + 1]
  BY <1>1, HeadTailProperties
<1>4. Len(a_memoria) > 0
  BY <1>1, <1>2, EmptySeq
<1>5. DOMAIN Tail(a_memoria) = 1 .. Len(Tail(a_memoria))
  BY <1>3, LenProperties
<1> QED
  BY <1>1, <1>2, <1>3, <1>4, <1>5 DEF Cabeza

\* A notice appended to those memoria has not read is of the type of the others.
LEMMA AgregarTipo ==
    ASSUME TipoMensajes, NEW m \in DelKernel
    PROVE  /\ Append(a_memoria, m) \in Seq(DelKernel)
           /\ \A j \in DOMAIN Append(a_memoria, m) :
                 \/ j \in DOMAIN a_memoria /\ Append(a_memoria, m)[j] = a_memoria[j]
                 \/ Append(a_memoria, m)[j] = m
<1>1. a_memoria \in Seq(DelKernel)
  BY DEF TipoMensajes, DelKernel
<1>2. /\ Append(a_memoria, m) \in Seq(DelKernel)
      /\ Len(Append(a_memoria, m)) = Len(a_memoria) + 1
      /\ \A i \in 1 .. Len(a_memoria) : Append(a_memoria, m)[i] = a_memoria[i]
      /\ Append(a_memoria, m)[Len(a_memoria) + 1] = m
  BY <1>1, AppendProperties
<1>3. /\ DOMAIN a_memoria = 1 .. Len(a_memoria) /\ Len(a_memoria) \in Nat
      /\ DOMAIN Append(a_memoria, m) = 1 .. Len(Append(a_memoria, m))
  BY <1>1, <1>2, LenProperties
<1> QED
  BY <1>2, <1>3

\* The kernel's thread of memoria keeps the types of tables and frames.
LEMMA TipoMarcosKernel ==
    ASSUME Inductivo, HiloKernelDeMemoria
    PROVE  TipoMarcos'
<1> USE DEF TipoMarcos
<1>0. TipoMarcos /\ TipoMensajes
  BY DEF Inductivo, Tipos
<1>1. CASE MemoriaNuevoProceso
  <2>1. Cabeza.pid \in Pids
    BY <1>0, <1>1, ColaTipo DEF MemoriaNuevoProceso, HiloKernelLibre, DelKernel
  <2>2. liberando.pagina = Invalida
    BY <1>0, <1>1 DEF MemoriaNuevoProceso, HiloKernelLibre
  <2>3. tabla' \in [Pids -> [Paginas -> NumerosMarco \cup {Invalida}]]
    BY <1>0, <1>1, <2>1 DEF MemoriaNuevoProceso
  <2> QED
    BY <1>0, <1>1, <2>1, <2>2, <2>3 DEF MemoriaNuevoProceso
<1>2. CASE MemoriaFinalizar
  <2>1. Cabeza.pid \in Pids
    BY <1>0, <1>2, ColaTipo DEF MemoriaFinalizar, HiloKernelLibre, DelKernel
  <2>2. /\ liberando' \in [pid : Pids \cup {0}, pagina : Paginas \cup {Invalida}]
        /\ liberando'.pagina = Invalida
    BY <1>0, <1>2, <2>1 DEF MemoriaFinalizar, NadaQueLiberar
  <2> QED
    BY <1>0, <1>2, <2>2 DEF MemoriaFinalizar
<1>3. CASE LiberarMarco
  <2>1. PICK n \in Validas(liberando.pid) :
          /\ bitmap_array' = [bitmap_array EXCEPT ![tabla[liberando.pid][n]] = 0]
          /\ liberando' = [liberando EXCEPT !.pagina = n]
    BY <1>3 DEF LiberarMarco
  <2>2. n \in Paginas
    BY DEF Validas
  <2>3. bitmap_array' \in [NumerosMarco -> {0, 1}]
    BY <1>0, <2>1
  <2>4. /\ liberando' \in [pid : Pids \cup {0}, pagina : Paginas \cup {Invalida}]
        /\ liberando'.pid = liberando.pid /\ liberando'.pagina = n
    BY <1>0, <2>1, <2>2
  <2> QED
    BY <1>0, <1>3, <2>3, <2>4 DEF LiberarMarco, Validas
<1>4. CASE LiberarPaginaDeTabla
  <2>1. liberando.pid \in Pids /\ liberando.pagina \in Validas(liberando.pid)
    BY <1>0, <1>4 DEF LiberarPaginaDeTabla
  <2>2. LiberarPagina(liberando.pid, liberando.pagina)
    BY <1>4 DEF LiberarPaginaDeTabla
  <2>3. /\ tabla' \in [Pids -> [Paginas -> NumerosMarco \cup {Invalida}]]
        /\ bitmap_array' \in [NumerosMarco -> {0, 1}]
        /\ bytes_usados' \in [NumerosMarco -> Int]
    BY <1>0, <2>1, <2>2, PaginaTipo
  <2> QED
    BY <1>0, <1>4, <2>3 DEF LiberarPaginaDeTabla
<1>5. CASE MemoriaFinalizado
  BY <1>0, <1>5 DEF MemoriaFinalizado, NadaQueLiberar, Validas
<1> QED
  BY <1>1, <1>2, <1>3, <1>4, <1>5 DEF HiloKernelDeMemoria

\* The process whose pages a loop goes over is not being released.
LEMMA ResizeNoLibera ==
    ASSUME Inductivo, bucle.pid # 0
    PROVE  /\ bucle.pid \in Pids /\ cpu.ocupada
           /\ liberando.pid # bucle.pid
           /\ respuesta.tipo = "NADA"
<1>1. /\ peticion.tipo \in TiposBucle
      /\ bucle.pid = peticion.pid /\ peticion.pid = cpu.pid
  BY DEF Inductivo, Protocolo, EnBucle, TiposBucle
<1>2. cpu.ocupada /\ respuesta.tipo = "NADA"
  BY <1>1 DEF Inductivo, Protocolo, Fases, FaseOciosa, FaseMemoria, FaseOrden, FasePregunta,
              FaseFrame, SinMensajes, EnCamino, TiposBucle
<1>3. cpu.pid \in Pids /\ estado[cpu.pid] = "EXEC"
  BY <1>2 DEF Inductivo, Protocolo, Turno
<1> QED
  BY <1>1, <1>2, <1>3 DEF Inductivo, Finalizados

\* The CPU's thread of memoria keeps them too: what its loops assign or release is
\* a page of a table.
LEMMA TipoMarcosCpu ==
    ASSUME Inductivo, HiloCpuDeMemoria
    PROVE  TipoMarcos'
<1> USE DEF TipoMarcos
<1>0. TipoMarcos /\ TipoMensajes
  BY DEF Inductivo, Tipos
<1>1. ASSUME UNCHANGED <<config, procesos, cantidad, tabla, liberando, bucle>>,
             bitmap_array' \in [NumerosMarco -> {0, 1}],
             bytes_usados' \in [NumerosMarco -> Int]
      PROVE  TipoMarcos'
  BY <1>0, <1>1 DEF Validas
<1>2. CASE \/ MemoriaNumeroFrame \/ MemoriaMovIn \/ MemoriaResizeRechaza
           \/ MemoriaLecturaRechaza
  BY <1>0, <1>1, <1>2 DEF MemoriaNumeroFrame, MemoriaMovIn, MemoriaResizeRechaza,
                          MemoriaLecturaRechaza
<1>3. CASE MemoriaMovOut
  BY <1>0, <1>1, <1>3, EscribirTipo DEF MemoriaMovOut
<1>4. CASE MemoriaCopyString
  <2>1. UNCHANGED <<config, procesos, cantidad, tabla, liberando, bucle>>
    BY <1>4 DEF MemoriaCopyString
  <2>2. \/ UNCHANGED <<bitmap_array, bytes_usados>>
        \/ \E D : Escribir(D)
    BY <1>4 DEF MemoriaCopyString
  <2> QED
    BY <1>0, <1>1, <2>1, <2>2, EscribirTipo
<1>5. CASE MemoriaResize \/ MemoriaLectura
  <2>1. /\ peticion.bytes \in Nat /\ peticion.pagina \in Nat
        /\ peticion.pid \in Pids \cup {0}
    BY <1>0 DEF TipoMensajes, Peticion
  <2>2. Techo(peticion.bytes) \in Nat
    BY <2>1, Division, PaginacionNat DEF Techo
  <2>3. FramesOcupados(peticion.pid) \in 0 .. CantidadMarcos
    BY FramesOcupadosCota
  <2>5. FramesOcupados(peticion.pid) \in Nat /\ peticion.pagina + Techo(peticion.bytes) \in Nat
    BY <2>1, <2>2, <2>3, PaginacionNat
  <2>4. bucle' \in [pid : Pids \cup {0}, i : Nat, hasta : Nat, bytes : Nat]
    BY <1>5, <2>1, <2>2, <2>5 DEF MemoriaResize, MemoriaLectura
  <2> QED
    BY <1>0, <1>5, <2>4 DEF MemoriaResize, MemoriaLectura, Validas
<1>6. ASSUME bucle.pid = 0
      PROVE  bucle.i = bucle.hasta
  BY <1>6 DEF Inductivo, Protocolo, EnBucle, TiposBucle, SinBucle
<1>7. CASE ResizeLibera
  <2>1. bucle.pid \in Pids /\ liberando.pid # bucle.pid
    BY <1>0, <1>6, <1>7, ResizeNoLibera, PaginacionNat DEF ResizeLibera
  <2>2. bucle' \in [pid : Pids \cup {0}, i : Nat, hasta : Nat, bytes : Nat]
    BY <1>0, <1>7, PaginacionNat DEF ResizeLibera
  <2>3. UNCHANGED <<config, procesos, cantidad, liberando>>
    BY <1>7 DEF ResizeLibera
  <2>4. CASE PaginaQueSobra \in Validas(bucle.pid)
    <3>1. LiberarPagina(bucle.pid, PaginaQueSobra)
      BY <1>7, <2>4 DEF ResizeLibera
    <3>2. /\ tabla' \in [Pids -> [Paginas -> NumerosMarco \cup {Invalida}]]
          /\ bitmap_array' \in [NumerosMarco -> {0, 1}]
          /\ bytes_usados' \in [NumerosMarco -> Int]
          /\ \A q \in Pids \ {bucle.pid} : Validas(q)' = Validas(q)
      BY <1>0, <2>1, <2>4, <3>1, PaginaTipo
    <3>3. liberando.pagina # Invalida => liberando.pid \in Pids \ {bucle.pid}
      BY <1>0, <2>1
    <3> QED
      BY <1>0, <2>2, <2>3, <3>2, <3>3
  <2>5. CASE PaginaQueSobra \notin Validas(bucle.pid)
    <3>1. UNCHANGED <<tabla, bitmap_array, bytes_usados>>
      BY <1>7, <2>5 DEF ResizeLibera
    <3> QED
      BY <1>0, <2>2, <2>3, <3>1 DEF Validas
  <2> QED
    BY <2>4, <2>5
<1>8. CASE BucleAsigna
  <2>3. bucle' \in [pid : Pids \cup {0}, i : Nat, hasta : Nat, bytes : Nat]
    BY <1>0, <1>8, PaginacionNat DEF BucleAsigna
  <2>9. UNCHANGED <<config, procesos, cantidad, liberando>>
    BY <1>8 DEF BucleAsigna
  <2>10. CASE bucle.i \notin Paginas
    <3>1. UNCHANGED <<tabla, bitmap_array, bytes_usados>>
      BY <1>8, <2>10 DEF BucleAsigna
    <3> QED
      BY <1>0, <2>3, <2>9, <3>1 DEF Validas
  <2>11. CASE bucle.i \in Paginas
    <3>1. PICK m \in ProximosFrames : AsignarPagina(bucle.pid, bucle.i, m)
      BY <1>8, <2>11 DEF BucleAsigna
    <3>2. m \in NumerosMarco
      BY DEF ProximosFrames, FramesLibres
    <3>4. /\ UNCHANGED <<config, procesos, cantidad, liberando, bytes_usados>>
          /\ tabla' = [tabla EXCEPT ![bucle.pid][bucle.i] = m]
          /\ bitmap_array' = [bitmap_array EXCEPT ![m] = 1]
      BY <2>9, <3>1 DEF AsignarPagina
    <3>5. /\ tabla' \in [Pids -> [Paginas -> NumerosMarco \cup {Invalida}]]
          /\ bitmap_array' \in [NumerosMarco -> {0, 1}]
      BY <1>0, <3>2, <3>4
    <3>6. bucle.pid \in Pids /\ liberando.pid # bucle.pid
      BY <1>0, <1>6, <1>8, ResizeNoLibera, PaginacionNat DEF BucleAsigna
    <3>7. \A q \in Pids \ {bucle.pid} : Validas(q)' = Validas(q)
      BY <1>0, <3>4 DEF Validas
    <3>8. liberando.pagina # Invalida => liberando.pid \in Pids \ {bucle.pid}
      BY <1>0, <3>6
    <3> QED
      BY <1>0, <2>3, <3>4, <3>5, <3>7, <3>8
  <2> QED
    BY <2>10, <2>11
<1>9. CASE BucleResponde \/ LecturaSinMarco
  <2>1. UNCHANGED <<config, procesos, cantidad, tabla, bitmap_array, bytes_usados, liberando>>
    BY <1>9 DEF BucleResponde, LecturaSinMarco
  <2>2. bucle' = SinBucle
    BY <1>9 DEF BucleResponde, LecturaSinMarco
  <2>3. bucle' \in [pid : Pids \cup {0}, i : Nat, hasta : Nat, bytes : Nat]
    BY <2>2 DEF SinBucle
  <2> QED
    BY <1>0, <2>1, <2>3 DEF Validas
<1> QED
  BY <1>2, <1>3, <1>4, <1>5, <1>7, <1>8, <1>9 DEF HiloCpuDeMemoria

\* A pending request is of the process in the CPU.
LEMMA OcupadaPid ==
    ASSUME Inductivo, cpu.ocupada
    PROVE  cpu.pid \in Pids /\ estado[cpu.pid] = "EXEC"
  BY DEF Inductivo, Protocolo, Turno

\* The end of a process, and the notice of it to memoria.
LEMMA FinalizaTipo ==
    ASSUME Tipos, NEW p \in Pids, Finaliza(p)
    PROVE  /\ a_memoria' \in Seq(DelKernel)
           /\ estado' \in [Pids -> {"SIN_CREAR", "READY", "EXEC", "EXIT"}]
<1>1. [tipo |-> "FINALIZAR_PROCESO", pid |-> p] \in DelKernel
  BY DEF DelKernel
<1> QED
  BY <1>1, AgregarTipo DEF Finaliza, Tipos, TipoCpu

\* The parts of the state a step leaves alone keep their types.
LEMMA TipoMarcosIgual ==
    ASSUME TipoMarcos, UNCHANGED <<config, procesos, cantidad, tabla, bitmap_array,
                                   bytes_usados, liberando, bucle>>
    PROVE  TipoMarcos'
  BY DEF TipoMarcos, Validas

\* The TLB when nobody touches it.
LEMMA TipoTlbIgual ==
    ASSUME TipoTlb, UNCHANGED <<config, tlb, proximo_indice_reemplazo>>
    PROVE  TipoTlb'
  BY DEF TipoTlb, Entradas

Estados == [Pids -> {"SIN_CREAR", "READY", "EXEC", "EXIT"}]
CpuTipo == [pid : Pids \cup {0}, ocupada : BOOLEAN]
OrdenTipo == [codigo : Codigos, logica : Nat, destino : Nat, origen : Int, bytes : Nat]

\* The CPU, when only the process in it or its state changes.
LEMMA TipoCpuCambia ==
    ASSUME TipoCpu, UNCHANGED <<mmu, mmu_ejecucion, orden, marco, resultado>>,
           estado' \in Estados, cpu' \in CpuTipo
    PROVE  TipoCpu'
  BY DEF TipoCpu, Estados, CpuTipo

\* The three channels of memoria, one by one.
LEMMA TipoMensajesCambia ==
    ASSUME a_memoria' \in Seq(DelKernel), peticion' \in Peticion, respuesta' \in Respuesta
    PROVE  TipoMensajes'
  BY DEF TipoMensajes, DelKernel

\* The same, before the step.
LEMMA TipoMensajesAhora ==
    ASSUME TipoMensajes
    PROVE  a_memoria \in Seq(DelKernel) /\ peticion \in Peticion /\ respuesta \in Respuesta
  BY DEF TipoMensajes, DelKernel

\* A step of the kernel: creations, dispatches, returns and ends.
LEMMA TiposKernel ==
    ASSUME Inductivo, NEW p \in Pids, PasoKernel(p)
    PROVE  Tipos'
<1>0. TipoMarcos /\ TipoMensajes /\ TipoCpu /\ TipoTlb
  BY DEF Inductivo, Tipos
<1>1. /\ estado \in Estados /\ cpu \in CpuTipo
      /\ a_memoria \in Seq(DelKernel) /\ peticion \in Peticion /\ respuesta \in Respuesta
  BY <1>0, TipoMensajesAhora DEF TipoCpu, Estados, CpuTipo
<1>2. /\ UNCHANGED <<config, procesos, cantidad, tabla, bitmap_array, bytes_usados,
                     liberando, bucle, peticion, respuesta>>
      /\ UNCHANGED <<mmu, mmu_ejecucion, orden, marco, tlb, proximo_indice_reemplazo>>
  BY DEF PasoKernel, KernelCrea, KernelDespacha, CpuDevuelve, CpuExit, KernelMata, Finaliza,
         varsMarcos, varsCpu
<1>3. estado' \in Estados
  BY <1>1 DEF PasoKernel, KernelCrea, KernelDespacha, CpuDevuelve, CpuExit, KernelMata,
              Finaliza, Estados
<1>4. cpu' \in CpuTipo
  BY <1>1 DEF PasoKernel, KernelCrea, KernelDespacha, CpuDevuelve, CpuExit, KernelMata,
              CpuTipo, varsCpu
<1>5. a_memoria' \in Seq(DelKernel)
  <2>1. [tipo |-> "NUEVO_PROCESO", pid |-> p] \in DelKernel
    BY DEF DelKernel
  <2>2. \/ a_memoria' = Append(a_memoria, [tipo |-> "NUEVO_PROCESO", pid |-> p])
        \/ UNCHANGED a_memoria
        \/ Finaliza(p)
    BY DEF PasoKernel, KernelCrea, KernelDespacha, CpuDevuelve, CpuExit, KernelMata, varsMarcos
  <2>3. CASE Finaliza(p)
    BY <2>3, FinalizaTipo DEF Inductivo
  <2> QED
    BY <1>0, <1>1, <2>1, <2>2, <2>3, AgregarTipo
<1>6. resultado' \in BOOLEAN
  BY <1>0 DEF PasoKernel, KernelCrea, KernelDespacha, CpuDevuelve, CpuExit, KernelMata,
              varsCpu, TipoCpu
<1>7. TipoCpu'
  BY <1>0, <1>2, <1>3, <1>4, <1>6 DEF TipoCpu, Estados, CpuTipo
<1> QED
  BY <1>0, <1>1, <1>2, <1>5, <1>7, TipoMarcosIgual, TipoTlbIgual, TipoMensajesCambia
     DEF Tipos

\* The arguments of the programs are naturals.
LEMMA ArgumentosNat ==
    ASSUME TipoMarcos
    PROVE  /\ config.tamanios \subseteq Nat /\ config.direcciones \subseteq Nat
           /\ config.anchos \subseteq Nat /\ config.copias \subseteq Nat
           /\ config.lecturas \subseteq Nat /\ config.entradas \in Nat
  BY ConfiguracionesAssumption, PaginacionNat DEF TipoMarcos

\* The CPU takes an instruction.
LEMMA TiposInstruccion ==
    ASSUME Inductivo, NEW p \in Pids, PasoInstruccion(p)
    PROVE  Tipos'
<1>0. TipoMarcos /\ TipoMensajes /\ TipoCpu /\ TipoTlb
  BY DEF Inductivo, Tipos
<1>a. /\ config.tamanios \subseteq Nat /\ config.direcciones \subseteq Nat
      /\ config.anchos \subseteq Nat /\ config.copias \subseteq Nat
      /\ config.lecturas \subseteq Nat
  BY <1>0, ArgumentosNat
<1>b. /\ estado \in Estados /\ cpu \in CpuTipo /\ mmu_ejecucion \in Nat
      /\ a_memoria \in Seq(DelKernel) /\ peticion \in Peticion /\ respuesta \in Respuesta
  BY <1>0, TipoMensajesAhora DEF TipoCpu, Estados, CpuTipo
<1>c. [cpu EXCEPT !.ocupada = TRUE] \in CpuTipo
  BY <1>b DEF CpuTipo
<1>1. ASSUME NEW o \in OrdenTipo, MmuIniciar(o), cpu' = [cpu EXCEPT !.ocupada = TRUE],
             UNCHANGED <<varsMarcos, estado, mmu, tlb, proximo_indice_reemplazo>>
      PROVE  Tipos'
  <2>1. /\ orden' \in OrdenTipo /\ marco' = Invalida /\ resultado' = FALSE
        /\ mmu_ejecucion' \in Nat
    BY <1>b, <1>1 DEF MmuIniciar
  <2>2. /\ UNCHANGED <<config, procesos, cantidad, tabla, bitmap_array, bytes_usados,
                       liberando, bucle, a_memoria, peticion, respuesta>>
        /\ UNCHANGED <<estado, mmu, tlb, proximo_indice_reemplazo>>
    BY <1>1 DEF varsMarcos
  <2>3. TipoCpu'
    BY <1>0, <1>1, <1>c, <2>1, <2>2 DEF TipoCpu, CpuTipo, OrdenTipo
  <2> QED
    BY <1>0, <1>b, <2>2, <2>3, TipoMarcosIgual, TipoTlbIgual, TipoMensajesCambia
       DEF Tipos
<1>2. ASSUME NEW codigo \in {"MOV_IN", "MOV_OUT"}, NEW logica \in config.direcciones,
             NEW bytes \in config.anchos, CpuMov(p, codigo, logica, bytes)
      PROVE  Tipos'
  <2>1. logica \in Nat /\ bytes \in Nat
    BY <1>a, <1>2
  <2>3. NoOrden \in OrdenTipo
    BY DEF NoOrden, OrdenTipo, Codigos
  <2>2. [NoOrden EXCEPT !.codigo = codigo, !.logica = logica, !.bytes = bytes] \in OrdenTipo
    BY <2>1, <2>3, <1>2 DEF OrdenTipo, Codigos
  <2> QED
    BY <1>1, <1>2, <2>2 DEF CpuMov
<1>3. ASSUME NEW si \in config.direcciones, NEW di \in config.direcciones,
             NEW bytes \in config.copias, CpuCopyString(p, si, di, bytes)
      PROVE  Tipos'
  <2>1. si \in Nat /\ di \in Nat /\ bytes \in Nat
    BY <1>a, <1>3
  <2>3. NoOrden \in OrdenTipo
    BY DEF NoOrden, OrdenTipo, Codigos
  <2>2. [NoOrden EXCEPT !.codigo = "COPY_STRING", !.logica = si,
                        !.destino = di, !.bytes = bytes] \in OrdenTipo
    BY <2>1, <2>3 DEF OrdenTipo, Codigos
  <2> QED
    BY <1>1, <1>3, <2>2 DEF CpuCopyString
<1>4. ASSUME NEW o \in Peticion, peticion' = o, cpu' = [cpu EXCEPT !.ocupada = TRUE],
             UNCHANGED <<config, procesos, cantidad, tabla, bitmap_array, bytes_usados,
                         liberando, bucle, a_memoria, respuesta, estado, mmu,
                         mmu_ejecucion, orden, marco, resultado, tlb,
                         proximo_indice_reemplazo>>
      PROVE  Tipos'
  <2>1. TipoCpu'
    BY <1>0, <1>b, <1>c, <1>4, TipoCpuCambia
  <2> QED
    BY <1>0, <1>b, <1>4, <2>1, TipoMarcosIgual, TipoTlbIgual, TipoMensajesCambia
       DEF Tipos
<1>5. ASSUME NEW bytes \in config.tamanios, CpuResize(p, bytes)
      PROVE  Tipos'
  <2>1. bytes \in Nat
    BY <1>a, <1>5
  <2>3. NoPeticion \in Peticion
    BY DEF NoPeticion, Peticion
  <2>2. [NoPeticion EXCEPT !.tipo = "RESIZE", !.pid = cpu.pid, !.bytes = bytes] \in Peticion
    BY <1>b, <2>1, <2>3 DEF Peticion, CpuTipo
  <2> QED
    BY <1>4, <1>5, <2>2 DEF CpuResize
<1>6. ASSUME NEW logica \in config.direcciones, NEW bytes \in config.lecturas,
             CpuStdinRead(p, logica, bytes)
      PROVE  Tipos'
  <2>1. bytes \in Nat /\ logica \div TamPagina \in Nat
    BY <1>a, <1>6, Division
  <2>3. NoPeticion \in Peticion
    BY DEF NoPeticion, Peticion
  <2>2. [NoPeticion EXCEPT !.tipo = "IO_STDIN_READ", !.pid = cpu.pid,
                           !.pagina = logica \div TamPagina, !.bytes = bytes] \in Peticion
    BY <1>b, <2>1, <2>3 DEF Peticion, CpuTipo
  <2> QED
    BY <1>4, <1>6, <2>2 DEF CpuStdinRead
<1> QED
  BY <1>2, <1>3, <1>5, <1>6 DEF PasoInstruccion

TablaTlb == [Entradas -> [pid : Pids \cup {0}, pagina : Nat,
                          marco : NumerosMarco \cup {Invalida}, ultimo_acceso : Nat]]

\* Counting an access leaves a TLB.
LEMMA AccesosTipo ==
    ASSUME TipoMarcos, NEW t \in TablaTlb, NEW i \in Entradas, NEW u \in Accesos(t, i)
    PROVE  u \in TablaTlb
<1>1. CASE u = t
  BY <1>1
<1>2. ASSUME NEW h \in Nat, u = Ordenar([t EXCEPT ![i].ultimo_acceso = h])
      PROVE  u \in TablaTlb
  <2> DEFINE v     == [t EXCEPT ![i].ultimo_acceso = h]
             horas == {v[j].ultimo_acceso : j \in DOMAIN v}
  <2>1. v \in TablaTlb
    BY <1>2 DEF TablaTlb
  <2>2. DOMAIN v = Entradas
    BY <2>1 DEF TablaTlb
  <2> HIDE DEF v
  <2>3. \A j \in Entradas : v[j].ultimo_acceso \in Nat
    BY <2>1 DEF TablaTlb
  <2>4. horas \subseteq Nat
    BY <2>2, <2>3
  <2> HIDE DEF horas
  <2>5. ASSUME NEW x \in Nat
        PROVE  Cardinality({y \in horas : y < x}) \in Nat
    <3>1. {y \in horas : y < x} \in SUBSET Nat
      BY <2>4
    <3>3. \A y \in {z \in horas : z < x} : y <= x
      BY <2>4, <2>5
    <3>2. IsFiniteSet({y \in horas : y < x})
      BY <2>5, <3>1, <3>3, FS_BoundedSetOfNaturals
    <3> QED
      BY <3>2, FS_CardinalityType
  <2>6. u = [j \in DOMAIN v |-> [v[j] EXCEPT !.ultimo_acceso =
                  Cardinality({y \in horas : y < v[j].ultimo_acceso})]]
    BY <1>2 DEF Ordenar, v, horas
  <2>7. ASSUME NEW j \in Entradas
        PROVE  [v[j] EXCEPT !.ultimo_acceso = Cardinality({y \in horas : y < v[j].ultimo_acceso})]
                 \in [pid : Pids \cup {0}, pagina : Nat,
                      marco : NumerosMarco \cup {Invalida}, ultimo_acceso : Nat]
    <3>1. Cardinality({y \in horas : y < v[j].ultimo_acceso}) \in Nat
      BY <2>3, <2>5, <2>7
    <3>2. v[j] \in [pid : Pids \cup {0}, pagina : Nat,
                    marco : NumerosMarco \cup {Invalida}, ultimo_acceso : Nat]
      BY <2>1, <2>7 DEF TablaTlb
    <3> QED
      BY <3>1, <3>2
  <2> QED
    BY <2>2, <2>6, <2>7 DEF TablaTlb
<1>3. config.entradas \in Nat
  BY ArgumentosNat
<1>4. \A h \in 0 .. config.entradas : h \in Nat
  BY <1>3
<1>5. u = t \/ \E h \in 0 .. config.entradas :
                  u = Ordenar([t EXCEPT ![i].ultimo_acceso = h])
  BY Zenon DEF Accesos
<1> QED
  BY <1>1, <1>2, <1>4, <1>5

\* The index that is replaced, or filled, is one of the TLB.
LEMMA AgregarEnTlbTipo ==
    ASSUME TipoMarcos, TipoTlb, config.entradas # 0,
           NEW p \in Pids \cup {0}, NEW n \in Nat, NEW m \in NumerosMarco \cup {Invalida},
           AgregarEnTlb(p, n, m)
    PROVE  /\ tlb' \in TablaTlb
           /\ proximo_indice_reemplazo' \in Nat
           /\ proximo_indice_reemplazo' < config.entradas
<1>1. config.entradas \in Nat /\ config.entradas > 0
  BY ArgumentosNat
<1>2. /\ tlb \in TablaTlb /\ proximo_indice_reemplazo \in Nat
      /\ proximo_indice_reemplazo < config.entradas
  BY <1>1 DEF TipoTlb, TablaTlb
<1>3. PICK i \in IF Primeras(EntradasVacias) # {} THEN Primeras(EntradasVacias) ELSE Reemplazo :
         tlb' \in Accesos(ConEntrada(i, p, n, m), i)
  BY DEF AgregarEnTlb
<1>4. i \in Entradas
  BY <1>1, <1>2, <1>3 DEF Primeras, EntradasVacias, Reemplazo, Entradas
<1>5. ConEntrada(i, p, n, m) \in TablaTlb
  BY <1>2, <1>4 DEF ConEntrada, TablaTlb
<1>6. tlb' \in TablaTlb
  BY <1>3, <1>4, <1>5, AccesosTipo
<1>7. (proximo_indice_reemplazo + 1) % config.entradas \in 0 .. config.entradas - 1
  BY <1>1, <1>2
<1>8. proximo_indice_reemplazo' \in {proximo_indice_reemplazo, SiguienteIndice}
  BY DEF AgregarEnTlb
<1> QED
  BY <1>1, <1>2, <1>6, <1>7, <1>8 DEF SiguienteIndice

\* The CPU reads an answer of memoria.
LEMMA TiposRespuesta ==
    ASSUME Inductivo, PasoRespuesta
    PROVE  Tipos'
<1>0. TipoMarcos /\ TipoMensajes /\ TipoCpu /\ TipoTlb
  BY DEF Inductivo, Tipos
<1>1. /\ estado \in Estados /\ cpu \in CpuTipo /\ mmu_ejecucion \in Nat
      /\ a_memoria \in Seq(DelKernel) /\ peticion \in Peticion /\ respuesta \in Respuesta
  BY <1>0, TipoMensajesAhora DEF TipoCpu, Estados, CpuTipo
<1>2. NoRespuesta \in Respuesta
  BY DEF NoRespuesta, Respuesta
<1>3. respuesta.tipo # "NADA" /\ respuesta' = NoRespuesta
  BY DEF PasoRespuesta, CpuNumeroFrame, CpuMovListo, CpuResizeOCopia, CpuStdinAsignado, Recibe
<1>4. cpu.pid \in Pids
  BY <1>3, OcupadaPid DEF Inductivo, Protocolo, Fases, FaseOciosa, FaseMemoria, FaseOrden,
                          FasePregunta, FaseFrame, SinMensajes, EnCamino
<1>5. UNCHANGED <<config, procesos, cantidad, tabla, bitmap_array, bytes_usados,
                  liberando, bucle, peticion>>
  BY DEF PasoRespuesta, CpuNumeroFrame, CpuMovListo, CpuResizeOCopia, CpuStdinAsignado
<1>6. cpu' \in CpuTipo
  BY <1>1 DEF PasoRespuesta, CpuNumeroFrame, CpuMovListo, CpuResizeOCopia, CpuStdinAsignado,
              CpuTipo
<1>7. CASE CpuNumeroFrame
  <2>1. /\ respuesta.resultado \in BOOLEAN /\ respuesta.pid \in Pids \cup {0}
        /\ respuesta.pagina \in Nat /\ respuesta.marco \in NumerosMarco \cup {Invalida}
    BY <1>1 DEF Respuesta
  <2>2. /\ estado' \in Estados /\ UNCHANGED a_memoria
        /\ UNCHANGED <<mmu, orden>> /\ resultado' \in BOOLEAN /\ mmu_ejecucion' \in Nat
    BY <1>1, <1>7, <2>1 DEF CpuNumeroFrame, PostMmu, Estados
  <2>3. marco' \in NumerosMarco \cup {Invalida}
    BY <1>0, <1>7, <2>1 DEF CpuNumeroFrame, TipoCpu
  <2>4. TipoCpu'
    BY <1>0, <1>6, <2>2, <2>3 DEF TipoCpu, Estados, CpuTipo
  <2>5. TipoTlb'
    <3>1. CASE UNCHANGED <<tlb, proximo_indice_reemplazo>>
      BY <1>0, <1>5, <3>1, TipoTlbIgual
    <3>2. CASE /\ config.entradas # 0
               /\ AgregarEnTlb(respuesta.pid, respuesta.pagina, respuesta.marco)
      BY <1>0, <1>5, <2>1, <3>2, AgregarEnTlbTipo DEF TipoTlb, TablaTlb, Entradas
    <3> QED
      BY <1>7, <3>1, <3>2 DEF CpuNumeroFrame
  <2> QED
    BY <1>0, <1>1, <1>2, <1>3, <1>5, <2>2, <2>4, <2>5, TipoMarcosIgual, TipoMensajesCambia
       DEF Tipos
<1>8. CASE CpuMovListo \/ CpuResizeOCopia
  <2>1. /\ UNCHANGED <<mmu, mmu_ejecucion, orden, marco, resultado>>
        /\ UNCHANGED <<tlb, proximo_indice_reemplazo>>
        /\ UNCHANGED <<estado, a_memoria>> \/ Finaliza(cpu.pid)
    BY <1>8 DEF CpuMovListo, CpuResizeOCopia
  <2>2. estado' \in Estados /\ a_memoria' \in Seq(DelKernel)
    BY <1>1, <1>4, <2>1, FinalizaTipo DEF Inductivo, Estados
  <2>3. TipoCpu'
    BY <1>0, <1>6, <2>1, <2>2, TipoCpuCambia
  <2> QED
    BY <1>0, <1>1, <1>2, <1>3, <1>5, <2>1, <2>2, <2>3, TipoMarcosIgual, TipoTlbIgual,
       TipoMensajesCambia DEF Tipos
<1>9. CASE CpuStdinAsignado
  <2>1. UNCHANGED <<mmu, tlb, proximo_indice_reemplazo, a_memoria>> /\ estado' \in Estados
    BY <1>1, <1>9 DEF CpuStdinAsignado, Estados
  <2>2. respuesta.pagina * TamPagina \in Nat
    BY <1>1, PaginacionNat DEF Respuesta
  <2>6. NoOrden \in OrdenTipo
    BY DEF NoOrden, OrdenTipo, Codigos
  <2>7. ASSUME NEW logica \in Nat
        PROVE  [NoOrden EXCEPT !.codigo = "IO_STDIN_READ", !.logica = logica] \in OrdenTipo
    BY <2>6, <2>7 DEF OrdenTipo, Codigos
  <2>3. [NoOrden EXCEPT !.codigo = "IO_STDIN_READ", !.logica = respuesta.pagina * TamPagina]
          \in OrdenTipo
    BY <2>2, <2>7
  <2>4. /\ orden' \in OrdenTipo /\ marco' \in NumerosMarco \cup {Invalida}
        /\ resultado' \in BOOLEAN /\ mmu_ejecucion' \in Nat
    <3>1. orden \in OrdenTipo /\ marco \in NumerosMarco \cup {Invalida} /\ resultado \in BOOLEAN
      BY <1>0 DEF TipoCpu, OrdenTipo
    <3>2. CASE respuesta.resultado
      <4>1. /\ orden' = [NoOrden EXCEPT !.codigo = "IO_STDIN_READ",
                                        !.logica = respuesta.pagina * TamPagina]
            /\ marco' = Invalida /\ resultado' = FALSE /\ mmu_ejecucion' = mmu_ejecucion + 1
        BY <1>9, <3>2 DEF CpuStdinAsignado, MmuIniciar
      <4>2. orden' \in OrdenTipo
        BY <2>3, <4>1, Zenon
      <4>3. marco' \in NumerosMarco \cup {Invalida} /\ resultado' \in BOOLEAN
        BY <4>1
      <4> QED
        BY <1>1, <4>1, <4>2, <4>3
    <3>3. CASE ~ respuesta.resultado
      BY <1>1, <1>9, <3>1, <3>3 DEF CpuStdinAsignado
    <3> QED
      BY <3>2, <3>3
  <2>5. TipoCpu'
    BY <1>0, <1>6, <2>1, <2>4 DEF TipoCpu, Estados, CpuTipo, OrdenTipo
  <2> QED
    BY <1>0, <1>1, <1>2, <1>3, <1>5, <2>1, <2>5, TipoMarcosIgual, TipoTlbIgual,
       TipoMensajesCambia DEF Tipos
<1> QED
  BY <1>7, <1>8, <1>9 DEF PasoRespuesta

\* A page number is a natural and a physical address a number.
LEMMA TraduccionTipo ==
    ASSUME TipoCpu, NEW m \in NumerosMarco \cup {Invalida}
    PROVE  Pagina \in Nat /\ Fisica(m) \in Int
<1>1. orden.logica \in Nat
  BY DEF TipoCpu
<1>2. m \in Int
  BY PaginacionNat DEF NumerosMarco, Invalida
<1> QED
  BY <1>1, <1>2, Division, PaginacionNat DEF Pagina, Fisica

\* The request that follows a translation, with the frame found or none.
LEMMA MmuEnviaTipo ==
    ASSUME TipoMensajes, TipoCpu, mmu_ejecucion > 0,
           NEW m \in NumerosMarco \cup {Invalida}, MmuEnvia(m)
    PROVE  /\ peticion' \in Peticion /\ mmu_ejecucion' \in Nat
           /\ orden' \in OrdenTipo /\ estado' \in Estados /\ cpu' \in CpuTipo
           /\ marco' \in NumerosMarco \cup {Invalida} /\ resultado' \in BOOLEAN
<1>1. Pagina \in Nat /\ Fisica(m) \in Int
  BY TraduccionTipo
<1>2. /\ orden \in OrdenTipo /\ cpu.pid \in Pids \cup {0} /\ mmu_ejecucion \in Nat
      /\ peticion \in Peticion
  BY DEF TipoCpu, TipoMensajes, OrdenTipo
<1>3. orden.bytes \in Nat /\ orden.origen \in Int /\ orden.destino \in Nat
  BY <1>2 DEF OrdenTipo
<1>4. NoPeticion \in Peticion
  BY DEF NoPeticion, Peticion
<1>5. ASSUME orden.codigo \in {"MOV_IN", "MOV_OUT"}
      PROVE  [NoPeticion EXCEPT !.tipo = orden.codigo, !.pid = cpu.pid, !.pagina = Pagina,
                                !.fisica = Fisica(m), !.bytes = orden.bytes] \in Peticion
  BY <1>1, <1>2, <1>3, <1>4, <1>5 DEF Peticion
<1>6. [NoPeticion EXCEPT !.tipo = "COPY_STRING_2", !.pid = cpu.pid, !.fisica = Fisica(m),
                         !.origen = orden.origen, !.bytes = orden.bytes] \in Peticion
  BY <1>1, <1>2, <1>3, <1>4 DEF Peticion
<1>7. [orden EXCEPT !.codigo = "COPY_STRING_2", !.logica = orden.destino,
                    !.origen = Fisica(m)] \in OrdenTipo
  BY <1>1, <1>2, <1>3 DEF OrdenTipo, Codigos
<1>8. mmu_ejecucion - 1 \in Nat
  BY <1>2
<1>9. Invalida \in NumerosMarco \cup {Invalida}
  OBVIOUS
<1>10. estado' \in Estados /\ cpu' \in CpuTipo
  BY DEF MmuEnvia, TipoCpu, Estados, CpuTipo
<1> QED
  BY <1>2, <1>5, <1>6, <1>7, <1>8, <1>9, <1>10 DEF MmuEnvia

\* A step of the MMU: the TLB it fills stays within its size.
LEMMA TiposMmu ==
    ASSUME Inductivo, PasoMmu
    PROVE  Tipos'
<1>0. TipoMarcos /\ TipoMensajes /\ TipoCpu /\ TipoTlb
  BY DEF Inductivo, Tipos
<1>1. /\ estado \in Estados /\ cpu \in CpuTipo /\ mmu_ejecucion \in Nat
      /\ a_memoria \in Seq(DelKernel) /\ peticion \in Peticion /\ respuesta \in Respuesta
      /\ orden \in OrdenTipo /\ tlb \in TablaTlb
  BY <1>0, TipoMensajesAhora DEF TipoCpu, TipoTlb, Estados, CpuTipo, OrdenTipo, TablaTlb
<1>2. /\ UNCHANGED <<config, procesos, cantidad, tabla, bitmap_array, bytes_usados,
                     liberando, bucle>>
      /\ UNCHANGED <<a_memoria, respuesta, proximo_indice_reemplazo>>
      /\ mmu_ejecucion > 0 /\ mmu' \in {"ESPERA", "FRAME"}
  BY DEF PasoMmu, MmuAcierto, MmuFallo, MmuConFrame, MmuSinFrame, RestoMmu
<1>3. ASSUME peticion' \in Peticion, mmu_ejecucion' \in Nat, orden' \in OrdenTipo,
             marco' \in NumerosMarco \cup {Invalida}, resultado' \in BOOLEAN,
             tlb' \in TablaTlb, estado' \in Estados, cpu' \in CpuTipo
      PROVE  Tipos'
  <2>1. TipoCpu'
    BY <1>2, <1>3 DEF TipoCpu, OrdenTipo, Estados, CpuTipo
  <2>2. TipoTlb'
    BY <1>0, <1>2, <1>3 DEF TipoTlb, TablaTlb, Entradas
  <2> QED
    BY <1>0, <1>1, <1>2, <1>3, <2>1, <2>2, TipoMarcosIgual, TipoMensajesCambia DEF Tipos
<1>4. ASSUME NEW i \in Entradas, MmuEnvia(tlb[i].marco), tlb' \in Accesos(tlb, i)
      PROVE  Tipos'
  <2>1. tlb[i].marco \in NumerosMarco \cup {Invalida}
    BY <1>1, <1>4 DEF TablaTlb
  <2>2. tlb' \in TablaTlb
    BY <1>0, <1>1, <1>4, AccesosTipo
  <2>3. /\ peticion' \in Peticion /\ mmu_ejecucion' \in Nat
        /\ orden' \in OrdenTipo /\ estado' \in Estados /\ cpu' \in CpuTipo
        /\ marco' \in NumerosMarco \cup {Invalida} /\ resultado' \in BOOLEAN
    BY <1>0, <1>2, <1>4, <2>1, MmuEnviaTipo
  <2> QED
    BY <1>3, <2>2, <2>3
<1>5. EntradaEnTlb(cpu.pid, Pagina) \subseteq Entradas
  BY DEF EntradaEnTlb, Primeras, EnTlb
<1>6. CASE MmuAcierto
  BY <1>4, <1>5, <1>6 DEF MmuAcierto
<1>7. CASE MmuFallo
  <2>1. Pagina \in Nat /\ cpu.pid \in Pids \cup {0} /\ NoPeticion \in Peticion
    <3>1. Invalida \in NumerosMarco \cup {Invalida}
      OBVIOUS
    <3>2. Pagina \in Nat
      BY <1>0, <3>1, TraduccionTipo
    <3> QED
      BY <1>1, <3>2 DEF CpuTipo, NoPeticion, Peticion
  <2>2. [NoPeticion EXCEPT !.tipo = "NUMERO_FRAME", !.pid = cpu.pid, !.pagina = Pagina]
          \in Peticion
    BY <2>1 DEF Peticion
  <2>3. /\ peticion' \in Peticion /\ mmu_ejecucion' \in Nat
        /\ UNCHANGED <<orden, resultado, tlb, cpu, estado>> /\ marco' = Invalida
    BY <1>1, <1>2, <1>7, <2>2 DEF MmuFallo
  <2>4. resultado' \in BOOLEAN
    BY <1>0, <2>3 DEF TipoCpu
  <2> QED
    BY <1>1, <1>3, <2>3, <2>4
<1>8. CASE MmuConFrame
  <2>1. CASE MmuEnvia(marco) /\ UNCHANGED tlb
    <3>1. marco \in NumerosMarco \cup {Invalida}
      BY <1>0 DEF TipoCpu
    <3>2. /\ peticion' \in Peticion /\ mmu_ejecucion' \in Nat
          /\ orden' \in OrdenTipo /\ estado' \in Estados /\ cpu' \in CpuTipo
          /\ marco' \in NumerosMarco \cup {Invalida} /\ resultado' \in BOOLEAN
      BY <1>0, <1>2, <2>1, <3>1, MmuEnviaTipo
    <3> QED
      BY <1>1, <1>3, <2>1, <3>2
  <2> QED
    BY <1>4, <1>5, <1>8, <2>1 DEF MmuConFrame
<1>9. CASE MmuSinFrame
  <2>1. /\ mmu_ejecucion' \in Nat /\ UNCHANGED <<peticion, orden, marco, resultado, tlb>>
        /\ UNCHANGED <<cpu, estado>>
    BY <1>1, <1>2, <1>9 DEF MmuSinFrame
  <2> QED
    BY <1>0, <1>1, <1>3, <2>1 DEF TipoCpu
<1> QED
  BY <1>6, <1>7, <1>8, <1>9 DEF PasoMmu

Contestables == {"NUMERO_FRAME", "MOV_IN", "MOV_OUT", "RESIZE", "COPY_STRING_2",
                 "IO_STDIN_READ"}

\* An answer of memoria, and no request left.
LEMMA ResponderTipo ==
    ASSUME TipoMensajes,
           NEW tipo \in Contestables,
           NEW m \in NumerosMarco \cup {Invalida}, NEW b \in Nat, NEW r \in BOOLEAN,
           Responder(tipo, m, b, r)
    PROVE  peticion' \in Peticion /\ respuesta' \in Respuesta
  BY DEF Responder, NoPeticion, Peticion, Respuesta, TipoMensajes, Contestables

\* A step of either thread of memoria.
LEMMA TiposMemoria ==
    ASSUME Inductivo, PasoMemoria
    PROVE  Tipos'
<1>0. TipoMarcos /\ TipoMensajes /\ TipoCpu /\ TipoTlb
  BY DEF Inductivo, Tipos
<1>1. a_memoria \in Seq(DelKernel) /\ peticion \in Peticion /\ respuesta \in Respuesta
  BY <1>0, TipoMensajesAhora
<1>2. TipoMarcos'
  BY TipoMarcosKernel, TipoMarcosCpu DEF PasoMemoria
<1>3. UNCHANGED <<estado, cpu, mmu, mmu_ejecucion, orden, marco, resultado, tlb,
                  proximo_indice_reemplazo>>
  BY DEF PasoMemoria, varsCpu
<1>4. UNCHANGED config
  BY DEF PasoMemoria, HiloKernelDeMemoria, HiloCpuDeMemoria, MemoriaNuevoProceso,
         MemoriaFinalizar, LiberarMarco, LiberarPaginaDeTabla, MemoriaFinalizado,
         MemoriaNumeroFrame, MemoriaMovOut, MemoriaMovIn, MemoriaCopyString,
         MemoriaResizeRechaza, MemoriaResize, MemoriaLecturaRechaza, MemoriaLectura,
         ResizeLibera, BucleAsigna, BucleResponde, LecturaSinMarco
<1>5. TipoCpu' /\ TipoTlb'
  BY <1>0, <1>3, <1>4, TipoTlbIgual DEF TipoCpu
<1>6. ASSUME a_memoria' \in Seq(DelKernel), peticion' \in Peticion, respuesta' \in Respuesta
      PROVE  Tipos'
  BY <1>2, <1>5, <1>6, TipoMensajesCambia DEF Tipos
<1>7. CASE HiloKernelDeMemoria
  <2>1. UNCHANGED <<peticion, respuesta>>
    BY <1>7 DEF HiloKernelDeMemoria, MemoriaNuevoProceso, MemoriaFinalizar, LiberarMarco,
                LiberarPaginaDeTabla, MemoriaFinalizado
  <2>2. \/ a_memoria # << >> /\ a_memoria' = Tail(a_memoria)
        \/ UNCHANGED a_memoria
    BY <1>7 DEF HiloKernelDeMemoria, MemoriaNuevoProceso, MemoriaFinalizar, LiberarMarco,
                LiberarPaginaDeTabla, MemoriaFinalizado, HiloKernelLibre
  <2>3. a_memoria' \in Seq(DelKernel)
    BY <1>0, <1>1, <2>2, ColaTipo
  <2> QED
    BY <1>1, <1>6, <2>1, <2>3
<1>8. ASSUME UNCHANGED <<a_memoria, peticion, respuesta>>
      PROVE  Tipos'
  BY <1>1, <1>6, <1>8
<1>9. ASSUME UNCHANGED a_memoria,
             NEW tipo \in Contestables,
             NEW m \in NumerosMarco \cup {Invalida}, NEW b \in Nat, NEW r \in BOOLEAN,
             Responder(tipo, m, b, r)
      PROVE  Tipos'
  BY <1>0, <1>1, <1>6, <1>9, ResponderTipo
<1>10. peticion.bytes \in Nat /\ Invalida \in NumerosMarco \cup {Invalida}
  BY <1>1 DEF Peticion
<1>11. CASE MemoriaNumeroFrame
  <2>1. AccederPagina(peticion.pid, peticion.pagina) \in NumerosMarco \cup {Invalida}
    <3>1. CASE peticion.pid \in Pids
      BY <1>0, <3>1 DEF AccederPagina, Validas, TipoMarcos
    <3>2. peticion.pid \in Pids
      <4>1. peticion.pid = cpu.pid /\ cpu.ocupada
        BY <1>11 DEF MemoriaNumeroFrame, Atiende, Inductivo, Protocolo, EnBucle, TiposBucle, Fases,
                     FaseOciosa, FaseMemoria, FaseOrden, FasePregunta, FaseFrame, SinMensajes
      <4> QED
        BY <4>1, OcupadaPid
    <3> QED
      BY <3>1, <3>2
  <2> QED
    BY <1>9, <1>11, <2>1 DEF MemoriaNumeroFrame, Contestables
<1>12. CASE \/ MemoriaMovOut \/ MemoriaMovIn \/ MemoriaResizeRechaza
            \/ MemoriaLecturaRechaza
  BY <1>9, <1>10, <1>12 DEF MemoriaMovOut, MemoriaMovIn, MemoriaResizeRechaza,
                            MemoriaLecturaRechaza, Contestables
<1>13. CASE MemoriaCopyString
  BY <1>9, <1>10, <1>13 DEF MemoriaCopyString, Contestables
<1>14. CASE MemoriaResize \/ MemoriaLectura \/ ResizeLibera \/ BucleAsigna
  BY <1>8, <1>14 DEF MemoriaResize, MemoriaLectura, ResizeLibera, BucleAsigna
<1>15. CASE BucleResponde
  <2>1. bucle.bytes \in Nat
    BY <1>0 DEF TipoMarcos
  <2>2. peticion.tipo \in Contestables
    BY <1>15 DEF BucleResponde, Inductivo, Protocolo, EnBucle, TiposBucle, Contestables
  <2>3. Responder(peticion.tipo, Invalida, bucle.bytes, TRUE) /\ UNCHANGED a_memoria
    BY <1>15 DEF BucleResponde
  <2> QED
    BY <1>9, <1>10, <2>1, <2>2, <2>3
<1>16. CASE LecturaSinMarco
  <2>1. peticion' \in Peticion
    BY <1>1, <1>16 DEF LecturaSinMarco, Peticion
  <2> QED
    BY <1>1, <1>6, <1>16, <2>1 DEF LecturaSinMarco
<1> QED
  BY <1>7, <1>11, <1>12, <1>13, <1>14, <1>15, <1>16 DEF PasoMemoria, HiloCpuDeMemoria

\* The loop of a RESIZE starts within the table, and every turn takes it towards
\* its end.
LEMMA TipoBucleSigue ==
    ASSUME Inductivo, [Next]_vars
    PROVE  TipoBucle'
<1>a. Protocolo'
  BY ProtocoloSigue DEF Inductivo
<1>b. ASSUME bucle'.pid = 0
      PROVE  TipoBucle'
  BY <1>a, <1>b, PaginacionNat DEF Protocolo, EnBucle, TipoBucle, SinBucle
<1>c. ASSUME peticion'.tipo # "RESIZE"
      PROVE  TipoBucle'
  BY <1>a, <1>b, <1>c DEF Protocolo, EnBucle, TiposBucle, TipoBucle
<1>d. ASSUME UNCHANGED <<bucle, peticion>>
      PROVE  TipoBucle'
  BY <1>d DEF Inductivo, TipoBucle
<1>1. CASE UNCHANGED vars
  BY <1>1, <1>d, TuplasIguales
<1>2. ASSUME NEW p \in Pids, PasoKernel(p)
      PROVE  TipoBucle'
  BY <1>2, <1>d DEF PasoKernel, KernelCrea, KernelDespacha, CpuDevuelve, CpuExit, KernelMata,
                    varsMarcos
<1>3. ASSUME NEW p \in Pids, PasoInstruccion(p)
      PROVE  TipoBucle'
  <2>1. bucle.pid = 0
    BY <1>3, ResizeNoLibera DEF PasoInstruccion, CpuMov, CpuCopyString, CpuResize, CpuStdinRead,
                                EntreInstrucciones
  <2>2. UNCHANGED bucle
    BY <1>3 DEF PasoInstruccion, CpuMov, CpuCopyString, CpuResize, CpuStdinRead, varsMarcos
  <2> QED
    BY <2>1, <2>2, <1>b
<1>4. CASE PasoRespuesta
  BY <1>4, <1>d DEF PasoRespuesta, CpuNumeroFrame, CpuMovListo, CpuResizeOCopia,
                    CpuStdinAsignado
<1>5. CASE PasoMmu
  <2>1. UNCHANGED bucle
    BY <1>5 DEF PasoMmu, MmuAcierto, MmuFallo, MmuConFrame, MmuSinFrame, RestoMmu
  <2>2. UNCHANGED peticion \/ peticion'.tipo # "RESIZE"
    BY <1>5, MmuEnviaHace
       DEF PasoMmu, MmuAcierto, MmuFallo, MmuConFrame, MmuSinFrame, RestoMmu, NoPeticion,
           Inductivo
  <2> QED
    BY <2>1, <2>2, <1>c, <1>d
<1>6. CASE HiloKernelDeMemoria
  BY <1>6, <1>d DEF HiloKernelDeMemoria, MemoriaNuevoProceso, MemoriaFinalizar, LiberarMarco,
                    LiberarPaginaDeTabla, MemoriaFinalizado
<1>7. CASE MemoriaResize
  <2>1. TipoMarcos /\ peticion.bytes \in Nat
    BY DEF Inductivo, Tipos, TipoMensajes, Peticion
  <2>2. Techo(peticion.bytes) \in 0 .. CantidadMarcos
    BY <1>7, <2>1, ResizeEntra DEF MemoriaResize
  <2>3. FramesOcupados(peticion.pid) \in 0 .. CantidadMarcos
    BY FramesOcupadosCota
  <2> QED
    <3>1. bucle'.i = FramesOcupados(peticion.pid) /\ bucle'.hasta = Techo(peticion.bytes)
      BY <1>7 DEF MemoriaResize
    <3> QED
      BY <2>2, <2>3, <3>1 DEF TipoBucle
<1>8. CASE MemoriaLectura
  <2>1. peticion'.tipo = "IO_STDIN_READ"
    BY <1>8 DEF MemoriaLectura, Atiende
  <2> QED
    BY <2>1, <1>c
<1>9. CASE ResizeLibera \/ BucleAsigna
  <2>1. /\ \/ bucle'.i = bucle.i - 1 /\ bucle.i > bucle.hasta
           \/ bucle'.i = bucle.i + 1 /\ bucle.i < bucle.hasta
        /\ bucle'.hasta = bucle.hasta /\ UNCHANGED peticion
        /\ bucle.i \in Nat /\ bucle.hasta \in Nat
    BY <1>9 DEF ResizeLibera, BucleAsigna, Inductivo, Tipos, TipoMarcos
  <2> QED
    BY <2>1, PaginacionNat DEF Inductivo, TipoBucle
<1>10. CASE BucleResponde \/ LecturaSinMarco
  <2>1. bucle' = SinBucle
    BY <1>10 DEF BucleResponde, LecturaSinMarco
  <2> QED
    BY <2>1, <1>b DEF SinBucle
<1>11. CASE \/ MemoriaNumeroFrame \/ MemoriaMovOut \/ MemoriaMovIn \/ MemoriaCopyString
            \/ MemoriaResizeRechaza \/ MemoriaLecturaRechaza
  BY <1>11, <1>c DEF MemoriaNumeroFrame, MemoriaMovOut, MemoriaMovIn, MemoriaCopyString,
                     MemoriaResizeRechaza, MemoriaLecturaRechaza, Responder, NoPeticion
<1> QED
  BY <1>1, <1>2, <1>3, <1>4, <1>5, <1>6, <1>7, <1>8, <1>9, <1>10, <1>11
     DEF Next, PasoMemoria, HiloCpuDeMemoria

\* Every step keeps the types.
LEMMA TiposSiguen ==
    ASSUME Inductivo, [Next]_vars
    PROVE  Tipos'
<1>1. CASE UNCHANGED vars
  BY <1>1, TuplasIguales DEF Inductivo, Tipos, TipoMarcos, TipoMensajes, TipoCpu, TipoTlb,
                             Validas, Entradas
<1> QED
  BY <1>1, TiposKernel, TiposInstruccion, TiposRespuesta, TiposMmu, TiposMemoria DEF Next

-----------------------------------------------------------------------------
(* Ends                                                                    *)

\* A process that ended stays so.
LEMMA ExitQueda ==
    ASSUME Inductivo, Next, NEW p \in Pids, estado[p] = "EXIT"
    PROVE  estado'[p] = "EXIT"
<1>1. estado \in Estados
  BY DEF Inductivo, Tipos, TipoCpu, Estados
<1>2. \A q \in Pids : PasoKernel(q) => estado'[p] = "EXIT"
  BY <1>1 DEF PasoKernel, KernelCrea, KernelDespacha, CpuDevuelve, CpuExit, KernelMata, Finaliza,
              EntreInstrucciones, Estados
<1>3. \A q \in Pids : PasoInstruccion(q) => estado' = estado
  BY DEF PasoInstruccion, CpuMov, CpuCopyString, CpuResize, CpuStdinRead
<1>4. PasoMemoria => estado' = estado
  BY DEF PasoMemoria
<1>6. ASSUME PasoMmu
      PROVE  estado'[p] = "EXIT"
  <2>1. CASE MmuFallo \/ MmuSinFrame
    BY <2>1 DEF MmuFallo, MmuSinFrame
  <2>2. CASE MmuAcierto \/ MmuConFrame
    <3>1. UNCHANGED estado \/ estado' = [estado EXCEPT ![cpu.pid] = "READY"]
      BY <2>2 DEF MmuAcierto, MmuConFrame, MmuEnvia
    <3>2. cpu.ocupada
      BY <2>2 DEF MmuAcierto, MmuConFrame, Inductivo, Protocolo, Fases, FaseOciosa,
                  FaseMemoria, FaseOrden, FasePregunta, FaseFrame, Avisos
    <3>3. cpu.pid \in Pids /\ estado[cpu.pid] = "EXEC"
      BY <3>2, OcupadaPid
    <3> QED
      BY <1>1, <3>1, <3>3 DEF Estados
  <2> QED
    BY <1>6, <2>1, <2>2 DEF PasoMmu
<1>5. ASSUME PasoRespuesta
      PROVE  estado'[p] = "EXIT"
  <2>1. cpu.ocupada
    BY <1>5 DEF PasoRespuesta, CpuNumeroFrame, CpuMovListo, CpuResizeOCopia, CpuStdinAsignado, Recibe, Inductivo,
                Protocolo, Fases, FaseOciosa, FaseMemoria, FaseOrden, FasePregunta, FaseFrame,
                SinMensajes, EnCamino
  <2>2. cpu.pid \in Pids /\ estado[cpu.pid] = "EXEC"
    BY <2>1, OcupadaPid
  <2> QED
    BY <1>1, <1>5, <2>2 DEF PasoRespuesta, CpuNumeroFrame, CpuMovListo, CpuResizeOCopia, CpuStdinAsignado, Finaliza,
                            Estados
<1> QED
  BY <1>2, <1>3, <1>4, <1>5, <1>6 DEF Next

\* Only a process that ended is ever released.
LEMMA FinalizadosSigue ==
    ASSUME Inductivo, [Next]_vars
    PROVE  Finalizados'
<1>0. TipoMensajes /\ TipoMarcos /\ TipoCpu /\ Finalizados
  BY DEF Inductivo, Tipos
<1>1. CASE UNCHANGED vars
  BY <1>0, <1>1, TuplasIguales DEF Finalizados
<1>2. SUFFICES ASSUME Next
               PROVE  Finalizados'
  BY <1>1
<1>3. \A p \in Pids : estado[p] = "EXIT" => estado'[p] = "EXIT"
  BY <1>2, ExitQueda
<1>4. /\ liberando.pid \in Pids \cup {0}
      /\ \A j \in DOMAIN a_memoria : a_memoria[j].pid \in Pids
  <2>1. a_memoria \in Seq(DelKernel)
    BY <1>0, TipoMensajesAhora
  <2>2. \A j \in DOMAIN a_memoria : a_memoria[j] \in DelKernel
    BY <2>1, LenProperties, ElementOfSeq
  <2> QED
    BY <1>0, <2>2 DEF TipoMarcos, DelKernel
<1>5. ASSUME UNCHANGED <<liberando, a_memoria>>
      PROVE  Finalizados'
  BY <1>0, <1>3, <1>4, <1>5 DEF Finalizados
<1>6. ASSUME NEW m \in DelKernel, a_memoria' = Append(a_memoria, m), UNCHANGED liberando,
             m.tipo = "FINALIZAR_PROCESO" => estado'[m.pid] = "EXIT"
      PROVE  Finalizados'
  BY <1>0, <1>3, <1>4, <1>6, AgregarTipo DEF Finalizados
<1>7. ASSUME NEW p \in Pids, Finaliza(p), UNCHANGED liberando
      PROVE  Finalizados'
  <2> DEFINE m == [tipo |-> "FINALIZAR_PROCESO", pid |-> p]
  <2>1. m \in DelKernel
    BY DEF DelKernel
  <2>2. estado'[p] = "EXIT"
    BY <1>0, <1>7 DEF Finaliza, TipoCpu
  <2>3. a_memoria' = Append(a_memoria, m)
    BY <1>7 DEF Finaliza
  <2>4. m.pid = p
    OBVIOUS
  <2> HIDE DEF m
  <2> QED
    BY <1>6, <1>7, <2>1, <2>2, <2>3, <2>4
<1>8. ASSUME NEW p \in Pids, PasoKernel(p)
      PROVE  Finalizados'
  <2>1. UNCHANGED liberando
    BY <1>8 DEF PasoKernel, KernelCrea, KernelDespacha, CpuDevuelve, CpuExit, KernelMata, varsMarcos
  <2>2. CASE KernelCrea(p)
    <3> DEFINE m == [tipo |-> "NUEVO_PROCESO", pid |-> p]
    <3>1. m \in DelKernel /\ m.tipo # "FINALIZAR_PROCESO"
      BY DEF DelKernel
    <3>2. a_memoria' = Append(a_memoria, m)
      BY <2>2 DEF KernelCrea
    <3> HIDE DEF m
    <3> QED
      BY <1>6, <2>1, <3>1, <3>2
  <2>3. CASE KernelDespacha(p) \/ CpuDevuelve(p)
    BY <1>5, <2>3 DEF KernelDespacha, CpuDevuelve, varsMarcos
  <2>4. CASE CpuExit(p) \/ KernelMata(p)
    BY <1>7, <2>1, <2>4 DEF CpuExit, KernelMata
  <2> QED
    BY <1>8, <2>2, <2>3, <2>4 DEF PasoKernel
<1>9. ASSUME NEW p \in Pids, PasoInstruccion(p)
      PROVE  Finalizados'
  <2>1. UNCHANGED <<liberando, a_memoria>>
    BY <1>9 DEF PasoInstruccion, CpuMov, CpuCopyString, CpuResize, CpuStdinRead, varsMarcos
  <2> QED
    BY <1>5, <2>1
<1>10. CASE PasoRespuesta
  <2>1. UNCHANGED liberando
    BY <1>10 DEF PasoRespuesta, CpuNumeroFrame, CpuMovListo, CpuResizeOCopia, CpuStdinAsignado
  <2>2. UNCHANGED a_memoria \/ Finaliza(cpu.pid)
    BY <1>10 DEF PasoRespuesta, CpuNumeroFrame, CpuMovListo, CpuResizeOCopia, CpuStdinAsignado
  <2>3. cpu.pid \in Pids
    BY <1>10, OcupadaPid
       DEF PasoRespuesta, CpuNumeroFrame, CpuMovListo, CpuResizeOCopia, CpuStdinAsignado, Recibe, Inductivo,
           Protocolo, Fases, FaseOciosa, FaseMemoria, FaseOrden, FasePregunta, FaseFrame,
           SinMensajes, EnCamino
  <2> QED
    BY <1>5, <1>7, <2>1, <2>2, <2>3
<1>11. CASE PasoMmu
  BY <1>5, <1>11 DEF PasoMmu, MmuAcierto, MmuFallo, MmuConFrame, MmuSinFrame, RestoMmu
<1>12. CASE PasoMemoria
  <2>1. UNCHANGED estado
    BY <1>12 DEF PasoMemoria
  <2>2. CASE HiloCpuDeMemoria
    <3>1. UNCHANGED <<liberando, a_memoria>>
      BY <2>2 DEF HiloCpuDeMemoria, MemoriaNumeroFrame, MemoriaMovOut, MemoriaMovIn,
                  MemoriaCopyString, MemoriaResizeRechaza, MemoriaResize, MemoriaLecturaRechaza,
                  MemoriaLectura, ResizeLibera, BucleAsigna, BucleResponde,
                  LecturaSinMarco
    <3> QED
      BY <1>5, <3>1
  <2>3. ASSUME HiloKernelLibre, a_memoria' = Tail(a_memoria),
               \/ UNCHANGED liberando
               \/ liberando' = NadaQueLiberar
               \/ /\ Cabeza.tipo = "FINALIZAR_PROCESO"
                  /\ liberando' = [pid |-> Cabeza.pid, pagina |-> Invalida]
        PROVE  Finalizados'
    <3>1. \A j \in DOMAIN a_memoria' :
             a_memoria'[j].tipo = "FINALIZAR_PROCESO" => estado[a_memoria'[j].pid] = "EXIT"
      BY <1>0, <2>3, ColaTipo DEF Finalizados, HiloKernelLibre
    <3>2. Cabeza.tipo = "FINALIZAR_PROCESO" => estado[Cabeza.pid] = "EXIT"
      BY <1>0, <2>3, ColaTipo DEF Finalizados, HiloKernelLibre
    <3>3. liberando'.pid # 0 => estado[liberando'.pid] = "EXIT"
      BY <1>0, <2>3, <3>2 DEF Finalizados, NadaQueLiberar
    <3> QED
      BY <2>1, <3>1, <3>3 DEF Finalizados
  <2>4. CASE MemoriaNuevoProceso
    BY <2>3, <2>4 DEF MemoriaNuevoProceso
  <2>5. CASE MemoriaFinalizar
    BY <2>3, <2>5 DEF MemoriaFinalizar
  <2>6. ASSUME liberando'.pid = liberando.pid \/ liberando'.pid = 0, UNCHANGED a_memoria
        PROVE  Finalizados'
    BY <1>0, <2>1, <2>6 DEF Finalizados
  <2>7. CASE LiberarMarco
    BY <1>0, <2>6, <2>7 DEF LiberarMarco, TipoMarcos
  <2>8. CASE LiberarPaginaDeTabla
    BY <1>0, <2>6, <2>8 DEF LiberarPaginaDeTabla, TipoMarcos
  <2>9. CASE MemoriaFinalizado
    BY <2>6, <2>9 DEF MemoriaFinalizado, NadaQueLiberar
  <2> QED
    BY <1>12, <2>2, <2>4, <2>5, <2>7, <2>8, <2>9 DEF PasoMemoria, HiloKernelDeMemoria
<1> QED
  BY <1>2, <1>8, <1>9, <1>10, <1>11, <1>12 DEF Next
-----------------------------------------------------------------------------
(* The first two theorems                                                  *)

\* The invariant holds when the modules start.
LEMMA InductivoInicial ==
    ASSUME Init
    PROVE  Inductivo
<1>1. TipoMarcos
  <2>1. \A p \in Pids : \A n \in Paginas : tabla[p][n] = Invalida
    BY DEF Init, InitMarcos
  <2>2. tabla \in [Pids -> [Paginas -> NumerosMarco \cup {Invalida}]]
    BY DEF Init, InitMarcos
  <2>3. liberando \in [pid : Pids \cup {0}, pagina : Paginas \cup {Invalida}]
        /\ liberando.pagina = Invalida
    BY DEF Init, InitMarcos, NadaQueLiberar
  <2>4. bucle \in [pid : Pids \cup {0}, i : Nat, hasta : Nat, bytes : Nat]
    BY PaginacionNat DEF Init, InitMarcos, SinBucle
  <2>5. bytes_usados \in [NumerosMarco -> Int] /\ bitmap_array \in [NumerosMarco -> {0, 1}]
    BY DEF Init, InitMarcos
  <2> QED
    BY <2>2, <2>3, <2>4, <2>5 DEF Init, InitMarcos, TipoMarcos
<1>2. TipoMensajes
  <2>1. NoPeticion \in Peticion /\ NoRespuesta \in Respuesta
    BY DEF NoPeticion, Peticion, NoRespuesta, Respuesta
  <2> QED
    BY <2>1 DEF Init, InitMarcos, TipoMensajes
<1>3. TipoCpu
  <2>1. NoOrden \in [codigo : Codigos, logica : Nat, destino : Nat, origen : Int, bytes : Nat]
    BY DEF NoOrden, Codigos
  <2> QED
    BY <2>1 DEF Init, TipoCpu
<1>4. TipoTlb
  <2>1. EntradaVacia \in [pid : Pids \cup {0}, pagina : Nat,
                          marco : NumerosMarco \cup {Invalida}, ultimo_acceso : Nat]
    BY DEF EntradaVacia
  <2> QED
    BY <2>1 DEF Init, TipoTlb
<1>5. Protocolo
  BY DEF Init, InitMarcos, Protocolo, Fases, FaseOciosa, SinMensajes, Avisos, Turno, EnBucle, TiposBucle,
         NoPeticion, NoRespuesta, SinBucle
<1>6. Finalizados
  BY DEF Init, InitMarcos, Finalizados, NadaQueLiberar
<1>7. TipoBucle
  BY PaginacionNat DEF Init, InitMarcos, SinBucle, TipoBucle
<1> QED
  BY <1>1, <1>2, <1>3, <1>4, <1>5, <1>6, <1>7 DEF Inductivo, Tipos

\* The invariant is inductive.
LEMMA InductivoSigue ==
    ASSUME Inductivo, [Next]_vars
    PROVE  Inductivo'
  BY TiposSiguen, TipoBucleSigue, ProtocoloSigue, FinalizadosSigue DEF Inductivo

\* And so it holds always.
LEMMA SiempreInductivo == Spec => []Inductivo
<1>1. Init => Inductivo
  BY InductivoInicial
<1>2. Inductivo /\ [Next]_vars => Inductivo'
  BY InductivoSigue
<1> QED
  BY <1>1, <1>2, PTL DEF Spec

\* Whatever the sizes of memoria, of its pages and of the TLB, and whatever the
\* programs ask for: frames given by the page tables and by the TLB exist, the loop
\* of tabla_paginas_resize stays inside its table, and the index of the FIFO TLB
\* inside the TLB.
THEOREM MemoriaTipada == Spec => []TipoMemoria
<1>1. Inductivo => TipoMemoria
  BY DEF Inductivo, TipoMemoria
<1> QED
  BY <1>1, SiempreInductivo, PTL

\* hilo_mmu waits twice on one semaphore for two different things, and neither
\* wait ever takes the post that was meant for the other.
THEOREM SemaforoDeLaMmu == Spec => []UnSoloPendiente
<1>1. ASSUME Inductivo
      PROVE  UnSoloPendiente
  <2> USE DEF UnSoloPendiente, SinMensajes, EnCamino, Avisos, TiposPedido
  <2>1. mmu_ejecucion \in Nat /\ mmu \in {"ESPERA", "FRAME"}
    BY <1>1 DEF Inductivo, Tipos, TipoCpu
  <2>2. CASE FaseOciosa
    BY <2>1, <2>2 DEF FaseOciosa
  <2>3. CASE FaseMemoria
    BY <2>1, <2>3 DEF FaseMemoria
  <2>4. CASE FaseOrden
    BY <2>1, <2>4 DEF FaseOrden
  <2>5. CASE FasePregunta
    BY <2>1, <2>5 DEF FasePregunta
  <2>6. CASE FaseFrame
    BY <2>1, <2>6 DEF FaseFrame
  <2> QED
    BY <1>1, <2>2, <2>3, <2>4, <2>5, <2>6 DEF Inductivo, Protocolo, Fases
<1> QED
  BY <1>1, SiempreInductivo, PTL

-----------------------------------------------------------------------------
(* Frames                                                                  *)

\* Nothing is released, or waits to be, while a table is resized.
ResizeEnCalma ==
    config.holgado /\ bucle.pid # 0 =>
        /\ liberando.pid = 0
        /\ \A j \in DOMAIN a_memoria : a_memoria[j].tipo # "FINALIZAR_PROCESO"

\* MarcoExclusivo and PaginaMarcada, also after a request that was freed.
Exclusivos ==
    config.holgado =>
        \A p, q \in Pids : \A n \in Validas(p), o \in Validas(q) :
            tabla[p][n] = tabla[q][o] => p = q /\ n = o

Marcadas ==
    config.holgado =>
        \A p \in Pids : \A n \in Validas(p) :
            bitmap_array[tabla[p][n]] = 1 \/ (liberando.pid = p /\ liberando.pagina = n)

InvMarcos == Exclusivos /\ Marcadas /\ ResizeEnCalma

\* Both properties when a page at most loses its frame, that of the page keeps
\* its mark in every other, and no release is forgotten half way.
LEMMA PaginaMenos ==
    ASSUME TipoMarcos, TipoMarcos', Exclusivos, Marcadas, config' = config,
           NEW p \in Pids, NEW n \in Validas(p),
           bitmap_array' = [bitmap_array EXCEPT ![tabla[p][n]] = 0],
           \A q \in Pids : \A o \in Paginas :
              tabla'[q][o] = tabla[q][o] \/ tabla'[q][o] = Invalida,
           tabla'[p][n] = Invalida \/ (liberando'.pid = p /\ liberando'.pagina = n),
           \A q \in Pids : \A o \in Validas(q) :
              liberando.pid = q /\ liberando.pagina = o =>
                 \/ q = p /\ o = n
                 \/ liberando'.pid = q /\ liberando'.pagina = o
    PROVE  Exclusivos' /\ Marcadas'
<1>1. \A q \in Pids : \A o \in Validas(q)' : o \in Validas(q) /\ tabla'[q][o] = tabla[q][o]
  BY DEF Validas
<1>2. Exclusivos'
  BY <1>1 DEF Exclusivos
<1>3. ASSUME config.holgado, NEW q \in Pids, NEW o \in Validas(q)'
      PROVE  bitmap_array'[tabla'[q][o]] = 1 \/ (liberando'.pid = q /\ liberando'.pagina = o)
  <2>1. o \in Validas(q) /\ tabla'[q][o] = tabla[q][o]
    BY <1>1, <1>3
  <2>2. tabla[q][o] \in NumerosMarco /\ tabla[p][n] \in NumerosMarco
    BY <2>1 DEF Validas, TipoMarcos
  <2>3. CASE q = p /\ o = n
    BY <1>3, <2>1, <2>2, <2>3 DEF Validas
  <2>4. CASE ~ (q = p /\ o = n)
    <3>1. tabla[q][o] # tabla[p][n]
      BY <1>3, <2>1, <2>4 DEF Exclusivos
    <3>2. bitmap_array'[tabla[q][o]] = bitmap_array[tabla[q][o]]
      BY <2>2, <3>1 DEF TipoMarcos
    <3>3. bitmap_array[tabla[q][o]] = 1 \/ (liberando.pid = q /\ liberando.pagina = o)
      BY <1>3, <2>1 DEF Marcadas
    <3> QED
      BY <2>1, <2>4, <3>2, <3>3
  <2> QED
    BY <2>3, <2>4
<1> QED
  BY <1>2, <1>3 DEF Marcadas

\* ... when pages at most lose their frames and marks stay.
LEMMA MarcasQuedan ==
    ASSUME TipoMarcos, Exclusivos, Marcadas, config' = config,
           \A m \in NumerosMarco : bitmap_array[m] = 1 => bitmap_array'[m] = 1,
           \A q \in Pids : \A o \in Paginas :
              tabla'[q][o] = tabla[q][o] \/ tabla'[q][o] = Invalida,
           \/ liberando.pagina = Invalida
           \/ liberando' = liberando
    PROVE  Exclusivos' /\ Marcadas'
<1>1. \A q \in Pids : \A o \in Validas(q)' : o \in Validas(q) /\ tabla'[q][o] = tabla[q][o]
  BY DEF Validas
<1>2. Exclusivos'
  BY <1>1 DEF Exclusivos
<1>3. \A q \in Pids : \A o \in Validas(q) : tabla[q][o] \in NumerosMarco /\ o # Invalida
  <2>1. Invalida \notin Paginas
    BY PaginacionNat DEF Paginas, Invalida
  <2> QED
    BY <2>1 DEF Validas, TipoMarcos
<1>4. Marcadas'
  BY <1>1, <1>3 DEF Marcadas
<1> QED
  BY <1>2, <1>4

\* ... and when a frame that is not marked goes to a page, with nothing under
\* release: no page can have had it.
LEMMA PaginaMas ==
    ASSUME TipoMarcos, Exclusivos, Marcadas, config' = config,
           config.holgado => liberando.pid = 0,
           NEW p \in Pids, NEW n \in Paginas, NEW m \in FramesLibres, AsignarPagina(p, n, m)
    PROVE  Exclusivos' /\ Marcadas'
<1>1. m \in NumerosMarco /\ bitmap_array[m] = 0
  BY DEF FramesLibres
<1>2. config.holgado => \A q \in Pids : \A o \in Validas(q) :
         tabla[q][o] # m /\ bitmap_array[tabla[q][o]] = 1
  BY <1>1 DEF Marcadas, Pids
<1>3. /\ tabla'[p][n] = m
      /\ \A q \in Pids : \A o \in Paginas : ~ (q = p /\ o = n) => tabla'[q][o] = tabla[q][o]
      /\ \A f \in NumerosMarco : bitmap_array'[f] = IF f = m THEN 1 ELSE bitmap_array[f]
  BY <1>1 DEF AsignarPagina, TipoMarcos
<1>4. \A q \in Pids : \A o \in Validas(q)' :
         \/ q = p /\ o = n
         \/ o \in Validas(q) /\ tabla'[q][o] = tabla[q][o] /\ tabla[q][o] \in NumerosMarco
  BY <1>3 DEF Validas, TipoMarcos
<1>5. Exclusivos'
  BY <1>2, <1>3, <1>4 DEF Exclusivos
<1>6. Marcadas'
  BY <1>1, <1>2, <1>3, <1>4 DEF Marcadas
<1> QED
  BY <1>5, <1>6

\* The threads of memoria keep each frame in one page, with its bit set.
LEMMA InvMarcosMemoria ==
    ASSUME Inductivo, Inductivo', InvMarcos, PasoMemoria
    PROVE  InvMarcos'
<1>0. TipoMarcos /\ TipoMarcos' /\ TipoMensajes /\ Exclusivos /\ Marcadas
      /\ ResizeEnCalma /\ Invalida \notin Paginas
  BY PaginacionNat DEF Inductivo, Tipos, InvMarcos, Paginas, Invalida
<1>1. config' = config
  BY DEF PasoMemoria, HiloKernelDeMemoria, HiloCpuDeMemoria, MemoriaNuevoProceso,
         MemoriaFinalizar, LiberarMarco, LiberarPaginaDeTabla, MemoriaFinalizado,
         MemoriaNumeroFrame, MemoriaMovOut, MemoriaMovIn, MemoriaCopyString,
         MemoriaResizeRechaza, MemoriaResize, MemoriaLecturaRechaza, MemoriaLectura, ResizeLibera, BucleAsigna, BucleResponde, LecturaSinMarco
<1>2. ASSUME UNCHANGED <<tabla, bitmap_array>>, liberando.pagina = Invalida \/ UNCHANGED liberando
      PROVE  Exclusivos' /\ Marcadas'
  BY <1>0, <1>1, <1>2, MarcasQuedan
<1>3. CASE HiloKernelDeMemoria
  <2>1. UNCHANGED bucle
    BY <1>3 DEF HiloKernelDeMemoria, MemoriaNuevoProceso, MemoriaFinalizar, LiberarMarco,
                LiberarPaginaDeTabla, MemoriaFinalizado
  <2>2. ASSUME HiloKernelLibre, a_memoria' = Tail(a_memoria),
               Cabeza.tipo # "FINALIZAR_PROCESO" => UNCHANGED liberando
        PROVE  ResizeEnCalma'
    BY <1>0, <1>1, <2>1, <2>2, ColaTipo DEF ResizeEnCalma, HiloKernelLibre
  <2>3. ASSUME liberando.pid # 0, UNCHANGED a_memoria
        PROVE  ResizeEnCalma'
    BY <1>0, <1>1, <2>1, <2>3 DEF ResizeEnCalma
  <2>4. HiloKernelLibre => liberando.pagina = Invalida
    BY <1>0 DEF HiloKernelLibre, TipoMarcos
  <2>5. CASE MemoriaNuevoProceso
    <3>1. \A q \in Pids : \A o \in Paginas :
             tabla'[q][o] = tabla[q][o] \/ tabla'[q][o] = Invalida
      BY <1>0, <2>5 DEF MemoriaNuevoProceso, TipoMarcos
    <3>2. Exclusivos' /\ Marcadas'
      BY <1>0, <1>1, <2>4, <2>5, <3>1, MarcasQuedan DEF MemoriaNuevoProceso
    <3>3. ResizeEnCalma'
      BY <2>2, <2>5 DEF MemoriaNuevoProceso
    <3> QED
      BY <3>2, <3>3 DEF InvMarcos
  <2>6. CASE MemoriaFinalizar
    <3>1. Exclusivos' /\ Marcadas'
      BY <1>2, <2>4, <2>6 DEF MemoriaFinalizar
    <3>2. ResizeEnCalma'
      BY <2>2, <2>6 DEF MemoriaFinalizar
    <3> QED
      BY <3>1, <3>2 DEF InvMarcos
  <2>7. CASE LiberarMarco
    <3>1. PICK n \in Validas(liberando.pid) :
             /\ bitmap_array' = [bitmap_array EXCEPT ![tabla[liberando.pid][n]] = 0]
             /\ liberando' = [liberando EXCEPT !.pagina = n]
      BY <2>7 DEF LiberarMarco
    <3>2. /\ liberando.pid \in Pids /\ liberando.pagina = Invalida
          /\ liberando'.pid = liberando.pid /\ liberando'.pagina = n
      BY <1>0, <2>7, <3>1 DEF LiberarMarco, TipoMarcos
    <3>3. \A q \in Pids : \A o \in Validas(q) : liberando.pagina # o
      BY <1>0, <3>2 DEF Validas
    <3>4. \A q \in Pids : \A o \in Paginas :
             tabla'[q][o] = tabla[q][o] \/ tabla'[q][o] = Invalida
      BY <2>7 DEF LiberarMarco
    <3>5. Exclusivos' /\ Marcadas'
      <4>1. PICK p \in Pids : p = liberando.pid
        BY <3>2
      <4>2. /\ n \in Validas(p)
            /\ bitmap_array' = [bitmap_array EXCEPT ![tabla[p][n]] = 0]
        BY <3>1, <4>1
      <4>3. liberando'.pid = p /\ liberando'.pagina = n
        BY <3>2, <4>1
      <4>4. \A q \in Pids : \A o \in Validas(q) :
               liberando.pid = q /\ liberando.pagina = o =>
                  \/ q = p /\ o = n
                  \/ liberando'.pid = q /\ liberando'.pagina = o
        BY <3>3
      <4> QED
        BY <1>0, <1>1, <3>4, <4>2, <4>3, <4>4, PaginaMenos
    <3>6. ResizeEnCalma'
      BY <2>3, <2>7 DEF LiberarMarco
    <3> QED
      BY <3>5, <3>6 DEF InvMarcos
  <2>8. CASE LiberarPaginaDeTabla
    <3> DEFINE p == liberando.pid
               n == liberando.pagina
    <3>1. p \in Pids /\ n \in Validas(p)
      BY <1>0, <2>8 DEF LiberarPaginaDeTabla, TipoMarcos
    <3>2. LiberarPagina(p, n)
      BY <2>8 DEF LiberarPaginaDeTabla
    <3>3. /\ bitmap_array' = [bitmap_array EXCEPT ![tabla[p][n]] = 0]
          /\ tabla'[p][n] = Invalida
          /\ \A q \in Pids : \A o \in Paginas :
                tabla'[q][o] = tabla[q][o] \/ tabla'[q][o] = Invalida
      BY <1>0, <3>1, <3>2 DEF LiberarPagina, TipoMarcos, Validas
    <3>4. Exclusivos' /\ Marcadas'
      BY <1>0, <1>1, <3>1, <3>3, PaginaMenos
    <3>5. ResizeEnCalma'
      BY <2>3, <2>8, <3>1 DEF LiberarPaginaDeTabla, Pids
    <3> QED
      BY <3>4, <3>5 DEF InvMarcos
  <2>9. CASE MemoriaFinalizado
    <3>1. Exclusivos' /\ Marcadas'
      BY <1>2, <2>9 DEF MemoriaFinalizado
    <3>2. ResizeEnCalma'
      BY <2>3, <2>9 DEF MemoriaFinalizado
    <3> QED
      BY <3>1, <3>2 DEF InvMarcos
  <2> QED
    BY <1>3, <2>5, <2>6, <2>7, <2>8, <2>9 DEF HiloKernelDeMemoria
<1>4. CASE HiloCpuDeMemoria
  <2>1. UNCHANGED <<liberando, a_memoria>>
    BY <1>4 DEF HiloCpuDeMemoria, MemoriaNumeroFrame, MemoriaMovOut, MemoriaMovIn,
                MemoriaCopyString, MemoriaResizeRechaza, MemoriaResize, MemoriaLecturaRechaza,
                MemoriaLectura, ResizeLibera, BucleAsigna, BucleResponde,
                LecturaSinMarco
  <2>2. ASSUME bucle.pid # 0 \/ bucle'.pid = 0
        PROVE  ResizeEnCalma'
    BY <1>0, <1>1, <2>1, <2>2 DEF ResizeEnCalma
  <2>3. CASE \/ MemoriaNumeroFrame \/ MemoriaMovIn \/ MemoriaResizeRechaza
             \/ MemoriaLecturaRechaza
    <3>1. UNCHANGED <<tabla, bitmap_array, bucle>>
      BY <2>3 DEF MemoriaNumeroFrame, MemoriaMovIn, MemoriaResizeRechaza, MemoriaLecturaRechaza
    <3> QED
      BY <1>2, <2>1, <2>2, <3>1 DEF InvMarcos
  <2>4. CASE MemoriaMovOut \/ MemoriaCopyString
    <3>1. UNCHANGED <<tabla, bucle>>
      BY <2>4 DEF MemoriaMovOut, MemoriaCopyString
    <3>2. \A m \in NumerosMarco : bitmap_array[m] = 1 => bitmap_array'[m] = 1
      BY <2>4 DEF MemoriaMovOut, MemoriaCopyString, Escribir
    <3>3. Exclusivos' /\ Marcadas'
      BY <1>0, <1>1, <2>1, <3>1, <3>2, MarcasQuedan
    <3> QED
      BY <2>2, <3>1, <3>3 DEF InvMarcos
  <2>5. CASE MemoriaResize \/ MemoriaLectura
    <3>1. ResizeEnCalma'
      BY <1>1, <2>1, <2>5 DEF MemoriaResize, MemoriaLectura, Atiende, FinalizacionesAlDia,
                              ResizeEnCalma
    <3> QED
      BY <1>2, <2>1, <2>5, <3>1 DEF MemoriaResize, MemoriaLectura, InvMarcos
  <2>6. bucle.pid = 0 => bucle.i = 0 /\ bucle.hasta = 0
    BY DEF Inductivo, Protocolo, EnBucle, TiposBucle, SinBucle
  <2>7. CASE ResizeLibera
    <3>1. bucle.pid # 0
      BY <1>0, <2>6, <2>7 DEF ResizeLibera
    <3>2. ResizeEnCalma'
      BY <2>2, <3>1
    <3>3. CASE UNCHANGED <<tabla, bitmap_array>>
      BY <1>2, <2>1, <3>2, <3>3 DEF InvMarcos
    <3>4. ASSUME PaginaQueSobra \in Validas(bucle.pid), LiberarPagina(bucle.pid, PaginaQueSobra)
          PROVE  InvMarcos'
      <4> DEFINE p == bucle.pid
                 n == PaginaQueSobra
      <4>1. p \in Pids /\ n \in Validas(p) /\ liberando.pid # p
        BY <3>1, <3>4, ResizeNoLibera
      <4>2. /\ bitmap_array' = [bitmap_array EXCEPT ![tabla[p][n]] = 0]
            /\ tabla'[p][n] = Invalida
            /\ \A q \in Pids : \A o \in Paginas :
                  tabla'[q][o] = tabla[q][o] \/ tabla'[q][o] = Invalida
        BY <1>0, <3>4, <4>1 DEF LiberarPagina, TipoMarcos, Validas
      <4> HIDE DEF n
      <4>3. Exclusivos' /\ Marcadas'
        BY <1>0, <1>1, <2>1, <4>1, <4>2, PaginaMenos
      <4> QED
        BY <3>2, <4>3 DEF InvMarcos
    <3> QED
      BY <2>7, <3>3, <3>4 DEF ResizeLibera
  <2>8. CASE BucleAsigna
    <3>1. bucle.pid # 0
      BY <1>0, <2>6, <2>8 DEF BucleAsigna
    <3>2. CASE bucle.i \notin Paginas
      BY <1>2, <2>1, <2>2, <2>8, <3>1, <3>2 DEF BucleAsigna, InvMarcos
    <3>3. CASE bucle.i \in Paginas
      <4>1. PICK m \in FramesLibres : AsignarPagina(bucle.pid, bucle.i, m)
        BY <2>8, <3>3 DEF BucleAsigna, ProximosFrames
      <4>2. bucle.pid \in Pids
        BY <1>0, <3>1 DEF TipoMarcos
      <4>3. Exclusivos' /\ Marcadas'
        BY <1>0, <1>1, <3>1, <3>3, <4>1, <4>2, PaginaMas DEF ResizeEnCalma
      <4> QED
        BY <2>2, <3>1, <4>3 DEF InvMarcos
    <3> QED
      BY <3>2, <3>3
  <2>9. CASE BucleResponde \/ LecturaSinMarco
    <3>1. bucle' = SinBucle /\ UNCHANGED <<tabla, bitmap_array>>
      BY <2>9 DEF BucleResponde, LecturaSinMarco
    <3>2. bucle'.pid = 0
      BY <3>1 DEF SinBucle
    <3> QED
      BY <1>2, <2>1, <2>2, <3>1, <3>2 DEF InvMarcos
  <2> QED
    BY <1>4, <2>3, <2>4, <2>5, <2>7, <2>8, <2>9 DEF HiloCpuDeMemoria
<1> QED
  BY <1>3, <1>4 DEF PasoMemoria

\* The other steps can only send a process to be released, and none does so while
\* a table is resized: the CPU waits for the answer of that RESIZE.
LEMMA InvMarcosSigue ==
    ASSUME Inductivo, Inductivo', InvMarcos, [Next]_vars
    PROVE  InvMarcos'
<1>0. TipoMarcos /\ TipoMensajes /\ Exclusivos /\ Marcadas /\ ResizeEnCalma
  BY DEF Inductivo, Tipos, InvMarcos
<1>1. ASSUME UNCHANGED <<config, tabla, bitmap_array, liberando>>
      PROVE  Exclusivos' /\ Marcadas'
  BY <1>0, <1>1, MarcasQuedan
<1>2. ASSUME UNCHANGED <<config, tabla, bitmap_array, liberando, bucle, a_memoria>>
      PROVE  InvMarcos'
  BY <1>0, <1>1, <1>2 DEF InvMarcos, ResizeEnCalma
<1>3. CASE UNCHANGED vars
  BY <1>2, <1>3, TuplasIguales
<1>4. ASSUME UNCHANGED <<config, tabla, bitmap_array, liberando, bucle>>,
             config.holgado => bucle.pid = 0
      PROVE  InvMarcos'
  BY <1>1, <1>4 DEF InvMarcos, ResizeEnCalma
<1>5. ASSUME NEW p \in Pids, PasoKernel(p)
      PROVE  InvMarcos'
  <2>1. UNCHANGED <<config, tabla, bitmap_array, liberando, bucle>>
    BY <1>5 DEF PasoKernel, KernelCrea, KernelDespacha, CpuDevuelve, CpuExit, KernelMata,
                varsMarcos
  <2>2. CASE KernelCrea(p)
    <3> DEFINE m == [tipo |-> "NUEVO_PROCESO", pid |-> p]
    <3>1. m \in DelKernel /\ m.tipo # "FINALIZAR_PROCESO"
      BY DEF DelKernel
    <3>2. a_memoria' = Append(a_memoria, m)
      BY <2>2 DEF KernelCrea
    <3> HIDE DEF m
    <3>3. ResizeEnCalma'
      BY <1>0, <2>1, <3>1, <3>2, AgregarTipo DEF ResizeEnCalma
    <3> QED
      BY <1>1, <2>1, <3>3 DEF InvMarcos
  <2>3. CASE KernelDespacha(p) \/ CpuDevuelve(p)
    BY <1>2, <2>1, <2>3 DEF KernelDespacha, CpuDevuelve, varsMarcos
  <2>4. CASE CpuExit(p) \/ KernelMata(p)
    <3>1. CpuExit(p) => bucle.pid = 0
      BY ResizeNoLibera DEF CpuExit, EntreInstrucciones
    <3> QED
      BY <1>4, <2>1, <2>4, <3>1 DEF KernelMata
  <2> QED
    BY <1>5, <2>2, <2>3, <2>4 DEF PasoKernel
<1>6. ASSUME NEW p \in Pids, PasoInstruccion(p)
      PROVE  InvMarcos'
  <2>1. UNCHANGED <<config, tabla, bitmap_array, liberando, bucle, a_memoria>>
    BY <1>6 DEF PasoInstruccion, CpuMov, CpuCopyString, CpuResize, CpuStdinRead, varsMarcos
  <2> QED
    BY <1>2, <2>1
<1>7. CASE PasoRespuesta
  <2>1. respuesta.tipo # "NADA"
    BY <1>7 DEF PasoRespuesta, CpuNumeroFrame, CpuMovListo, CpuResizeOCopia, CpuStdinAsignado, Recibe
  <2>2. UNCHANGED <<config, tabla, bitmap_array, liberando, bucle>>
    BY <1>7 DEF PasoRespuesta, CpuNumeroFrame, CpuMovListo, CpuResizeOCopia, CpuStdinAsignado
  <2> QED
    BY <1>4, <2>1, <2>2, ResizeNoLibera
<1>8. CASE PasoMmu
  BY <1>2, <1>8 DEF PasoMmu, MmuAcierto, MmuFallo, MmuConFrame, MmuSinFrame, RestoMmu
<1> QED
  BY <1>3, <1>5, <1>6, <1>7, <1>8, InvMarcosMemoria DEF Next

\* The invariant of the frames holds always.
LEMMA SiempreInvMarcos == Spec => [](Inductivo /\ InvMarcos)
<1>1. Init => InvMarcos
  <2>1. ASSUME Init
        PROVE  \A p \in Pids : Validas(p) = {}
    BY <2>1 DEF Init, InitMarcos, Validas
  <2>2. ASSUME Init
        PROVE  Exclusivos /\ Marcadas
    BY <2>1, <2>2 DEF Exclusivos, Marcadas
  <2>3. ASSUME Init
        PROVE  ResizeEnCalma
    <3>1. bucle.pid = 0
      BY <2>3 DEF Init, InitMarcos, SinBucle
    <3> QED
      BY <3>1 DEF ResizeEnCalma
  <2> QED
    BY <2>2, <2>3 DEF InvMarcos
<1>2. Inductivo /\ Inductivo' /\ InvMarcos /\ [Next]_vars => InvMarcos'
  BY InvMarcosSigue
<1> QED
  BY <1>1, <1>2, SiempreInductivo, PTL DEF Spec

\* When memoria's delay leaves a finalization time to end before the next request,
\* no two pages of any processes ever share a frame, although the two threads that
\* hand out and take back frames hold no lock.
THEOREM MarcosExclusivos == Spec => []MarcoExclusivo
<1>1. Inductivo /\ InvMarcos => MarcoExclusivo
  BY DEF InvMarcos, Exclusivos, MarcoExclusivo
<1> QED
  BY <1>1, SiempreInvMarcos, PTL

\* ... and the frame of every page is marked in the bitmap, but for the one page
\* that tabla_paginas_liberar is at.
THEOREM PaginasMarcadas == Spec => []PaginaMarcada
<1>1. Inductivo /\ InvMarcos => PaginaMarcada
  BY DEF InvMarcos, Marcadas, PaginaMarcada
<1> QED
  BY <1>1, SiempreInvMarcos, PTL

-----------------------------------------------------------------------------
(* Tables and translations                                                 *)

\* The kernel told memoria to create process p, and memoria has not read it.
AltaEnCamino(p) ==
    \E j \in DOMAIN a_memoria : a_memoria[j].tipo = "NUEVO_PROCESO" /\ a_memoria[j].pid = p

\* Process p was created and memoria has read it: its table is its own for good.
Conocido(p) == estado[p] # "SIN_CREAR" /\ ~ AltaEnCamino(p)

\* Memoria is told of each new process once.
Unicas ==
    \A j, l \in DOMAIN a_memoria :
        /\ a_memoria[j].tipo = "NUEVO_PROCESO" /\ a_memoria[l].tipo = "NUEVO_PROCESO"
        /\ a_memoria[j].pid = a_memoria[l].pid
        => j = l

\* A pid is created once, executes while memoria has it, and has pages only then.
Altas ==
    /\ \A p \in procesos : Conocido(p)
    /\ \A p \in Pids : AltaEnCamino(p) => estado[p] # "SIN_CREAR"
    /\ Unicas
    /\ \A p \in Pids : estado[p] = "EXEC" => p \in procesos
    /\ \A p \in Pids \ procesos : Validas(p) = {}
    /\ liberando.pid # 0 => liberando.pid \in procesos

\* The pages of a table that is not being released are the first ones; those of the
\* table under resize, up to the index of the loop.
Prefijos ==
    /\ \A p \in Pids \ {liberando.pid} : \E c \in 0 .. CantidadMarcos : Validas(p) = 0 .. c - 1
    /\ bucle.pid # 0 => Validas(bucle.pid) = 0 .. bucle.i - 1

\* No loop gives pages but that of a RESIZE.
NadieLee == peticion.tipo # "IO_STDIN_READ"

\* With one size to ask for, no loop of a resize gives a page back.
Crecientes ==
    /\ peticion.tipo = "RESIZE" => peticion.bytes \in config.tamanios
    /\ bucle.pid # 0 => /\ bucle.bytes \in config.tamanios
                         /\ bucle.hasta = Techo(bucle.bytes)
    /\ SoloCrece => /\ \A p \in Pids : \A n \in Validas(p) :
                          \E b \in config.tamanios : n < Techo(b)
                    /\ bucle.pid # 0 => bucle.i <= bucle.hasta

\* The TLB names processes memoria has read of, and frames.
TlbConocida ==
    \A i \in Entradas : tlb[i].pid # 0 => tlb[i].marco # Invalida /\ Conocido(tlb[i].pid)

\* d is in a frame of process p, and so are the b bytes from it.
EnUnMarco(p, d, b) == MarcoDe(d) \in MarcosDe(p) /\ (d % TamPagina) + b <= TamPagina

\* While a translation is under way: what was asked is of the order in course, what
\* memoria answered is what its table says, and so is what the MMU is given.
Traduciendo ==
    /\ peticion.tipo = "NUMERO_FRAME" => peticion.pagina = Pagina
    /\ respuesta.tipo = "NUMERO_FRAME" =>
          /\ respuesta.pid = cpu.pid /\ respuesta.pagina = Pagina
          /\ respuesta.resultado => /\ respuesta.marco = AccederPagina(cpu.pid, Pagina)
                                    /\ respuesta.marco # Invalida
    /\ FaseFrame /\ config.entradas = 0 =>
          marco = AccederPagina(cpu.pid, Pagina) /\ marco # Invalida

\* The order in course is one of the program; in the second half of a COPY_STRING,
\* the string to read is in a frame of the process.
OrdenEnCurso ==
    FaseOrden \/ FasePregunta \/ FaseFrame =>
        /\ orden.codigo = "COPY_STRING" => orden.destino \in config.direcciones
        /\ orden.codigo \in {"COPY_STRING", "COPY_STRING_2"} =>
              orden.logica \in config.direcciones /\ orden.bytes \in config.copias
        /\ orden.codigo = "COPY_STRING_2" /\ TraduccionVigente =>
              EnUnMarco(cpu.pid, orden.origen, orden.bytes)

\* What is asked of memoria is in the frames of the process.
PedidoTraducido ==
    TraduccionVigente =>
        /\ peticion.tipo \in {"MOV_OUT", "COPY_STRING_2"} => peticion.pid = cpu.pid
        /\ peticion.tipo = "MOV_OUT" => MarcoDe(peticion.fisica) \in MarcosDe(cpu.pid)
        /\ peticion.tipo = "COPY_STRING_2" =>
              /\ EnUnMarco(cpu.pid, peticion.origen, peticion.bytes)
              /\ EnUnMarco(cpu.pid, peticion.fisica, peticion.bytes)

\* What the tables are when no program has an IO_STDIN_READ.
SoloResize == SinLecturas => NadieLee /\ Prefijos /\ Crecientes

InvTablas == Altas /\ SoloResize
InvTlb == TlbConocida /\ TlbAlDia
InvCurso == Traduciendo /\ OrdenEnCurso /\ PedidoTraducido

\* A message that tells of an end announces nobody.
LEMMA AltasConFin ==
    ASSUME TipoMensajes, Unicas, NEW m \in DelKernel, m.tipo = "FINALIZAR_PROCESO",
           a_memoria' = Append(a_memoria, m)
    PROVE  Unicas' /\ \A q \in Pids : AltaEnCamino(q)' => AltaEnCamino(q)
<1>1. \A j \in DOMAIN a_memoria' : a_memoria'[j].tipo = "NUEVO_PROCESO" =>
         j \in DOMAIN a_memoria /\ a_memoria'[j] = a_memoria[j]
  BY AgregarTipo
<1> QED
  BY <1>1 DEF Unicas, AltaEnCamino

\* The announcement of a process nobody knew of is the only one of it.
LEMMA AltasConAlta ==
    ASSUME TipoMensajes, Unicas, NEW p \in Pids, ~ AltaEnCamino(p),
           a_memoria' = Append(a_memoria, [tipo |-> "NUEVO_PROCESO", pid |-> p])
    PROVE  Unicas' /\ \A q \in Pids : AltaEnCamino(q)' => AltaEnCamino(q) \/ q = p
<1> DEFINE m == [tipo |-> "NUEVO_PROCESO", pid |-> p]
           n == Len(a_memoria) + 1
<1>1. m \in DelKernel /\ m.pid = p
  BY DEF DelKernel
<1>2. a_memoria \in Seq(DelKernel)
  BY TipoMensajesAhora
<1> HIDE DEF m
<1>3. /\ Len(a_memoria') = n /\ Len(a_memoria) \in Nat
      /\ DOMAIN a_memoria = 1 .. Len(a_memoria) /\ DOMAIN a_memoria' = 1 .. n
      /\ \A i \in 1 .. Len(a_memoria) : a_memoria'[i] = a_memoria[i]
      /\ a_memoria'[n] = m
  BY <1>1, <1>2, AppendProperties, LenProperties DEF m
<1>4. \A j \in DOMAIN a_memoria' :
         \/ j \in DOMAIN a_memoria /\ a_memoria'[j] = a_memoria[j]
         \/ j = n /\ a_memoria'[j] = m
  BY <1>3
<1> HIDE DEF n
<1>5. \A j \in DOMAIN a_memoria : a_memoria[j].tipo = "NUEVO_PROCESO" => a_memoria[j].pid # p
  BY DEF AltaEnCamino
<1>6. Unicas'
  BY <1>1, <1>4, <1>5 DEF Unicas
<1> QED
  BY <1>1, <1>4, <1>6 DEF AltaEnCamino

\* What memoria reads is no longer on its way.
LEMMA AltasLeidas ==
    ASSUME TipoMensajes, Unicas, a_memoria # << >>, a_memoria' = Tail(a_memoria)
    PROVE  /\ Unicas'
           /\ \A q \in Pids : AltaEnCamino(q)' => AltaEnCamino(q)
           /\ \A q \in Pids : Cabeza.tipo = "NUEVO_PROCESO" /\ q = Cabeza.pid =>
                 AltaEnCamino(q) /\ ~ AltaEnCamino(q)'
<1>1. \A j \in DOMAIN a_memoria' :
         j + 1 \in DOMAIN a_memoria /\ a_memoria'[j] = a_memoria[j + 1]
  BY ColaTipo
<1>2. Cabeza = a_memoria[1] /\ 1 \in DOMAIN a_memoria /\ a_memoria \in Seq(DelKernel)
  BY ColaTipo, TipoMensajesAhora
<1>3. DOMAIN a_memoria' \subseteq Nat \ {0}
  BY <1>2, ColaTipo, LenProperties
<1>4. Unicas'
  <2>1. \A j, l \in DOMAIN a_memoria' : j + 1 = l + 1 => j = l
    BY <1>3
  <2> QED
    BY <1>1, <2>1 DEF Unicas
<1>5. ASSUME Cabeza.tipo = "NUEVO_PROCESO", NEW j \in DOMAIN a_memoria',
             a_memoria'[j].tipo = "NUEVO_PROCESO", a_memoria'[j].pid = Cabeza.pid
      PROVE  FALSE
  <2>1. j + 1 = 1
    BY <1>1, <1>2, <1>5 DEF Unicas
  <2> QED
    BY <1>3, <2>1
<1>6. ASSUME NEW q \in Pids, Cabeza.tipo = "NUEVO_PROCESO", q = Cabeza.pid
      PROVE  AltaEnCamino(q) /\ ~ AltaEnCamino(q)'
  BY <1>2, <1>5, <1>6 DEF AltaEnCamino
<1> QED
  BY <1>1, <1>4, <1>6 DEF AltaEnCamino

\* The thread of the CPU changes no table but the one its loop is at, which is that of
\* the process in the CPU.
LEMMA TablaDelCpu ==
    ASSUME Inductivo, HiloCpuDeMemoria
    PROVE  \/ UNCHANGED tabla
           \/ /\ bucle.pid \in Pids /\ bucle.pid = cpu.pid /\ estado[cpu.pid] = "EXEC"
              /\ \A q \in Pids \ {bucle.pid} : tabla'[q] = tabla[q]
<1>0. TipoMarcos
  BY DEF Inductivo, Tipos
<1>1. CASE ResizeLibera \/ BucleAsigna
  <2>1. bucle.pid # 0
    BY <1>0, <1>1 DEF ResizeLibera, BucleAsigna, Inductivo, Protocolo, EnBucle, TiposBucle, SinBucle
  <2>2. bucle.pid \in Pids /\ bucle.pid = cpu.pid /\ estado[cpu.pid] = "EXEC"
    BY <2>1, ResizeNoLibera, OcupadaPid DEF Inductivo, Protocolo, EnBucle, TiposBucle
  <2>3. UNCHANGED tabla \/ \E x, m : tabla' = [tabla EXCEPT ![bucle.pid][x] = m]
    BY <1>1, Zenon DEF ResizeLibera, BucleAsigna, LiberarPagina, AsignarPagina
  <2>4. ASSUME NEW x, NEW m, tabla' = [tabla EXCEPT ![bucle.pid][x] = m]
        PROVE  \A q \in Pids \ {bucle.pid} : tabla'[q] = tabla[q]
    BY <1>0, <2>4 DEF TipoMarcos
  <2> QED
    BY <2>2, <2>3, <2>4
<1>2. CASE ~ (ResizeLibera \/ BucleAsigna)
  BY <1>2 DEF HiloCpuDeMemoria, MemoriaNumeroFrame, MemoriaMovOut, MemoriaMovIn,
              MemoriaCopyString, MemoriaResizeRechaza, MemoriaResize, MemoriaLecturaRechaza,
              MemoriaLectura, BucleResponde, LecturaSinMarco
<1> QED
  BY <1>1, <1>2

\* The steps that announce nobody, give no table and end no release.
LEMMA AltasQuedan ==
    ASSUME TipoMarcos, Altas, Unicas', UNCHANGED procesos,
           \A q \in Pids : AltaEnCamino(q)' => AltaEnCamino(q),
           \A q \in Pids : estado[q] # "SIN_CREAR" => estado'[q] # "SIN_CREAR",
           \A q \in Pids : estado'[q] = "EXEC" => q \in procesos,
           \A q \in Pids \ procesos : Validas(q)' = {},
           liberando'.pid # 0 => liberando'.pid \in procesos
    PROVE  Altas'
  BY DEF TipoMarcos, Altas, Conocido

\* What the steps of the kernel and of the CPU do to the states of the processes.
LEMMA EstadosSiguen ==
    ASSUME Inductivo, Altas, NEW p \in Pids,
           \/ KernelDespacha(p) \/ CpuDevuelve(p) \/ CpuExit(p) \/ KernelMata(p)
           \/ PasoInstruccion(p) \/ PasoRespuesta \/ PasoMmu \/ PasoMemoria
    PROVE  /\ \A q \in Pids : estado[q] # "SIN_CREAR" => estado'[q] # "SIN_CREAR"
           /\ \A q \in Pids : estado'[q] = "EXEC" => q \in procesos
<1>1. estado \in Estados
  BY DEF Inductivo, Tipos, TipoCpu, Estados
<1>2. \A q \in Pids : estado[q] = "EXEC" => q \in procesos
  BY DEF Altas
<1> USE DEF Estados
<1>3. CASE KernelDespacha(p) \/ CpuDevuelve(p) \/ CpuExit(p) \/ KernelMata(p)
  BY <1>1, <1>2, <1>3 DEF KernelDespacha, CpuDevuelve, CpuExit, KernelMata, Finaliza
<1>4. CASE PasoInstruccion(p)
  <2>1. estado' = estado
    BY <1>4 DEF PasoInstruccion, CpuMov, CpuCopyString, CpuResize, CpuStdinRead
  <2> QED
    BY <1>2, <2>1
<1>5. CASE PasoMmu \/ PasoMemoria
  <2>1. \/ estado' = estado
        \/ estado' = [estado EXCEPT ![cpu.pid] = "READY"]
    BY <1>5, MmuEnviaHace
       DEF PasoMmu, MmuAcierto, MmuFallo, MmuConFrame, MmuSinFrame, RestoMmu, PasoMemoria, Inductivo
  <2> QED
    BY <1>1, <1>2, <2>1
<1>6. CASE PasoRespuesta
  <2>1. \/ estado' = estado
        \/ estado' = [estado EXCEPT ![cpu.pid] = "READY"]
        \/ estado' = [estado EXCEPT ![cpu.pid] = "EXIT"]
    BY <1>6 DEF PasoRespuesta, CpuNumeroFrame, CpuMovListo, CpuResizeOCopia, CpuStdinAsignado, Finaliza
  <2> QED
    BY <1>1, <1>2, <2>1
<1> QED
  BY <1>3, <1>4, <1>5, <1>6

\* Every step keeps Altas: only KernelCrea announces, once, and memoria forgets nobody twice.
LEMMA AltasSiguen ==
    ASSUME Inductivo, Inductivo', Altas, [Next]_vars
    PROVE  Altas'
<1>0. /\ TipoMarcos /\ TipoMarcos' /\ TipoMensajes /\ Unicas
      /\ procesos \subseteq Pids /\ estado \in Estados
  BY DEF Inductivo, Tipos, TipoMarcos, TipoCpu, Estados, Altas
<1>1. /\ liberando.pid # 0 => liberando.pid \in procesos
      /\ \A q \in Pids \ procesos : Validas(q) = {}
  BY DEF Altas
<1>2. UNCHANGED a_memoria => Unicas' /\ \A q \in Pids : AltaEnCamino(q)' => AltaEnCamino(q)
  BY <1>0 DEF Unicas, AltaEnCamino
<1>3. ASSUME NEW q \in Pids, Finaliza(q)
      PROVE  Unicas' /\ \A r \in Pids : AltaEnCamino(r)' => AltaEnCamino(r)
  <2> DEFINE m == [tipo |-> "FINALIZAR_PROCESO", pid |-> q]
  <2>1. m \in DelKernel /\ m.tipo = "FINALIZAR_PROCESO" /\ a_memoria' = Append(a_memoria, m)
    BY <1>3 DEF DelKernel, Finaliza
  <2> HIDE DEF m
  <2> QED
    BY <1>0, <2>1, AltasConFin
<1>4. ASSUME UNCHANGED <<procesos, tabla, liberando>>,
             UNCHANGED a_memoria \/ \E q \in Pids : Finaliza(q),
             \A q \in Pids : estado[q] # "SIN_CREAR" => estado'[q] # "SIN_CREAR",
             \A q \in Pids : estado'[q] = "EXEC" => q \in procesos
      PROVE  Altas'
  <2>1. Unicas' /\ \A q \in Pids : AltaEnCamino(q)' => AltaEnCamino(q)
    BY <1>2, <1>3, <1>4
  <2>2. \A q \in Pids \ procesos : Validas(q)' = {}
    BY <1>1, <1>4 DEF Validas
  <2> QED
    BY <1>0, <1>1, <1>4, <2>1, <2>2, AltasQuedan
<1>5. CASE UNCHANGED vars
  BY <1>4, <1>5, TuplasIguales DEF Altas
<1>6. ASSUME NEW p \in Pids, PasoKernel(p)
      PROVE  Altas'
  <2>1. UNCHANGED <<procesos, tabla, liberando>>
    BY <1>6 DEF PasoKernel, KernelCrea, KernelDespacha, CpuDevuelve, CpuExit, KernelMata, varsMarcos
  <2>2. CASE KernelCrea(p)
    <3>1. /\ estado[p] = "SIN_CREAR" /\ estado' = [estado EXCEPT ![p] = "READY"]
          /\ a_memoria' = Append(a_memoria, [tipo |-> "NUEVO_PROCESO", pid |-> p])
      BY <2>2 DEF KernelCrea
    <3>2. ~ AltaEnCamino(p) /\ p \notin procesos
      BY <3>1 DEF Altas, Conocido
    <3>3. Unicas' /\ \A q \in Pids : AltaEnCamino(q)' => AltaEnCamino(q) \/ q = p
      BY <1>0, <3>1, <3>2, AltasConAlta
    <3>4. \A q \in Pids : estado'[q] = IF q = p THEN "READY" ELSE estado[q]
      BY <1>0, <3>1 DEF Estados
    <3>5. \A q \in Pids : Validas(q)' = Validas(q)
      BY <2>1 DEF Validas
    <3> QED
      BY <1>0, <2>1, <3>2, <3>3, <3>4, <3>5 DEF Altas, Conocido
  <2>3. CASE KernelDespacha(p) \/ CpuDevuelve(p) \/ CpuExit(p) \/ KernelMata(p)
    <3>1. UNCHANGED a_memoria \/ Finaliza(p)
      BY <2>3 DEF KernelDespacha, CpuDevuelve, CpuExit, KernelMata, varsMarcos
    <3> QED
      BY <1>4, <2>1, <2>3, <3>1, EstadosSiguen
  <2> QED
    BY <1>6, <2>2, <2>3 DEF PasoKernel
<1>7. ASSUME NEW p \in Pids, PasoInstruccion(p)
      PROVE  Altas'
  <2>1. UNCHANGED <<procesos, tabla, liberando, a_memoria>>
    BY <1>7 DEF PasoInstruccion, CpuMov, CpuCopyString, CpuResize, CpuStdinRead, varsMarcos
  <2> QED
    BY <1>4, <1>7, <2>1, EstadosSiguen
<1>8. 1 \in Pids
  BY PaginacionAssumption DEF Pids
<1>9. CASE PasoRespuesta
  <2>1. UNCHANGED <<procesos, tabla, liberando>>
    BY <1>9 DEF PasoRespuesta, CpuNumeroFrame, CpuMovListo, CpuResizeOCopia, CpuStdinAsignado
  <2>2. UNCHANGED a_memoria \/ Finaliza(cpu.pid)
    BY <1>9 DEF PasoRespuesta, CpuNumeroFrame, CpuMovListo, CpuResizeOCopia, CpuStdinAsignado
  <2>3. cpu.pid \in Pids
    BY <1>9, OcupadaPid
       DEF PasoRespuesta, CpuNumeroFrame, CpuMovListo, CpuResizeOCopia, CpuStdinAsignado, Recibe, Inductivo,
           Protocolo, Fases, FaseOciosa, FaseMemoria, FaseOrden, FasePregunta, FaseFrame,
           SinMensajes, EnCamino
  <2> QED
    BY <1>4, <1>8, <1>9, <2>1, <2>2, <2>3, EstadosSiguen
<1>10. CASE PasoMmu
  <2>1. UNCHANGED <<procesos, tabla, liberando, a_memoria>>
    BY <1>10 DEF PasoMmu, MmuAcierto, MmuFallo, MmuConFrame, MmuSinFrame, RestoMmu
  <2> QED
    BY <1>4, <1>8, <1>10, <2>1, EstadosSiguen
<1>11. CASE PasoMemoria
  <2>0. /\ \A q \in Pids : estado[q] # "SIN_CREAR" => estado'[q] # "SIN_CREAR"
        /\ \A q \in Pids : estado'[q] = "EXEC" => q \in procesos
        /\ estado' = estado
    BY <1>8, <1>11, EstadosSiguen DEF PasoMemoria
  <2>1. CASE MemoriaNuevoProceso
    <3>1. /\ liberando.pid = 0 /\ a_memoria # << >> /\ Cabeza.tipo = "NUEVO_PROCESO"
          /\ procesos' = procesos \cup {Cabeza.pid} /\ a_memoria' = Tail(a_memoria)
          /\ tabla' = [tabla EXCEPT ![Cabeza.pid] = [n \in Paginas |-> Invalida]]
          /\ liberando' = liberando
      BY <2>1 DEF MemoriaNuevoProceso, HiloKernelLibre
    <3>2. PICK p \in Pids : p = Cabeza.pid
      BY <1>0, <3>1, ColaTipo DEF DelKernel
    <3>3. /\ Unicas' /\ \A q \in Pids : AltaEnCamino(q)' => AltaEnCamino(q)
          /\ AltaEnCamino(p) /\ ~ AltaEnCamino(p)'
      BY <1>0, <3>1, <3>2, AltasLeidas
    <3>4. \A q \in Pids : Validas(q)' = {} \/ Validas(q)' = Validas(q)
      BY <1>0, <3>1, <3>2 DEF TipoMarcos, Validas
    <3> QED
      BY <1>0, <2>0, <3>1, <3>2, <3>3, <3>4 DEF Altas, Conocido
  <2>2. CASE MemoriaFinalizar
    <3>1. /\ a_memoria # << >> /\ a_memoria' = Tail(a_memoria)
          /\ liberando'.pid # 0 => liberando'.pid \in procesos
          /\ UNCHANGED <<procesos, tabla>>
      BY <1>0, <2>2 DEF MemoriaFinalizar, HiloKernelLibre, NadaQueLiberar
    <3>2. Unicas' /\ \A q \in Pids : AltaEnCamino(q)' => AltaEnCamino(q)
      BY <1>0, <3>1, AltasLeidas
    <3>3. \A q \in Pids \ procesos : Validas(q)' = {}
      BY <1>1, <3>1 DEF Validas
    <3> QED
      BY <1>0, <2>0, <3>1, <3>2, <3>3, AltasQuedan
  <2>3. CASE MemoriaFinalizado
    <3>1. /\ procesos' = procesos \ {liberando.pid} /\ liberando'.pid = 0
          /\ Validas(liberando.pid) = {} /\ UNCHANGED <<tabla, a_memoria>>
          /\ liberando.pid # 0
      BY <2>3 DEF MemoriaFinalizado, NadaQueLiberar
    <3>2. estado[liberando.pid] = "EXIT"
      BY <3>1 DEF Inductivo, Finalizados
    <3>3. \A q \in Pids : Validas(q)' = Validas(q)
      BY <3>1 DEF Validas
    <3> QED
      BY <1>0, <1>1, <1>2, <2>0, <3>1, <3>2, <3>3 DEF Altas, Conocido
  <2>4. ASSUME UNCHANGED <<procesos, a_memoria>>, liberando'.pid = liberando.pid,
               \A q \in Pids \ procesos : Validas(q)' = Validas(q)
        PROVE  Altas'
    BY <1>0, <1>1, <1>2, <2>0, <2>4, AltasQuedan
  <2>5. CASE LiberarMarco
    <3>1. \A q \in Pids : Validas(q)' = Validas(q)
      BY <2>5 DEF LiberarMarco, Validas
    <3> QED
      BY <1>0, <2>4, <2>5, <3>1 DEF LiberarMarco, TipoMarcos
  <2>6. CASE LiberarPaginaDeTabla
    <3>1. /\ liberando.pid \in Pids /\ liberando.pagina \in Validas(liberando.pid)
          /\ liberando.pid \in procesos
      BY <1>0, <1>1, <2>6 DEF LiberarPaginaDeTabla, TipoMarcos
    <3>2. \A q \in Pids \ {liberando.pid} : Validas(q)' = Validas(q)
      BY <1>0, <2>6, <3>1, PaginaTipo DEF LiberarPaginaDeTabla
    <3> QED
      BY <1>0, <2>4, <2>6, <3>1, <3>2 DEF LiberarPaginaDeTabla, TipoMarcos
  <2>7. CASE HiloCpuDeMemoria
    <3>1. UNCHANGED <<procesos, a_memoria, liberando>>
      BY <2>7 DEF HiloCpuDeMemoria, MemoriaNumeroFrame, MemoriaMovOut, MemoriaMovIn,
                  MemoriaCopyString, MemoriaResizeRechaza, MemoriaResize, MemoriaLecturaRechaza,
                  MemoriaLectura, ResizeLibera, BucleAsigna, BucleResponde,
                  LecturaSinMarco
    <3>2. \A q \in Pids \ procesos : Validas(q)' = Validas(q)
      <4>1. cpu.pid \in Pids /\ estado[cpu.pid] = "EXEC" => cpu.pid \in procesos
        BY DEF Altas
      <4> QED
        BY <2>7, <4>1, TablaDelCpu DEF Validas
    <3> QED
      BY <2>4, <3>1, <3>2
  <2> QED
    BY <1>11, <2>1, <2>2, <2>3, <2>5, <2>6, <2>7 DEF PasoMemoria, HiloKernelDeMemoria
<1> QED
  BY <1>5, <1>6, <1>7, <1>9, <1>10, <1>11 DEF Next

\* Only memoria changes frames, tables and what it does with them.
LEMMA FueraDeMemoria ==
    ASSUME NEW p \in Pids, PasoKernel(p) \/ PasoInstruccion(p) \/ PasoRespuesta \/ PasoMmu
    PROVE  UNCHANGED <<config, procesos, cantidad, tabla, bitmap_array, bytes_usados,
                       liberando, bucle>>
<1>1. CASE PasoKernel(p)
  BY <1>1 DEF PasoKernel, KernelCrea, KernelDespacha, CpuDevuelve, CpuExit, KernelMata, varsMarcos
<1>2. CASE PasoInstruccion(p)
  BY <1>2 DEF PasoInstruccion, CpuMov, CpuCopyString, CpuResize, CpuStdinRead, varsMarcos
<1>3. CASE PasoRespuesta
  BY <1>3 DEF PasoRespuesta, CpuNumeroFrame, CpuMovListo, CpuResizeOCopia, CpuStdinAsignado
<1>4. CASE PasoMmu
  BY <1>4 DEF PasoMmu, MmuAcierto, MmuFallo, MmuConFrame, MmuSinFrame, RestoMmu
<1> QED
  BY <1>1, <1>2, <1>3, <1>4

\* A page without its frame, and a page with one.
LEMMA TablaMenos ==
    ASSUME TipoMarcos, NEW p \in Pids, NEW n \in Paginas,
           tabla' = [tabla EXCEPT ![p][n] = Invalida]
    PROVE  /\ Validas(p)' = Validas(p) \ {n}
           /\ \A q \in Pids \ {p} : Validas(q)' = Validas(q)
           /\ \A q \in Pids : \A o \in Validas(q)' : tabla'[q][o] = tabla[q][o]
  BY DEF TipoMarcos, Validas

\* A page that gets a frame is the only one that changes.
LEMMA TablaMas ==
    ASSUME TipoMarcos, NEW p \in Pids, NEW n \in Paginas, NEW m \in NumerosMarco,
           tabla' = [tabla EXCEPT ![p][n] = m]
    PROVE  /\ Validas(p)' = Validas(p) \cup {n} /\ tabla'[p][n] = m
           /\ \A q \in Pids \ {p} : Validas(q)' = Validas(q)
           /\ \A q \in Pids : \A o \in Paginas : q # p \/ o # n => tabla'[q][o] = tabla[q][o]
<1>1. m # Invalida
  BY PaginacionNat DEF NumerosMarco, Invalida
<1> QED
  BY <1>1 DEF TipoMarcos, Validas

\* The table the loop is at is that of the process in the CPU, which memoria has.
LEMMA BucleDelCpu ==
    ASSUME Inductivo, bucle.pid # 0 \/ peticion.tipo \in TiposBucle
    PROVE  /\ cpu.pid \in Pids /\ estado[cpu.pid] = "EXEC" /\ cpu.ocupada
           /\ peticion.tipo \in TiposBucle /\ peticion.pid = cpu.pid /\ respuesta.tipo = "NADA"
           /\ bucle.pid # 0 => bucle.pid = cpu.pid
           /\ liberando.pid # cpu.pid
<1>1. /\ peticion.tipo \in TiposBucle /\ peticion.pid = cpu.pid
      /\ bucle.pid # 0 => bucle.pid = cpu.pid
  BY DEF Inductivo, Protocolo, EnBucle, TiposBucle
<1>2. cpu.ocupada /\ respuesta.tipo = "NADA"
  BY <1>1 DEF Inductivo, Protocolo, Fases, FaseOciosa, FaseMemoria, FaseOrden, FasePregunta,
              FaseFrame, SinMensajes, EnCamino, TiposBucle
<1>3. cpu.pid \in Pids /\ estado[cpu.pid] = "EXEC"
  BY <1>2, OcupadaPid
<1> QED
  BY <1>1, <1>2, <1>3, PaginacionNat DEF Inductivo, Finalizados

\* What a turn of the loop of tabla_paginas_resize does: it takes back the last
\* page, or gives a frame to the next one.
LEMMA VueltaDeResize ==
    ASSUME Inductivo, NadieLee, Prefijos, ResizeLibera \/ BucleAsigna
    PROVE  /\ bucle.pid \in Pids /\ bucle.i \in Nat /\ bucle.hasta \in Nat
           /\ ResizeLibera => /\ bucle.i - 1 \in Validas(bucle.pid)
                              /\ LiberarPagina(bucle.pid, bucle.i - 1)
                              /\ bucle'.i = bucle.i - 1
           /\ BucleAsigna => /\ bucle.i \in Paginas \ Validas(bucle.pid)
                              /\ \E m \in FramesLibres : AsignarPagina(bucle.pid, bucle.i, m)
                              /\ bucle'.i = bucle.i + 1
           /\ bucle'.pid = bucle.pid /\ bucle'.hasta = bucle.hasta
           /\ bucle'.bytes = bucle.bytes
<1>0. TipoMarcos
  BY DEF Inductivo, Tipos
<1>1. bucle.pid # 0
  BY <1>0 DEF ResizeLibera, BucleAsigna, Inductivo, Protocolo, EnBucle, TiposBucle, SinBucle
<1>2. /\ bucle.pid \in Pids /\ bucle.i \in Nat /\ bucle.hasta \in Nat
      /\ bucle.i <= CantidadMarcos /\ bucle.hasta <= CantidadMarcos
  BY <1>0, <1>1, PaginacionNat DEF TipoMarcos, Inductivo, TipoBucle, NadieLee
<1>3. Validas(bucle.pid) = 0 .. bucle.i - 1
  BY <1>1 DEF Prefijos
<1>4. /\ ResizeLibera => bucle'.i = bucle.i - 1
      /\ BucleAsigna => bucle'.i = bucle.i + 1
      /\ bucle'.pid = bucle.pid /\ bucle'.hasta = bucle.hasta
      /\ bucle'.bytes = bucle.bytes
  BY <1>0 DEF TipoMarcos, ResizeLibera, BucleAsigna
<1>5. ASSUME ResizeLibera
      PROVE  bucle.i - 1 \in Validas(bucle.pid) /\ LiberarPagina(bucle.pid, bucle.i - 1)
  <2>1. bucle.i - 1 \in Validas(bucle.pid)
    BY <1>2, <1>3, <1>5 DEF ResizeLibera
  <2> QED
    BY <1>5, <2>1 DEF ResizeLibera, PaginaQueSobra
<1>6. ASSUME BucleAsigna
      PROVE  /\ bucle.i \in Paginas \ Validas(bucle.pid)
             /\ \E m \in FramesLibres : AsignarPagina(bucle.pid, bucle.i, m)
  <2>1. bucle.i \in Paginas \ Validas(bucle.pid)
    BY <1>2, <1>3, <1>6, PaginacionNat DEF BucleAsigna, Paginas
  <2> QED
    BY <1>6, <2>1 DEF BucleAsigna, ProximosFrames
<1> QED
  BY <1>2, <1>4, <1>5, <1>6

\* Tables that stay are still prefixes, while the release under way goes on.
LEMMA PrefijosIguales ==
    ASSUME Prefijos, UNCHANGED <<tabla, bucle>>,
           \A q \in Pids : q = liberando.pid => liberando'.pid = q
    PROVE  Prefijos'
<1>1. \A q : Validas(q)' = Validas(q)
  BY DEF Validas
<1> QED
  BY <1>1 DEF Prefijos

\* A resize adds or removes at the end, and a release leaves its table out of the claim.
LEMMA PrefijosSiguen ==
    ASSUME Inductivo, Inductivo', Altas, NadieLee, Prefijos, [Next]_vars
    PROVE  Prefijos'
<1>0. TipoMarcos /\ TipoMarcos' /\ TipoMensajes
  BY DEF Inductivo, Tipos
<1>1. CASE UNCHANGED vars
  BY <1>1, TuplasIguales, PrefijosIguales
<1>2. ASSUME NEW p \in Pids, PasoKernel(p) \/ PasoInstruccion(p) \/ PasoRespuesta \/ PasoMmu
      PROVE  Prefijos'
  BY <1>2, FueraDeMemoria, PrefijosIguales
<1>3. 1 \in Pids /\ 0 \in 0 .. CantidadMarcos /\ 0 .. 0 - 1 = {}
  BY PaginacionAssumption DEF Pids
<1>4. bucle.pid # 0 => bucle.pid \in Pids /\ bucle.pid # liberando.pid /\ bucle.pid \in procesos
  BY BucleDelCpu DEF Altas
<1>5. CASE MemoriaNuevoProceso
  <2>1. /\ liberando.pid = 0 /\ a_memoria # << >> /\ Cabeza.tipo = "NUEVO_PROCESO"
        /\ tabla' = [tabla EXCEPT ![Cabeza.pid] = [n \in Paginas |-> Invalida]]
        /\ UNCHANGED <<liberando, bucle>> /\ a_memoria' = Tail(a_memoria)
    BY <1>5 DEF MemoriaNuevoProceso, HiloKernelLibre
  <2>2. PICK p \in Pids : p = Cabeza.pid
    BY <1>0, <2>1, ColaTipo DEF DelKernel
  <2>3. AltaEnCamino(p)
    BY <1>0, <2>1, <2>2, AltasLeidas DEF Altas
  <2>4. bucle.pid # p
    BY <1>4, <2>2, <2>3, PaginacionNat DEF Altas, Conocido
  <2>5. Validas(p)' = {} /\ \A q \in Pids \ {p} : Validas(q)' = Validas(q)
    BY <1>0, <2>1, <2>2 DEF TipoMarcos, Validas
  <2>6. ASSUME NEW q \in Pids
        PROVE  \E c \in 0 .. CantidadMarcos : Validas(q)' = 0 .. c - 1
    <3>1. CASE q = p
      BY <1>3, <2>5, <3>1
    <3>2. CASE q # p
      <4>1. q \in Pids \ {liberando.pid}
        BY <2>1, PaginacionNat
      <4>2. \E c \in 0 .. CantidadMarcos : Validas(q) = 0 .. c - 1
        BY <4>1 DEF Prefijos
      <4> QED
        BY <2>5, <3>2, <4>2
    <3> QED
      BY <3>1, <3>2
  <2>7. ASSUME NEW r \in Pids, r = bucle.pid
        PROVE  Validas(r)' = 0 .. bucle.i - 1
    BY <2>4, <2>5, <2>7, PaginacionNat DEF Prefijos
  <2>8. bucle'.pid # 0 => Validas(bucle.pid)' = 0 .. bucle'.i - 1
    BY <1>4, <2>1, <2>7
  <2> QED
    BY <2>6, <2>8 DEF Prefijos
<1>6. CASE MemoriaFinalizar
  <2>1. liberando.pid = 0 /\ UNCHANGED <<tabla, bucle>>
    BY <1>6 DEF MemoriaFinalizar, HiloKernelLibre
  <2> QED
    BY <2>1, PrefijosIguales, PaginacionNat
<1>7. CASE LiberarMarco
  <2>1. liberando'.pid = liberando.pid /\ UNCHANGED <<tabla, bucle>>
    BY <1>0, <1>7 DEF LiberarMarco, TipoMarcos
  <2> QED
    BY <2>1, PrefijosIguales
<1>8. CASE LiberarPaginaDeTabla
  <2>1. PICK p \in Pids : p = liberando.pid
    BY <1>0, <1>8 DEF LiberarPaginaDeTabla, TipoMarcos
  <2>2. /\ \A q \in Pids \ {p} : Validas(q)' = Validas(q)
        /\ liberando'.pid = p /\ UNCHANGED bucle
    BY <1>0, <1>8, <2>1, PaginaTipo DEF LiberarPaginaDeTabla, TipoMarcos
  <2> QED
    BY <1>4, <2>1, <2>2 DEF Prefijos
<1>9. CASE MemoriaFinalizado
  <2>1. Validas(liberando.pid) = {} /\ UNCHANGED <<tabla, bucle>>
    BY <1>9 DEF MemoriaFinalizado
  <2>2. \A q : Validas(q)' = Validas(q)
    BY <2>1 DEF Validas
  <2>3. \A q \in Pids : \E c \in 0 .. CantidadMarcos : Validas(q)' = 0 .. c - 1
    BY <1>3, <2>1, <2>2 DEF Prefijos
  <2> QED
    BY <2>1, <2>2, <2>3 DEF Prefijos
<1>10. CASE MemoriaResize
  <2>1. /\ peticion.tipo = "RESIZE" /\ UNCHANGED <<tabla, liberando>>
        /\ bucle'.pid = peticion.pid /\ bucle'.i = FramesOcupados(peticion.pid)
    BY <1>10 DEF MemoriaResize, Atiende
  <2>2. PICK p \in Pids : p = peticion.pid /\ p # liberando.pid
    BY <2>1, BucleDelCpu DEF TiposBucle
  <2>3. PICK c \in 0 .. CantidadMarcos : Validas(p) = 0 .. c - 1
    BY <2>2 DEF Prefijos
  <2>4. FramesOcupados(p) = c
    BY <2>3, FS_Interval, PaginacionNat DEF FramesOcupados
  <2>5. \A q : Validas(q)' = Validas(q)
    BY <2>1 DEF Validas
  <2>6. bucle'.pid = p /\ bucle'.i = c
    BY <2>1, <2>2, <2>4
  <2> QED
    BY <2>1, <2>3, <2>5, <2>6 DEF Prefijos
<1>11. CASE ResizeLibera
  <2>1. /\ bucle.pid \in Pids /\ bucle.i \in Nat /\ bucle'.pid = bucle.pid
        /\ bucle.i - 1 \in Validas(bucle.pid) /\ bucle'.i = bucle.i - 1
        /\ LiberarPagina(bucle.pid, bucle.i - 1)
    BY <1>11, VueltaDeResize
  <2>2. PICK p \in Pids : p = bucle.pid
    BY <2>1
  <2>3. PICK n \in Paginas : n = bucle.i - 1
    BY <2>1 DEF Validas
  <2>4. Validas(p)' = Validas(p) \ {n} /\ \A q \in Pids \ {p} : Validas(q)' = Validas(q)
    <3>1. tabla' = [tabla EXCEPT ![p][n] = Invalida]
      BY <2>1, <2>2, <2>3 DEF LiberarPagina
    <3> QED
      BY <1>0, <3>1, TablaMenos
  <2>5. p # 0 /\ Validas(p) = 0 .. bucle.i - 1
    BY <2>2, PaginacionNat DEF Prefijos
  <2>6. bucle.i - 1 \in 0 .. CantidadMarcos
    BY <1>0, <2>1, <2>3, PaginacionNat DEF Paginas
  <2>7. Validas(p)' = 0 .. (bucle.i - 1) - 1
    BY <2>1, <2>3, <2>4, <2>5
  <2>8. liberando' = liberando /\ bucle'.pid = p /\ bucle'.i = bucle.i - 1
    BY <1>11, <2>1, <2>2 DEF ResizeLibera
  <2> QED
    BY <2>4, <2>6, <2>7, <2>8 DEF Prefijos
<1>12. CASE BucleAsigna
  <2>1. /\ bucle.pid \in Pids /\ bucle.i \in Nat /\ bucle'.pid = bucle.pid
        /\ bucle.i \in Paginas /\ bucle'.i = bucle.i + 1
        /\ \E m \in FramesLibres : AsignarPagina(bucle.pid, bucle.i, m)
    BY <1>12, VueltaDeResize
  <2>2. PICK p \in Pids : p = bucle.pid
    BY <2>1
  <2>3. PICK n \in Paginas : n = bucle.i
    BY <2>1
  <2>4. Validas(p)' = Validas(p) \cup {n} /\ \A q \in Pids \ {p} : Validas(q)' = Validas(q)
    <3>1. PICK m \in NumerosMarco : tabla' = [tabla EXCEPT ![p][n] = m]
      BY <2>1, <2>2, <2>3 DEF AsignarPagina, FramesLibres
    <3> QED
      BY <1>0, <3>1, TablaMas
  <2>5. p # 0 /\ Validas(p) = 0 .. bucle.i - 1
    BY <2>2, PaginacionNat DEF Prefijos
  <2>6. bucle.i + 1 \in 0 .. CantidadMarcos
    BY <2>1, PaginacionNat DEF Paginas
  <2>7. Validas(p)' = 0 .. (bucle.i + 1) - 1
    BY <2>1, <2>3, <2>4, <2>5
  <2>8. liberando' = liberando /\ bucle'.pid = p /\ bucle'.i = bucle.i + 1
    BY <1>12, <2>1, <2>2 DEF BucleAsigna
  <2> QED
    BY <2>4, <2>6, <2>7, <2>8 DEF Prefijos
<1>13. CASE BucleResponde
  <2>1. UNCHANGED <<tabla, liberando>> /\ bucle'.pid = 0
    BY <1>13 DEF BucleResponde, SinBucle
  <2>2. \A q : Validas(q)' = Validas(q)
    BY <2>1 DEF Validas
  <2> QED
    BY <2>1, <2>2 DEF Prefijos
<1>14. CASE MemoriaNumeroFrame \/ MemoriaMovOut \/ MemoriaMovIn \/ MemoriaCopyString
            \/ MemoriaResizeRechaza
  <2>1. UNCHANGED <<tabla, liberando, bucle>>
    BY <1>14 DEF MemoriaNumeroFrame, MemoriaMovOut, MemoriaMovIn, MemoriaCopyString,
                 MemoriaResizeRechaza
  <2> QED
    BY <2>1, PrefijosIguales
<1>15. ~ MemoriaLecturaRechaza /\ ~ MemoriaLectura /\ ~ LecturaSinMarco
  BY DEF NadieLee, MemoriaLecturaRechaza, MemoriaLectura, LecturaSinMarco, Atiende
<1> QED
  BY <1>1, <1>2, <1>3, <1>5, <1>6, <1>7, <1>8, <1>9, <1>10, <1>11, <1>12, <1>13, <1>14, <1>15
     DEF Next, PasoMemoria, HiloKernelDeMemoria, HiloCpuDeMemoria

\* Nobody changes the configuration.
LEMMA ConfigFija ==
    ASSUME [Next]_vars
    PROVE  config' = config
<1>1. CASE UNCHANGED vars
  BY <1>1, TuplasIguales
<1>2. CASE PasoMemoria
  BY <1>2
     DEF PasoMemoria, HiloKernelDeMemoria, HiloCpuDeMemoria, MemoriaNuevoProceso,
         MemoriaFinalizar, LiberarMarco, LiberarPaginaDeTabla, MemoriaFinalizado,
         MemoriaNumeroFrame, MemoriaMovOut, MemoriaMovIn, MemoriaCopyString,
         MemoriaResizeRechaza, MemoriaResize, MemoriaLecturaRechaza, MemoriaLectura, ResizeLibera, BucleAsigna, BucleResponde, LecturaSinMarco
<1>3. 1 \in Pids
  BY PaginacionAssumption DEF Pids
<1> QED
  BY <1>1, <1>2, <1>3, FueraDeMemoria DEF Next

\* When tables only grow there is one size to ask for.
LEMMA UnTamanio ==
    ASSUME TipoMarcos, SoloCrece, NEW a \in config.tamanios, NEW b \in config.tamanios
    PROVE  a = b
<1>1. config.tamanios \in SUBSET (0 .. TamMemoria + TamPagina)
  BY ConfiguracionesAssumption DEF TipoMarcos
<1>2. IsFiniteSet(0 .. TamMemoria + TamPagina)
  BY FS_Interval, PaginacionNat
<1>3. IsFiniteSet(config.tamanios)
  BY <1>1, <1>2, FS_Subset
<1>4. SUFFICES ASSUME a # b PROVE FALSE
  OBVIOUS
<1>5. Cardinality({a, b}) = 2 /\ {a, b} \subseteq config.tamanios
  <2>1. IsFiniteSet({a}) /\ Cardinality({a}) = 1
    BY FS_Singleton
  <2>2. Cardinality({a} \cup {b}) = 2
    BY <1>4, <2>1, FS_AddElement
  <2>3. {a} \cup {b} = {a, b}
    OBVIOUS
  <2> QED
    BY <2>2, <2>3
<1>6. 2 <= Cardinality(config.tamanios)
  BY <1>3, <1>5, FS_Subset
<1>7. Cardinality(config.tamanios) \in Nat
  BY <1>3, FS_CardinalityType
<1> QED
  BY <1>6, <1>7 DEF SoloCrece

\* Steps that add no page and leave the resize alone, or end it, keep Crecientes.
LEMMA CrecientesQuedan ==
    ASSUME Crecientes, config' = config,
           peticion'.tipo = "RESIZE" => peticion'.bytes \in config.tamanios,
           bucle' = bucle \/ bucle'.pid = 0,
           \A q \in Pids : Validas(q)' \subseteq Validas(q)
    PROVE  Crecientes'
<1>1. SoloCrece' = SoloCrece
  BY DEF SoloCrece
<1>2. \A b : Techo(b)' = Techo(b)
  BY DEF Techo
<1>3. CASE bucle' = bucle
  BY <1>1, <1>2, <1>3 DEF Crecientes
<1>4. CASE bucle'.pid = 0
  BY <1>1, <1>2, <1>4 DEF Crecientes
<1> QED
  BY <1>3, <1>4

\* With one size, a resize asks again for what the table has, or for more.
LEMMA CrecientesSiguen ==
    ASSUME Inductivo, Inductivo', NadieLee, Prefijos, Crecientes, [Next]_vars
    PROVE  Crecientes'
<1>0. TipoMarcos /\ TipoMarcos' /\ TipoMensajes /\ config' = config
  BY ConfigFija DEF Inductivo, Tipos
<1>1. peticion.tipo = "RESIZE" => peticion.bytes \in config.tamanios
  BY DEF Crecientes
<1>2. ASSUME UNCHANGED tabla
      PROVE  \A q : Validas(q)' = Validas(q)
  BY <1>2 DEF Validas
<1>3. ASSUME UNCHANGED <<tabla, bucle>>,
             UNCHANGED peticion \/ peticion'.tipo # "RESIZE"
                                \/ peticion'.bytes \in config.tamanios
      PROVE  Crecientes'
  BY <1>0, <1>1, <1>2, <1>3, CrecientesQuedan
<1>4. CASE UNCHANGED vars
  BY <1>3, <1>4, TuplasIguales
<1>5. ASSUME NEW p \in Pids, PasoKernel(p)
      PROVE  Crecientes'
  <2>1. UNCHANGED peticion
    BY <1>5 DEF PasoKernel, KernelCrea, KernelDespacha, CpuDevuelve, CpuExit, KernelMata, varsMarcos
  <2> QED
    BY <1>3, <1>5, <2>1, FueraDeMemoria
<1>6. ASSUME NEW p \in Pids, PasoInstruccion(p)
      PROVE  Crecientes'
  <2>1. \/ UNCHANGED peticion
        \/ peticion'.bytes \in config.tamanios
        \/ peticion'.tipo # "RESIZE"
    <3>1. ASSUME NEW bytes \in config.tamanios, CpuResize(p, bytes)
          PROVE  peticion'.bytes \in config.tamanios
      BY <3>1 DEF CpuResize, NoPeticion
    <3>2. ASSUME NEW logica, NEW bytes, CpuStdinRead(p, logica, bytes)
          PROVE  peticion'.tipo # "RESIZE"
      BY <3>2 DEF CpuStdinRead, NoPeticion
    <3> QED
      BY <1>6, <3>1, <3>2 DEF PasoInstruccion, CpuMov, CpuCopyString, varsMarcos
  <2> QED
    BY <1>3, <1>6, <2>1, FueraDeMemoria
<1>7. 1 \in Pids
  BY PaginacionAssumption DEF Pids
<1>8. CASE PasoRespuesta
  <2>1. UNCHANGED peticion
    BY <1>8 DEF PasoRespuesta, CpuNumeroFrame, CpuMovListo, CpuResizeOCopia, CpuStdinAsignado
  <2> QED
    BY <1>3, <1>7, <1>8, <2>1, FueraDeMemoria
<1>9. CASE PasoMmu
  <2>1. ASSUME NEW m, MmuEnvia(m)
        PROVE  UNCHANGED peticion \/ peticion'.tipo # "RESIZE"
    BY <2>1, MmuEnviaHace DEF Inductivo
  <2>2. UNCHANGED peticion \/ peticion'.tipo # "RESIZE"
    BY <1>9, <2>1 DEF PasoMmu, MmuAcierto, MmuFallo, MmuConFrame, MmuSinFrame, NoPeticion
  <2> QED
    BY <1>3, <1>7, <1>9, <2>2, FueraDeMemoria
<1>10. CASE PasoMemoria
  <2>1. ASSUME UNCHANGED <<peticion, bucle>>, \A q \in Pids : Validas(q)' \subseteq Validas(q)
        PROVE  Crecientes'
    BY <1>0, <1>1, <2>1, CrecientesQuedan
  <2>2. CASE MemoriaNuevoProceso
    <3>1. tabla' = [tabla EXCEPT ![Cabeza.pid] = [n \in Paginas |-> Invalida]]
      BY <2>2 DEF MemoriaNuevoProceso
    <3>2. \A q \in Pids : Validas(q)' \subseteq Validas(q)
      BY <1>0, <3>1 DEF TipoMarcos, Validas
    <3> QED
      BY <2>1, <2>2, <3>2 DEF MemoriaNuevoProceso
  <2>3. CASE LiberarPaginaDeTabla
    <3>1. \A q \in Pids : Validas(q)' \subseteq Validas(q)
      BY <1>0, <2>3 DEF LiberarPaginaDeTabla, LiberarPagina, TipoMarcos, Validas
    <3> QED
      BY <2>1, <2>3, <3>1 DEF LiberarPaginaDeTabla
  <2>4. CASE MemoriaFinalizar \/ LiberarMarco \/ MemoriaFinalizado
    BY <1>3, <2>4 DEF MemoriaFinalizar, LiberarMarco, MemoriaFinalizado
  <2>5. ASSUME NEW tipo, NEW m, NEW b, NEW r, Responder(tipo, m, b, r), UNCHANGED tabla,
               bucle' = bucle \/ bucle'.pid = 0
        PROVE  Crecientes'
    <3>1. peticion'.tipo # "RESIZE"
      BY <2>5 DEF Responder, NoPeticion
    <3> QED
      BY <1>0, <1>2, <2>5, <3>1, CrecientesQuedan
  <2>6. CASE MemoriaNumeroFrame \/ MemoriaMovOut \/ MemoriaMovIn \/ MemoriaCopyString
             \/ MemoriaResizeRechaza
    BY <2>5, <2>6 DEF MemoriaNumeroFrame, MemoriaMovOut, MemoriaMovIn, MemoriaCopyString,
                      MemoriaResizeRechaza
  <2>7. CASE BucleResponde
    BY <2>5, <2>7 DEF BucleResponde, SinBucle
  <2>8. CASE MemoriaResize
    <3>1. /\ peticion.tipo = "RESIZE" /\ UNCHANGED <<tabla, peticion>>
          /\ bucle'.bytes = peticion.bytes /\ bucle'.hasta = Techo(peticion.bytes)
          /\ bucle'.pid = peticion.pid /\ bucle'.i = FramesOcupados(peticion.pid)
      BY <2>8 DEF MemoriaResize, Atiende
    <3>2. PICK p \in Pids : p = peticion.pid /\ p # liberando.pid
      BY <3>1, BucleDelCpu DEF TiposBucle
    <3>3. PICK c \in 0 .. CantidadMarcos : Validas(p) = 0 .. c - 1
      BY <3>2 DEF Prefijos
    <3>4. bucle'.i = c
      <4>1. FramesOcupados(p) = c
        BY <3>3, FS_Interval, PaginacionNat DEF FramesOcupados
      <4> QED
        BY <3>1, <3>2, <4>1
    <3>5. PICK t : t = Techo(peticion.bytes)
      OBVIOUS
    <3>6. t \in Nat
      <4>1. t = bucle'.hasta /\ bucle'.hasta \in 0 .. CantidadMarcos
        BY <2>8, <3>1, <3>5 DEF MemoriaResize, Inductivo, TipoBucle
      <4> QED
        BY <4>1, PaginacionNat
    <3>7. ASSUME SoloCrece
          PROVE  c <= t
      <4>1. CASE c = 0
        BY <3>6, <4>1
      <4>2. CASE c # 0
        <5>1. c - 1 \in Validas(p)
          BY <3>3, <4>2, PaginacionNat
        <5>2. PICK b \in config.tamanios : c - 1 < Techo(b)
          BY <3>2, <3>7, <5>1 DEF Crecientes
        <5>3. b = peticion.bytes
          BY <1>0, <1>1, <3>1, <3>7, UnTamanio
        <5> QED
          BY <3>3, <3>5, <3>6, <5>2, <5>3, PaginacionNat
      <4> QED
        BY <4>1, <4>2
    <3>8. /\ bucle'.bytes \in config'.tamanios
          /\ bucle'.hasta = Techo(peticion.bytes)
          /\ SoloCrece => bucle'.i <= bucle'.hasta
      BY <1>0, <1>1, <3>1, <3>4, <3>5, <3>7
    <3>9. SoloCrece' = SoloCrece /\ \A q : Validas(q)' = Validas(q)
      BY <1>0, <1>2, <3>1 DEF SoloCrece
    <3>10. \A b : Techo(b)' = Techo(b)
      BY DEF Techo
    <3> QED
      BY <1>0, <1>1, <3>1, <3>8, <3>9, <3>10 DEF Crecientes
  <2>9. CASE ResizeLibera
    <3>1. /\ bucle'.hasta = bucle.hasta /\ bucle'.bytes = bucle.bytes
          /\ bucle'.pid = bucle.pid /\ bucle.pid # 0 /\ UNCHANGED peticion
          /\ bucle.i > bucle.hasta /\ bucle.i \in Nat /\ bucle.hasta \in Nat
      BY <2>9, VueltaDeResize, PaginacionNat DEF ResizeLibera
    <3>2. ~ SoloCrece
      BY <3>1 DEF Crecientes
    <3>3. SoloCrece' = SoloCrece /\ Techo(bucle.bytes)' = Techo(bucle'.bytes)
      BY <1>0, <3>1 DEF SoloCrece, Techo
    <3> QED
      BY <1>0, <1>1, <3>1, <3>2, <3>3 DEF Crecientes, Techo
  <2>10. CASE BucleAsigna
    <3>1. /\ bucle'.hasta = bucle.hasta /\ bucle'.bytes = bucle.bytes
          /\ bucle'.pid = bucle.pid /\ bucle.pid \in Pids /\ UNCHANGED peticion
          /\ bucle.i < bucle.hasta /\ bucle.i \in Nat /\ bucle.hasta \in Nat
          /\ bucle.i \in Paginas /\ bucle'.i = bucle.i + 1 /\ bucle.pid # 0
          /\ \E m \in FramesLibres : AsignarPagina(bucle.pid, bucle.i, m)
      BY <2>10, VueltaDeResize, PaginacionNat DEF BucleAsigna
    <3>2. PICK p \in Pids : p = bucle.pid
      BY <3>1
    <3>3. PICK n \in Paginas : n = bucle.i
      BY <3>1
    <3>4. PICK m \in NumerosMarco : tabla' = [tabla EXCEPT ![p][n] = m]
      BY <3>1, <3>2, <3>3 DEF AsignarPagina, FramesLibres
    <3>5. Validas(p)' = Validas(p) \cup {n} /\ \A q \in Pids \ {p} : Validas(q)' = Validas(q)
      BY <1>0, <3>4, TablaMas
    <3>6. /\ bucle.bytes \in config.tamanios /\ n < Techo(bucle.bytes)
          /\ bucle.hasta = Techo(bucle.bytes)
      BY <3>1, <3>3 DEF Crecientes
    <3>7. SoloCrece' = SoloCrece /\ \A b : Techo(b)' = Techo(b)
      BY <1>0 DEF SoloCrece, Techo
    <3>8. ASSUME SoloCrece, NEW q \in Pids, NEW o \in Validas(q)'
          PROVE  \E b \in config.tamanios : o < Techo(b)
      <4>1. CASE q = p /\ o = n
        BY <3>6, <4>1
      <4>2. CASE ~ (q = p /\ o = n)
        <5>1. o \in Validas(q)
          BY <3>5, <3>8, <4>2
        <5> QED
          BY <3>8, <5>1 DEF Crecientes
      <4> QED
        BY <4>1, <4>2
    <3>9. bucle'.i <= bucle'.hasta
      BY <3>1
    <3>10. /\ peticion'.tipo = "RESIZE" => peticion'.bytes \in config'.tamanios
           /\ bucle'.bytes \in config'.tamanios /\ bucle'.hasta = Techo(bucle.bytes)
      BY <1>0, <1>1, <3>1, <3>6
    <3> QED
      BY <1>0, <3>1, <3>7, <3>8, <3>9, <3>10 DEF Crecientes
  <2>11. ~ MemoriaLecturaRechaza /\ ~ MemoriaLectura /\ ~ LecturaSinMarco
    BY DEF NadieLee, MemoriaLecturaRechaza, MemoriaLectura, LecturaSinMarco, Atiende
  <2> QED
    BY <1>10, <2>2, <2>3, <2>4, <2>6, <2>7, <2>8, <2>9, <2>10, <2>11
       DEF PasoMemoria, HiloKernelDeMemoria, HiloCpuDeMemoria
<1> QED
  BY <1>4, <1>5, <1>6, <1>8, <1>9, <1>10 DEF Next

\* Without programs that read from an interface, memoria is not asked to.
LEMMA NadieLeeSigue ==
    ASSUME Inductivo, SinLecturas, NadieLee, [Next]_vars
    PROVE  NadieLee'
<1>1. CASE UNCHANGED vars
  BY <1>1, TuplasIguales DEF NadieLee
<1>2. ASSUME NEW p \in Pids, PasoKernel(p)
      PROVE  NadieLee'
  BY <1>2 DEF NadieLee, PasoKernel, KernelCrea, KernelDespacha, CpuDevuelve, CpuExit, KernelMata,
              varsMarcos
<1>3. ASSUME NEW p \in Pids, PasoInstruccion(p)
      PROVE  NadieLee'
  BY <1>3 DEF NadieLee, SinLecturas, PasoInstruccion, CpuMov, CpuCopyString, CpuResize,
              NoPeticion, varsMarcos
<1>4. CASE PasoRespuesta
  BY <1>4 DEF NadieLee, PasoRespuesta, CpuNumeroFrame, CpuMovListo, CpuResizeOCopia,
              CpuStdinAsignado
<1>5. CASE PasoMmu
  BY <1>5, MmuEnviaHace
     DEF NadieLee, PasoMmu, MmuAcierto, MmuFallo, MmuConFrame, MmuSinFrame, NoPeticion, Inductivo
<1>6. CASE HiloKernelDeMemoria
  BY <1>6 DEF NadieLee, HiloKernelDeMemoria, MemoriaNuevoProceso, MemoriaFinalizar, LiberarMarco,
              LiberarPaginaDeTabla, MemoriaFinalizado
<1>7. CASE HiloCpuDeMemoria
  BY <1>7 DEF NadieLee, HiloCpuDeMemoria, MemoriaNumeroFrame, MemoriaMovOut, MemoriaMovIn,
              MemoriaCopyString, MemoriaResizeRechaza, MemoriaResize, MemoriaLecturaRechaza,
              MemoriaLectura, ResizeLibera, BucleAsigna, BucleResponde, LecturaSinMarco,
              Responder, NoPeticion, Atiende
<1> QED
  BY <1>1, <1>2, <1>3, <1>4, <1>5, <1>6, <1>7 DEF Next, PasoMemoria

\* Every step keeps what the tables are without IO_STDIN_READ.
LEMMA SoloResizeSigue ==
    ASSUME Inductivo, Inductivo', Altas, SoloResize, [Next]_vars
    PROVE  SoloResize'
<1>1. SinLecturas' = SinLecturas
  BY ConfigFija DEF SinLecturas
<1>2. ASSUME SinLecturas
      PROVE  NadieLee' /\ Prefijos' /\ Crecientes'
  BY <1>2, NadieLeeSigue, PrefijosSiguen, CrecientesSiguen DEF SoloResize
<1> QED
  BY <1>1, <1>2 DEF SoloResize

\* A process memoria has read of stays so.
LEMMA ConocidosQuedan ==
    ASSUME Inductivo, Altas, [Next]_vars
    PROVE  \A q \in Pids : Conocido(q) => Conocido(q)'
<1>0. TipoMensajes /\ Unicas /\ estado \in Estados
  BY DEF Inductivo, Tipos, TipoCpu, Estados, Altas
<1>1. ASSUME UNCHANGED a_memoria \/ \E r \in Pids : Finaliza(r),
             \A q \in Pids : estado[q] # "SIN_CREAR" => estado'[q] # "SIN_CREAR"
      PROVE  \A q \in Pids : Conocido(q) => Conocido(q)'
  <2>1. CASE UNCHANGED a_memoria
    BY <1>1, <2>1 DEF Conocido, AltaEnCamino
  <2>2. ASSUME NEW r \in Pids, Finaliza(r)
        PROVE  \A q \in Pids : Conocido(q) => Conocido(q)'
    <3> DEFINE m == [tipo |-> "FINALIZAR_PROCESO", pid |-> r]
    <3>1. m \in DelKernel /\ m.tipo = "FINALIZAR_PROCESO" /\ a_memoria' = Append(a_memoria, m)
      BY <2>2 DEF DelKernel, Finaliza
    <3> HIDE DEF m
    <3>2. \A q \in Pids : AltaEnCamino(q)' => AltaEnCamino(q)
      BY <1>0, <3>1, AltasConFin
    <3> QED
      BY <1>1, <3>2 DEF Conocido
  <2> QED
    BY <1>1, <2>1, <2>2
<1>2. CASE UNCHANGED vars
  BY <1>1, <1>2, TuplasIguales
<1>3. ASSUME NEW p \in Pids, PasoKernel(p)
      PROVE  \A q \in Pids : Conocido(q) => Conocido(q)'
  <2>1. CASE KernelCrea(p)
    <3>1. /\ estado[p] = "SIN_CREAR" /\ estado' = [estado EXCEPT ![p] = "READY"]
          /\ a_memoria' = Append(a_memoria, [tipo |-> "NUEVO_PROCESO", pid |-> p])
      BY <2>1 DEF KernelCrea
    <3>2. ~ AltaEnCamino(p)
      BY <3>1 DEF Altas
    <3>3. \A q \in Pids : AltaEnCamino(q)' => AltaEnCamino(q) \/ q = p
      BY <1>0, <3>1, <3>2, AltasConAlta
    <3>4. \A q \in Pids : estado'[q] = IF q = p THEN "READY" ELSE estado[q]
      BY <1>0, <3>1 DEF Estados
    <3> QED
      BY <3>1, <3>3, <3>4 DEF Conocido
  <2>2. CASE KernelDespacha(p) \/ CpuDevuelve(p) \/ CpuExit(p) \/ KernelMata(p)
    <3>1. UNCHANGED a_memoria \/ Finaliza(p)
      BY <2>2 DEF KernelDespacha, CpuDevuelve, CpuExit, KernelMata, varsMarcos
    <3> QED
      BY <1>1, <2>2, <3>1, EstadosSiguen
  <2> QED
    BY <1>3, <2>1, <2>2 DEF PasoKernel
<1>4. ASSUME NEW p \in Pids, PasoInstruccion(p)
      PROVE  \A q \in Pids : Conocido(q) => Conocido(q)'
  <2>1. UNCHANGED a_memoria
    BY <1>4 DEF PasoInstruccion, CpuMov, CpuCopyString, CpuResize, CpuStdinRead, varsMarcos
  <2> QED
    BY <1>1, <1>4, <2>1, EstadosSiguen
<1>5. 1 \in Pids
  BY PaginacionAssumption DEF Pids
<1>6. CASE PasoRespuesta
  <2>1. UNCHANGED a_memoria \/ Finaliza(cpu.pid)
    BY <1>6 DEF PasoRespuesta, CpuNumeroFrame, CpuMovListo, CpuResizeOCopia, CpuStdinAsignado
  <2>2. cpu.pid \in Pids
    BY <1>6, OcupadaPid
       DEF PasoRespuesta, CpuNumeroFrame, CpuMovListo, CpuResizeOCopia, CpuStdinAsignado, Recibe, Inductivo,
           Protocolo, Fases, FaseOciosa, FaseMemoria, FaseOrden, FasePregunta, FaseFrame,
           SinMensajes, EnCamino
  <2> QED
    BY <1>1, <1>5, <1>6, <2>1, <2>2, EstadosSiguen
<1>7. CASE PasoMmu
  <2>1. UNCHANGED a_memoria
    BY <1>7 DEF PasoMmu, MmuAcierto, MmuFallo, MmuConFrame, MmuSinFrame, RestoMmu
  <2> QED
    BY <1>1, <1>5, <1>7, <2>1, EstadosSiguen
<1>8. CASE PasoMemoria
  <2>0. \A q \in Pids : estado[q] # "SIN_CREAR" => estado'[q] # "SIN_CREAR"
    BY <1>5, <1>8, EstadosSiguen
  <2>1. CASE MemoriaNuevoProceso \/ MemoriaFinalizar
    <3>1. a_memoria # << >> /\ a_memoria' = Tail(a_memoria)
      BY <2>1 DEF MemoriaNuevoProceso, MemoriaFinalizar, HiloKernelLibre
    <3>2. \A q \in Pids : AltaEnCamino(q)' => AltaEnCamino(q)
      BY <1>0, <3>1, AltasLeidas
    <3> QED
      BY <2>0, <3>2 DEF Conocido
  <2>2. CASE LiberarMarco \/ LiberarPaginaDeTabla \/ MemoriaFinalizado
    BY <1>1, <2>0, <2>2 DEF LiberarMarco, LiberarPaginaDeTabla, MemoriaFinalizado
  <2>3. CASE HiloCpuDeMemoria
    <3>1. UNCHANGED a_memoria
      BY <2>3 DEF HiloCpuDeMemoria, MemoriaNumeroFrame, MemoriaMovOut, MemoriaMovIn,
                  MemoriaCopyString, MemoriaResizeRechaza, MemoriaResize, MemoriaLecturaRechaza,
                  MemoriaLectura, ResizeLibera, BucleAsigna, BucleResponde,
                  LecturaSinMarco
    <3> QED
      BY <1>1, <2>0, <3>1
  <2> QED
    BY <1>8, <2>1, <2>2, <2>3 DEF PasoMemoria, HiloKernelDeMemoria
<1> QED
  BY <1>2, <1>3, <1>4, <1>6, <1>7, <1>8 DEF Next

\* Two TLBs that differ at most in their seconds.
MismasEntradas(u, t) ==
    \A j \in Entradas :
        u[j].pid = t[j].pid /\ u[j].pagina = t[j].pagina /\ u[j].marco = t[j].marco

\* Counting an access changes no entry.
LEMMA AccesosMismas ==
    ASSUME NEW t \in TablaTlb, NEW i \in Entradas, NEW u \in Accesos(t, i)
    PROVE  MismasEntradas(u, t)
<1>1. CASE u = t
  BY <1>1 DEF MismasEntradas
<1>2. ASSUME NEW h, u = Ordenar([t EXCEPT ![i].ultimo_acceso = h])
      PROVE  MismasEntradas(u, t)
  <2> DEFINE v == [t EXCEPT ![i].ultimo_acceso = h]
  <2>1. \A j \in Entradas : /\ v[j].pid = t[j].pid /\ v[j].pagina = t[j].pagina
                            /\ v[j].marco = t[j].marco
    BY DEF TablaTlb
  <2>2. /\ DOMAIN v = Entradas
        /\ \A j \in Entradas : v[j] = IF j = i THEN [t[i] EXCEPT !.ultimo_acceso = h] ELSE t[j]
    BY DEF TablaTlb
  <2> HIDE DEF v
  <2>3. PICK f : \A j \in DOMAIN v : u[j] = [v[j] EXCEPT !.ultimo_acceso = f[j]]
    <3>1. u = Ordenar(v)
      BY <1>2 DEF v
    <3> DEFINE g == [j \in DOMAIN v |-> Cardinality({y \in {v[l].ultimo_acceso : l \in DOMAIN v} :
                                                        y < v[j].ultimo_acceso})]
    <3>2. \A j \in DOMAIN v : u[j] = [v[j] EXCEPT !.ultimo_acceso = g[j]]
      BY <3>1 DEF Ordenar
    <3> HIDE DEF g
    <3> QED
      BY <3>2
  <2>4. ASSUME NEW j \in Entradas
        PROVE  u[j].pid = v[j].pid /\ u[j].pagina = v[j].pagina /\ u[j].marco = v[j].marco
    <3>1. u[j] = [v[j] EXCEPT !.ultimo_acceso = f[j]]
      BY <2>2, <2>3
    <3>2. PICK r \in [pid : Pids \cup {0}, pagina : Nat,
                      marco : NumerosMarco \cup {Invalida}, ultimo_acceso : Nat] :
             v[j] = r \/ v[j] = [r EXCEPT !.ultimo_acceso = h]
      BY <2>2 DEF TablaTlb
    <3> QED
      BY <3>1, <3>2
  <2> QED
    BY <2>1, <2>4 DEF MismasEntradas
<1>3. u = t \/ \E h \in 0 .. config.entradas :
                  u = Ordenar([t EXCEPT ![i].ultimo_acceso = h])
  BY Zenon DEF Accesos
<1> QED
  BY <1>1, <1>2, <1>3

\* A translation that is learnt changes one entry.
LEMMA AgregarEnTlbHace ==
    ASSUME TipoMarcos, TipoTlb, config.entradas # 0,
           NEW p \in Pids \cup {0}, NEW n \in Nat, NEW m \in NumerosMarco \cup {Invalida},
           AgregarEnTlb(p, n, m)
    PROVE  \A j \in Entradas :
              \/ tlb'[j].pid = p /\ tlb'[j].pagina = n /\ tlb'[j].marco = m
              \/ /\ tlb'[j].pid = tlb[j].pid /\ tlb'[j].pagina = tlb[j].pagina
                 /\ tlb'[j].marco = tlb[j].marco
<1>1. config.entradas \in Nat /\ config.entradas > 0
  BY ArgumentosNat
<1>2. /\ tlb \in TablaTlb /\ proximo_indice_reemplazo \in Nat
      /\ proximo_indice_reemplazo < config.entradas
  BY <1>1 DEF TipoTlb, TablaTlb
<1>3. PICK i \in IF Primeras(EntradasVacias) # {} THEN Primeras(EntradasVacias) ELSE Reemplazo :
         tlb' \in Accesos(ConEntrada(i, p, n, m), i)
  BY DEF AgregarEnTlb
<1>4. i \in Entradas
  BY <1>1, <1>2, <1>3 DEF Primeras, EntradasVacias, Reemplazo, Entradas
<1> DEFINE t == ConEntrada(i, p, n, m)
<1>5. /\ t \in TablaTlb
      /\ t[i].pid = p /\ t[i].pagina = n /\ t[i].marco = m
      /\ \A j \in Entradas \ {i} : t[j] = tlb[j]
  BY <1>2, <1>4 DEF ConEntrada, TablaTlb
<1>6. tlb' \in Accesos(t, i)
  BY <1>3
<1> HIDE DEF t
<1>7. MismasEntradas(tlb', t)
  BY <1>4, <1>5, <1>6, AccesosMismas
<1> QED
  BY <1>5, <1>7 DEF MismasEntradas

\* The entries stay and so do the tables of the processes that live.
LEMMA TlbQueda ==
    ASSUME TlbAlDia, config' = config, MismasEntradas(tlb', tlb),
           procesos' \ {liberando'.pid} \subseteq procesos \ {liberando.pid},
           \A p \in procesos \ {liberando.pid} : \A n : AccederPagina(p, n)' = AccederPagina(p, n)
    PROVE  TlbAlDia'
<1>1. /\ SoloCrece' = SoloCrece /\ SinLecturas' = SinLecturas
      /\ Entradas' = Entradas
  BY DEF SoloCrece, SinLecturas, Entradas
<1>2. ASSUME SoloCrece, SinLecturas, NEW i \in Entradas, tlb'[i].pid \in procesos' \ {liberando'.pid}
      PROVE  tlb'[i].marco = AccederPagina(tlb[i].pid, tlb[i].pagina)'
  <2>1. PICK p, n : p = tlb[i].pid /\ n = tlb[i].pagina
    OBVIOUS
  <2>2. /\ tlb'[i].pid = p /\ tlb'[i].pagina = n /\ tlb'[i].marco = tlb[i].marco
        /\ p \in procesos \ {liberando.pid}
    BY <1>2, <2>1 DEF MismasEntradas
  <2>3. tlb[i].marco = AccederPagina(p, n)
    BY <1>2, <2>1, <2>2 DEF TlbAlDia
  <2>4. AccederPagina(p, n)' = AccederPagina(p, n)
    BY <2>2
  <2>5. AccederPagina(tlb[i].pid, tlb[i].pagina)' = AccederPagina(p, n)'
    BY <2>2
  <2> QED
    BY <2>2, <2>3, <2>4, <2>5
<1> QED
  BY <1>1, <1>2 DEF TlbAlDia

\* A table that stays translates as it did.
LEMMA AccederIgual ==
    ASSUME NEW p, tabla'[p] = tabla[p]
    PROVE  \A n : AccederPagina(p, n)' = AccederPagina(p, n)
  BY DEF AccederPagina, Validas

\* The answer with a frame is for the process in the CPU, and is its table's.
LEMMA RespuestaDeFrame ==
    ASSUME Inductivo, Altas, Traduciendo, respuesta.tipo = "NUMERO_FRAME"
    PROVE  /\ FasePregunta /\ peticion.tipo = "NADA" /\ bucle.pid = 0
           /\ respuesta.pid = cpu.pid /\ respuesta.pagina = Pagina
           /\ respuesta.resultado => /\ respuesta.marco = AccederPagina(cpu.pid, Pagina)
                                     /\ respuesta.marco \in NumerosMarco
           /\ cpu.pid \in procesos \ {liberando.pid}
<1>1. FasePregunta /\ peticion.tipo = "NADA"
  BY DEF Inductivo, Protocolo, Fases, FaseOciosa, FaseMemoria, FaseOrden, FasePregunta, FaseFrame,
         SinMensajes, EnCamino, TiposPedido
<1>2. cpu.pid \in Pids /\ estado[cpu.pid] = "EXEC"
  BY <1>1, OcupadaPid DEF FasePregunta
<1>3. bucle.pid = 0
  BY BucleDelCpu
<1>4. cpu.pid \in procesos \ {liberando.pid}
  BY <1>2, PaginacionNat DEF Altas, Inductivo, Finalizados
<1>5. respuesta.marco \in NumerosMarco \cup {Invalida}
  BY DEF Inductivo, Tipos, TipoMensajes, Respuesta
<1> QED
  BY <1>1, <1>3, <1>4, <1>5 DEF Traduciendo

\* The TLB stays that of the tables: what is added has just been answered, and a page
\* that has a frame keeps it.
LEMMA TlbSigue ==
    ASSUME Inductivo, Inductivo', Altas, SoloResize, TlbConocida, TlbAlDia, Traduciendo,
           [Next]_vars
    PROVE  TlbConocida' /\ TlbAlDia'
<1>0. /\ TipoMarcos /\ TipoMensajes /\ TipoTlb /\ config' = config /\ Entradas' = Entradas
      /\ SoloCrece' = SoloCrece /\ SinLecturas' = SinLecturas
      /\ tlb \in TablaTlb /\ procesos \subseteq Pids
  BY ConfigFija
     DEF Inductivo, Tipos, TipoMarcos, TipoTlb, Entradas, SoloCrece, SinLecturas, TablaTlb
<1>1. \A q \in Pids : Conocido(q) => Conocido(q)'
  BY ConocidosQuedan
<1>2. \A i \in Entradas : tlb[i].pid \in Pids \cup {0}
  BY <1>0 DEF TablaTlb
<1>3. ASSUME MismasEntradas(tlb', tlb)
      PROVE  TlbConocida'
  BY <1>0, <1>1, <1>2, <1>3 DEF TlbConocida, MismasEntradas
<1>4. MismasEntradas(tlb, tlb)
  BY DEF MismasEntradas
<1>5. ASSUME MismasEntradas(tlb', tlb), UNCHANGED <<tabla, procesos, liberando>>
      PROVE  TlbConocida' /\ TlbAlDia'
  BY <1>0, <1>3, <1>5, AccederIgual, TlbQueda
<1>6. CASE UNCHANGED vars
  BY <1>4, <1>5, <1>6, TuplasIguales
<1>7. ASSUME NEW p \in Pids, PasoKernel(p) \/ PasoInstruccion(p)
      PROVE  TlbConocida' /\ TlbAlDia'
  <2>1. UNCHANGED tlb
    BY <1>7 DEF PasoKernel, KernelCrea, KernelDespacha, CpuDevuelve, CpuExit, KernelMata, varsCpu,
                PasoInstruccion, CpuMov, CpuCopyString, CpuResize, CpuStdinRead
  <2> QED
    BY <1>4, <1>5, <1>7, <2>1, FueraDeMemoria
<1>8. 1 \in Pids
  BY PaginacionAssumption DEF Pids
<1>9. CASE PasoRespuesta
  <2>1. UNCHANGED <<tabla, procesos, liberando>>
    BY <1>8, <1>9, FueraDeMemoria
  <2>2. CASE UNCHANGED tlb
    BY <1>4, <1>5, <2>1, <2>2
  <2>3. CASE CpuNumeroFrame /\ respuesta.resultado /\ config.entradas # 0
    <3>1. /\ respuesta.tipo = "NUMERO_FRAME"
          /\ AgregarEnTlb(respuesta.pid, respuesta.pagina, respuesta.marco)
      BY <2>3 DEF CpuNumeroFrame, Recibe
    <3>2. PICK p \in procesos, n \in Nat, m \in NumerosMarco :
             /\ p = respuesta.pid /\ n = respuesta.pagina /\ m = respuesta.marco
             /\ m = AccederPagina(p, n) /\ p # liberando.pid
      BY <1>0, <2>3, <3>1, RespuestaDeFrame DEF TipoMensajes, Respuesta
    <3>3. /\ p \in Pids \cup {0} /\ m \in NumerosMarco \cup {Invalida}
          /\ AgregarEnTlb(p, n, m) /\ m # Invalida
      BY <1>0, <3>1, <3>2, PaginacionNat DEF NumerosMarco, Invalida
    <3>4. \A j \in Entradas :
             \/ tlb'[j].pid = p /\ tlb'[j].pagina = n /\ tlb'[j].marco = m
             \/ /\ tlb'[j].pid = tlb[j].pid /\ tlb'[j].pagina = tlb[j].pagina
                /\ tlb'[j].marco = tlb[j].marco
      BY <1>0, <2>3, <3>3, AgregarEnTlbHace
    <3>5. Conocido(p) /\ p \in Pids
      BY <1>0 DEF Altas
    <3>6. TlbConocida'
      BY <1>0, <1>1, <1>2, <3>3, <3>4, <3>5 DEF TlbConocida
    <3>7. \A q, o : AccederPagina(q, o)' = AccederPagina(q, o)
      BY <2>1 DEF AccederPagina, Validas
    <3>8. ASSUME SoloCrece, SinLecturas, NEW j \in Entradas,
                 tlb'[j].pid \in procesos \ {liberando.pid}
          PROVE  tlb'[j].marco = AccederPagina(tlb'[j].pid, tlb'[j].pagina)
      <4>1. CASE tlb'[j].pid = p /\ tlb'[j].pagina = n /\ tlb'[j].marco = m
        BY <3>2, <4>1
      <4>2. CASE /\ tlb'[j].pid = tlb[j].pid /\ tlb'[j].pagina = tlb[j].pagina
                 /\ tlb'[j].marco = tlb[j].marco
        BY <3>8, <4>2 DEF TlbAlDia
      <4> QED
        BY <3>4, <4>1, <4>2
    <3>9. \A j \in Entradas :
             AccederPagina(tlb[j].pid, tlb[j].pagina)' = AccederPagina(tlb'[j].pid, tlb'[j].pagina)
      BY <2>1 DEF AccederPagina, Validas
    <3>10. TlbAlDia'
      BY <1>0, <2>1, <3>8, <3>9 DEF TlbAlDia
    <3> QED
      BY <3>6, <3>10
  <2> QED
    BY <1>9, <2>2, <2>3 DEF PasoRespuesta, CpuNumeroFrame, CpuMovListo, CpuResizeOCopia, CpuStdinAsignado
<1>10. CASE PasoMmu
  <2>1. UNCHANGED <<tabla, procesos, liberando>>
    BY <1>8, <1>10, FueraDeMemoria
  <2>2. UNCHANGED tlb \/ \E i \in EntradaEnTlb(cpu.pid, Pagina) : tlb' \in Accesos(tlb, i)
    BY <1>10 DEF PasoMmu, MmuAcierto, MmuFallo, MmuConFrame, MmuSinFrame
  <2>3. MismasEntradas(tlb', tlb)
    <3>1. ASSUME NEW i \in EntradaEnTlb(cpu.pid, Pagina), tlb' \in Accesos(tlb, i)
          PROVE  MismasEntradas(tlb', tlb)
      <4>1. i \in Entradas
        BY DEF EntradaEnTlb, Primeras, EnTlb
      <4> QED
        BY <1>0, <3>1, <4>1, AccesosMismas
    <3> QED
      BY <1>4, <2>2, <3>1
  <2> QED
    BY <1>5, <2>1, <2>3
<1>11. CASE PasoMemoria
  <2>0. MismasEntradas(tlb', tlb) /\ TlbConocida' /\ UNCHANGED tlb
    BY <1>3, <1>4, <1>11 DEF PasoMemoria, varsCpu
  <2>1. CASE MemoriaNuevoProceso
    <3>1. /\ liberando.pid = 0 /\ a_memoria # << >> /\ Cabeza.tipo = "NUEVO_PROCESO"
          /\ tabla' = [tabla EXCEPT ![Cabeza.pid] = [n \in Paginas |-> Invalida]]
          /\ procesos' = procesos \cup {Cabeza.pid}
          /\ UNCHANGED liberando /\ a_memoria' = Tail(a_memoria)
      BY <2>1 DEF MemoriaNuevoProceso, HiloKernelLibre
    <3>2. PICK p \in Pids : p = Cabeza.pid
      BY <1>0, <3>1, ColaTipo DEF DelKernel
    <3>3. AltaEnCamino(p)
      BY <1>0, <3>1, <3>2, AltasLeidas DEF Altas
    <3>4. \A i \in Entradas : tlb[i].pid # p
      BY <3>2, <3>3, PaginacionNat DEF TlbConocida, Conocido
    <3>5. \A q \in Pids \ {p} : tabla'[q] = tabla[q]
      BY <1>0, <3>1, <3>2 DEF TipoMarcos
    <3>6. ASSUME SoloCrece, SinLecturas, NEW i \in Entradas,
                 tlb[i].pid \in procesos' \ {liberando.pid}
          PROVE  tlb[i].marco = AccederPagina(tlb[i].pid, tlb[i].pagina)'
      <4>1. PICK q, n : q = tlb[i].pid /\ n = tlb[i].pagina
        OBVIOUS
      <4>2. q \in procesos \ {liberando.pid} /\ q \in Pids \ {p}
        BY <1>0, <3>1, <3>2, <3>4, <3>6, <4>1
      <4>3. tlb[i].marco = AccederPagina(q, n)
        BY <3>6, <4>1, <4>2 DEF TlbAlDia
      <4>4. AccederPagina(q, n)' = AccederPagina(q, n)
        BY <3>5, <4>2, AccederIgual
      <4>5. AccederPagina(tlb[i].pid, tlb[i].pagina)' = AccederPagina(q, n)'
        BY <2>0, <4>1
      <4> QED
        BY <4>3, <4>4, <4>5
    <3>7. TlbAlDia'
      BY <1>0, <2>0, <3>1, <3>6 DEF TlbAlDia
    <3> QED
      BY <2>0, <3>7
  <2>2. CASE MemoriaFinalizar \/ LiberarMarco \/ MemoriaFinalizado
    <3>1. /\ UNCHANGED tabla
          /\ procesos' \ {liberando'.pid} \subseteq procesos \ {liberando.pid}
      <4>1. CASE MemoriaFinalizar
        BY <1>0, <4>1, PaginacionNat DEF MemoriaFinalizar, HiloKernelLibre
      <4>2. CASE LiberarMarco
        BY <1>0, <4>2 DEF LiberarMarco, TipoMarcos
      <4>3. CASE MemoriaFinalizado
        BY <4>3 DEF MemoriaFinalizado
      <4> QED
        BY <2>2, <4>1, <4>2, <4>3
    <3> QED
      BY <1>0, <2>0, <3>1, AccederIgual, TlbQueda
  <2>3. CASE LiberarPaginaDeTabla
    <3>1. /\ UNCHANGED procesos /\ liberando'.pid = liberando.pid
          /\ \A q \in Pids \ {liberando.pid} : tabla'[q] = tabla[q]
      BY <1>0, <2>3 DEF LiberarPaginaDeTabla, LiberarPagina, TipoMarcos, Validas
    <3> QED
      BY <1>0, <2>0, <3>1, AccederIgual, TlbQueda
  <2>4. CASE UNCHANGED <<tabla, procesos, liberando>>
    BY <1>5, <2>0, <2>4
  <2>8. CASE ~ SinLecturas
    BY <1>0, <2>0, <2>8 DEF TlbAlDia
  <2>5. CASE ResizeLibera /\ SinLecturas
    <3>0. NadieLee /\ Prefijos /\ Crecientes
      BY <2>5 DEF SoloResize
    <3>1. /\ bucle.i > bucle.hasta /\ bucle.pid # 0
          /\ bucle.i \in Nat /\ bucle.hasta \in Nat
      BY <2>5, <3>0, VueltaDeResize, PaginacionNat DEF ResizeLibera
    <3>2. ~ SoloCrece
      BY <3>0, <3>1 DEF Crecientes
    <3> QED
      BY <1>0, <2>0, <3>2 DEF TlbAlDia
  <2>6. CASE BucleAsigna /\ SinLecturas
    <3>0. NadieLee /\ Prefijos
      BY <2>6 DEF SoloResize
    <3>1. /\ bucle.pid \in Pids /\ bucle.i \in Paginas \ Validas(bucle.pid)
          /\ \E m \in FramesLibres : AsignarPagina(bucle.pid, bucle.i, m)
          /\ UNCHANGED <<procesos, liberando>>
      BY <2>6, <3>0, VueltaDeResize DEF BucleAsigna
    <3>2. PICK p \in Pids : p = bucle.pid
      BY <3>1
    <3>3. PICK n \in Paginas : n = bucle.i /\ n \notin Validas(p)
      BY <3>1, <3>2
    <3>4. PICK m \in NumerosMarco : tabla' = [tabla EXCEPT ![p][n] = m]
      BY <3>1, <3>2, <3>3 DEF AsignarPagina, FramesLibres
    <3>5. /\ Validas(p)' = Validas(p) \cup {n}
          /\ \A q \in Pids \ {p} : Validas(q)' = Validas(q)
          /\ \A q \in Pids : \A o \in Paginas : q # p \/ o # n => tabla'[q][o] = tabla[q][o]
      <4>1. \A q \in Pids : \A o \in Paginas : q # p \/ o # n => tabla'[q][o] = tabla[q][o]
        BY <1>0, <3>4 DEF TipoMarcos
      <4>2. Validas(p)' = Validas(p) \cup {n} /\ \A q \in Pids \ {p} : Validas(q)' = Validas(q)
        BY <1>0, <3>4, TablaMas
      <4> QED
        BY <4>1, <4>2
    <3>6. ASSUME SoloCrece, NEW i \in Entradas, tlb[i].pid \in procesos \ {liberando.pid}
          PROVE  tlb[i].marco = AccederPagina(tlb[i].pid, tlb[i].pagina)'
      <4>1. PICK q, o : q = tlb[i].pid /\ o = tlb[i].pagina
        OBVIOUS
      <4>2. q \in Pids /\ tlb[i].marco # Invalida
        BY <1>0, <3>6, <4>1, PaginacionNat DEF TlbConocida
      <4>3. tlb[i].marco = AccederPagina(q, o)
        BY <2>6, <3>6, <4>1 DEF TlbAlDia
      <4>4. o \in Validas(q) /\ tlb[i].marco = tabla[q][o]
        BY <4>2, <4>3 DEF AccederPagina
      <4>5. q # p \/ o # n
        BY <3>3, <4>4
      <4>6. o \in Validas(q)' /\ tabla'[q][o] = tabla[q][o]
        BY <3>5, <4>2, <4>4, <4>5 DEF Validas
      <4>7. AccederPagina(q, o)' = tabla[q][o]
        BY <4>6 DEF AccederPagina
      <4>8. AccederPagina(tlb[i].pid, tlb[i].pagina)' = AccederPagina(q, o)'
        BY <2>0, <4>1
      <4> QED
        BY <4>4, <4>7, <4>8
    <3>7. TlbAlDia'
      BY <1>0, <2>0, <3>1, <3>6 DEF TlbAlDia
    <3> QED
      BY <2>0, <3>7
  <2>7. CASE HiloCpuDeMemoria /\ ~ ResizeLibera /\ ~ BucleAsigna
    BY <2>4, <2>7 DEF HiloCpuDeMemoria, MemoriaNumeroFrame, MemoriaMovOut, MemoriaMovIn,
                      MemoriaCopyString, MemoriaResizeRechaza, MemoriaResize,
                      MemoriaLecturaRechaza, MemoriaLectura, BucleResponde, LecturaSinMarco
  <2> QED
    BY <1>11, <2>1, <2>2, <2>3, <2>5, <2>6, <2>7, <2>8 DEF PasoMemoria, HiloKernelDeMemoria
<1> QED
  BY <1>6, <1>7, <1>9, <1>10, <1>11 DEF Next

-----------------------------------------------------------------------------
(* Addresses                                                               *)

\* Division with remainder.
LEMMA DivisionEntera ==
    ASSUME NEW a \in Int, NEW t \in Int, t > 0
    PROVE  a \div t \in Int /\ a % t \in 0 .. t - 1 /\ a = t * (a \div t) + (a % t)
<1>1. a \div t \in Int /\ a % t \in 0 .. t - 1
  OBVIOUS
<1>2. a = t * (a \div t) + (a % t)
  OBVIOUS
<1> QED
  BY <1>1, <1>2

\* The frame of an address and its place in it.
LEMMA Direccion ==
    ASSUME NEW d \in Int
    PROVE  /\ MarcoDe(d) \in Int /\ d % TamPagina \in 0 .. TamPagina - 1
           /\ d = TamPagina * MarcoDe(d) + (d % TamPagina)
<1>1. TamPagina \in Int /\ TamPagina > 0
  BY PaginacionNat
<1> QED
  BY <1>1, DivisionEntera, Zenon DEF MarcoDe

\* The place alone.
LEMMA Resto ==
    ASSUME NEW d \in Int
    PROVE  /\ d % TamPagina \in Int /\ 0 <= d % TamPagina /\ d % TamPagina < TamPagina
           /\ TamPagina \in Int /\ TamPagina > 0
<1>1. TamPagina \in Int /\ TamPagina > 0
  BY PaginacionNat
<1> DEFINE r == d % TamPagina
<1>2. r \in 0 .. TamPagina - 1
  BY Direccion, Zenon
<1> HIDE DEF r
<1>3. r \in Int /\ 0 <= r /\ r < TamPagina
  BY <1>1, <1>2
<1> QED
  BY <1>1, <1>3 DEF r

\* They are the only ones that give the address.
LEMMA DireccionUnica ==
    ASSUME NEW d \in Int, NEW m \in Int, NEW r \in 0 .. TamPagina - 1, d = TamPagina * m + r
    PROVE  MarcoDe(d) = m /\ d % TamPagina = r
<1> DEFINE q == MarcoDe(d)
           s == d % TamPagina
<1>1. /\ q \in Int /\ s \in Int /\ 0 <= s /\ s < TamPagina /\ d = TamPagina * q + s
      /\ TamPagina \in Int /\ TamPagina > 0 /\ r \in Int /\ 0 <= r /\ r < TamPagina
  <2>1. q \in Int /\ d = TamPagina * q + s
    BY Direccion, Zenon
  <2>2. s \in Int /\ 0 <= s /\ s < TamPagina /\ TamPagina \in Int /\ TamPagina > 0
    BY Resto, Zenon
  <2> HIDE DEF q, s
  <2> QED
    BY <2>1, <2>2
<1> HIDE DEF q, s
<1>2. CASE q >= m + 1
  <2>1. TamPagina * q >= TamPagina * (m + 1)
    BY <1>1, <1>2
  <2>2. TamPagina * (m + 1) = TamPagina * m + TamPagina
    BY <1>1
  <2>3. TamPagina * q \in Int /\ TamPagina * m \in Int
    BY <1>1
  <2> QED
    BY <1>1, <2>1, <2>2, <2>3
<1>3. CASE m >= q + 1
  <2>1. TamPagina * m >= TamPagina * (q + 1)
    BY <1>1, <1>3
  <2>2. TamPagina * (q + 1) = TamPagina * q + TamPagina
    BY <1>1
  <2>3. TamPagina * q \in Int /\ TamPagina * m \in Int
    BY <1>1
  <2> QED
    BY <1>1, <2>1, <2>2, <2>3
<1>4. CASE q = m
  <2>1. TamPagina * m \in Int
    BY <1>1
  <2>2. s = r
    BY <1>1, <1>4, <2>1
  <2> QED
    BY <1>4, <2>2 DEF q, s
<1> QED
  BY <1>1, <1>2, <1>3, <1>4

\* The bytes after an address, as long as they fit in its page, are in its frame.
LEMMA MismoMarco ==
    ASSUME NEW d \in Int, NEW i \in Nat, (d % TamPagina) + i < TamPagina
    PROVE  MarcoDe(d + i) = MarcoDe(d)
<1> DEFINE m == MarcoDe(d)
           r == (d % TamPagina) + i
<1>1. m \in Int /\ d % TamPagina \in 0 .. TamPagina - 1 /\ d = TamPagina * m + (d % TamPagina)
  BY Direccion
<1>2. r \in 0 .. TamPagina - 1 /\ d + i = TamPagina * m + r /\ d + i \in Int
  <2> DEFINE a == d % TamPagina
             b == TamPagina * m
  <2>1. a \in Int /\ b \in Int /\ TamPagina \in Int /\ a >= 0 /\ d = b + a /\ r = a + i
    BY <1>1, PaginacionNat
  <2>2. a + i < TamPagina
    OBVIOUS
  <2> HIDE DEF a, b, r
  <2>3. r \in 0 .. TamPagina - 1 /\ d + i = b + r /\ d + i \in Int
    BY <2>1, <2>2
  <2> QED
    BY <2>3 DEF b
<1> HIDE DEF m, r
<1>3. MarcoDe(d + i) = m
  BY <1>1, <1>2, DireccionUnica
<1> QED
  BY <1>3 DEF m

\* What the MMU computes is in the frame it was given, at the place of the logical address.
LEMMA FisicaEnMarco ==
    ASSUME NEW m \in NumerosMarco, orden.logica \in Nat
    PROVE  /\ Fisica(m) \in Int /\ MarcoDe(Fisica(m)) = m
           /\ Fisica(m) % TamPagina = orden.logica % TamPagina
<1> DEFINE r == orden.logica % TamPagina
<1>1. m \in Int /\ r \in 0 .. TamPagina - 1 /\ TamPagina \in Int
  <2>1. orden.logica \in Int
    OBVIOUS
  <2>2. r \in Int /\ 0 <= r /\ r < TamPagina /\ TamPagina \in Int
    BY <2>1, Resto, Zenon
  <2> HIDE DEF r
  <2> QED
    BY <2>2, PaginacionNat DEF NumerosMarco
<1> HIDE DEF r
<1>2. m * TamPagina + r = TamPagina * m + r /\ m * TamPagina + r \in Int
  BY <1>1
<1>3. MarcoDe(m * TamPagina + r) = m /\ (m * TamPagina + r) % TamPagina = r
  BY <1>1, <1>2, DireccionUnica
<1> QED
  BY <1>2, <1>3 DEF Fisica, r

\* Whatever MOV_OUT writes when its first address is in a frame of the process
\* is in its frames, or nowhere.
LEMMA MovOutPropio ==
    ASSUME TipoMarcos, NEW p \in Pids, NEW pagina \in Nat, NEW f \in Int,
           MarcoDe(f) \in MarcosDe(p), NEW i \in 0 .. 3,
           CuatroBytes(p, pagina, f)[i] >= 0
    PROVE  MarcoDe(CuatroBytes(p, pagina, f)[i]) \in MarcosDe(p)
<1> DEFINE resto == f % TamPagina
           caben == Min({4, TamPagina - resto})
           a     == AccederPagina(p, pagina + 1)
           d     == CuatroBytes(p, pagina, f)[i]
<1>1. /\ resto \in Int /\ 0 <= resto /\ resto < TamPagina
      /\ TamPagina \in Int /\ TamPagina >= 4 /\ i \in Nat /\ i <= 3
  <2>1. resto \in Int /\ 0 <= resto /\ resto < TamPagina /\ TamPagina \in Int
    BY Resto, Zenon
  <2> HIDE DEF resto
  <2> QED
    BY <2>1, PaginacionAssumption
<1>2. d = IF i < caben THEN f + i ELSE a * TamPagina + i - caben
  BY DEF CuatroBytes
<1>3. caben \in {4, TamPagina - resto} /\ caben <= 4 /\ caben <= TamPagina - resto
  <2>1. 4 \in Int /\ TamPagina - resto \in Int
    BY <1>1
  <2> HIDE DEF resto
  <2>2. \E x \in {4, TamPagina - resto} : \A y \in {4, TamPagina - resto} : x <= y
    BY <2>1
  <2>3. caben \in {4, TamPagina - resto} /\ \A y \in {4, TamPagina - resto} : caben <= y
    BY <2>2, Zenon DEF Min
  <2> QED
    BY <2>3
<1>4. a \in NumerosMarco \cup {Invalida} /\ (a # Invalida => a \in MarcosDe(p))
  BY DEF AccederPagina, Validas, MarcosDe, TipoMarcos
<1>5. d >= 0
  OBVIOUS
<1> HIDE DEF resto, caben, a, d
<1>6. CASE i < caben
  <2>1. resto + i < TamPagina
    BY <1>1, <1>3, <1>6
  <2> QED
    BY <1>1, <1>2, <1>6, <2>1, MismoMarco DEF resto, d
<1>7. CASE ~ (i < caben)
  <2>1. caben \in Int /\ 1 <= caben /\ i - caben \in 0 .. TamPagina - 1
    BY <1>1, <1>3, <1>7
  <2>2. a \in Int /\ a * TamPagina \in Int /\ d = a * TamPagina + (i - caben) /\ d \in Int
    BY <1>1, <1>2, <1>4, <1>7, <2>1, PaginacionNat DEF NumerosMarco, Invalida
  <2>3. a # Invalida
    <3>1. SUFFICES ASSUME a = Invalida PROVE FALSE
      OBVIOUS
    <3>2. a * TamPagina = 0 - TamPagina
      BY <1>1, <3>1 DEF Invalida
    <3> QED
      BY <1>1, <1>5, <2>1, <2>2, <3>2
  <2>4. d = TamPagina * a + (i - caben)
    BY <1>1, <2>2
  <2>5. MarcoDe(d) = a
    BY <2>1, <2>2, <2>4, DireccionUnica
  <2> QED
    BY <1>4, <2>3, <2>5 DEF d
<1> QED
  BY <1>6, <1>7

\* What was translated is what is accessed.
LEMMA AccesosEnMarcos ==
    ASSUME Inductivo, PedidoTraducido
    PROVE  AccesoPropio
<1>1. TipoMarcos /\ peticion \in Peticion
  BY DEF Inductivo, Tipos, TipoMensajes
<1>2. SUFFICES ASSUME TraduccionVigente
               PROVE  AccesoPropio
  BY DEF AccesoPropio
<1>3. ASSUME peticion.tipo \in {"MOV_OUT", "COPY_STRING_2"}
      PROVE  cpu.pid \in Pids /\ peticion.pid = cpu.pid
  <2>1. cpu.ocupada
    BY <1>3 DEF Inductivo, Protocolo, Fases, FaseOciosa, FaseMemoria, FaseOrden, FasePregunta,
                FaseFrame, SinMensajes, EnCamino
  <2> QED
    BY <1>2, <1>3, <2>1, OcupadaPid DEF PedidoTraducido
<1>4. /\ peticion.fisica \in Int /\ peticion.origen \in Int /\ peticion.bytes \in Nat
      /\ peticion.pagina \in Nat
  BY <1>1 DEF Peticion
<1>5. ASSUME peticion.tipo = "MOV_OUT", NEW d \in EnMemoria(DireccionesMovOut(peticion))
      PROVE  MarcoDe(d) \in MarcosDe(peticion.pid)
  <2>1. d \in DireccionesMovOut(peticion) /\ d >= 0
    BY <1>5, PaginacionNat DEF EnMemoria
  <2>2. MarcoDe(peticion.fisica) \in MarcosDe(peticion.pid) /\ peticion.pid \in Pids
    BY <1>2, <1>3, <1>5 DEF PedidoTraducido
  <2>3. \/ d = peticion.fisica
        \/ \E i \in 0 .. 3 : d = CuatroBytes(peticion.pid, peticion.pagina, peticion.fisica)[i]
    BY <2>1, Zenon DEF DireccionesMovOut
  <2> QED
    BY <1>1, <1>4, <2>1, <2>2, <2>3, MovOutPropio
<1>6. ASSUME NEW f \in Int, NEW b \in Nat, EnUnMarco(peticion.pid, f, b), NEW d \in f .. f + b - 1
      PROVE  MarcoDe(d) \in MarcosDe(peticion.pid)
  <2> DEFINE i == d - f
  <2>1. i \in Nat /\ i < b /\ d = f + i
    BY <1>6
  <2>2. f % TamPagina \in Int /\ TamPagina \in Int
    BY <1>6, Resto, Zenon
  <2>3. (f % TamPagina) + i < TamPagina
    BY <1>6, <2>1, <2>2 DEF EnUnMarco
  <2> HIDE DEF i
  <2>4. MarcoDe(d) = MarcoDe(f)
    BY <1>6, <2>1, <2>3, MismoMarco
  <2> QED
    BY <1>6, <2>4 DEF EnUnMarco
<1>7. ASSUME peticion.tipo = "COPY_STRING_2", NEW d \in EnMemoria(DireccionesCopia(peticion))
      PROVE  MarcoDe(d) \in MarcosDe(peticion.pid)
  <2>1. /\ EnUnMarco(peticion.pid, peticion.origen, peticion.bytes)
        /\ EnUnMarco(peticion.pid, peticion.fisica, peticion.bytes)
    BY <1>2, <1>3, <1>7 DEF PedidoTraducido
  <2>2. \/ d \in peticion.origen .. peticion.origen + peticion.bytes - 1
        \/ d \in peticion.fisica .. peticion.fisica + peticion.bytes - 1
    BY <1>7 DEF EnMemoria, DireccionesCopia
  <2> QED
    BY <1>4, <1>6, <2>1, <2>2
<1> QED
  BY <1>5, <1>7 DEF AccesoPropio

-----------------------------------------------------------------------------
(* The instruction under way                                               *)

\* The table of the process in the CPU is its own: nobody touches it but the loop of
\* its own RESIZE or IO_STDIN_READ.
LEMMA TablaDelTurno ==
    ASSUME Inductivo, Altas, [Next]_vars, cpu.ocupada, peticion.tipo \notin TiposBucle
    PROVE  tabla'[cpu.pid] = tabla[cpu.pid]
<1>1. cpu.pid \in Pids /\ estado[cpu.pid] = "EXEC"
  BY OcupadaPid
<1>2. cpu.pid \in procesos /\ Conocido(cpu.pid)
  BY <1>1 DEF Altas
<1>3. TipoMarcos /\ TipoMensajes
  BY DEF Inductivo, Tipos
<1>4. CASE UNCHANGED vars
  BY <1>4, TuplasIguales
<1>5. ASSUME NEW p \in Pids, PasoKernel(p) \/ PasoInstruccion(p)
      PROVE  tabla' = tabla
  BY <1>5, FueraDeMemoria
<1>6. CASE PasoRespuesta \/ PasoMmu
  <2>1. PICK p \in Pids : TRUE
    BY <1>1
  <2> QED
    BY <1>6, <2>1, FueraDeMemoria
<1>7. CASE HiloCpuDeMemoria
  BY <1>1, <1>7, TablaDelCpu, PaginacionNat DEF Inductivo, Protocolo, EnBucle, TiposBucle
<1>8. CASE HiloKernelDeMemoria
  <2>1. CASE MemoriaNuevoProceso
    <3>1. Cabeza \in DelKernel /\ Cabeza = a_memoria[1] /\ 1 \in DOMAIN a_memoria
      BY <1>3, <2>1, ColaTipo DEF MemoriaNuevoProceso, HiloKernelLibre
    <3>2. Cabeza.pid # cpu.pid
      BY <1>2, <2>1, <3>1 DEF MemoriaNuevoProceso, Conocido, AltaEnCamino
    <3> QED
      BY <1>1, <1>3, <2>1, <3>1, <3>2 DEF MemoriaNuevoProceso, TipoMarcos
  <2>2. CASE LiberarPaginaDeTabla
    <3>1. liberando.pid # cpu.pid
      BY <1>1, PaginacionNat DEF Inductivo, Finalizados
    <3> QED
      BY <1>1, <1>3, <2>2, <3>1 DEF LiberarPaginaDeTabla, LiberarPagina, TipoMarcos
  <2> QED
    BY <1>8, <2>1, <2>2
       DEF HiloKernelDeMemoria, MemoriaFinalizar, LiberarMarco, MemoriaFinalizado
<1> QED
  BY <1>4, <1>5, <1>6, <1>7, <1>8 DEF Next, PasoMemoria

\* Without an instruction under way there is nothing to say.
LEMMA CursoOcioso ==
    ASSUME Inductivo', ~ cpu'.ocupada
    PROVE  InvCurso'
<1>1. FaseOciosa'
  BY DEF Inductivo, Protocolo, Fases, FaseMemoria, FaseOrden, FasePregunta, FaseFrame
<1> QED
  BY <1>1 DEF InvCurso, Traduciendo, OrdenEnCurso, PedidoTraducido, FaseOciosa, SinMensajes,
              FaseOrden, FasePregunta, FaseFrame

\* While a request or its answer is on its way, only the request matters.
LEMMA CursoEnMemoria ==
    ASSUME Inductivo', peticion'.tipo \in TiposPedido \/ respuesta'.tipo \in TiposPedido,
           PedidoTraducido'
    PROVE  InvCurso'
<1>1. FaseMemoria'
  BY DEF Inductivo, Protocolo, Fases, FaseOciosa, FaseOrden, FasePregunta, FaseFrame,
         SinMensajes, EnCamino, TiposPedido
<1> QED
  BY <1>1 DEF InvCurso, Traduciendo, OrdenEnCurso, FaseMemoria, FaseOrden, FasePregunta,
              FaseFrame, SinMensajes, EnCamino, TiposPedido

\* Requests that read and write nothing have nothing to be translated.
LEMMA PedidoSinAcceso ==
    ASSUME peticion'.tipo \notin {"MOV_OUT", "COPY_STRING_2"}
    PROVE  PedidoTraducido'
  BY DEF PedidoTraducido

\* A table that stays has the frames and the translations it had.
LEMMA TablaMisma ==
    ASSUME NEW p, tabla'[p] = tabla[p]
    PROVE  /\ MarcosDe(p)' = MarcosDe(p)
           /\ \A d, b : EnUnMarco(p, d, b)' <=> EnUnMarco(p, d, b)
<1>1. MarcosDe(p)' = MarcosDe(p)
  BY DEF MarcosDe, Validas
<1> QED
  BY <1>1 DEF EnUnMarco, MarcoDe

\* A step that leaves the instruction and its messages alone.
LEMMA CursoIgual ==
    ASSUME Inductivo, Inductivo', InvCurso,
           UNCHANGED <<config, cpu, orden, peticion, respuesta, marco>>,
           FaseFrame' => FaseFrame,
           FaseOrden' \/ FasePregunta' \/ FaseFrame' => FaseOrden \/ FasePregunta \/ FaseFrame,
           cpu.ocupada /\ peticion.tipo \notin TiposBucle => tabla'[cpu.pid] = tabla[cpu.pid]
    PROVE  InvCurso'
<1>1. CASE ~ cpu.ocupada
  BY <1>1, CursoOcioso
<1>2. CASE cpu.ocupada /\ peticion.tipo \in TiposBucle
  BY <1>2, CursoEnMemoria, PedidoSinAcceso DEF TiposPedido, TiposBucle
<1>3. CASE cpu.ocupada /\ peticion.tipo \notin TiposBucle
  <2>1. PICK c : c = cpu.pid
    OBVIOUS
  <2>2. tabla'[c] = tabla[c]
    BY <1>3, <2>1
  <2>3. /\ MarcosDe(c)' = MarcosDe(c)
        /\ \A d, b : EnUnMarco(c, d, b)' <=> EnUnMarco(c, d, b)
        /\ \A n : AccederPagina(c, n)' = AccederPagina(c, n)
    BY <2>2, TablaMisma, AccederIgual, Zenon
  <2>4. TraduccionVigente' = TraduccionVigente /\ Pagina' = Pagina /\ cpu'.pid = c
    BY <2>1 DEF TraduccionVigente, SoloCrece, SinLecturas, CopiasEnPagina, Pagina
  <2>5. Traduciendo'
    BY <2>1, <2>3, <2>4 DEF InvCurso, Traduciendo
  <2>6. OrdenEnCurso'
    BY <2>1, <2>3, <2>4 DEF InvCurso, OrdenEnCurso
  <2>7. PedidoTraducido'
    BY <2>1, <2>3, <2>4 DEF InvCurso, PedidoTraducido, MarcoDe
  <2> QED
    BY <2>5, <2>6, <2>7 DEF InvCurso
<1> QED
  BY <1>1, <1>2, <1>3

\* What the kernel and the instructions do to it.
LEMMA CursoKernel ==
    ASSUME Inductivo, Inductivo', InvCurso, NEW p \in Pids, PasoKernel(p)
    PROVE  InvCurso'
<1>1. CASE KernelCrea(p) \/ KernelMata(p)
  BY <1>1, CursoIgual DEF KernelCrea, KernelMata, varsCpu, FaseOrden, FasePregunta, FaseFrame,
                          SinMensajes, EnCamino, Avisos
<1>2. CASE KernelDespacha(p)
  BY <1>2, CursoOcioso, OcupadaPid DEF KernelDespacha, Inductivo, Tipos, TipoCpu
<1>3. CASE CpuDevuelve(p) \/ CpuExit(p)
  BY <1>3, CursoOcioso DEF CpuDevuelve, CpuExit, EntreInstrucciones, varsCpu
<1> QED
  BY <1>1, <1>2, <1>3 DEF PasoKernel

\* An instruction starts with an order of its program and no message.
LEMMA CursoInstruccion ==
    ASSUME Inductivo, Inductivo', InvCurso, NEW p \in Pids, PasoInstruccion(p)
    PROVE  InvCurso'
<1>0. config' = config
  BY FueraDeMemoria
<1>1. ASSUME NEW o, ~ cpu.ocupada, MmuIniciar(o), orden \in OrdenTipo, UNCHANGED varsMarcos,
             o.codigo \in {"MOV_IN", "MOV_OUT"} \/
                /\ o.codigo = "COPY_STRING" /\ o.destino \in config.direcciones
                /\ o.logica \in config.direcciones /\ o.bytes \in config.copias
      PROVE  InvCurso'
  <2>1. FaseOciosa
    BY <1>1 DEF Inductivo, Protocolo, Fases, FaseMemoria, FaseOrden, FasePregunta, FaseFrame
  <2>2. SinMensajes' /\ ~ FaseFrame'
    BY <1>1, <2>1 DEF FaseOciosa, SinMensajes, varsMarcos, MmuIniciar, FaseFrame
  <2>3. Traduciendo' /\ PedidoTraducido'
    BY <2>2 DEF Traduciendo, PedidoTraducido, SinMensajes
  <2>4. OrdenEnCurso'
    BY <1>0, <1>1 DEF OrdenEnCurso, MmuIniciar
  <2> QED
    BY <2>3, <2>4 DEF InvCurso
<1>2. orden \in OrdenTipo
  BY DEF Inductivo, Tipos, TipoCpu, OrdenTipo
<1>3. ASSUME NEW codigo \in {"MOV_IN", "MOV_OUT"}, NEW logica, NEW b, CpuMov(p, codigo, logica, b)
      PROVE  InvCurso'
  BY <1>1, <1>2, <1>3 DEF CpuMov, EntreInstrucciones, NoOrden
<1>4. ASSUME NEW si \in config.direcciones, NEW di \in config.direcciones,
             NEW b \in config.copias, CpuCopyString(p, si, di, b)
      PROVE  InvCurso'
  BY <1>1, <1>2, <1>4 DEF CpuCopyString, EntreInstrucciones, NoOrden
<1>5. ASSUME NEW b, CpuResize(p, b)
      PROVE  InvCurso'
  BY <1>5, CursoEnMemoria, PedidoSinAcceso DEF CpuResize, NoPeticion, TiposPedido
<1>6. ASSUME NEW logica, NEW b, CpuStdinRead(p, logica, b)
      PROVE  InvCurso'
  BY <1>6, CursoEnMemoria, PedidoSinAcceso DEF CpuStdinRead, NoPeticion, TiposPedido
<1> QED
  BY <1>3, <1>4, <1>5, <1>6 DEF PasoInstruccion

\* The frame memoria answered is the one the MMU is going to use.
LEMMA CursoRespuesta ==
    ASSUME Inductivo, Inductivo', Altas, InvCurso, PasoRespuesta
    PROVE  InvCurso'
<1>0. PICK p \in Pids : TRUE
  BY PaginacionAssumption DEF Pids
<1>1. UNCHANGED <<config, tabla>>
  BY <1>0, FueraDeMemoria
<1>2. cpu \in CpuTipo
  BY DEF Inductivo, Tipos, TipoCpu, CpuTipo
<1>3. CASE CpuMovListo \/ CpuResizeOCopia
  BY <1>2, <1>3, CursoOcioso DEF CpuMovListo, CpuResizeOCopia, CpuTipo
<1>4. CASE CpuNumeroFrame
  <2>1. respuesta.tipo = "NUMERO_FRAME" /\ Traduciendo
    BY <1>4 DEF CpuNumeroFrame, Recibe, InvCurso
  <2>2. /\ FasePregunta /\ peticion.tipo = "NADA"
        /\ respuesta.resultado => /\ respuesta.marco = AccederPagina(cpu.pid, Pagina)
                                  /\ respuesta.marco \in NumerosMarco
    BY <2>1, RespuestaDeFrame
  <2>3. CASE ~ respuesta.resultado
    BY <1>2, <1>4, <2>3, CursoOcioso DEF CpuNumeroFrame, CpuTipo
  <2>4. CASE respuesta.resultado
    <3>1. /\ UNCHANGED <<cpu, orden, peticion>> /\ respuesta' = NoRespuesta
          /\ config.entradas = 0 => marco' = respuesta.marco
      BY <1>4, <2>4 DEF CpuNumeroFrame, Recibe
    <3>2. SinMensajes'
      BY <2>2, <3>1 DEF SinMensajes, NoRespuesta
    <3>3. AccederPagina(cpu.pid, Pagina)' = AccederPagina(cpu.pid, Pagina)
      BY <1>1, <3>1 DEF AccederPagina, Validas, Pagina
    <3>4. Traduciendo' /\ PedidoTraducido'
      BY <1>1, <2>2, <2>4, <3>1, <3>2, <3>3, PaginacionNat
         DEF Traduciendo, PedidoTraducido, SinMensajes, NumerosMarco, Invalida
    <3>5. OrdenEnCurso'
      BY <1>1, <2>2, <3>1 DEF InvCurso, OrdenEnCurso, TraduccionVigente, SoloCrece, SinLecturas, CopiasEnPagina,
                              EnUnMarco, MarcosDe, Validas, MarcoDe
    <3> QED
      BY <3>4, <3>5 DEF InvCurso
  <2> QED
    BY <2>3, <2>4
<1>5. CASE CpuStdinAsignado
  <2>1. FaseMemoria /\ peticion.tipo = "NADA"
    BY <1>5 DEF CpuStdinAsignado, Recibe, Inductivo, Protocolo, Fases, FaseOciosa, FaseMemoria,
                FaseOrden, FasePregunta, FaseFrame, SinMensajes, EnCamino
  <2>2. SinMensajes'
    BY <1>5, <2>1 DEF CpuStdinAsignado, Recibe, SinMensajes, NoRespuesta
  <2>3. CASE ~ respuesta.resultado
    BY <1>2, <1>5, <2>3, CursoOcioso DEF CpuStdinAsignado, CpuTipo
  <2>4. CASE respuesta.resultado
    <3>1. orden'.codigo = "IO_STDIN_READ" /\ ~ resultado'
      BY <1>5, <2>4 DEF CpuStdinAsignado, MmuIniciar, NoOrden
    <3>2. Traduciendo' /\ PedidoTraducido' /\ OrdenEnCurso'
      BY <2>2, <3>1 DEF Traduciendo, PedidoTraducido, OrdenEnCurso, SinMensajes, FaseFrame
    <3> QED
      BY <3>2 DEF InvCurso
  <2> QED
    BY <2>3, <2>4
<1> QED
  BY <1>3, <1>4, <1>5 DEF PasoRespuesta

\* The MMU has the address: what it asks for, or translates next, is of the process.
LEMMA CursoConDireccion ==
    ASSUME Inductivo, Inductivo', InvCurso, FaseOrden \/ FaseFrame,
           NEW m \in NumerosMarco \cup {Invalida}, MmuEnvia(m),
           TraduccionVigente => m \in MarcosDe(cpu.pid) /\ m \in NumerosMarco,
           orden.codigo = "IO_STDIN_READ" \/ UNCHANGED cpu,
           UNCHANGED <<config, tabla, respuesta>>
    PROVE  InvCurso'
<1>0. CASE orden.codigo = "IO_STDIN_READ"
  <2>1. cpu' = [cpu EXCEPT !.ocupada = FALSE]
    BY <1>0 DEF MmuEnvia
  <2>2. ~ cpu'.ocupada
    BY <2>1 DEF Inductivo, Tipos, TipoCpu
  <2> QED
    BY <2>2, CursoOcioso
<1>8. SUFFICES ASSUME orden.codigo # "IO_STDIN_READ", UNCHANGED cpu PROVE InvCurso'
  BY <1>0
<1>1. /\ TipoMarcos /\ orden \in OrdenTipo /\ SinMensajes
      /\ TraduccionVigente' = TraduccionVigente
      /\ \A d, b : EnUnMarco(cpu.pid, d, b)' <=> EnUnMarco(cpu.pid, d, b)
      /\ MarcosDe(cpu.pid)' = MarcosDe(cpu.pid)
  <2>1. PICK c : c = cpu.pid /\ c = cpu'.pid /\ tabla'[c] = tabla[c]
    BY <1>8
  <2>2. /\ MarcosDe(c)' = MarcosDe(c)
        /\ \A d, b : EnUnMarco(c, d, b)' <=> EnUnMarco(c, d, b)
    BY <2>1, TablaMisma, Zenon
  <2>3. MarcosDe(cpu.pid)' = MarcosDe(cpu.pid)
    BY <2>1, <2>2 DEF MarcosDe, Validas
  <2>4. \A d, b : EnUnMarco(cpu.pid, d, b)' <=> EnUnMarco(cpu.pid, d, b)
    BY <2>3 DEF EnUnMarco, MarcoDe
  <2> QED
    BY <2>3, <2>4
       DEF Inductivo, Tipos, TipoCpu, OrdenTipo, FaseOrden, FaseFrame,
           TraduccionVigente, SoloCrece, SinLecturas, CopiasEnPagina
<1>2. TraduccionVigente => /\ MarcoDe(Fisica(m)) = m
                           /\ Fisica(m) % TamPagina = orden.logica % TamPagina
  BY <1>1, FisicaEnMarco DEF OrdenTipo
<1>3. OrdenEnCurso
  BY DEF InvCurso
<1>4. TraduccionVigente /\ orden.codigo \in {"COPY_STRING", "COPY_STRING_2"} =>
         EnUnMarco(cpu.pid, Fisica(m), orden.bytes)
  BY <1>2, <1>3 DEF OrdenEnCurso, EnUnMarco, TraduccionVigente, CopiasEnPagina
<1>5. CASE orden.codigo \in {"MOV_IN", "MOV_OUT"}
  <2>1. peticion' = [NoPeticion EXCEPT !.tipo = orden.codigo, !.pid = cpu.pid,
                        !.pagina = Pagina, !.fisica = Fisica(m), !.bytes = orden.bytes]
    BY <1>5 DEF MmuEnvia
  <2>2. peticion'.tipo = orden.codigo /\ peticion'.pid = cpu.pid /\ peticion'.fisica = Fisica(m)
    BY <2>1 DEF NoPeticion
  <2>3. PedidoTraducido'
    BY <1>1, <1>2, <1>5, <2>2 DEF PedidoTraducido, MarcoDe
  <2> QED
    BY <1>5, <2>2, <2>3, CursoEnMemoria DEF TiposPedido
<1>6. CASE orden.codigo = "COPY_STRING"
  <2>1. /\ peticion' = peticion /\ ~ resultado'
        /\ orden' = [orden EXCEPT !.codigo = "COPY_STRING_2", !.logica = orden.destino,
                                  !.origen = Fisica(m)]
    BY <1>6 DEF MmuEnvia
  <2>2. /\ orden'.codigo = "COPY_STRING_2" /\ orden'.logica = orden.destino
        /\ orden'.origen = Fisica(m) /\ orden'.bytes = orden.bytes
    BY <1>1, <2>1 DEF OrdenTipo
  <2>3. Traduciendo' /\ PedidoTraducido'
    BY <1>1, <2>1 DEF SinMensajes, Traduciendo, PedidoTraducido, FaseFrame
  <2>4. OrdenEnCurso'
    BY <1>1, <1>3, <1>4, <1>6, <2>2 DEF OrdenEnCurso
  <2> QED
    BY <2>3, <2>4 DEF InvCurso
<1>7. CASE orden.codigo = "COPY_STRING_2"
  <2>1. peticion' = [NoPeticion EXCEPT !.tipo = "COPY_STRING_2", !.pid = cpu.pid,
                        !.fisica = Fisica(m), !.origen = orden.origen, !.bytes = orden.bytes]
    BY <1>7 DEF MmuEnvia
  <2>2. /\ peticion'.tipo = "COPY_STRING_2" /\ peticion'.pid = cpu.pid
        /\ peticion'.fisica = Fisica(m) /\ peticion'.origen = orden.origen
        /\ peticion'.bytes = orden.bytes
    BY <2>1 DEF NoPeticion
  <2>3. TraduccionVigente => EnUnMarco(cpu.pid, orden.origen, orden.bytes)
    BY <1>3, <1>7 DEF OrdenEnCurso
  <2>4. PedidoTraducido'
    BY <1>1, <1>4, <1>7, <2>2, <2>3 DEF PedidoTraducido
  <2> QED
    BY <2>2, <2>4, CursoEnMemoria DEF TiposPedido
<1> QED
  BY <1>5, <1>6, <1>7, <1>8 DEF MmuEnvia

\* An entry of the TLB that answers gives the frame of the table, when it may be trusted.
LEMMA EntradaVigente ==
    ASSUME Inductivo, Altas, TlbConocida, TlbAlDia, cpu.ocupada,
           NEW i \in EntradaEnTlb(cpu.pid, Pagina)
    PROVE  /\ tlb[i].marco \in NumerosMarco \cup {Invalida}
           /\ TraduccionVigente => tlb[i].marco \in MarcosDe(cpu.pid) /\ tlb[i].marco \in NumerosMarco
<1>1. i \in Entradas /\ tlb[i].pid = cpu.pid /\ tlb[i].pagina = Pagina
  BY DEF EntradaEnTlb, EnTlb, Primeras
<1>2. tlb[i].marco \in NumerosMarco \cup {Invalida}
  BY <1>1 DEF Inductivo, Tipos, TipoTlb
<1>3. cpu.pid \in Pids /\ estado[cpu.pid] = "EXEC" /\ cpu.pid \in procesos
  BY OcupadaPid DEF Altas
<1>4. cpu.pid # liberando.pid
  BY <1>3, PaginacionNat DEF Inductivo, Finalizados
<1>5. SUFFICES ASSUME TraduccionVigente
               PROVE  tlb[i].marco \in MarcosDe(cpu.pid) /\ tlb[i].marco \in NumerosMarco
  BY <1>2
<1>6. config.entradas # 0
  <2>1. SUFFICES ASSUME config.entradas = 0 PROVE FALSE
    OBVIOUS
  <2>2. i \in 0 .. 0 - 1
    BY <1>1, <2>1 DEF Entradas
  <2> QED
    BY <2>2
<1>7. tlb[i].marco = AccederPagina(cpu.pid, Pagina)
  BY <1>1, <1>3, <1>4, <1>5, <1>6 DEF TraduccionVigente, TlbAlDia
<1>8. tlb[i].marco # Invalida
  BY <1>1, <1>3, PaginacionNat DEF TlbConocida
<1> QED
  BY <1>2, <1>7, <1>8 DEF AccederPagina, MarcosDe

\* The MMU uses the frame of the table, from the TLB or from the answer.
LEMMA CursoMmu ==
    ASSUME Inductivo, Inductivo', Altas, TlbConocida, TlbAlDia, InvCurso, PasoMmu
    PROVE  InvCurso'
<1>0. PICK p \in Pids : TRUE
  BY PaginacionAssumption DEF Pids
<1>1. UNCHANGED <<config, tabla>>
  BY <1>0, FueraDeMemoria
<1>2. mmu_ejecucion \in Nat /\ orden \in OrdenTipo /\ marco \in NumerosMarco \cup {Invalida}
  BY DEF Inductivo, Tipos, TipoCpu, OrdenTipo
<1>3. mmu = "ESPERA" /\ mmu_ejecucion > 0 => FaseOrden
  BY DEF Inductivo, Protocolo, Fases, FaseOciosa, FaseMemoria, FaseOrden, FasePregunta,
         FaseFrame, Avisos
<1>4. mmu = "FRAME" /\ mmu_ejecucion > 0 /\ resultado => FaseFrame
  BY DEF Inductivo, Protocolo, Fases, FaseOciosa, FaseMemoria, FaseOrden, FasePregunta,
         FaseFrame, Avisos
<1>5. CASE MmuAcierto
  <2>1. FaseOrden /\ cpu.ocupada
    BY <1>3, <1>5 DEF MmuAcierto, FaseOrden
  <2>2. PICK i \in EntradaEnTlb(cpu.pid, Pagina) : MmuEnvia(tlb[i].marco)
    BY <1>5 DEF MmuAcierto
  <2>3. UNCHANGED <<config, tabla, respuesta>> /\ (orden.codigo = "IO_STDIN_READ" \/ UNCHANGED cpu)
    BY <1>5 DEF MmuAcierto, RestoMmu, MmuEnvia
  <2> QED
    BY <2>1, <2>2, <2>3, EntradaVigente, CursoConDireccion
<1>6. CASE MmuFallo
  <2>1. FaseOrden
    BY <1>3, <1>6 DEF MmuFallo
  <2>2. /\ peticion'.tipo = "NUMERO_FRAME" /\ peticion'.pagina = Pagina
        /\ UNCHANGED <<respuesta, orden, cpu>>
    BY <1>6 DEF MmuFallo, NoPeticion, RestoMmu
  <2>3. Traduciendo' /\ PedidoTraducido'
    BY <2>1, <2>2 DEF Traduciendo, PedidoTraducido, FaseOrden, FaseFrame, SinMensajes, Pagina
  <2>4. OrdenEnCurso'
    BY <1>1, <2>1, <2>2 DEF InvCurso, OrdenEnCurso, TraduccionVigente, SoloCrece, SinLecturas, CopiasEnPagina,
                            EnUnMarco, MarcosDe, Validas, MarcoDe
  <2> QED
    BY <2>3, <2>4 DEF InvCurso
<1>7. CASE MmuConFrame
  <2>1. FaseFrame /\ cpu.ocupada
    BY <1>4, <1>7 DEF MmuConFrame, FaseFrame
  <2>2. UNCHANGED <<config, tabla, respuesta>> /\ (orden.codigo = "IO_STDIN_READ" \/ UNCHANGED cpu)
    BY <1>7 DEF MmuConFrame, RestoMmu, MmuEnvia
  <2>3. CASE config.entradas = 0 /\ MmuEnvia(marco)
    <3>1. marco \in NumerosMarco /\ marco \in MarcosDe(cpu.pid)
      BY <1>2, <2>1, <2>3 DEF InvCurso, Traduciendo, AccederPagina, MarcosDe
    <3> QED
      BY <1>2, <2>1, <2>2, <2>3, <3>1, CursoConDireccion
  <2>4. ASSUME NEW i \in EntradaEnTlb(cpu.pid, Pagina), MmuEnvia(tlb[i].marco)
        PROVE  InvCurso'
    BY <2>1, <2>2, <2>4, EntradaVigente, CursoConDireccion
  <2> QED
    BY <1>7, <2>3, <2>4 DEF MmuConFrame
<1>8. CASE MmuSinFrame
  <2>1. UNCHANGED <<config, cpu, orden, peticion, respuesta, marco, tabla, resultado>>
    BY <1>1, <1>8 DEF MmuSinFrame, RestoMmu
  <2>2. mmu' = "ESPERA" /\ mmu = "FRAME" /\ mmu_ejecucion' = mmu_ejecucion - 1 /\ ~ resultado
    BY <1>8 DEF MmuSinFrame
  <2>3. ~ FasePregunta' /\ ~ FaseFrame'
    BY <2>2 DEF FasePregunta, FaseFrame
  <2>4. FaseOrden' => FaseOrden
    BY <1>2, <2>1, <2>2 DEF FaseOrden, SinMensajes, Avisos
  <2> QED
    BY <2>1, <2>3, <2>4, CursoIgual
<1> QED
  BY <1>5, <1>6, <1>7, <1>8 DEF PasoMmu

\* Memoria answers a translation from the table, and forgets what it attended.
LEMMA CursoMemoria ==
    ASSUME Inductivo, Inductivo', Altas, InvCurso, PasoMemoria
    PROVE  InvCurso'
<1>0. /\ UNCHANGED <<cpu, orden, marco, mmu, mmu_ejecucion, resultado>>
      /\ config' = config /\ [Next]_vars
  BY ConfigFija DEF Next, PasoMemoria, varsCpu
<1>1. CASE HiloKernelDeMemoria
  <2>1. UNCHANGED <<peticion, respuesta>>
    BY <1>1 DEF HiloKernelDeMemoria, MemoriaNuevoProceso, MemoriaFinalizar, LiberarMarco,
                LiberarPaginaDeTabla, MemoriaFinalizado
  <2>2. /\ FaseFrame' <=> FaseFrame
        /\ FaseOrden' <=> FaseOrden
        /\ FasePregunta' <=> FasePregunta
    BY <1>0, <2>1 DEF FaseFrame, FaseOrden, FasePregunta, SinMensajes, EnCamino, Avisos
  <2> QED
    BY <1>0, <2>1, <2>2, TablaDelTurno, CursoIgual
<1>2. CASE MemoriaNumeroFrame
  <2> DEFINE a == AccederPagina(peticion.pid, peticion.pagina)
  <2>1. peticion.tipo = "NUMERO_FRAME" /\ Responder("NUMERO_FRAME", a, 0, a # Invalida) /\ tabla' = tabla
    BY <1>2 DEF MemoriaNumeroFrame, Atiende
  <2>2. FasePregunta
    BY <2>1 DEF Inductivo, Protocolo, Fases, FaseOciosa, FaseMemoria, FaseOrden, FaseFrame,
                SinMensajes, EnCamino, TiposPedido
  <2>3. peticion.pid = cpu.pid /\ peticion.pagina = Pagina
    BY <2>1 DEF Inductivo, Protocolo, EnBucle, TiposBucle, InvCurso, Traduciendo
  <2>4. Pagina' = Pagina /\ AccederPagina(cpu.pid, Pagina)' = AccederPagina(cpu.pid, Pagina)
    BY <1>0, <2>1 DEF Pagina, AccederPagina, Validas
  <2> HIDE DEF a
  <2>5. /\ respuesta'.tipo = "NUMERO_FRAME" /\ respuesta'.pid = cpu.pid
        /\ respuesta'.pagina = Pagina /\ respuesta'.marco = a
        /\ respuesta'.resultado = (a # Invalida) /\ peticion'.tipo = "NADA"
    BY <2>1, <2>3 DEF Responder, NoPeticion
  <2>6. a = AccederPagina(cpu.pid, Pagina)
    BY <2>3 DEF a
  <2>7. Traduciendo'
    <3>1. ~ FaseFrame'
      BY <2>5 DEF FaseFrame, SinMensajes
    <3> QED
      BY <1>0, <2>4, <2>5, <2>6, <3>1 DEF Traduciendo
  <2>8. PedidoTraducido'
    BY <2>5, PedidoSinAcceso
  <2>9. OrdenEnCurso'
    BY <1>0, <2>1, <2>2 DEF InvCurso, OrdenEnCurso, TraduccionVigente, SoloCrece, SinLecturas, CopiasEnPagina,
                            EnUnMarco, MarcosDe, Validas, MarcoDe
  <2> QED
    BY <2>7, <2>8, <2>9 DEF InvCurso
<1>3. CASE \/ MemoriaMovOut \/ MemoriaMovIn \/ MemoriaCopyString \/ MemoriaResizeRechaza
           \/ MemoriaLecturaRechaza \/ BucleResponde
  <2>1. respuesta'.tipo \in TiposPedido /\ peticion' = NoPeticion
    BY <1>3 DEF MemoriaMovOut, MemoriaMovIn, MemoriaCopyString, MemoriaResizeRechaza,
                MemoriaLecturaRechaza, BucleResponde, Responder, TiposPedido,
                Inductivo, Protocolo, EnBucle, TiposBucle
  <2> QED
    BY <2>1, CursoEnMemoria, PedidoSinAcceso DEF NoPeticion
<1>4. CASE MemoriaResize \/ MemoriaLectura \/ ResizeLibera \/ BucleAsigna
  <2>1. bucle.pid # 0 \/ peticion.tipo \in TiposBucle
    BY <1>4 DEF MemoriaResize, MemoriaLectura, ResizeLibera, BucleAsigna, Atiende, SinBucle,
                Inductivo, Protocolo, EnBucle, TiposBucle
  <2>2. peticion' = peticion /\ peticion.tipo \in TiposBucle
    BY <1>4, <2>1, BucleDelCpu DEF MemoriaResize, MemoriaLectura, ResizeLibera, BucleAsigna
  <2> QED
    BY <2>2, CursoEnMemoria, PedidoSinAcceso DEF TiposPedido, TiposBucle
<1>5. CASE LecturaSinMarco
  <2>1. peticion'.tipo = "LIBERADA"
    BY <1>5 DEF LecturaSinMarco, Inductivo, Tipos, TipoMensajes, Peticion
  <2> QED
    BY <2>1, CursoEnMemoria, PedidoSinAcceso DEF TiposPedido
<1> QED
  BY <1>1, <1>2, <1>3, <1>4, <1>5 DEF PasoMemoria, HiloCpuDeMemoria

\* Every step keeps InvCurso.
LEMMA CursoSigue ==
    ASSUME Inductivo, Inductivo', Altas, TlbConocida, TlbAlDia, InvCurso, [Next]_vars
    PROVE  InvCurso'
<1>1. CASE UNCHANGED vars
  BY <1>1, TuplasIguales, CursoIgual DEF FaseOrden, FasePregunta, FaseFrame, SinMensajes, EnCamino,
                                         Avisos
<1> QED
  BY <1>1, CursoKernel, CursoInstruccion, CursoRespuesta, CursoMmu, CursoMemoria DEF Next

-----------------------------------------------------------------------------
(* The frames in use                                                       *)

\* Frames that stay marked stay in the tables.
LEMMA FugasQuedan ==
    ASSUME SinFugas, config' = config,
           \A m \in NumerosMarco :
              TraduccionVigente /\ SinLecturas /\ bitmap_array'[m] = 1 =>
                 \/ bitmap_array[m] = 1 /\ \A q \in Pids : m \in MarcosDe(q) => m \in MarcosDe(q)'
                 \/ \E q \in Pids : m \in MarcosDe(q)'
    PROVE  SinFugas'
<1>1. TraduccionVigente' = TraduccionVigente /\ SinLecturas' = SinLecturas
  BY DEF TraduccionVigente, SoloCrece, SinLecturas, CopiasEnPagina
<1>2. ASSUME TraduccionVigente, SinLecturas, NEW m \in NumerosMarco, bitmap_array'[m] = 1
      PROVE  \E q \in Pids : m \in MarcosDe(q)'
  BY <1>2 DEF SinFugas
<1> QED
  BY <1>1, <1>2 DEF SinFugas

\* A page that is given back takes its mark with it.
LEMMA FugasConPaginaMenos ==
    ASSUME TipoMarcos, SinFugas, config' = config,
           NEW p \in Pids, NEW n \in Validas(p), LiberarPagina(p, n)
    PROVE  SinFugas'
<1>1. n \in Paginas /\ tabla[p][n] \in NumerosMarco
  BY DEF Validas, TipoMarcos
<1>2. \A m \in NumerosMarco : bitmap_array'[m] = 1 => bitmap_array[m] = 1 /\ m # tabla[p][n]
  BY <1>1 DEF LiberarPagina, TipoMarcos
<1>3. \A q \in Pids : \A o \in Paginas :
         tabla'[q][o] = IF q = p /\ o = n THEN Invalida ELSE tabla[q][o]
  BY <1>1 DEF LiberarPagina, TipoMarcos
<1>4. ASSUME NEW m \in NumerosMarco, m # tabla[p][n], NEW q \in Pids, m \in MarcosDe(q)
      PROVE  m \in MarcosDe(q)'
  BY <1>3, <1>4 DEF MarcosDe, Validas
<1> QED
  BY <1>2, <1>4, FugasQuedan

\* A page that is given a frame had none.
LEMMA FugasConPaginaMas ==
    ASSUME TipoMarcos, SinFugas, config' = config,
           NEW p \in Pids, NEW n \in Paginas \ Validas(p), NEW m \in NumerosMarco,
           AsignarPagina(p, n, m)
    PROVE  SinFugas'
<1>1. \A q \in Pids : \A o \in Paginas :
         tabla'[q][o] = IF q = p /\ o = n THEN m ELSE tabla[q][o]
  BY DEF AsignarPagina, TipoMarcos
<1>2. \A f \in NumerosMarco : bitmap_array'[f] = 1 => bitmap_array[f] = 1 \/ f = m
  BY DEF AsignarPagina, TipoMarcos
<1>3. m # Invalida
  BY PaginacionNat DEF NumerosMarco, Invalida
<1>4. m \in MarcosDe(p)'
  BY <1>1, <1>3 DEF MarcosDe, Validas
<1>5. ASSUME NEW f \in NumerosMarco, NEW q \in Pids, f \in MarcosDe(q)
      PROVE  f \in MarcosDe(q)'
  BY <1>1, <1>5 DEF MarcosDe, Validas
<1> QED
  BY <1>2, <1>4, <1>5, FugasQuedan

\* What is written is in frames of the process that asked.
LEMMA FugasConEscritura ==
    ASSUME TipoMarcos, SinFugas, UNCHANGED <<config, tabla>>, NEW D, Escribir(D),
           NEW p, TraduccionVigente => p \in Pids /\ \A d \in EnMemoria(D) : MarcoDe(d) \in MarcosDe(p)
    PROVE  SinFugas'
<1>1. \A q : MarcosDe(q)' = MarcosDe(q)
  BY DEF MarcosDe, Validas
<1>2. ASSUME NEW m \in NumerosMarco, bitmap_array'[m] = 1, bitmap_array[m] # 1
      PROVE  \E d \in EnMemoria(D) : MarcoDe(d) = m
  BY <1>2 DEF Escribir
<1> QED
  BY <1>1, <1>2, FugasQuedan

\* Every step keeps SinFugas.
LEMMA FugasSiguen ==
    ASSUME Inductivo, Altas, SoloResize, PedidoTraducido, SinFugas, [Next]_vars
    PROVE  SinFugas'
<1>0. TipoMarcos /\ TipoMensajes /\ config' = config
  BY ConfigFija DEF Inductivo, Tipos
<1>13. CASE ~ SinLecturas
  BY <1>0, <1>13, FugasQuedan
<1>14. SUFFICES ASSUME SinLecturas, NadieLee, Prefijos PROVE SinFugas'
  BY <1>13 DEF SoloResize
<1>1. ASSUME UNCHANGED <<tabla, bitmap_array>>
      PROVE  SinFugas'
  <2>1. \A q : MarcosDe(q)' = MarcosDe(q)
    BY <1>1 DEF MarcosDe, Validas
  <2> QED
    BY <1>0, <1>1, <2>1, FugasQuedan
<1>2. CASE UNCHANGED vars
  BY <1>1, <1>2, TuplasIguales
<1>3. ASSUME NEW p \in Pids, PasoKernel(p) \/ PasoInstruccion(p) \/ PasoRespuesta \/ PasoMmu
      PROVE  SinFugas'
  BY <1>1, <1>3, FueraDeMemoria
<1>4. PICK p \in Pids : TRUE
  BY PaginacionAssumption DEF Pids
<1>5. CASE PasoRespuesta \/ PasoMmu
  BY <1>3, <1>4, <1>5
<1>6. CASE HiloKernelDeMemoria
  <2>1. CASE MemoriaNuevoProceso
    <3>1. PICK c : c = Cabeza.pid
      OBVIOUS
    <3>2. c \in Pids /\ AltaEnCamino(c)
      BY <1>0, <2>1, <3>1, ColaTipo DEF MemoriaNuevoProceso, HiloKernelLibre, DelKernel, AltaEnCamino
    <3>3. Validas(c) = {}
      BY <3>2 DEF Altas, Conocido
    <3>4. /\ bitmap_array' = bitmap_array
          /\ \A q \in Pids : \A o \in Paginas :
                tabla'[q][o] = IF q = c THEN Invalida ELSE tabla[q][o]
      BY <1>0, <2>1, <3>1, <3>2 DEF MemoriaNuevoProceso, TipoMarcos
    <3>5. ASSUME NEW m, NEW q \in Pids, m \in MarcosDe(q)
          PROVE  m \in MarcosDe(q)'
      BY <3>3, <3>4, <3>5 DEF MarcosDe, Validas
    <3> QED
      BY <1>0, <3>4, <3>5, FugasQuedan
  <2>2. CASE LiberarMarco
    <3>1. UNCHANGED tabla
      BY <2>2 DEF LiberarMarco
    <3>2. \A q : MarcosDe(q)' = MarcosDe(q)
      BY <3>1 DEF MarcosDe, Validas
    <3>3. \A m \in NumerosMarco : bitmap_array'[m] = 1 => bitmap_array[m] = 1
      BY <1>0, <2>2 DEF LiberarMarco, TipoMarcos
    <3> QED
      BY <1>0, <3>2, <3>3, FugasQuedan
  <2>3. CASE LiberarPaginaDeTabla
    <3>1. PICK c, n : c = liberando.pid /\ n = liberando.pagina
      OBVIOUS
    <3>2. c \in Pids /\ n \in Validas(c) /\ LiberarPagina(c, n)
      BY <1>0, <2>3, <3>1 DEF LiberarPaginaDeTabla, TipoMarcos
    <3> QED
      BY <1>0, <3>2, FugasConPaginaMenos
  <2>4. CASE MemoriaFinalizar \/ MemoriaFinalizado
    BY <1>1, <2>4 DEF MemoriaFinalizar, MemoriaFinalizado
  <2> QED
    BY <1>6, <2>1, <2>2, <2>3, <2>4 DEF HiloKernelDeMemoria
<1>7. CASE ResizeLibera \/ BucleAsigna
  <2>1. PICK c, n : c = bucle.pid /\ n = bucle.i
    OBVIOUS
  <2>2. c \in Pids
    BY <1>7, <1>14, <2>1, VueltaDeResize
  <2>3. CASE ResizeLibera
    BY <1>0, <1>14, <2>1, <2>2, <2>3, VueltaDeResize, FugasConPaginaMenos
  <2>4. CASE BucleAsigna
    <3>1. PICK m \in FramesLibres : AsignarPagina(c, n, m)
      BY <1>14, <2>1, <2>4, VueltaDeResize
    <3>2. m \in NumerosMarco /\ n \in Paginas \ Validas(c)
      BY <1>14, <2>1, <2>4, <3>1, VueltaDeResize DEF FramesLibres
    <3> QED
      BY <1>0, <2>2, <3>1, <3>2, FugasConPaginaMas
  <2> QED
    BY <1>7, <2>3, <2>4
<1>8. ASSUME peticion.tipo \in {"MOV_OUT", "COPY_STRING_2"}, TraduccionVigente
      PROVE  peticion.pid \in Pids
  <2>1. cpu.ocupada
    BY <1>8 DEF Inductivo, Protocolo, Fases, FaseOciosa, FaseMemoria, FaseOrden, FasePregunta,
                FaseFrame, SinMensajes, EnCamino
  <2> QED
    BY <1>8, <2>1, OcupadaPid DEF PedidoTraducido
<1>9. AccesoPropio
  BY AccesosEnMarcos
<1>10. CASE MemoriaMovOut
  <2>1. peticion.tipo = "MOV_OUT" /\ Escribir(DireccionesMovOut(peticion)) /\ tabla' = tabla
    BY <1>10 DEF MemoriaMovOut, Atiende
  <2>2. TraduccionVigente =>
           \A d \in EnMemoria(DireccionesMovOut(peticion)) : MarcoDe(d) \in MarcosDe(peticion.pid)
    BY <1>9, <2>1 DEF AccesoPropio
  <2>3. PICK D, c : D = DireccionesMovOut(peticion) /\ c = peticion.pid
    OBVIOUS
  <2> QED
    BY <1>0, <1>8, <2>1, <2>2, <2>3, FugasConEscritura
<1>11. CASE MemoriaCopyString
  <2>1. PICK largo \in 1 .. peticion.bytes :
           \/ Escribir(peticion.fisica .. peticion.fisica + largo - 1)
           \/ UNCHANGED <<bitmap_array, bytes_usados>>
    BY <1>11 DEF MemoriaCopyString
  <2>2. peticion.tipo = "COPY_STRING_2" /\ tabla' = tabla
    BY <1>11 DEF MemoriaCopyString, Atiende
  <2>3. PICK D, c : D = peticion.fisica .. peticion.fisica + largo - 1 /\ c = peticion.pid
    OBVIOUS
  <2>4. peticion.fisica \in Int /\ peticion.bytes \in Nat
    BY <1>0 DEF TipoMensajes, Peticion
  <2>5. EnMemoria(D) \subseteq EnMemoria(DireccionesCopia(peticion))
    BY <2>3, <2>4 DEF EnMemoria, DireccionesCopia
  <2>6. TraduccionVigente => \A d \in EnMemoria(D) : MarcoDe(d) \in MarcosDe(c)
    <3>1. TraduccionVigente =>
             \A d \in EnMemoria(DireccionesCopia(peticion)) : MarcoDe(d) \in MarcosDe(peticion.pid)
      BY <1>9, <2>2 DEF AccesoPropio
    <3> QED
      BY <2>3, <2>5, <3>1
  <2> QED
    BY <1>0, <1>1, <1>8, <2>1, <2>2, <2>3, <2>6, FugasConEscritura
<1>12. CASE \/ MemoriaNumeroFrame \/ MemoriaMovIn \/ MemoriaResizeRechaza
            \/ MemoriaResize \/ BucleResponde
  BY <1>1, <1>12 DEF MemoriaNumeroFrame, MemoriaMovIn, MemoriaResizeRechaza, MemoriaResize,
                     BucleResponde
<1>15. ~ MemoriaLecturaRechaza /\ ~ MemoriaLectura /\ ~ LecturaSinMarco
  BY <1>14 DEF NadieLee, MemoriaLecturaRechaza, MemoriaLectura, LecturaSinMarco, Atiende
<1> QED
  BY <1>2, <1>3, <1>5, <1>6, <1>7, <1>10, <1>11, <1>12, <1>15 DEF Next, PasoMemoria, HiloCpuDeMemoria

-----------------------------------------------------------------------------
(* The theorems of the translation                                         *)

InvTraduccion == InvTablas /\ InvTlb /\ InvCurso /\ SinFugas

\* Nothing is translated, nothing is marked and no process is known at the start.
LEMMA InvTraduccionInicial ==
    ASSUME Init
    PROVE  InvTraduccion
<1>1. Inductivo
  BY InductivoInicial
<1>2. /\ \A p \in Pids : Validas(p) = {} /\ estado[p] = "SIN_CREAR" /\ ~ AltaEnCamino(p)
      /\ liberando.pid = 0 /\ bucle.pid = 0 /\ procesos = {}
      /\ peticion.tipo = "NADA" /\ respuesta.tipo = "NADA" /\ ~ cpu.ocupada
  BY DEF Init, InitMarcos, Validas, AltaEnCamino, NadaQueLiberar, SinBucle, NoPeticion, NoRespuesta
<1>3. Altas
  <2>1. Unicas
    BY DEF Init, InitMarcos, Unicas
  <2> QED
    BY <1>2, <2>1 DEF Altas
<1>4. Prefijos
  <2>1. 0 \in 0 .. CantidadMarcos /\ 0 .. 0 - 1 = {}
    BY PaginacionNat
  <2> QED
    BY <1>2, <2>1 DEF Prefijos
<1>5. SoloResize
  BY <1>2, <1>4 DEF Crecientes, NadieLee, SoloResize
<1>6. TlbConocida /\ TlbAlDia
  BY <1>2 DEF Init, EntradaVacia, TlbConocida, TlbAlDia
<1>7. InvCurso
  BY <1>2 DEF InvCurso, Traduciendo, OrdenEnCurso, PedidoTraducido, FaseOrden, FasePregunta, FaseFrame
<1>8. SinFugas
  BY DEF Init, InitMarcos, SinFugas
<1> QED
  BY <1>3, <1>4, <1>5, <1>6, <1>7, <1>8 DEF InvTraduccion, InvTablas, InvTlb

\* Every step keeps the invariant of the translation.
LEMMA InvTraduccionSigue ==
    ASSUME Inductivo, Inductivo', InvTraduccion, [Next]_vars
    PROVE  InvTraduccion'
<1>1. Altas /\ SoloResize /\ TlbConocida /\ TlbAlDia /\ InvCurso /\ SinFugas
  BY DEF InvTraduccion, InvTablas, InvTlb
<1>2. Altas' /\ SoloResize'
  BY <1>1, AltasSiguen, SoloResizeSigue
<1>3. TlbConocida' /\ TlbAlDia'
  BY <1>1, TlbSigue DEF InvCurso
<1>4. InvCurso'
  BY <1>1, CursoSigue
<1>5. SinFugas'
  BY <1>1, FugasSiguen DEF InvCurso
<1> QED
  BY <1>2, <1>3, <1>4, <1>5 DEF InvTraduccion, InvTablas, InvTlb

\* ... which therefore always holds.
LEMMA SiempreInvTraduccion == Spec => [](Inductivo /\ InvTraduccion)
<1>1. Init => InvTraduccion
  BY InvTraduccionInicial
<1>2. Inductivo /\ Inductivo' /\ InvTraduccion /\ [Next]_vars => InvTraduccion'
  BY InvTraduccionSigue
<1> QED
  BY <1>1, <1>2, SiempreInductivo, PTL DEF Spec

\* As long as no program has an IO_STDIN_READ, the pages of a process are always the
\* first ones of its table, whatever the resizes, refused, cut short or completed:
\* tabla_paginas_resize, which counts the pages to know where the table ends, never
\* leaves a hole nor overwrites a page.
THEOREM Paginas_Contiguas == Spec => []PaginasContiguas
<1>1. Inductivo /\ InvTraduccion => PaginasContiguas
  <2>1. SUFFICES ASSUME Inductivo, InvTraduccion, SinLecturas, NEW p \in Pids \ {liberando.pid}
                 PROVE  Validas(p) = 0 .. FramesOcupados(p) - 1
    BY DEF PaginasContiguas
  <2>2. PICK c \in 0 .. CantidadMarcos : Validas(p) = 0 .. c - 1
    BY <2>1 DEF InvTraduccion, InvTablas, SoloResize, Prefijos
  <2>3. c \in Int /\ c - 1 \in Int /\ c >= 0
    BY <2>2, PaginacionNat
  <2>4. Cardinality(0 .. c - 1) = IF 0 > c - 1 THEN 0 ELSE c - 1 - 0 + 1
    BY <2>3, FS_Interval
  <2>5. FramesOcupados(p) = c
    BY <2>2, <2>3, <2>4 DEF FramesOcupados
  <2> QED
    BY <2>2, <2>5
<1> QED
  BY <1>1, SiempreInvTraduccion, PTL

\* When the programs give no page back and have no IO_STDIN_READ, an entry of the TLB
\* of a process that lives is what its page table says, although the TLB is filled by
\* one thread of the CPU and read by another.
THEOREM Tlb_Al_Dia == Spec => []TlbAlDia
<1>1. Inductivo /\ InvTraduccion => TlbAlDia
  BY DEF InvTraduccion, InvTlb
<1> QED
  BY <1>1, SiempreInvTraduccion, PTL

\* When translations stay good (no TLB, or no page given back and no IO_STDIN_READ; no
\* copy leaves its page), what MOV_OUT and COPY_STRING write, and COPY_STRING reads,
\* when memoria attends them is in frames of the process in the CPU.
THEOREM Acceso_Propio == Spec => []AccesoPropio
<1>1. Inductivo /\ InvTraduccion => AccesoPropio
  BY AccesosEnMarcos DEF InvTraduccion, InvCurso
<1> QED
  BY <1>1, SiempreInvTraduccion, PTL

\* ... and then, if no program has an IO_STDIN_READ, no frame leaks: one that is marked
\* in the bitmap is in some table.
THEOREM Sin_Fugas == Spec => []SinFugas
<1>1. Inductivo /\ InvTraduccion => SinFugas
  BY DEF InvTraduccion
<1> QED
  BY <1>1, SiempreInvTraduccion, PTL
=============================================================================
