# C-Comenta in TLA+

A verification project for C-Comenta, a simulated operating system made of four
processes that talk over TCP: **kernel** (processes, planner, resources, console),
**cpu** (instruction cycle, MMU, TLB), **memoria** (scripts, page tables, user
space) and one **entradasalida** per interface (GENERIC, STDIN, STDOUT, DIALFS).
The models are translated from the C sources; `PROJECT.json` maps every definition
to the lines it stands for.

## 1. Inventory

| Component | State | Operations | Interacts through | What makes it correct |
|---|---|---|---|---|
| Process table (`procesos.c`, `transiciones.c`) | six queues, the dictionary pid -> state, the next pid | create, push, pop, remove, the transitions, kill, revert | called by every kernel thread | queues and dictionary agree; one process in EXEC; a pid names one process; the dead stay dead |
| Planner (`planificacion.c`, `hilos.c`) | `planificador_iniciar`, degree, pause flag | admit (long term), FIFO/RR/VRR (short term) | semaphore; dispatch socket | no lost wake-up, no lost admission, degree respected, no starvation |
| Quantum timer (`temporizador.c`, `main.c`) | one `timer_t` | arm, delete, expire | callback thread; interrupt socket | it belongs to the turn in EXEC; whoever executes can be interrupted |
| End of a process (`main.c`) | - | seven reasons, each in six states | memoria, CPU, interfaces | memoria learns of it, resources and interfaces are released, planner is woken |
| Resources (`recursos.c`, `main.c`) | instances and waiting list of each | WAIT, SIGNAL, release | dispatch socket | mutual exclusion, nobody waits for a free instance, nobody waits for nothing |
| Interfaces in the kernel (`utils/kernel/entradasalida.c`, `modulos/io_*.c`, `modulos/cpu_dispatch.c`) | busy flag and pid of each, the request each PCB remembers | request, refusal, completion, next process, kill of the user | dispatch and interrupt sockets, one socket per interface | one request at a time, every blocked process is reported, what is sent is what was asked |
| Registry of interfaces (`utils/kernel/entradasalida.c`, `hilos.c`) | a dictionary name -> index, a list that only grows | identification, rejection, disconnection, look-ups | one thread per interface | a look-up finds who is connected; whoever used an interface that falls is ended everywhere |
| Console (`consola.c`, `comandos/`) | - | eight commands | runs in its own thread over all of the above | legal at any moment |
| CPU cycle (`cpu.c`, `instruccion_ciclo/`) | registers, `flag_interrupt` | fetch, decode, execute, interrupt check, return of the context | dispatch, interrupt and memoria sockets, one thread each | an instruction runs in the context it was fetched for; a turn is returned once |
| MMU and TLB (`cpu.c`, `mmu.c`) | TLB entries and order | look-up, FIFO/LRU replacement | memoria socket | a translation is memoria's |
| Memoria: scripts (`atencion/`) | processes and their scripts | create, end, fetch | kernel and CPU threads | it serves live processes |
| Memoria: frames (`tabla_paginas.c`, `espacio_usuario/`) | page tables, frame bitmap, used bytes | resize, assign, free, read, write | kernel, CPU and interface threads | a frame has one owner, freed memory is usable again |
| Entradasalida GENERIC/STDIN/STDOUT | the request in course | sleep, read, write, interruption | kernel and memoria sockets, a timer thread | every request is answered once, with its own pid |
| Memoria: interfaces (`atencion/io_stdin.c`, `io_stdout.c`) | - | write what was typed, read what is printed | a socket per interface | a request is answered, also when its process has ended |
| DialFS (`filesystem/`, `kernel_dialfs.c`) | bitmap, blocks, metadata | create, delete, truncate with compaction, read, write | kernel socket | files are contiguous and disjoint, bitmap and metadata agree |
| Sockets, serialisation, handshakes, configuration | - | pure input and output | | |

What is hard here: every socket has a thread of its own in each process, and the
handlers share the queues with fine locks or none; the planner sleeps on a
semaphore that every handler must remember to post; the quantum is a timer whose
interrupt races with the packet that ends the turn; the operator may kill a
process in any state, with messages about it in five sockets; the kernel keeps the
same fact in a queue, a dictionary, a waiting list and a flag. `PROJECT.json`
lists the hazards at their lines.

## 2. Modules

| Module | Models |
|---|---|
| `Procesos` | the queues, the dictionary, the transitions, the timer wrapper; functions from a kernel state to a kernel state |
| `Finalizacion` | `kernel_finalizar_proceso` of the process in EXEC, reason by reason |
| `RecursosKernel` | WAIT, SIGNAL, release |
| `InterfacesKernel` | GENERIC interfaces in the kernel, and the kill of a process wherever it is |
| `Kernel` | the kernel's threads: console, planner, timer, one handler per packet |
| `Sistema` | the composition: kernel, CPU, memoria and GENERIC interfaces with their sockets |
| `PerifericosKernel` | STDIN, STDOUT and DIALFS in the kernel: requests, completions, next request, kill of the user, registry; over `Kernel` |
| `Perifericos` | the composition with every interface: their instructions, the MMU's thread, memoria's answers, the interface processes, interfaces that fall and return; over `Sistema` |
| `PropiedadesPerifericos`, `MCPerifericos` | what that system promises, with its fairness; the instances for TLC |
| `Propiedades`, `MCSistema` | what the system promises; the instances for TLC |
| `KernelPruebas`, `OrdenPruebas` | lemmas on lists, and one per function of the kernel: its types and EXEC; queues and dictionary |
| `SistemaPruebas` | types and one process in EXEC; queues and dictionary, the end of a process and memoria's notices, proved: lemmas one per action |
| `HiloPruebas` | who carries the turn of the process in EXEC, and the life of the quantum timer, proved |
| `TurnosPruebas` | the planner's wake-ups, the degree of multiprogramming and the admissions, proved |
| `EsperasPruebas` | what the blocked processes wait for: lists of the resources, requests of the interfaces, and that nothing falls, proved |
| `Marcos` | memoria's page tables, bitmap and used bytes, with the kernel's and the CPU's threads of memoria |
| `Traduccion` | the CPU's memory instructions, the MMU's thread with its semaphore, the TLB; composes with `Marcos` |
| `PropiedadesMemoria`, `MCMemoria`, `MemoriaPruebas` | what the paging promises; the instances for TLC; theorems and proofs |
| `DialFs` | the file system of a DIALFS interface: memory, metadata and bitmap, the requests, compaction, stop and start |
| `Archivos` | abstract specification: files with a size, which a stop leaves as they are, and requests that take effect once |
| `PropiedadesDialFs`, `MCDialFs` | what the file system promises, that it implements `Archivos` among it; the instances for TLC |
| `DialFsPruebas` | every promise of the file system, proved: the refinement, metadata, blocks, bitmap, restart |

**Correspondence.** The kernel's record `k` holds what `hilos_args` reaches in C:
`cola` (the six `t_list`), `procesos` (the dictionary), `pcb`, the counters, the
recursos and the interfaces, the timer, the token count and the four outgoing
sockets. Each function of the source that changes state is an operator from a
record to a record, with its name; a handler composes them in the order of the C
code, and is one action. CPU, memoria and interfaces are small state machines of
`Sistema`; a socket is a FIFO sequence.

`Perifericos` adds to `Sistema` what the other interfaces need. In the kernel, seven packets of
the CPU have the same four endings (the process is gone, the interface is not there or is of another
type, it is busy, it is free), so that `PedirIo` is written once and named seven times; where
the C code differs (who tells the CPU of a refusal) the operator says so. The MMU's thread is the
count of its semaphore and the packet its argument points to, which `mmu_iniciar` overwrites and the
turn before frees. Notices to the CPU share the socket of the dispatches (`a_cpu`). Whether an
operation on a page table, a frame or a file goes well is a choice here: the tables are in `Marcos`,
the files in `DialFs`. `list_entrada_salida` is not kept as a list: what matters is that a freed entry is in
it (`liberadas`), after which a search by pid may end the kernel (`BuscarPid`).

The paging is a second system, `Marcos` under `Traduccion`, and not a part of `Sistema`:
what the kernel does to it (create, dispatch, take off the CPU between two
instructions, end) is a small environment of `Traduccion`. Its variables are the fields
of `t_memoria` and `t_cpu` of the same names. `tabla_paginas_liberar` and the loop of
`tabla_paginas_resize` are one step per page, `tabla_paginas_liberar` two: the threads of
memoria share no lock for the frames. The CPU has one request to memoria at a time,
which is a property of the model and not an assumption (`Fases`).

DialFS is a third system, of one process. `archivos` is the dictionary of `t_fcb` in memory;
`metadata` and `bitmap` are what is on disk (`config_save`, the mapped bitmap). One thread
attends one request at a time; a request is cut where it writes to disk a second time
(`fase`), and each turn of the loop of `fs_compactar` is a step, so that `Detener` can fall
between them. Memory and the request in course are then lost, the disk stays, and `Arrancar` is
`metadata_inicializar`. The kernel is whoever sends any request (`Pedir`); no answer is a
possible answer (`Callar`). `Promesa` maps it to `Archivos`: the files are those of
`metadata` on disk with their sizes. CREATE shows there before its last step (`YaCreado`), DELETE and
TRUNCATE with it; its empty metadata file (`vacias`), the moves of a compaction, the marks of the bitmap and `Arrancar` are stutters.
The one step that maps to none is `RespondeSinArchivo`: CREATE answers OK of a file it could not open.

**Atomicity.** A handler is one step. The kernel's transitions lock the pair of
queues they use but the handlers do not lock as a whole; the finer interleavings
are left (section 6). What the models do interleave freely is what the sockets, the
timer, the planner thread and the operator interleave: the order of all handlers.

In DialFS the move of one file (bits and metadata) is one step, and so is each `config_save`: a stop inside them
is not modelled. CREATE is three steps: the empty file, its keys, the bit.

In memoria a page operation is one step, and so is the count of the free bytes. A process
killed while it executes is only in `Sistema` and `Perifericos`: there the MMU may be left waiting for an answer that never comes.

**Undefined and environmental behaviour.** A NULL dereference ends the process
(`k.caido`, `memoria.caida`) and nothing of it moves any more. The pid read from a
freed PCB (`kernel_signal`, INTERRUPCION) is any value, garbage included. A second free of the MMU's
packet, or of the arguments of a DELETE that waited, ends the process or does nothing. The
order of dictionary keys is any. A timer already deleted in `interrumpir_temporizador`
leaves nothing to return: not worth a turn.

**Data left out.** Registers other than the pc (a JNZ may jump or not), the text of
scripts (a script is a sequence of operations, never empty: memoria treats an
empty file specially and answers as if it had none), the duration of a quantum
(what matters is whether more than 100 ms remain; every shipped configuration has
500 or more), logging. `SET` stands for SET, SUM and SUB, which have the same
control. Of the data in the user space only the frames it falls in are kept: which
addresses a MOV_OUT or a COPY_STRING touches. COPY_STRING copies up to the first zero
byte: any length. The seconds of `time(NULL)` in the TLB are kept as their order. TAM_MEMORIA
is a multiple of TAM_PAGINA, as in every shipped configuration. Of a file of DialFS only its
size and its blocks are kept, not the bytes of bloques.dat: no decision depends on them. A bit
beyond the last block is dropped, because nobody reads it. EJECUTAR_SCRIPT is what `OperadorEspera = FALSE` allows: the console does not
wait for memoria between commands.

## 3. Runs

Bounds: `MaxPid` processes are created, scripts have at most `MaxPc` instructions
(the pc is not advanced beyond), `TopeSemaforo` bounds the tokens: a post at the
bound is not lost for the planner, which only asks whether there is one. Two
processes already give every pair of interleaved turns; three are used where a
queue must have a middle. In the paging, two processes and three frames of four bytes
are the least where a table can grow, shrink, cross a page and run out of frames
against another; a TLB of one or two entries is smaller than the pages in use. In DialFS three
files on five blocks are the least where one file grows by two blocks over two neighbours, so
that a compaction makes a chain of moves; `MaxTamanio` stops files at three blocks.

| Run | Setting | Shows |
|---|---|---|
| `planificador` | RR, 3 processes, loops and unknown names, operator stops and starts the planner | `TypeOK`; `ControlUnico`: exactly one thread of control for the process in EXEC over all sockets; `InstruccionPropia`; `SinDespertarPerdido`, `AdmisionSinPerder`; `SinCaidas` |
| `consola` | RR, 2 processes, rejected by memoria and killed in any state | `ColasCoherentes`, `ExecUnico`, `MemoriaAlDia`, `TemporizadorDelTurno`, `ExitDefinitivo` |
| `recursos` | VRR, 2 processes, one resource, one interface, a RESIZE, priority queue | `BloqueadosCoherentes`, `SinEsperaOciosa`; `ConQuantum`: nobody keeps the CPU for a lost timer |
| `esperas` | FIFO, deadlock on two resources after one interface, unknown and failing instructions, rejections, kills, degree 1 or 2 | `PeticionAtendida`: whoever waits for an interface will be reported, or its turn will come; `MatarSepara`: a kill undoes the deadlock; `SinDespertarPerdido`, `GradoRespetado` |
| `perifericos` | FIFO, 2 processes over files, screen and keyboard, kills, one thing that goes wrong (`MaxImprevistos`) | `TipoPerifericos`, `ColasCoherentes`; `MemoriaAlDia`: also for the user of an interface that falls; `EsperaSuPedido`: nobody goes on while an interface still works for it |
| `vivacidad` | RR, fairness, 2 processes over files and keyboard | `ControlUnicoPeriferico`: one thread of control through CPU, MMU, memoria and kernel; `PedidosAtendidos`, `PedidoPropio`: no request is lost, doubled or another's; `Termina`, `ListoEjecuta` |
| `memoria` | 2 processes, 3 frames, 12 settings (`MCMemoria`): growing and shrinking, kills with a slow release, copies in and beyond a page, FIFO and LRU TLBs, frames to read into from a keyboard | `TipoMemoria`; `MarcoExclusivo`, `PaginaMarcada`, `SinFugas`, `PaginasContiguas`: frames; `AccesoPropio`, `TlbAlDia`: translations are good when used; `UnSoloPendiente`: the MMU's semaphore (each under its conditions, below) |
| `dialfs` | 3 files, 5 blocks, any requests, a CREATE that cannot open its file, stops and starts | `TipoDialFs`, `CumpleArchivos` (it implements `Archivos` but for `RespondeSinArchivo`): whatever is asked; `SinSolapes`, `BitmapExacto`, `ReinicioFiel`: while used as foreseen |
| `exclusion` | FIFO, 3 processes, one resource | violated: two hold the only instance |
| `una_io` | FIFO, 3 processes, one interface | violated: two requests in one interface |
| `resize_parcial` | two processes that grow, three frames | violated: RESIZE answers OK without the pages |
| `escritura` | 2 files, 5 blocks | violated: a WRITE beyond the end of its file is accepted |

The paging may stop: when every process ended there is nothing to do, so its runs do not
look for deadlock; nor do those of DialFS, which rests when `metadata_inicializar` refuses what is on disk.

`previsto` (run `dialfs`) is a history variable of `PropiedadesDialFs`: no step so far was one the
code does not cope with. There are four kinds, each an action formula of its own:
`CortaUnPedido`, a stop between two writes of a CREATE, a DELETE or a TRUNCATE; `NoAbre`, a CREATE that cannot open its file
or read it back; `CreceMal`, the
growth of a file of several blocks, one whose odd bytes add up to a block, or one with no run of free
blocks after the file; `MueveUnLleno`, a compaction that moves a file that fills its block. None
of them, nor any of their parts, is more than is needed: leave one out and `BitmapExacto` or
`ReinicioFiel` fails in this same run (observations).

`MaxImprevistos` (run `perifericos`) counts together the operations that fail, the interface
processes that die or are rejected and the processes that are killed. One at any point of the
execution is what the recovery code of each handler is for; a second one meets a system whose
interface, token or turn the first may already have lost (observations). With the budget at one the processes
still meet each other's waiting requests in the file system, a killed process's late
completion, a keyboard that returns with requests queued before its fall. `Desconectables` is the keyboard,
which the last process created uses: with another the notice to memoria names the wrong process.

`vivacidad` has no mishaps and no kills, because the code does lose processes then (observations).
It leaves out a DELETE that waits for a busy file system, which frees its arguments twice, and STDOUT under RR,
whose notice takes the interrupt meant for the cycle while a fetch is on its way and returns
the process twice. Both are in `perifericos`: the first with the crash as an outcome, the second under FIFO.

`DespachoOportuno` (run `recursos` only) assumes that the CPU takes the dispatch before
the quantum of that very turn expires. Without it the interrupt overtakes the
dispatch, `proceso_recibir` clears `flag_interrupt` and the turn has no end: a
weakness of the code in time scales the configurations never reach.

`config.holgado` (run `memoria`) says that memoria attends the end of a process before the
next one's first request (`FinalizacionesAlDia`). `memoria_hilo_ejecutar` sleeps
RETARDO_RESPUESTA / 1000 whole seconds before each packet, and a request comes after
the fetch of its instruction, so with a delay of a second or more an end is two delays
ahead, unless the operator piles up creations in front of it or kills. With less than a
second the sleep is zero; that is the setting `Apurado`, where `MarcoExclusivo` and
`PaginaMarcada` are not claimed. `TraduccionVigente`, `SoloCrece` and `SinLecturas` say for which programs a
translation is good when it is used: with a TLB no table shrinks and nobody has an IO_STDIN_READ, and a COPY_STRING
stays in its page. `CPU_MEMORIA_IO_STDIN_READ` takes a new frame for every page from the one it names on, whether it had
one or not: `SinFugas`, `PaginasContiguas` and `TlbAlDia` are claimed where no program has one, `MarcoExclusivo`,
`PaginaMarcada`, `UnSoloPendiente`, `TipoMemoria` and, without a TLB, `AccesoPropio` with it too. `Definido` ends when such a request
runs out of frames half way: memoria answers, frees it, goes on with it and frees it again, which is
undefined, and the model follows the thread no further.

**Fairness** (`SpecPerifericosJusta`): weak fairness for each thread of each process, that is,
the operating system schedules them: planner, timer, one thread per socket of the kernel, the CPU's cycle and its MMU,
memoria, each interface. The user at a keyboard types what is asked for. The operator at the
console is not fair. No strong fairness is needed: a thread with something to do keeps it until it runs.

**What the passing runs do not claim.** Mutual exclusion and one request per interface fail with
three processes (the findings). `SinCaidas`, `ControlUnico` and
`InstruccionPropia` are checked where nobody is killed, `ControlUnicoPeriferico`, `PedidosAtendidos` and
`PedidoPropio` where nothing fails either: see the observations.
Every property of a passing run has a mutant in `PROJECT.json`, a plausible bug of
the mapped definition, that TLC refutes under the same configuration.

## 4. Findings and observations

Findings, each with a run: the first guard of `kernel_wait` breaks mutual
exclusion with three processes; `kernel_proximo_io_generic` sends every waiting process; RESIZE answers OK to a process
that did not get its pages; the guard of WRITE (`kernel_dialfs.c:378`), which should keep a write inside its
file, adds bytes to blocks and compares them with the number of a block.

Observations met while modelling, from the same models with other bounds:

- `proceso_revertir` does `pid -= 1` whichever process was created last (`procesos.c:221`): two
  INICIAR_PROCESO before memoria rejects the first make a later process repeat a live pid. `PidUnico`
  (in `ColasCoherentes`) fails with `OperadorEspera = FALSE`.
- FINALIZAR_PROCESO of a process in READY_PRIORIDAD ends the kernel:
  `proceso_obtener_estado` has no list for it (`procesos.c:298`). `SinCaidas` fails under VRR
  with kills.
- `kernel_recurso_liberar` leaves the process it wakes in the waiting list
  (`main.c:377`).
- A WAIT or SIGNAL whose process was killed on the way dereferences NULL
  (`cpu_dispatch.c:407`).
- After a kill in EXEC the reply to the old fetch is executed in the context of the next
  process; with three processes under RR, memoria can be asked for an instruction past
  the end of a script, and falls.
- Killing a blocked process and raising the degree post no token: an accepted process in
  NEW waits for the next event.
- A process with an unknown instruction returns to READY for ever.
- A SIGNAL of an unknown resource ends its process without stopping the quantum timer (`main.c:321`;
  WAIT stops it at `main.c:260`): the timer outlives the turn, and `TemporizadorDelTurno` is
  claimed only where no script has such a SIGNAL.
- IO_GEN_SLEEP is sent on the interrupt socket (`instruccion_ejecutar.c:489`) and the notice of a RESIZE
  on the other. If the kernel reads the second later, the process of a RESIZE that went well is no longer in EXEC, and is ended
  with OUT_OF_MEMORY (`cpu_dispatch.c:308`), the quantum timer deleted is that of the next process (`ConQuantum`
  fails), and the end of a process outside EXEC posts no token (`AdmisionSinPerder` fails).
- `tabla_paginas_liberar` clears each frame's bit twice (`tabla_paginas.c:51`), and between the two
  the CPU's thread may hand the frame out: with the shipped configurations of
  RETARDO_RESPUESTA=100 (`io`, `fs`, `salvation_edge`) `MarcoExclusivo` is not guaranteed.
- The TLB keeps the entries of pages given back by RESIZE: `TlbAlDia` and `AccesoPropio` fail
  without `SoloCrece`.
- IO_STDIN_READ gives a new frame to every page from the one it names on (`memoria/src/atencion/cpu.c:394-436`), without a
  look at `validez`: the frame a page had stays marked and in no table (`SinFugas`), the TLB points at it (`TlbAlDia`,
  `AccesoPropio` with a TLB), and pages given past the end of the table leave a hole (`PaginasContiguas`). All fail without `SinLecturas`.
- When it runs out of frames half way (`cpu.c:399-431`) its `break` leaves only the loop: a refusal is sent, the request is freed,
  and the acceptance that follows is made of what was freed.
- COPY_STRING translates its first byte and goes on in the next physical frame; the check of the
  frame's owner is commented out in `escritura.c`. `AccesoPropio` fails without `CopiasEnPagina`.
- RESIZE compares all the bytes asked for with what is free, the process's own pages
  counted as taken: a process that holds most of the memoria is told Out of Memory when it
  asks for one page more.
- `espacio_usuario_leer_uint8` takes the address as a `uint8_t`: a MOV_IN of one byte beyond address 255
  reads elsewhere, which is why `AccesoPropio` says nothing of MOV_IN.
- TRUNCATE counts the new last block from the first block of the file (`kernel_dialfs.c:235`): the
  second growth of a file forgets blocks it had, whose bits stay set (`BitmapExacto`).
- A compaction that finds no run of free blocks after the file ends without a word, and the file grows over its neighbour or
  past the end of the disk, although the log that follows says that it has contiguous blocks
  (`SinSolapes`).
- `fs_desplazar_archivo_hacia_derecha` (`utils/entradasalida.c:637`) forgets the minus one of
  `metadata_inicializar`: a moved file that fills its block seems to have one more.
- When no file ends where the free blocks begin, `fs_compactar` compares a name with NULL and the
  process ends.
- After a stop between the mark and the other write of a CREATE, a DELETE or a TRUNCATE, blocks are given to two files and
  the next start may be refused; a stop between two moves of a compaction is harmless.
- CREATE makes its metadata file empty (`utils/entradasalida.c:535`) and saves the keys at line 552: after a stop between the
  two, `metadata_inicializar` reads keys that are not there, and that start and every later one dies (`vacias`).
- `fs_archivo_crear` does not tell its caller that it could not open the file (lines 536 and 545): the block is marked, the kernel
  gets OK and there is no file (`RespondeSinArchivo`, `NoAbre`).
- A GENERIC interface keeps one pid (`kernel_generic.c:14`), so that when the kernel sends it two requests it reports the
  second process twice; the second report makes it ready in whatever it waits for by then. With four processes and two interfaces
  `BloqueadosCoherentes` fails, and a SIGNAL that pops a process no longer in BLOCK ends the kernel.
- DELETE, WRITE and READ of a file that does not exist are never answered, although the kernel
  (`io_dialfs.c`) has an answer for a failed one: process and interface wait for ever.

And of the interfaces, with other bounds of `MCPerifericos`:

- A failed CREATE or DELETE frees the interface and neither sends the next request nor posts the
  planner; a failed TRUNCATE leaves the interface busy (`io_dialfs.c`). Whoever waits is forgotten.
  `PedidosAtendidos` fails.
- The kill of a process that uses a DIALFS interface does not send the next request: the test
  compares the type of the interface with those of the requests (`utils/kernel/main.c:466`).
- The entry of an interface that left stays, freed, in `list_entrada_salida`, and every search by pid reads
  it; whoever waits for that interface is forgotten; and memoria is told of the end of the last process
  created, not of the one killed (`utils/kernel/entradasalida.c:254`). `MemoriaAlDia` fails when the
  interface of an earlier process falls.
- STDIN and STDOUT read an interruption from a socket that was never opened and end
  (`kernel_stdin.c:54`): one kill and the interface is gone.
- A failed COPY_STRING ends its process without a token for the planner (`cpu_dispatch.c:433`), and memoria's
  refusal of an FS_WRITE is told to nobody (`cpu/src/atencion/memoria.c:361`): the CPU stays with the process.
- Memoria does not answer a frame asked for a process that was killed, and the next `mmu_iniciar` is
  taken for the answer (`mmu.c:52`). A post too many finds its packet freed.
- A refusal tells the CPU as well (`entradasalida.c:268`), which finishes whatever it runs by then with
  an error. The notice of STDOUT takes `flag_interrupt`: under RR with a fetch on its way the process comes back
  twice, and `ControlUnicoPeriferico` fails.
- STDOUT's request is sent before the process is in BLOCK (`cpu_dispatch.c:131`): were the answer faster
  than the rest of the handler, it would look for it in vain. The model's handler is one step.
- A DELETE that waited frees its arguments twice when it is sent. What FS_READ read reaches memoria after
  its process is ready to run.
- The completions of STDIN and STDOUT with a failure are dead code: neither interface reports one.

## 5. Proofs

TLAPS proves, for every number of processes, every script, every set of resources and
interfaces and the three algorithms:

- `SistemaPruebas!Tipos`: `Spec => []TypeOK`. `TypeOK` is more than field types: a pid on its
  way to the CPU, to memoria or to an interface is a real one, and the CPU has a process
  while it talks to memoria.
- `SistemaPruebas!Exclusion`: `Spec => []ExecUnico`, at most one process in EXEC.

Argument: `Inductivo == TypeOK /\ ExecUnico` is inductive. `ExecUnico` is not inductive
alone, because nothing would be known of the queues; nor is `TypeOK` convenient alone,
because the step of the planner needs both. For each function of the kernel a lemma
(`KernelPruebas`) says that it maps typed states to typed states and that EXEC does not grow
(`Conserva`); only the short term planner makes it grow, and only from empty
(`CortoPlazoEnTurno`). `SistemaPruebas` has one lemma per action of `Sistema`. `KernelPruebas` opens with the facts about
filtered and injective sequences it needs, proved without induction.

Further on, of the same system:

- `SistemaPruebas!Colas_Coherentes`: `Spec => []ColasCoherentes`, `Exit_Definitivo`: `Spec => ExitDefinitivo`,
  `Memoria_Al_Dia`: `Spec => []MemoriaAlDia`; `TurnosPruebas!Sin_Despertar_Perdido`: `Spec => []SinDespertarPerdido`.
  These four under `OperadorEspera = TRUE`, the operator who waits for memoria's answer before the next INICIAR_PROCESO.
  The code does not make him wait, and without it the first three are false: two creations in a row and a rejection repeat a
  live pid (observations), TLC finds it with three processes. The fourth rests on them; no counterexample of it is known.
- `TurnosPruebas!Grado_Respetado`: `Spec => GradoRespetado`, whatever the operator does.

Argument: three layers on top of `Inductivo`; the invariant is `Coherente`, their conjunction.
`Orden`: the queues and the dictionary say the same, each pid once. `Creacion`: the pids are handed out in order, and a
creation on its way, to memoria or back, is on its way once and is of the last pid handed out, still in NEW, or of a process killed
meanwhile, which is what makes the `pid -= 1` of a rejection give back the right number. `AlDia`: whoever ended and
is still in memoria has a notice on its way, behind its creation if that has not arrived either. Each
function of the kernel has one lemma (`OrdenPruebas`: what it moves, `Traslado`; whom it ends, `Sigue`), each action
of `Sistema` another (`SistemaPruebas`), which also says that nobody leaves EXIT.
For the wake-ups each handler, taken whole, either posts or is `Callado`: nobody leaves EXEC and
nobody becomes ready in it (`Vela`). The degree is a property of one step, of the planner alone, which reads the
queues as the others left them; it needs `Inductivo` only.

Five more, all under `OperadorEspera = TRUE`. Each has besides the conditions without which it is
false, and none more: leave one out and TLC finds a counterexample on a small instance.

| Theorem | Proves | Conditions | Without them |
|---|---|---|---|
| `HiloPruebas!Instruccion_Propia` | `[]InstruccionPropia` | nobody is killed | the reply to a killed process's fetch runs in the next one's context |
| `HiloPruebas!Control_Unico` | `[]ControlUnico` | nobody is killed; no unknown instruction in a script (`Validas`) | its cycle ends and nobody is told: EXEC stays occupied |
| `HiloPruebas!Temporizador_Del_Turno` | `[]TemporizadorDelTurno` | every SIGNAL names a configured resource (`SignalsValidos`); kills allowed | the SIGNAL empties EXEC and leaves the timer |
| `HiloPruebas!Con_Quantum` | `[]ConQuantum` | nobody is killed; `DespachoOportuno`; no IO_GEN_SLEEP after a RESIZE (`SinSleepTrasResize`) | the late notice of the RESIZE deletes the timer of the next turn |
| `TurnosPruebas!Admision_Sin_Perder` | `[]AdmisionSinPerder` | nobody is killed; the degree is not changed; `SinSleepTrasResize` | each of the three makes room without a token |

Argument: `Hilo` says what "one thread of control" means when the kernel, the CPU and memoria are between any two steps: over the
five sockets and the CPU's own state at most one item carries the turn, it names the process in EXEC,
and what the CPU holds (pid, pc, the instruction asked for) is what was asked of memoria. `Control` adds that there is
exactly one when the scripts are `Validas`. It is inductive over `Coherente`, since a dispatch must find the process
alive and in one queue. A RESIZE is the exception the definition has to carry: it sends a notice to the kernel *and*
goes on, so that packets of the dispatch socket may be notices, never two of them endings. `Reloj` follows the timer: armed only with EXEC occupied, and no packet under way is a SIGNAL the kernel
cannot place (from the scripts, through what memoria answers: `EntregaDelGuion`). `Avisos` says that every
packet of the dispatch socket is of the process in EXEC, and a notice of one whose script has a RESIZE behind its pc; with
`SinSleepTrasResize` no turn ends in the other socket with a notice still on its way. On it rest `Quantum` (armed, expired and
on its way, or the turn is already ending) and `Admision`: when somebody can be admitted there is a token (`Admisible`), and in NEW only the last process may still be waiting for
memoria (`EnFila`), which is why the head of the queue never blocks an accepted process behind it. Under
`Admision` every handler of the kernel has one lemma more: nobody leaves the count of `Concurrentes` without a post (`MismaFila`).

And four about the blocked processes (`EsperasPruebas`), all under `OperadorEspera = TRUE`, nobody killed,
`SinSleepTrasResize`, and interfaces that at most two scripts name (`DosPorInterfaz`):

| Theorem | Proves | Without the conditions |
|---|---|---|
| `Bloqueados_Coherentes` | `[]BloqueadosCoherentes` | three users: two requests are sent at once, the interface keeps one pid and reports the second process twice, and the second report wakes it when a resource holds it |
| `Peticion_Atendida` | `[]PeticionAtendida` | three users: of two requests sent, only the last is registered, and the other process stays in BLOCK |
| `Sin_Caidas` | `[]SinCaidas` | a kill, or a sleep after a RESIZE (its late notice ends a process in READY_PRIORIDAD, which has no list), or three users: a handler looks up a process where it is not |
| `Sin_Espera_Ociosa` | `[]SinEsperaOciosa`, if at most two scripts name each resource (`DosPorRecurso`) | three: `kernel_wait` does not count the second to block, whom the first SIGNAL leaves waiting with the count at zero |

The conditions are common to the four because the invariant is one. `PeticionAtendida` is checked with kills too (run `esperas`),
and no counterexample of `PeticionAtendida` or `BloqueadosCoherentes` is known for a sleep after a RESIZE: those two conditions may be
more than they need.

Argument: the invariant adds three facts to that of the previous theorems. `Esperas`: a process in BLOCK has
exactly one reason, and nobody else has one (`UnMotivo`): a resource holds it, or it is registered in an interface, or it remembers a busy one. `Guiones`: a packet of the CPU about a resource or an interface is an
instruction of its process's script, so that whoever names one is one of its users, and no pc with which memoria is asked is past the
end of the script. `Peticiones`: an interface is busy exactly while one request of it is in course, counted over the five places
it can be (sent, sleeping, orphaned timers, notices, completed), and they all name the process registered. With two users only one can be waiting when the other
completes, which is where `kernel_proximo_io_generic`, that sends everybody, is right. `Esperas` is a fact about the kernel's
state alone, so each handler has one lemma about it; `Peticiones` needs one per step of an interface.
That nobody falls follows at each lookup: the packet is of the process in EXEC (`Hilo`), whoever SIGNAL pops is in BLOCK (`Esperas`).

And of the paging (`MemoriaPruebas`), for every number of processes, frames, page size, TLB
and set of programs:

- `MemoriaTipada`: `Spec => []TipoMemoria`, and `SemaforoDeLaMmu`: `Spec => []UnSoloPendiente`.
- `MarcosExclusivos` and `PaginasMarcadas`: `Spec => []MarcoExclusivo`, `Spec => []PaginaMarcada`.
- `Paginas_Contiguas`, `Tlb_Al_Dia`, `Acceso_Propio` and `Sin_Fugas`: `Spec => []PaginasContiguas`,
  `[]TlbAlDia`, `[]AccesoPropio`, `[]SinFugas`. With these eight, every property of the run `memoria` is a theorem.
  The conditions on the programs (section 3) are in the properties themselves: `Paginas_Contiguas`, `Tlb_Al_Dia` and `Sin_Fugas` are about
  programs without IO_STDIN_READ, the first four about any, while `Definido`.

Argument: `UnSoloPendiente` counts, and a count is not inductive: it has to be known which of
five phases the CPU, the MMU and memoria are in together (`Fases`), that the process in
the CPU is the one that executes (`Turno`) and that the loop of a resize or of an IO_STDIN_READ belongs to its
request (`EnBucle`). That is `Protocolo`. The types need it (a translation is of a real
process, the loop of the resize ends inside the table because the check in front
bounds its bytes: `ResizeEntra`), and need that only ended processes are released
(`Finalizados`), or the table under a resize could be emptied from the other thread.
`Inductivo == Tipos /\ TipoBucle /\ Protocolo /\ Finalizados` is the invariant. Frames need one more
fact, relative to it: nothing is released, or waits to be, while pages are given or taken
(`ResizeEnCalma`), so that a frame with a clear bit is in no page (`PaginaMas`).

The translation needs `InvTraduccion`, in three parts. `InvTablas`: a pid is created once and has pages only while
memoria has it (`Altas`: a TLB entry of a dead process can never speak of a new one); where no program reads, a table is a prefix, under resize too up
to the index of the loop (`Prefijos`), and with one size to ask for no resize gives a page back (`Crecientes`). `InvTlb`: entries
name processes memoria has read of, and agree with their tables. `InvCurso` follows an instruction from the order to the access: what
was asked is of the order in course, what was answered is what the table says *now*
(`Traduciendo`), the source of a COPY_STRING stays in its frame while its destination is translated (`OrdenEnCurso`), what is asked
of memoria is in frames of the process (`PedidoTraducido`). It holds because of `TablaDelTurno`: once a RESIZE or an IO_STDIN_READ has its answer, and in any other instruction,
neither thread of memoria touches the table of the process in the CPU. The rest is the arithmetic of pages
(`DireccionUnica`, `MismoMarco`). `SinFugas` does not need `holgado`: clearing a bit twice loses marks, never leaves one.

And of DialFS (`DialFsPruebas`), for every number of files, blocks and bytes per block:

- `DialFsMetadataAlDia`: `Spec => []MetadataAlDia`: memory and metadata agree whatever is asked. It is a fact the others rest on, and no run checks it apart.
- `DialFsImplementa`: `Spec => CumpleArchivos`, the refinement: every step is one of `Archivos`, a stutter or `RespondeSinArchivo`.
- `DialFsTipo`, `DialFsSinSolapes`, `DialFsBitmapExacto`, `DialFsReinicioFiel`: `Spec => []TipoDialFs`,
  `[]SinSolapes`, `[]BitmapExacto`, `[]ReinicioFiel`. Every property of the run `dialfs` is a theorem.

Argument: a step maps to `Archivos` only if the request in course agrees with its phase and with what
the disk already says of it (`PasoDelPedido`: a CREATE that has not saved its keys has no file, and after it, or in the second half of a DELETE or of a TRUNCATE the file is in the
metadata, and what a TRUNCATE is about to save is the size there plus what was asked), which needs memory and metadata to
agree between requests. `Coherente == Formas /\ MetadataAlDia /\ PasoDelPedido` is inductive. Nothing is needed of the bitmap or of
the places of the files: that is why the refinement holds for every use, also those where
`SinSolapes` does not.

Blocks and bitmap hold while `previsto` (section 3), and need, besides `Coherente`, `Tipos` and `Orden`: the files are pairwise apart and
inside the disk (`Separados`); the bitmap marks their blocks, and in the middle of a request those and the ones the
request has taken or not yet given back, phase by phase (`Marcas`); a file that grows has its new blocks free after it (`Crecimiento`);
and a compaction has where to go (`Lugar`): there is a run of free blocks in front of the files still to be moved, and there are fewer of them
than turns left, so that when the loop ends nobody is left to move. The last is a count, of sets and not of steps, because the
loop takes the file that ends where the free blocks begin, in no order known beforehand.

Assumptions: the named ASSUMEs of the modules (`MaxPid` positive, scripts
non-empty sequences of operations, names of resources and interfaces, the algorithm one
of three). TLC evaluates them in every run.

Only model-checked: of the kernel, the mutual exclusion of the resources and one request per interface, which are false in general
(findings), and the properties above where their conditions fail but the runs' scripts keep them (`PeticionAtendida` with kills); `MatarSepara`, which is about kills;
all of `Perifericos` (`TipoPerifericos`, `ControlUnicoPeriferico`, `PedidosAtendidos`, `PedidoPropio`, `EsperaSuPedido`), whose handlers
are built on those proved about, with other state around them: their invariants hold only for the bounds and scripts of the run, where
nothing fails; and liveness, which is out of the prover's reach.

## 6. Not modelled, and what is left

- **Shutdown** (`finalizar_consola.c`, `kernel_finalizar`): `sistema_finalizar` starts at 4 (`kernel/main.c:61`), so the waits
  for the planner and the modules pass at once, and lists are freed and mutexes destroyed that other threads still use. Every step after it may be undefined; there is no promise to state.
- **Sockets, serialisation, handshakes, configuration** (`serial.c`, `conexiones.c`, `handshake.c`, `configs.c`): copies
  of fields and start-up order; a socket is a FIFO sequence, which is what TCP with `MSG_WAITALL` gives.
- **The console's parser**, `EJECUTAR_SCRIPT` (bursts of the same commands) and `PROCESO_ESTADO` (prints).
- **Values**: registers other than the pc, bytes of user space and of bloques.dat, the number of frames of
  an access of several pages.
- **Tests and build files**: placeholders of the test framework.

What another step would add: the handlers of the kernel cut at each lock; in `Marcos`, the writes of STDIN's interface and
FS_READ into the user space, from threads of their own, and the translations of STDOUT_WRITE, FS_WRITE and FS_READ, which only read the tables; an abstract memory that the paging implements; and, as a theorem, `EsperaSuPedido`.
