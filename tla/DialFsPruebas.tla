--------------------------- MODULE DialFsPruebas ---------------------------
EXTENDS PropiedadesDialFs, FiniteSetTheorems, WellFoundedInduction, TLAPS

\* DialFs implements Archivos for every value of the constants: whatever the
\* names, the size of the disk and the requests, and although the marks of the
\* bitmap may be wrong.  The argument is that memory and disk agree on the files
\* (MetadataAlDia) at every step of a request, and that the size a TRUNCATE is
\* about to save is still the one that was asked for when it is saved, because the
\* compaction in between moves files and changes no size.

---------------------------------------------------------------------------
(* The invariant *)

EsFcb(f) == \E t, i, b : f = [total_size |-> t, inicio |-> i, fin_bloque |-> b]

EsMetadata(m) == \E t, i : m = [TAMANIO_ARCHIVO |-> t, BLOQUE_INICIAL |-> i]

EsTruncado(r) == \E c, f, t, i : r = [cantidad |-> c, fin |-> f, tamanio |-> t, i |-> i]

Formas ==
    /\ archivos = [n \in DOMAIN archivos |-> archivos[n]]
    /\ metadata = [n \in DOMAIN metadata |-> metadata[n]]
    /\ \A n \in DOMAIN archivos : EsFcb(archivos[n])
    /\ \A n \in DOMAIN metadata : EsMetadata(metadata[n])
    /\ EsTruncado(truncado)

EnDisco(nombre) == nombre \in DOMAIN metadata

\* The steps of a CREATE after the first.
Creando == {"GUARDAR_CREADO", "MARCAR_CREADO", "MARCAR_SIN_ARCHIVO"}

\* What each step of a request may count on.
PasoDelPedido ==
    /\ fase \in Fases
    /\ fase \in {"DETENIDO", "RECHAZADO", "ESPERA"} => pedido = NoPedido
    /\ fase \notin {"DETENIDO", "RECHAZADO", "ESPERA"} => pedido \in Pedidos
    /\ fase \in Creando => pedido.op = "CREATE"
    /\ fase = "GUARDAR_CREADO" => ~ EnDisco(pedido.nombre)
    /\ fase = "MARCAR_CREADO" => EnDisco(pedido.nombre)
    /\ fase = "QUITAR_BORRADO" => pedido.op = "DELETE" /\ EnDisco(pedido.nombre)
    /\ fase \in {"COMPACTAR", "MARCAR_TRUNCADO", "GUARDAR_TRUNCADO"} =>
          /\ pedido.op = "TRUNCATE" /\ EnDisco(pedido.nombre)
          /\ truncado.tamanio = metadata[pedido.nombre].TAMANIO_ARCHIVO + pedido.dato

Coherente == Formas /\ MetadataAlDia /\ PasoDelPedido

\* A step of the abstract store, or none, or the answer that is not kept.
PasoAbstracto == Promesa!Next \/ RespondeSinArchivo \/ UNCHANGED Promesa!vars

---------------------------------------------------------------------------
(* Requests and records *)

\* The mark of "no request" is none of the requests.
LEMMA NoPedidoNoEsPedido == NoPedido \notin Pedidos
  BY DEF NoPedido, Pedidos

\* Moving a file on the disk does not change the sizes the promise speaks of.
LEMMA ConservaTamanios ==
    ASSUME Formas, NEW n, NEW x, metadata' = [metadata EXCEPT ![n].BLOQUE_INICIAL = x]
    PROVE  TamaniosEnDisco' = TamaniosEnDisco
  <1>1. DOMAIN metadata' = DOMAIN metadata
    OBVIOUS
  <1>2. \A m \in DOMAIN metadata : metadata'[m].TAMANIO_ARCHIVO = metadata[m].TAMANIO_ARCHIVO
    BY DEF Formas, EsMetadata
  <1> QED BY <1>1, <1>2 DEF TamaniosEnDisco

\* An empty disk is coherent, and is an initial state of the promise.
LEMMA InicioCoherente == Init => Coherente /\ Promesa!Init
  <1> SUFFICES ASSUME Init PROVE Coherente /\ Promesa!Init
    OBVIOUS
  <1>1. Formas
    BY DEF Init, Formas, Vacio, NoTruncado, EsTruncado
  <1>2. MetadataAlDia
    BY DEF Init, MetadataAlDia, EnMarcha
  <1>3. PasoDelPedido
    BY DEF Init, PasoDelPedido, Fases, Creando
  <1>4. Promesa!Init
    BY DEF Init, Promesa!Init, TamaniosEnDisco, YaCreado, Vacio
  <1> QED BY <1>1, <1>2, <1>3, <1>4 DEF Coherente

\* A start reads the metadata back, and the promise sees the same files.
LEMMA PasoArrancar ==
    ASSUME Coherente, Arrancar PROVE Coherente' /\ PasoAbstracto
  <1>1. Formas'
    <2>1. EsTruncado(truncado') /\ \A n \in DOMAIN metadata' : EsMetadata(metadata'[n])
      BY DEF Arrancar, Coherente, Formas
    <2>2. metadata' = [n \in DOMAIN metadata' |-> metadata'[n]]
      BY DEF Arrancar, Coherente, Formas
    <2>3. CASE UNCHANGED archivos
      BY <2>1, <2>2, <2>3 DEF Coherente, Formas
    <2>4. CASE archivos' = Cargados
      <3>1. \A n \in DOMAIN metadata : EsFcb(Cargar(metadata[n]))
        BY DEF Cargar, EsFcb
      <3> QED BY <2>1, <2>2, <2>4, <3>1 DEF Formas, Cargados
    <2> QED BY <2>3, <2>4 DEF Arrancar
  <1>2. MetadataAlDia'
    BY DEF Arrancar, Coherente, MetadataAlDia, EnMarcha, Cargados, Cargar
  <1>3. PasoDelPedido'
    BY DEF Arrancar, Coherente, PasoDelPedido, Fases, Creando
  <1>4. UNCHANGED Promesa!vars
    BY DEF Arrancar, Promesa!vars, TamaniosEnDisco, YaCreado
  <1> QED BY <1>1, <1>2, <1>3, <1>4 DEF Coherente, PasoAbstracto

\* A stop forgets the memory and the request: the promise sees the files of the disk.
LEMMA PasoCaer ==
    ASSUME Coherente, Caer PROVE Coherente' /\ PasoAbstracto
  <1>1. Formas'
    BY DEF Caer, Coherente, Formas, Vacio, EsTruncado, NoTruncado
  <1>2. MetadataAlDia' /\ PasoDelPedido'
    BY DEF Caer, MetadataAlDia, EnMarcha, PasoDelPedido, Fases, Creando
  <1>3. Promesa!Detener
    BY DEF Caer, Promesa!Detener, Promesa!Terminar, TamaniosEnDisco, YaCreado
  <1> QED BY <1>1, <1>2, <1>3 DEF Coherente, PasoAbstracto, Promesa!Next

\* A request of the kernel is a request of the promise.
LEMMA PasoPedir ==
    ASSUME Coherente, Pedir PROVE Coherente' /\ PasoAbstracto
  <1>1. Formas'
    BY DEF Pedir, Coherente, Formas
  <1>2. MetadataAlDia'
    BY DEF Pedir, Coherente, MetadataAlDia, EnMarcha
  <1>3. PasoDelPedido'
    BY DEF Pedir, PasoDelPedido, Fases, Creando
  <1>4. Promesa!Pedir
    BY DEF Pedir, Coherente, PasoDelPedido, Promesa!Pedir, TamaniosEnDisco, YaCreado
  <1> QED BY <1>1, <1>2, <1>3, <1>4 DEF Coherente, PasoAbstracto, Promesa!Next

---------------------------------------------------------------------------
(* CREATE and DELETE *)

\* A step that leaves files and metadata alone keeps what is known of both.
LEMMA NadaCambia ==
    ASSUME Coherente, fase \in Fases \ {"DETENIDO", "RECHAZADO"},
           UNCHANGED <<archivos, metadata, truncado>>
    PROVE  Formas' /\ MetadataAlDia' /\ TamaniosEnDisco' = TamaniosEnDisco
  BY DEF Coherente, Formas, MetadataAlDia, EnMarcha, TamaniosEnDisco, Fases

\* CREATE: refused, or a file without keys, which is none of the promise's, or none.
LEMMA PasoCrear ==
    ASSUME Coherente, Crear PROVE Coherente' /\ PasoAbstracto
  <1> DEFINE n == pedido.nombre
  <1>1. /\ pedido \in Pedidos /\ pedido.op = "CREATE" /\ fase = "ATENDER"
        /\ UNCHANGED <<archivos, metadata, truncado>>
    BY DEF Crear, Atiende, Coherente, PasoDelPedido
  <1>2. DOMAIN archivos = DOMAIN metadata
    BY <1>1 DEF Coherente, MetadataAlDia, EnMarcha
  <1>3. CASE Responder("ERROR")
    <2>1. Coherente'
      BY <1>1, <1>3, NadaCambia DEF Coherente, PasoDelPedido, Responder, Fases, Creando
    <2>2. Promesa!Rechazar
      BY <1>1, <1>3 DEF Responder, Promesa!Rechazar, Promesa!Terminar, TamaniosEnDisco,
                        YaCreado
    <2> QED BY <2>1, <2>2 DEF PasoAbstracto, Promesa!Next
  <1>4. CASE ~ Existe(n) /\ CrearVacia /\ UNCHANGED <<pedido, respuesta>>
    <2>1. fase' \in {"GUARDAR_CREADO", "MARCAR_SIN_ARCHIVO"}
      BY <1>4 DEF CrearVacia
    <2>2. Coherente'
      BY <1>1, <1>2, <1>4, <2>1, NadaCambia
         DEF Coherente, PasoDelPedido, EnDisco, Existe, Fases, Creando
    <2>3. UNCHANGED Promesa!vars
      BY <1>1, <1>4, <2>1 DEF Promesa!vars, TamaniosEnDisco, YaCreado
    <2> QED BY <2>2, <2>3 DEF PasoAbstracto
  <1> QED BY <1>3, <1>4 DEF Crear

\* The keys of the new file are saved: the promise has one file more.
LEMMA PasoGuardarCreado ==
    ASSUME Coherente, GuardarCreado PROVE Coherente' /\ PasoAbstracto
  <1> DEFINE n == pedido.nombre
  <1>1. pedido \in Pedidos /\ pedido.op = "CREATE" /\ fase = "GUARDAR_CREADO" /\ ~ EnDisco(n)
    BY DEF GuardarCreado, Coherente, PasoDelPedido, Creando
  <1>2. DOMAIN archivos = DOMAIN metadata
    BY <1>1 DEF Coherente, MetadataAlDia, EnMarcha
  <1>3. PICK posicion : posicion = Posicion
    OBVIOUS
  <1>4. /\ archivos' = Con(archivos, n,
               [total_size |-> 0, inicio |-> posicion, fin_bloque |-> posicion])
        /\ metadata' = Con(metadata, n, [TAMANIO_ARCHIVO |-> 0, BLOQUE_INICIAL |-> posicion])
        /\ fase' = "MARCAR_CREADO" /\ UNCHANGED <<pedido, respuesta, truncado>>
    BY <1>3 DEF GuardarCreado
  <1>5. /\ DOMAIN archivos' = DOMAIN archivos \cup {n}
        /\ DOMAIN metadata' = DOMAIN metadata \cup {n}
        /\ archivos'[n] = [total_size |-> 0, inicio |-> posicion, fin_bloque |-> posicion]
        /\ metadata'[n] = [TAMANIO_ARCHIVO |-> 0, BLOQUE_INICIAL |-> posicion]
        /\ \A m \in DOMAIN archivos : m # n => archivos'[m] = archivos[m]
        /\ \A m \in DOMAIN metadata : m # n => metadata'[m] = metadata[m]
    BY <1>4 DEF Con
  <1>6. Formas'
    <2>1. EsFcb(archivos'[n]) /\ EsMetadata(metadata'[n])
      BY <1>5 DEF EsFcb, EsMetadata
    <2>2. archivos' = [m \in DOMAIN archivos' |-> archivos'[m]]
      BY <1>4 DEF Con
    <2>3. metadata' = [m \in DOMAIN metadata' |-> metadata'[m]]
      BY <1>4 DEF Con
    <2> QED BY <1>4, <1>5, <2>1, <2>2, <2>3 DEF Coherente, Formas
  <1>7. MetadataAlDia'
    BY <1>1, <1>2, <1>5 DEF Coherente, MetadataAlDia, EnMarcha
  <1>8. PasoDelPedido'
    BY <1>1, <1>4, <1>5 DEF PasoDelPedido, EnDisco, Fases, Creando
  <1>9. ~ Promesa!Existe(n)
    BY <1>1 DEF Promesa!Existe, EnDisco, TamaniosEnDisco
  <1>10. TamaniosEnDisco' = [m \in DOMAIN TamaniosEnDisco \cup {n} |->
                                IF m = n THEN 0 ELSE TamaniosEnDisco[m]]
    BY <1>5 DEF TamaniosEnDisco
  <1>11. Promesa!Hacer
    BY <1>1, <1>4, <1>9, <1>10 DEF Promesa!Hacer, Promesa!Efecto, YaCreado
  <1> QED BY <1>6, <1>7, <1>8, <1>11 DEF Coherente, PasoAbstracto, Promesa!Next

\* The last step of a CREATE, where the promise is kept, if there is a file.
LEMMA PasoMarcarCreado ==
    ASSUME Coherente, MarcarCreado PROVE Coherente' /\ PasoAbstracto
  <1>1. Coherente'
    BY NadaCambia DEF MarcarCreado, Coherente, PasoDelPedido, Responder, Fases, Creando
  <1>2. Promesa!Terminar("OK") /\ UNCHANGED TamaniosEnDisco
    BY DEF MarcarCreado, Responder, Promesa!Terminar, TamaniosEnDisco, YaCreado
  <1>3. CASE fase = "MARCAR_CREADO"
    BY <1>1, <1>2, <1>3 DEF PasoAbstracto, Promesa!Next, Promesa!Confirmar, YaCreado
  <1>4. CASE fase = "MARCAR_SIN_ARCHIVO"
    BY <1>1, <1>2, <1>4 DEF PasoAbstracto, RespondeSinArchivo
  <1> QED BY <1>3, <1>4 DEF MarcarCreado

\* DELETE: it clears the bits first, and only then forgets the file.
LEMMA PasoBorrar ==
    ASSUME Coherente, Borrar PROVE Coherente' /\ PasoAbstracto
  <1>1. pedido \in Pedidos /\ pedido.op = "DELETE" /\ fase = "ATENDER"
    BY DEF Borrar, Atiende, Coherente, PasoDelPedido
  <1>2. DOMAIN archivos = DOMAIN metadata
    BY <1>1 DEF Coherente, MetadataAlDia, EnMarcha
  <1>3. CASE Existe(pedido.nombre)
    <2>1. fase' = "QUITAR_BORRADO" /\ UNCHANGED <<archivos, metadata, pedido, truncado, respuesta>>
      BY <1>3 DEF Borrar
    <2>2. Coherente'
      BY <1>1, <1>2, <1>3, <2>1, NadaCambia
         DEF Coherente, PasoDelPedido, Existe, EnDisco, Fases, Creando
    <2>3. UNCHANGED Promesa!vars
      BY <1>1, <2>1 DEF Promesa!vars, TamaniosEnDisco, YaCreado
    <2> QED BY <2>2, <2>3 DEF PasoAbstracto
  <1>4. CASE ~ Existe(pedido.nombre)
    <2>1. Callar /\ UNCHANGED <<archivos, metadata, truncado>>
      BY <1>4 DEF Borrar
    <2>2. Coherente'
      BY <1>1, <2>1, NadaCambia DEF Coherente, PasoDelPedido, Callar, Fases, Creando
    <2>3. Promesa!Callar
      BY <1>1, <1>2, <1>4, <2>1 DEF Callar, Existe, Promesa!Callar, Promesa!Terminar,
                                    Promesa!Existe, TamaniosEnDisco, YaCreado
    <2> QED BY <2>2, <2>3 DEF PasoAbstracto, Promesa!Next
  <1> QED BY <1>3, <1>4

\* The second half of a DELETE, where the file leaves memory and metadata.
LEMMA PasoQuitarBorrado ==
    ASSUME Coherente, QuitarBorrado PROVE Coherente' /\ PasoAbstracto
  <1> DEFINE n == pedido.nombre
  <1>1. pedido \in Pedidos /\ pedido.op = "DELETE" /\ n \in DOMAIN metadata
        /\ fase = "QUITAR_BORRADO"
    BY DEF QuitarBorrado, Coherente, PasoDelPedido, EnDisco
  <1>2. /\ archivos' = [m \in DOMAIN archivos \ {n} |-> archivos[m]]
        /\ metadata' = [m \in DOMAIN metadata \ {n} |-> metadata[m]]
    BY DEF QuitarBorrado, Sin, Restrict
  <1>3. Formas'
    BY <1>2 DEF QuitarBorrado, Coherente, Formas
  <1>4. MetadataAlDia'
    BY <1>1, <1>2 DEF Coherente, MetadataAlDia, EnMarcha
  <1>5. PasoDelPedido'
    BY DEF QuitarBorrado, Responder, PasoDelPedido, Fases, Creando
  <1>6. TamaniosEnDisco' = [m \in DOMAIN TamaniosEnDisco \ {n} |-> TamaniosEnDisco[m]]
    BY <1>2 DEF TamaniosEnDisco
  <1>7. Promesa!Existe(n)
    BY <1>1 DEF Promesa!Existe, TamaniosEnDisco
  <1>8. Promesa!Efecto(pedido)
    BY <1>1, <1>6, <1>7 DEF Promesa!Efecto
  <1>9. Promesa!Hacer
    BY <1>1, <1>8 DEF QuitarBorrado, Responder, Promesa!Hacer, Promesa!Terminar, YaCreado
  <1> QED BY <1>3, <1>4, <1>5, <1>9 DEF Coherente, PasoAbstracto, Promesa!Next

\* WRITE and READ change no file.
LEMMA PasoConsultar ==
    ASSUME Coherente, Escribir \/ Leer PROVE Coherente' /\ PasoAbstracto
  <1>1. pedido \in Pedidos /\ pedido.op \in {"READ", "WRITE"} /\ fase = "ATENDER"
    BY DEF Escribir, Leer, Atiende, Coherente, PasoDelPedido
  <1>2. DOMAIN archivos = DOMAIN metadata
    BY <1>1 DEF Coherente, MetadataAlDia, EnMarcha
  <1>3. UNCHANGED <<archivos, metadata, truncado>>
    BY DEF Escribir, Leer
  <1>4. CASE Existe(pedido.nombre) /\ Responder("OK")
    <2>1. Coherente'
      BY <1>1, <1>3, <1>4, NadaCambia DEF Coherente, PasoDelPedido, Responder, Fases, Creando
    <2>2. Promesa!Consultar
      BY <1>1, <1>2, <1>3, <1>4
         DEF Responder, Existe, Promesa!Consultar, Promesa!Terminar, Promesa!Existe,
             TamaniosEnDisco, YaCreado
    <2> QED BY <2>1, <2>2 DEF PasoAbstracto, Promesa!Next
  <1>5. CASE Callar /\ (pedido.op = "WRITE" \/ ~ Existe(pedido.nombre))
    <2>1. Coherente'
      BY <1>1, <1>3, <1>5, NadaCambia DEF Coherente, PasoDelPedido, Callar, Fases, Creando
    <2>2. Promesa!Callar
      BY <1>1, <1>2, <1>3, <1>5
         DEF Callar, Existe, Promesa!Callar, Promesa!Terminar, Promesa!Existe,
             TamaniosEnDisco, YaCreado
    <2> QED BY <2>1, <2>2 DEF PasoAbstracto, Promesa!Next
  <1> QED BY <1>4, <1>5 DEF Escribir, Leer, Atiende

---------------------------------------------------------------------------
(* TRUNCATE *)

\* The size of one file changes, in memory and on disk.
LEMMA GuardarCoherente ==
    ASSUME Coherente, EnMarcha, NEW n \in DOMAIN archivos, NEW t, NEW b,
           GuardarTamanio(n, t, b)
    PROVE  /\ DOMAIN archivos' = DOMAIN archivos /\ DOMAIN metadata' = DOMAIN metadata
           /\ archivos' = [m \in DOMAIN archivos' |-> archivos'[m]]
           /\ metadata' = [m \in DOMAIN metadata' |-> metadata'[m]]
           /\ \A m \in DOMAIN archivos' : EsFcb(archivos'[m])
           /\ \A m \in DOMAIN metadata' : EsMetadata(metadata'[m])
           /\ MetadataAlDia'
           /\ TamaniosEnDisco' = [TamaniosEnDisco EXCEPT ![n] = t]
  <1>1. DOMAIN archivos = DOMAIN metadata
    BY DEF Coherente, MetadataAlDia
  <1>2. /\ DOMAIN archivos' = DOMAIN archivos /\ DOMAIN metadata' = DOMAIN metadata
        /\ archivos' = [m \in DOMAIN archivos' |-> archivos'[m]]
        /\ metadata' = [m \in DOMAIN metadata' |-> metadata'[m]]
    BY DEF GuardarTamanio, Coherente, Formas
  <1>3. \A m \in DOMAIN archivos : m # n => archivos'[m] = archivos[m]
    BY DEF GuardarTamanio, Coherente, Formas
  <1>4. \A m \in DOMAIN metadata : m # n => metadata'[m] = metadata[m]
    BY DEF GuardarTamanio, Coherente, Formas
  <1>5. archivos'[n] = [total_size |-> t, inicio |-> archivos[n].inicio, fin_bloque |-> b]
    <2> DEFINE creado == [archivos EXCEPT ![n].total_size = t]
    <2>1. PICK t0, i0, b0 : archivos[n] = [total_size |-> t0, inicio |-> i0, fin_bloque |-> b0]
      BY DEF Coherente, Formas, EsFcb
    <2>2. creado[n] = [total_size |-> t, inicio |-> i0, fin_bloque |-> b0]
      BY <2>1
    <2>3. n \in DOMAIN creado /\ archivos' = [creado EXCEPT ![n].fin_bloque = b]
      BY DEF GuardarTamanio
    <2> HIDE DEF creado
    <2> QED BY <2>1, <2>2, <2>3
  <1>6. metadata'[n] = [TAMANIO_ARCHIVO |-> t, BLOQUE_INICIAL |-> metadata[n].BLOQUE_INICIAL]
    BY <1>1 DEF GuardarTamanio, Coherente, Formas, EsMetadata
  <1>7. EsFcb(archivos'[n]) /\ EsMetadata(metadata'[n])
    BY <1>5, <1>6 DEF EsFcb, EsMetadata
  <1>8. MetadataAlDia'
    BY <1>1, <1>2, <1>3, <1>4, <1>5, <1>6 DEF Coherente, MetadataAlDia
  <1>9. TamaniosEnDisco' = [TamaniosEnDisco EXCEPT ![n] = t]
    <2>1. \A m \in DOMAIN metadata :
              metadata'[m].TAMANIO_ARCHIVO = IF m = n THEN t ELSE metadata[m].TAMANIO_ARCHIVO
      BY <1>4, <1>6
    <2> QED BY <1>1, <1>2, <2>1 DEF TamaniosEnDisco
  <1> QED BY <1>2, <1>3, <1>4, <1>7, <1>8, <1>9 DEF Coherente, Formas

\* The end of a TRUNCATE, where the new size is saved.
LEMMA PasoGuardarTruncado ==
    ASSUME Coherente, GuardarTruncado PROVE Coherente' /\ PasoAbstracto
  <1> DEFINE n == pedido.nombre
  <1>1. /\ pedido \in Pedidos /\ pedido.op = "TRUNCATE" /\ n \in DOMAIN metadata
        /\ fase = "GUARDAR_TRUNCADO"
        /\ truncado.tamanio = metadata[n].TAMANIO_ARCHIVO + pedido.dato
    BY DEF GuardarTruncado, Coherente, PasoDelPedido, EnDisco
  <1>2. EnMarcha /\ n \in DOMAIN archivos
    BY <1>1 DEF Coherente, MetadataAlDia, EnMarcha
  <1>3. GuardarTamanio(n, truncado.tamanio, truncado.fin) /\ Responder("OK")
        /\ truncado' = NoTruncado
    BY DEF GuardarTruncado
  <1>4. EsTruncado(truncado')
    BY <1>3 DEF EsTruncado, NoTruncado
  <1>5. Coherente'
    BY <1>2, <1>3, <1>4, GuardarCoherente
       DEF Coherente, Formas, PasoDelPedido, Responder, Fases, Creando
  <1>6. TamaniosEnDisco' = [TamaniosEnDisco EXCEPT ![n] = @ + pedido.dato]
    <2>1. TamaniosEnDisco' = [TamaniosEnDisco EXCEPT ![n] = truncado.tamanio]
      BY <1>2, <1>3, GuardarCoherente
    <2>2. TamaniosEnDisco[n] = metadata[n].TAMANIO_ARCHIVO
      BY <1>1 DEF TamaniosEnDisco
    <2> QED BY <1>1, <2>1, <2>2
  <1>7. Promesa!Efecto(pedido)
    BY <1>1, <1>6 DEF Promesa!Efecto, Promesa!Existe, TamaniosEnDisco
  <1>8. Promesa!Hacer
    BY <1>1, <1>3, <1>7 DEF Responder, Promesa!Hacer, Promesa!Terminar, YaCreado
  <1> QED BY <1>5, <1>8 DEF PasoAbstracto, Promesa!Next

\* TRUNCATE: refused, answered at once, or on its way to a compaction or to its end.
LEMMA PasoTruncar ==
    ASSUME Coherente, Truncar PROVE Coherente' /\ PasoAbstracto
  <1> DEFINE n == pedido.nombre
  <1>1. pedido \in Pedidos /\ pedido.op = "TRUNCATE" /\ fase = "ATENDER"
    BY DEF Truncar, Atiende, Coherente, PasoDelPedido
  <1>2. EnMarcha /\ DOMAIN archivos = DOMAIN metadata
    BY <1>1 DEF Coherente, MetadataAlDia, EnMarcha
  <1>3. CASE Responder("ERROR") /\ UNCHANGED <<archivos, metadata, truncado>>
    <2>1. Coherente'
      BY <1>1, <1>3, NadaCambia DEF Coherente, PasoDelPedido, Responder, Fases, Creando
    <2>2. Promesa!Rechazar
      BY <1>1, <1>3 DEF Responder, Promesa!Rechazar, Promesa!Terminar, TamaniosEnDisco,
                        YaCreado
    <2> QED BY <2>1, <2>2 DEF PasoAbstracto, Promesa!Next
  <1>4. ASSUME Existe(n),
               GuardarTamanio(n, archivos[n].total_size + pedido.dato,
                              archivos[n].fin_bloque),
               Responder("OK"), UNCHANGED truncado
        PROVE  Coherente' /\ PasoAbstracto
    <2>1. n \in DOMAIN archivos
      BY <1>4 DEF Existe
    <2>2. Coherente'
      BY <1>2, <1>4, <2>1, GuardarCoherente
         DEF Coherente, Formas, PasoDelPedido, Responder, Fases, Creando
    <2>3. TamaniosEnDisco' = [TamaniosEnDisco EXCEPT ![n] = @ + pedido.dato]
      <3>1. TamaniosEnDisco' =
                [TamaniosEnDisco EXCEPT ![n] = archivos[n].total_size + pedido.dato]
        BY <1>2, <1>4, <2>1, GuardarCoherente
      <3>2. TamaniosEnDisco[n] = archivos[n].total_size
        BY <1>2, <2>1 DEF TamaniosEnDisco, Coherente, MetadataAlDia
      <3> QED BY <3>1, <3>2
    <2>4. Promesa!Efecto(pedido)
      BY <1>1, <1>2, <2>1, <2>3 DEF Promesa!Efecto, Promesa!Existe, TamaniosEnDisco
    <2>5. Promesa!Hacer
      BY <1>1, <1>4, <2>4 DEF Responder, Promesa!Hacer, Promesa!Terminar, YaCreado
    <2> QED BY <2>2, <2>5 DEF PasoAbstracto, Promesa!Next
  <1>5. ASSUME Existe(n), NEW c, NEW f, NEW i,
               truncado' = [cantidad |-> c, fin |-> f,
                            tamanio |-> archivos[n].total_size + pedido.dato, i |-> i],
               fase' \in {"COMPACTAR", "MARCAR_TRUNCADO"},
               UNCHANGED <<archivos, metadata, pedido, respuesta>>
        PROVE  Coherente' /\ PasoAbstracto
    <2>1. EsTruncado(truncado')
      BY <1>5 DEF EsTruncado
    <2>2. Formas'
      BY <1>5, <2>1 DEF Coherente, Formas
    <2>3. MetadataAlDia'
      BY <1>2, <1>5 DEF Coherente, MetadataAlDia
    <2>4. PasoDelPedido'
      BY <1>1, <1>2, <1>5
         DEF Coherente, MetadataAlDia, PasoDelPedido, EnDisco, Existe, Fases, Creando
    <2>5. UNCHANGED Promesa!vars
      BY <1>1, <1>5 DEF Promesa!vars, TamaniosEnDisco, YaCreado
    <2> QED BY <2>2, <2>3, <2>4, <2>5 DEF Coherente, PasoAbstracto
  <1>6. CASE ~ Existe(n)
    BY <1>3, <1>6 DEF Truncar
  <1>7. CASE Existe(n)
    <2> DEFINE archivo == archivos[n]
               tamanio == archivo.total_size + pedido.dato
               cantidad == BloquesATruncar(archivo, pedido.dato)
    <2>1. CASE archivo.total_size = 0 /\ tamanio < BlockSize
      BY <1>4, <1>7, <2>1 DEF Truncar
    <2>2. CASE ~ (archivo.total_size = 0 /\ tamanio < BlockSize)
               /\ cantidad + fs_bloques_ocupados > BlockCount
      BY <1>3, <1>7, <2>2 DEF Truncar
    <2>3. CASE ~ (archivo.total_size = 0 /\ tamanio < BlockSize)
               /\ ~ (cantidad + fs_bloques_ocupados > BlockCount)
      <3>1. /\ truncado' = [cantidad |-> cantidad, fin |-> archivo.inicio + cantidad,
                            tamanio |-> tamanio, i |-> Cardinality(DOMAIN archivos)]
            /\ fase' \in {"COMPACTAR", "MARCAR_TRUNCADO"}
            /\ UNCHANGED <<archivos, metadata, pedido, respuesta>>
        BY <1>7, <2>3 DEF Truncar
      <3> QED BY <1>5, <1>7, <3>1
    <2> QED BY <2>1, <2>2, <2>3
  <1> QED BY <1>6, <1>7

\* The bits of a TRUNCATE: nothing the promise sees.
LEMMA PasoMarcarTruncado ==
    ASSUME Coherente, MarcarTruncado PROVE Coherente' /\ PasoAbstracto
  <1>1. Coherente'
    BY NadaCambia DEF MarcarTruncado, Coherente, PasoDelPedido, EnDisco, Fases, Creando
  <1>2. UNCHANGED Promesa!vars
    BY DEF MarcarTruncado, Promesa!vars, TamaniosEnDisco, YaCreado
  <1> QED BY <1>1, <1>2 DEF PasoAbstracto

\* A compaction moves files, and every file keeps its size.
LEMMA PasoDesplazar ==
    ASSUME Coherente, fase = "COMPACTAR", NEW m \in DOMAIN archivos, NEW c,
           fs_desplazar_archivo_hacia_derecha(m, c),
           \E i : truncado' = [truncado EXCEPT !.i = i],
           UNCHANGED <<fase, pedido, respuesta>>
    PROVE  Coherente' /\ PasoAbstracto
  <1> DEFINE inicio == archivos[m].inicio + c
             fin == inicio + archivos[m].total_size \div BlockSize
             movido == [archivos EXCEPT ![m].inicio = inicio]
  <1>1. DOMAIN archivos = DOMAIN metadata /\ EnMarcha
    BY DEF Coherente, MetadataAlDia, EnMarcha
  <1>2. metadata' = [metadata EXCEPT ![m].BLOQUE_INICIAL = inicio]
    BY DEF fs_desplazar_archivo_hacia_derecha
  <1>3. m \in DOMAIN movido /\ archivos' = [movido EXCEPT ![m].fin_bloque = fin]
    BY DEF fs_desplazar_archivo_hacia_derecha
  <1>4. archivos'[m] = [total_size |-> archivos[m].total_size, inicio |-> inicio,
                        fin_bloque |-> fin]
    <2>1. PICK t, i, b : archivos[m] = [total_size |-> t, inicio |-> i, fin_bloque |-> b]
      BY DEF Coherente, Formas, EsFcb
    <2>2. movido[m] = [total_size |-> t, inicio |-> inicio, fin_bloque |-> b]
      BY <2>1
    <2> HIDE DEF movido, inicio, fin
    <2> QED BY <1>3, <2>1, <2>2
  <1>5. metadata'[m] = [TAMANIO_ARCHIVO |-> metadata[m].TAMANIO_ARCHIVO,
                        BLOQUE_INICIAL |-> inicio]
    <2> HIDE DEF inicio
    <2> QED BY <1>1, <1>2 DEF Coherente, Formas, EsMetadata
  <1>6. /\ DOMAIN archivos' = DOMAIN archivos /\ DOMAIN metadata' = DOMAIN metadata
        /\ archivos' = [n \in DOMAIN archivos' |-> archivos'[n]]
        /\ metadata' = [n \in DOMAIN metadata' |-> metadata'[n]]
        /\ \A n \in DOMAIN archivos : n # m => archivos'[n] = archivos[n]
        /\ \A n \in DOMAIN metadata : n # m => metadata'[n] = metadata[n]
    <2> HIDE DEF inicio, fin
    <2> QED BY <1>2, <1>3
  <1> HIDE DEF inicio, fin, movido
  <1>7. EsTruncado(truncado') /\ truncado'.tamanio = truncado.tamanio
    BY DEF Coherente, Formas, EsTruncado
  <1>8. EsFcb(archivos'[m]) /\ EsMetadata(metadata'[m])
    BY <1>4, <1>5 DEF EsFcb, EsMetadata
  <1>9. Formas'
    BY <1>6, <1>7, <1>8 DEF Coherente, Formas
  <1>10. MetadataAlDia'
    BY <1>1, <1>4, <1>5, <1>6 DEF Coherente, MetadataAlDia, EnMarcha, inicio
  <1>11. PasoDelPedido'
    BY <1>5, <1>6, <1>7 DEF Coherente, PasoDelPedido, EnDisco
  <1>12. TamaniosEnDisco' = TamaniosEnDisco
    BY <1>2, ConservaTamanios DEF Coherente
  <1>13. UNCHANGED Promesa!vars
    BY <1>12 DEF Promesa!vars, YaCreado
  <1> QED BY <1>9, <1>10, <1>11, <1>13 DEF Coherente, PasoAbstracto

\* A compaction, also one that ends badly: the promise sees nothing, or a stop.
LEMMA PasoCompactar ==
    ASSUME Coherente, Compactar PROVE Coherente' /\ PasoAbstracto
  <1>1. CASE TerminarCompactacion /\ fase = "COMPACTAR"
    <2>1. Coherente'
      BY <1>1, NadaCambia
         DEF TerminarCompactacion, Coherente, PasoDelPedido, EnDisco, Fases, Creando
    <2>2. UNCHANGED Promesa!vars
      BY <1>1 DEF TerminarCompactacion, Promesa!vars, TamaniosEnDisco, YaCreado
    <2> QED BY <2>1, <2>2 DEF PasoAbstracto
  <1>2. CASE Caer
    BY <1>2, PasoCaer
  <1>3. ASSUME NEW m \in DOMAIN archivos,
               fs_desplazar_archivo_hacia_derecha(m, truncado.cantidad),
               truncado' = [truncado EXCEPT !.i = @ - 1],
               UNCHANGED <<fase, pedido, respuesta>>, fase = "COMPACTAR"
        PROVE  Coherente' /\ PasoAbstracto
    <2>1. \E i : truncado' = [truncado EXCEPT !.i = i]
      BY <1>3
    <2> QED BY <1>3, <2>1, PasoDesplazar
  <1> QED BY <1>1, <1>2, <1>3 DEF Compactar

---------------------------------------------------------------------------
(* The theorems *)

\* Every step keeps the invariant and is a step of the promise, or a stutter.
LEMMA PasoCoherente ==
    ASSUME Coherente, [Next]_vars PROVE Coherente' /\ PasoAbstracto
  <1>1. CASE UNCHANGED vars
    BY <1>1 DEF vars, Coherente, Formas, MetadataAlDia, EnMarcha, PasoDelPedido, EnDisco,
                PasoAbstracto, Promesa!vars, TamaniosEnDisco, YaCreado
  <1>2. CASE Detener
    BY <1>2, PasoCaer DEF Detener
  <1> QED
    BY <1>1, <1>2, PasoArrancar, PasoPedir, PasoCrear, PasoGuardarCreado, PasoMarcarCreado,
       PasoBorrar, PasoQuitarBorrado, PasoConsultar, PasoTruncar, PasoCompactar, PasoMarcarTruncado,
       PasoGuardarTruncado DEF Next

\* At every step of every request, compactions and restarts included, what the
\* process has in memory of its files is what a restart would read (the
\* config_save of metadata.c and of kernel_dialfs.c).
THEOREM DialFsMetadataAlDia == Spec => []MetadataAlDia
  <1>1. Init => Coherente
    BY InicioCoherente
  <1>2. Coherente /\ [Next]_vars => Coherente'
    BY PasoCoherente
  <1>3. Coherente => MetadataAlDia
    BY DEF Coherente
  <1> QED BY <1>1, <1>2, <1>3, PTL DEF Spec

\* Every step of the file system of kernel_dialfs.c, whatever is asked and wherever
\* it stops, is a step of the store of module Archivos, except the answer to a
\* CREATE whose file could not be opened.
THEOREM DialFsImplementa == Spec => CumpleArchivos
  <1>1. Init => Coherente /\ Promesa!Init
    BY InicioCoherente
  <1>2. Coherente /\ [Next]_vars
           => Coherente' /\ [Promesa!Next \/ RespondeSinArchivo]_(Promesa!vars)
    BY PasoCoherente DEF PasoAbstracto
  <1> QED BY <1>1, <1>2, PTL DEF Spec, CumpleArchivos

---------------------------------------------------------------------------
(* Types *)

\* The order < of the naturals as a set of pairs.
Menor == {par \in Nat \X Nat : par[1] < par[2]}

\* The order of the naturals is well founded.
LEMMA MenorBienFundado == IsWellFoundedOn(Menor, Nat)
  BY NatLessThanWellFounded DEF OpToRel, Menor

\* A nonempty set of naturals has a minimum, and Min returns it: the searches of
\* the bitmap find the first block.
LEMMA MinimoNat ==
    ASSUME NEW T \in SUBSET Nat, T # {}
    PROVE  Min(T) \in T /\ \A y \in T : Min(T) <= y
  <1>1. \E x \in T : \A y \in T : ~ (<<y, x>> \in Menor)
    BY MenorBienFundado, WFMin, Zenon
  <1>2. PICK m \in T : \A y \in T : ~ (<<y, m>> \in Menor)
    BY <1>1
  <1>3. ASSUME NEW y \in T
        PROVE  m <= y
    <2>1. m \in Nat /\ y \in Nat
      OBVIOUS
    <2>2. ~ (y < m)
      BY <1>2, <2>1 DEF Menor
    <2> QED BY <2>1, <2>2
  <1>4. \E x \in T : \A y \in T : x <= y
    BY <1>3
  <1> QED BY <1>4 DEF Min

\* Bytes in blocks.
LEMMA Division ==
    ASSUME NEW t \in Nat
    PROVE  t \div BlockSize \in Nat /\ (t < BlockSize => t \div BlockSize = 0)
  BY DialFsAssumption

\* BloquesDe is the larger of one and the whole blocks.
LEMMA BloquesDeBytes ==
    ASSUME NEW t \in Nat
    PROVE  /\ BloquesDe(t) \in Nat
           /\ t \div BlockSize >= 1 => BloquesDe(t) = t \div BlockSize
           /\ t \div BlockSize = 0 => BloquesDe(t) = 1
  <1> DEFINE q == t \div BlockSize
  <1>1. q \in Nat
    BY Division
  <1> HIDE DEF q
  <1>2. Max({1, q}) = IF q >= 1 THEN q ELSE 1
    <2>1. \E x \in {1, q} : \A y \in {1, q} : x >= y
      BY <1>1
    <2>2. Max({1, q}) \in {1, q} /\ \A y \in {1, q} : Max({1, q}) >= y
      BY <2>1 DEF Max
    <2> QED BY <1>1, <2>2
  <1>3. BloquesDe(t) = Max({1, q})
    BY DEF BloquesDe, q
  <1> QED BY <1>1, <1>2, <1>3 DEF q

\* A free run of n blocks lies in the disk.
LEMMA HuecoEnDisco ==
    ASSUME NEW r \in Nat, NEW n \in Nat, InicioDeLibres(r, n) # {}
    PROVE  LET b == fs_buscar_primera_ocurrencia_libre(r, n)
           IN  /\ b \in InicioDeLibres(r, n) /\ b \in Nat /\ r <= b
               /\ \A y \in InicioDeLibres(r, n) : b <= y
               /\ n > 0 /\ b .. b + n - 1 \subseteq Libres
               /\ b + n - 1 \in Bloques /\ b # NoHay
  <1> DEFINE H == InicioDeLibres(r, n)
  <1>1. H \subseteq r .. BlockCount - n /\ BlockCount \in Nat
        /\ \A x \in H : n > 0 /\ x .. x + n - 1 \subseteq Libres
    BY DialFsAssumption DEF InicioDeLibres
  <1> HIDE DEF H
  <1>2. H \in SUBSET Nat
    BY <1>1
  <1>3. H # {}
    BY DEF H
  <1>4. Min(H) \in H /\ \A y \in H : Min(H) <= y
    BY <1>2, <1>3, MinimoNat
  <1>5. fs_buscar_primera_ocurrencia_libre(r, n) = Min(H)
    BY <1>3 DEF fs_buscar_primera_ocurrencia_libre, H
  <1> DEFINE b == Min(H)
  <1>6. b \in r .. BlockCount - n /\ n > 0 /\ b .. b + n - 1 \subseteq Libres
    BY <1>1, <1>4
  <1> HIDE DEF b
  <1>7. b \in Nat /\ r <= b /\ b + n - 1 \in Bloques /\ b # NoHay
    BY <1>1, <1>6 DEF Bloques, NoHay
  <1> QED BY <1>4, <1>5, <1>6, <1>7 DEF H, b

Truncados == [cantidad : Nat, fin : Nat, tamanio : Nat, i : Nat]

\* The files are finitely many and every number is one.
Tipos ==
    /\ IsFiniteSet(DOMAIN archivos) /\ DOMAIN archivos \subseteq Nombres
    /\ DOMAIN metadata \subseteq Nombres /\ IsFiniteSet(DOMAIN metadata)
    /\ \A n \in DOMAIN archivos : archivos[n] \in Fcb
    /\ \A n \in DOMAIN metadata : metadata[n] \in Metadata
    /\ bitmap \subseteq Bloques
    /\ truncado \in Truncados
    /\ vacias \subseteq Nombres
    /\ fase \in Creando => Posicion \in Bloques
    /\ respuesta \in {"NINGUNA", "OK", "ERROR"}

\* The fcb that a restart builds is one, and does not end before it begins.
LEMMA CargarTipo ==
    ASSUME NEW m \in Metadata
    PROVE  /\ Cargar(m) \in Fcb
           /\ Cargar(m).inicio = m.BLOQUE_INICIAL
           /\ Cargar(m).total_size = m.TAMANIO_ARCHIVO
           /\ Cargar(m).inicio <= Cargar(m).fin_bloque
           /\ Cargar(m).fin_bloque = Cargar(m).inicio + BloquesDe(m.TAMANIO_ARCHIVO) - 1
  <1> DEFINE q == m.TAMANIO_ARCHIVO \div BlockSize
             b == BloquesDe(m.TAMANIO_ARCHIVO)
             i == m.BLOQUE_INICIAL
             fin == i + q
             f == IF fin # i THEN fin - 1 ELSE fin
  <1>1. m.TAMANIO_ARCHIVO \in Nat /\ i \in Nat
    BY DEF Metadata
  <1>2. q \in Nat /\ b \in Nat /\ (q >= 1 => b = q) /\ (q = 0 => b = 1)
    BY <1>1, Division, BloquesDeBytes
  <1>3. Cargar(m) = [total_size |-> m.TAMANIO_ARCHIVO, inicio |-> i, fin_bloque |-> f]
    BY DEF Cargar
  <1> HIDE DEF q, b, i
  <1>4. f \in Nat /\ i <= f /\ f = i + b - 1
    BY <1>1, <1>2
  <1> HIDE DEF f
  <1> QED BY <1>1, <1>3, <1>4 DEF Fcb, i, b

\* One file less.
LEMMA SinTipo ==
    ASSUME NEW f, NEW n, IsFiniteSet(DOMAIN f)
    PROVE  /\ DOMAIN Sin(f, n) = DOMAIN f \ {n} /\ IsFiniteSet(DOMAIN Sin(f, n))
           /\ \A m \in DOMAIN f : m # n => Sin(f, n)[m] = f[m]
  BY FS_RemoveElement DEF Sin, Restrict

\* One file more, or one less, and what the values of the others are.
LEMMA ConEn ==
    ASSUME NEW f, NEW V, NEW n \in Nombres, NEW v \in V, IsFiniteSet(DOMAIN f),
           DOMAIN f \subseteq Nombres, \A m \in DOMAIN f : f[m] \in V
    PROVE  /\ DOMAIN Con(f, n, v) \subseteq Nombres /\ IsFiniteSet(DOMAIN Con(f, n, v))
           /\ \A m \in DOMAIN Con(f, n, v) : Con(f, n, v)[m] \in V
  <1> DEFINE g == Con(f, n, v)
  <1>1. /\ DOMAIN g = DOMAIN f \cup {n} /\ IsFiniteSet(DOMAIN g) /\ g[n] = v
        /\ \A m \in DOMAIN f : m # n => g[m] = f[m]
    BY FS_AddElement DEF Con
  <1> HIDE DEF g
  <1>2. DOMAIN g \subseteq Nombres /\ \A m \in DOMAIN g : g[m] \in V
    BY <1>1
  <1> QED BY <1>1, <1>2 DEF g

(* What Sin (the function without one name) leaves: one name fewer. *)
LEMMA SinEn ==
    ASSUME NEW f, NEW V, NEW n, IsFiniteSet(DOMAIN f),
           DOMAIN f \subseteq Nombres, \A m \in DOMAIN f : f[m] \in V
    PROVE  /\ DOMAIN Sin(f, n) \subseteq Nombres /\ IsFiniteSet(DOMAIN Sin(f, n))
           /\ \A m \in DOMAIN Sin(f, n) : Sin(f, n)[m] \in V
  <1> DEFINE g == Sin(f, n)
  <1>1. /\ DOMAIN g = DOMAIN f \ {n} /\ IsFiniteSet(DOMAIN g)
        /\ \A m \in DOMAIN f : m # n => g[m] = f[m]
    BY SinTipo
  <1> HIDE DEF g
  <1>2. DOMAIN g \subseteq Nombres /\ \A m \in DOMAIN g : g[m] \in V
    BY <1>1
  <1> QED BY <1>1, <1>2 DEF g

(* The empty file system that metadata_inicializar finds is well typed. *)
LEMMA InicioTipos == Init => Tipos
  <1>1. DOMAIN Vacio = {} /\ IsFiniteSet({}) /\ NoTruncado \in Truncados
    BY FS_EmptySet DEF Vacio, NoTruncado, Truncados
  <1> QED BY <1>1 DEF Init, Tipos, Creando

\* Start, stop and the requests that change no file.
LEMMA MuevenPocoTipos ==
    ASSUME Tipos, Arrancar \/ Caer \/ Pedir \/ Escribir \/ Leer PROVE Tipos'
  <1>1. CASE Arrancar
    <2>1. \A n \in DOMAIN metadata : Cargados[n] \in Fcb
      BY CargarTipo DEF Tipos, Cargados
    <2>2. DOMAIN Cargados = DOMAIN metadata
      BY DEF Cargados
    <2>3. archivos' \in {archivos, Cargados}
          /\ UNCHANGED <<metadata, vacias, bitmap, truncado, respuesta>>
          /\ fase' \notin Creando
      BY <1>1 DEF Arrancar, Creando
    <2> QED BY <2>1, <2>2, <2>3 DEF Tipos
  <1>2. CASE Caer
    <2>1. archivos' = Vacio /\ truncado' = NoTruncado /\ respuesta' = "NINGUNA"
          /\ fase' = "DETENIDO" /\ UNCHANGED <<metadata, vacias, bitmap>>
      BY <1>2 DEF Caer
    <2>2. DOMAIN Vacio = {} /\ IsFiniteSet({}) /\ NoTruncado \in Truncados
      BY FS_EmptySet DEF Vacio, NoTruncado, Truncados
    <2> QED BY <2>1, <2>2 DEF Tipos, Creando
  <1>3. CASE Pedir \/ Escribir \/ Leer
    <2>1. UNCHANGED <<archivos, metadata, vacias, bitmap, truncado>>
          /\ respuesta' \in {"NINGUNA", "OK", respuesta} /\ fase' \notin Creando
      BY <1>3 DEF Pedir, Escribir, Leer, Atiende, Responder, Callar, Creando
    <2> QED BY <2>1 DEF Tipos
  <1> QED BY <1>1, <1>2, <1>3

\* The first free block is one of the disk.
LEMMA BloqueLibre ==
    fs_buscar_bloque_libre # NoHay => fs_buscar_bloque_libre \in Libres /\ Libres \in SUBSET Nat
  <1>1. Libres \in SUBSET Nat
    BY DialFsAssumption DEF Libres, Bloques
  <1>2. CASE Libres = {}
    BY <1>2 DEF fs_buscar_bloque_libre
  <1>3. CASE Libres # {}
    <2>1. Min(Libres) \in Libres
      BY <1>1, <1>3, MinimoNat
    <2> QED BY <1>1, <1>3, <2>1 DEF fs_buscar_bloque_libre
  <1> QED BY <1>2, <1>3

(* CREATE keeps the types: it goes on when there is a free block. *)
LEMMA CrearTipos ==
    ASSUME Coherente, Tipos, Crear PROVE Tipos'
  <1>1. UNCHANGED <<archivos, metadata, bitmap, truncado>> /\ Posicion' = Posicion
    BY DEF Crear, Posicion, fs_buscar_bloque_libre, Libres
  <1>2. pedido.nombre \in Nombres
    BY DEF Crear, Atiende, Coherente, PasoDelPedido, Pedidos
  <1>3. CASE Responder("ERROR") /\ UNCHANGED vacias
    BY <1>1, <1>3 DEF Responder, Tipos, Creando
  <1>4. CASE fs_buscar_bloque_libre # NoHay /\ CrearVacia /\ UNCHANGED respuesta
    <2>1. Posicion \in Bloques
      BY <1>4, BloqueLibre DEF Posicion, Libres
    <2>2. vacias' \subseteq Nombres
      BY <1>2, <1>4 DEF CrearVacia, Tipos
    <2> QED BY <1>1, <1>4, <2>1, <2>2 DEF Tipos
  <1> QED BY <1>3, <1>4 DEF Crear

(* The new file has one block of the disk. *)
LEMMA GuardarCreadoTipos ==
    ASSUME Coherente, Tipos, GuardarCreado PROVE Tipos'
  <1>1. PICK n, posicion, fcb, hoja :
           /\ n = pedido.nombre /\ posicion = Posicion
           /\ fcb = [total_size |-> 0, inicio |-> posicion, fin_bloque |-> posicion]
           /\ hoja = [TAMANIO_ARCHIVO |-> 0, BLOQUE_INICIAL |-> posicion]
    OBVIOUS
  <1>2. /\ archivos' = Con(archivos, n, fcb) /\ metadata' = Con(metadata, n, hoja)
        /\ vacias' = vacias \ {n} /\ UNCHANGED <<bitmap, truncado, respuesta>>
    BY <1>1 DEF GuardarCreado
  <1>3. n \in Nombres
    BY <1>1 DEF GuardarCreado, Coherente, PasoDelPedido, Pedidos
  <1>4. posicion \in Bloques /\ Posicion' = Posicion
    BY <1>1, <1>2 DEF GuardarCreado, Tipos, Creando, Posicion, fs_buscar_bloque_libre, Libres
  <1>5. fcb \in Fcb /\ hoja \in Metadata
    <2>1. posicion \in Nat
      BY <1>4, DialFsAssumption DEF Bloques
    <2> QED BY <1>1, <2>1 DEF Fcb, Metadata
  <1>6. /\ DOMAIN archivos' \subseteq Nombres /\ IsFiniteSet(DOMAIN archivos')
        /\ \A m \in DOMAIN archivos' : archivos'[m] \in Fcb
    BY <1>2, <1>3, <1>5, ConEn DEF Tipos
  <1>7. /\ DOMAIN metadata' \subseteq Nombres /\ IsFiniteSet(DOMAIN metadata')
        /\ \A m \in DOMAIN metadata' : metadata'[m] \in Metadata
    BY <1>2, <1>3, <1>5, ConEn DEF Tipos
  <1> QED BY <1>1, <1>2, <1>4, <1>6, <1>7 DEF Tipos

\* Only a CREATE makes or fills a metadata file without keys.
LEMMA VaciasSiguen ==
    ASSUME Borrar \/ QuitarBorrado \/ Truncar \/ Compactar \/ MarcarTruncado \/ GuardarTruncado
    PROVE  UNCHANGED vacias
  BY DEF Borrar, QuitarBorrado, Truncar, Compactar, TerminarCompactacion, Caer, MarcarTruncado,
         GuardarTruncado

(* The steps that only write bits or drop a file keep the types. *)
LEMMA MarcasTipos ==
    ASSUME Coherente, Tipos, MarcarCreado \/ Borrar \/ QuitarBorrado \/ MarcarTruncado
    PROVE  Tipos'
  <1>1. CASE Borrar \/ MarcarTruncado \/ MarcarCreado
    <2>1. UNCHANGED <<archivos, metadata, vacias>> /\ bitmap' \subseteq Bloques
          /\ UNCHANGED truncado /\ respuesta' \in {respuesta, "OK"}
          /\ fase' \notin Creando
      BY <1>1 DEF Borrar, MarcarTruncado, MarcarCreado, Callar, Responder, Tipos, Creando
    <2> QED BY <2>1 DEF Tipos
  <1>2. CASE QuitarBorrado
    <2>1. archivos' = Sin(archivos, pedido.nombre) /\ metadata' = Sin(metadata, pedido.nombre)
          /\ UNCHANGED <<vacias, bitmap, truncado>> /\ respuesta' = "OK" /\ fase' = "ESPERA"
      BY <1>2 DEF QuitarBorrado, Responder
    <2>2. /\ DOMAIN archivos' \subseteq Nombres /\ IsFiniteSet(DOMAIN archivos')
          /\ DOMAIN metadata' \subseteq Nombres /\ IsFiniteSet(DOMAIN metadata')
          /\ \A m \in DOMAIN archivos' : archivos'[m] \in Fcb
          /\ \A m \in DOMAIN metadata' : metadata'[m] \in Metadata
      <3>1. /\ DOMAIN archivos' \subseteq Nombres /\ IsFiniteSet(DOMAIN archivos')
            /\ \A m \in DOMAIN archivos' : archivos'[m] \in Fcb
        BY <2>1, SinEn DEF Tipos
      <3>2. /\ DOMAIN metadata' \subseteq Nombres /\ IsFiniteSet(DOMAIN metadata')
            /\ \A m \in DOMAIN metadata' : metadata'[m] \in Metadata
        BY <2>1, SinEn DEF Tipos
      <3> QED BY <3>1, <3>2
    <2> QED BY <2>1, <2>2 DEF Tipos, Creando
  <1> QED BY <1>1, <1>2

\* The two copies of a size change, and nothing else of the files.
LEMMA GuardarTipos ==
    ASSUME Coherente, Tipos, EnMarcha, NEW n \in DOMAIN archivos, NEW t \in Nat, NEW b \in Nat,
           GuardarTamanio(n, t, b)
    PROVE  /\ DOMAIN archivos' = DOMAIN archivos /\ DOMAIN metadata' = DOMAIN metadata
           /\ archivos'[n] = [total_size |-> t, inicio |-> archivos[n].inicio, fin_bloque |-> b]
           /\ metadata'[n] = [TAMANIO_ARCHIVO |-> t, BLOQUE_INICIAL |-> metadata[n].BLOQUE_INICIAL]
           /\ \A m \in DOMAIN archivos : m # n => archivos'[m] = archivos[m]
           /\ \A m \in DOMAIN metadata : m # n => metadata'[m] = metadata[m]
           /\ \A m \in DOMAIN archivos' : archivos'[m] \in Fcb
           /\ \A m \in DOMAIN metadata' : metadata'[m] \in Metadata
  <1> DEFINE creado == [archivos EXCEPT ![n].total_size = t]
  <1>1. DOMAIN archivos = DOMAIN metadata /\ n \in DOMAIN metadata
    BY DEF Coherente, MetadataAlDia
  <1>2. archivos[n] \in Fcb /\ metadata[n] \in Metadata
    BY <1>1 DEF Tipos
  <1>3. creado[n] = [total_size |-> t, inicio |-> archivos[n].inicio,
                     fin_bloque |-> archivos[n].fin_bloque]
    BY <1>2 DEF Fcb
  <1>4. n \in DOMAIN creado /\ archivos' = [creado EXCEPT ![n].fin_bloque = b]
        /\ DOMAIN creado = DOMAIN archivos
        /\ \A m \in DOMAIN archivos : m # n => creado[m] = archivos[m]
    BY DEF GuardarTamanio
  <1> HIDE DEF creado
  <1>5. /\ archivos'[n] = [total_size |-> t, inicio |-> archivos[n].inicio, fin_bloque |-> b]
        /\ DOMAIN archivos' = DOMAIN archivos
        /\ \A m \in DOMAIN archivos : m # n => archivos'[m] = archivos[m]
    BY <1>3, <1>4
  <1>6. metadata' = [metadata EXCEPT ![n].TAMANIO_ARCHIVO = t]
    BY DEF GuardarTamanio
  <1>7. /\ metadata'[n] = [TAMANIO_ARCHIVO |-> t, BLOQUE_INICIAL |-> metadata[n].BLOQUE_INICIAL]
        /\ DOMAIN metadata' = DOMAIN metadata
        /\ \A m \in DOMAIN metadata : m # n => metadata'[m] = metadata[m]
    BY <1>1, <1>2, <1>6 DEF Metadata
  <1>8. archivos'[n] \in Fcb /\ metadata'[n] \in Metadata
    BY <1>2, <1>5, <1>7 DEF Fcb, Metadata
  <1>9. /\ \A m \in DOMAIN archivos' : archivos'[m] \in Fcb
        /\ \A m \in DOMAIN metadata' : metadata'[m] \in Metadata
    BY <1>5, <1>7, <1>8 DEF Tipos
  <1> QED BY <1>5, <1>7, <1>9

(* What TRUNCATE saves is well typed, rounded to blocks as the code does. *)
LEMMA GuardarTruncadoTipos ==
    ASSUME Coherente, Tipos, GuardarTruncado PROVE Tipos'
  <1> DEFINE n == pedido.nombre
  <1>1. EnMarcha /\ n \in DOMAIN archivos
    BY DEF GuardarTruncado, Coherente, PasoDelPedido, EnDisco, MetadataAlDia, EnMarcha
  <1>2. GuardarTamanio(n, truncado.tamanio, truncado.fin) /\ truncado' = NoTruncado
        /\ UNCHANGED bitmap /\ respuesta' = "OK" /\ fase' = "ESPERA"
    BY DEF GuardarTruncado, Responder
  <1>3. truncado.tamanio \in Nat /\ truncado.fin \in Nat
    BY DEF Tipos, Truncados
  <1>4. NoTruncado \in Truncados
    BY DEF NoTruncado, Truncados
  <1> HIDE DEF n
  <1>5. /\ DOMAIN archivos' = DOMAIN archivos /\ DOMAIN metadata' = DOMAIN metadata
        /\ \A m \in DOMAIN archivos' : archivos'[m] \in Fcb
        /\ \A m \in DOMAIN metadata' : metadata'[m] \in Metadata
    BY <1>1, <1>2, <1>3, GuardarTipos
  <1> QED BY <1>2, <1>4, <1>5, VaciasSiguen DEF Tipos, Creando

\* What a TRUNCATE that goes on has worked out.
LEMMA TruncarSigue ==
    ASSUME Coherente, Tipos, Truncar, fase' \in {"COMPACTAR", "MARCAR_TRUNCADO"}
    PROVE  LET n == pedido.nombre
               archivo == archivos[n]
               c == BloquesATruncar(archivo, pedido.dato)
           IN  /\ n \in DOMAIN archivos /\ c \in Nat
               /\ truncado' = [cantidad |-> c, fin |-> archivo.inicio + c,
                               tamanio |-> archivo.total_size + pedido.dato,
                               i |-> Cardinality(DOMAIN archivos)]
               /\ truncado' \in Truncados
               /\ UNCHANGED <<archivos, metadata, bitmap, pedido, respuesta>>
               /\ \E compactar \in fs_tiene_compactar(n, c) :
                     fase' = IF compactar THEN "COMPACTAR" ELSE "MARCAR_TRUNCADO"
  <1> DEFINE n == pedido.nombre
             archivo == archivos[n]
             bytes == pedido.dato
             tamanio == archivo.total_size + bytes
             c == BloquesATruncar(archivo, bytes)
  <1>1. pedido \in Pedidos /\ pedido.op = "TRUNCATE" /\ bytes \in Nat
    BY DialFsAssumption DEF Truncar, Atiende, Coherente, PasoDelPedido, Pedidos
  <1>2. n \in DOMAIN archivos
    BY DEF Truncar, Responder, Existe
  <1>3. archivo \in Fcb
    BY <1>2 DEF Tipos
  <1>4. ~ (archivo.total_size = 0 /\ tamanio < BlockSize)
    BY DEF Truncar, Responder
  <1>5. /\ truncado' = [cantidad |-> c, fin |-> archivo.inicio + c, tamanio |-> tamanio,
                        i |-> Cardinality(DOMAIN archivos)]
        /\ \E compactar \in fs_tiene_compactar(n, c) :
              fase' = IF compactar THEN "COMPACTAR" ELSE "MARCAR_TRUNCADO"
        /\ UNCHANGED <<archivos, metadata, bitmap, pedido, respuesta>>
    BY <1>2, <1>4 DEF Truncar, Responder, Existe
  <1>6. c \in Nat
    <2> DEFINE t == archivo.total_size
               resto == IF t = 0 THEN bytes - BlockSize ELSE bytes
    <2>1. t \in Nat /\ BlockSize \in Nat
      BY <1>3, DialFsAssumption DEF Fcb
    <2>2. resto \in Nat
      BY <1>1, <1>4, <2>1
    <2>3. c = resto \div BlockSize
      BY DEF BloquesATruncar
    <2> HIDE DEF resto
    <2> QED BY <2>2, <2>3, Division
  <1>7. truncado' \in Truncados
    <2>1. archivo.inicio \in Nat /\ archivo.total_size \in Nat
      BY <1>3 DEF Fcb
    <2>2. Cardinality(DOMAIN archivos) \in Nat
      BY FS_CardinalityType DEF Tipos
    <2> HIDE DEF c, archivo, bytes
    <2>3. archivo.inicio + c \in Nat /\ tamanio \in Nat
      BY <1>1, <1>6, <2>1
    <2> QED BY <1>5, <1>6, <2>2, <2>3 DEF Truncados
  <1> QED BY <1>2, <1>5, <1>6, <1>7

(* TRUNCATE keeps the types: what it is about to mark lies where it was computed. *)
LEMMA TruncarTipos ==
    ASSUME Coherente, Tipos, Truncar PROVE Tipos'
  <1> DEFINE n == pedido.nombre
             t == archivos[n].total_size + pedido.dato
             b == archivos[n].fin_bloque
  <1>1. CASE fase' \in {"COMPACTAR", "MARCAR_TRUNCADO"}
    <2>1. truncado' \in Truncados /\ UNCHANGED <<archivos, metadata, bitmap, respuesta>>
      BY <1>1, TruncarSigue
    <2> QED BY <1>1, <2>1, VaciasSiguen DEF Tipos, Creando
  <1>2. CASE fase' \notin {"COMPACTAR", "MARCAR_TRUNCADO"}
    <2>1. UNCHANGED <<bitmap, truncado>> /\ respuesta' \in {"OK", "ERROR"} /\ fase' = "ESPERA"
      BY <1>2 DEF Truncar, Responder
    <2>2. \/ UNCHANGED <<archivos, metadata>>
          \/ n \in DOMAIN archivos /\ GuardarTamanio(n, t, b)
      BY <1>2 DEF Truncar, Existe
    <2>3. CASE UNCHANGED <<archivos, metadata>>
      BY <2>1, <2>3, VaciasSiguen DEF Tipos, Creando
    <2>4. CASE n \in DOMAIN archivos /\ GuardarTamanio(n, t, b)
      <3>1. EnMarcha /\ pedido \in Pedidos /\ pedido.op = "TRUNCATE"
        BY DEF Truncar, Atiende, Coherente, PasoDelPedido, EnMarcha
      <3>2. pedido.dato \in Nat
        BY <3>1, DialFsAssumption DEF Pedidos
      <3>3. archivos[n].total_size \in Nat /\ b \in Nat
        BY <2>4 DEF Tipos, Fcb
      <3>4. t \in Nat
        BY <3>2, <3>3
      <3> HIDE DEF n, t, b
      <3>5. /\ DOMAIN archivos' = DOMAIN archivos /\ DOMAIN metadata' = DOMAIN metadata
            /\ \A m \in DOMAIN archivos' : archivos'[m] \in Fcb
            /\ \A m \in DOMAIN metadata' : metadata'[m] \in Metadata
        BY <2>4, <3>1, <3>3, <3>4, GuardarTipos
      <3> QED BY <2>1, <3>5, VaciasSiguen DEF Tipos, Creando
    <2> QED BY <2>2, <2>3, <2>4
  <1> QED BY <1>1, <1>2

\* What a turn of the compaction does to the files.
LEMMA DesplazarHace ==
    ASSUME Coherente, Tipos, EnMarcha, NEW m \in DOMAIN archivos, NEW c \in Nat,
           fs_desplazar_archivo_hacia_derecha(m, c)
    PROVE  LET inicio == archivos[m].inicio + c
           IN  /\ DOMAIN archivos' = DOMAIN archivos /\ DOMAIN metadata' = DOMAIN metadata
               /\ archivos'[m] = [total_size |-> archivos[m].total_size, inicio |-> inicio,
                      fin_bloque |-> inicio + archivos[m].total_size \div BlockSize]
               /\ metadata'[m] = [TAMANIO_ARCHIVO |-> metadata[m].TAMANIO_ARCHIVO,
                                  BLOQUE_INICIAL |-> inicio]
               /\ \A x \in DOMAIN archivos : x # m => archivos'[x] = archivos[x]
               /\ \A x \in DOMAIN metadata : x # m => metadata'[x] = metadata[x]
               /\ \A x \in DOMAIN archivos' : archivos'[x] \in Fcb
               /\ \A x \in DOMAIN metadata' : metadata'[x] \in Metadata
  <1> DEFINE inicio == archivos[m].inicio + c
             fin == inicio + archivos[m].total_size \div BlockSize
             movido == [archivos EXCEPT ![m].inicio = inicio]
  <1>1. DOMAIN archivos = DOMAIN metadata /\ m \in DOMAIN metadata
    BY DEF Coherente, MetadataAlDia
  <1>2. archivos[m] \in Fcb /\ metadata[m] \in Metadata
    BY <1>1 DEF Tipos
  <1>3. inicio \in Nat /\ fin \in Nat
    <2>1. archivos[m].inicio \in Nat /\ archivos[m].total_size \in Nat
      BY <1>2 DEF Fcb
    <2>2. archivos[m].total_size \div BlockSize \in Nat
      BY <2>1, Division
    <2> DEFINE q == archivos[m].total_size \div BlockSize
    <2>3. q \in Nat /\ fin = inicio + q
      BY <2>2
    <2> HIDE DEF q
    <2> QED BY <2>1, <2>3
  <1>4. metadata' = [metadata EXCEPT ![m].BLOQUE_INICIAL = inicio]
        /\ archivos' = [movido EXCEPT ![m].fin_bloque = fin]
    BY DEF fs_desplazar_archivo_hacia_derecha
  <1> HIDE DEF inicio, fin
  <1>5. /\ movido[m] = [total_size |-> archivos[m].total_size, inicio |-> inicio,
                        fin_bloque |-> archivos[m].fin_bloque]
        /\ DOMAIN movido = DOMAIN archivos
        /\ \A x \in DOMAIN archivos : x # m => movido[x] = archivos[x]
    BY <1>2 DEF Fcb
  <1> HIDE DEF movido
  <1>6. /\ archivos'[m] = [total_size |-> archivos[m].total_size, inicio |-> inicio,
                           fin_bloque |-> fin]
        /\ DOMAIN archivos' = DOMAIN archivos
        /\ \A x \in DOMAIN archivos : x # m => archivos'[x] = archivos[x]
    BY <1>4, <1>5
  <1>7. /\ metadata'[m] = [TAMANIO_ARCHIVO |-> metadata[m].TAMANIO_ARCHIVO,
                           BLOQUE_INICIAL |-> inicio]
        /\ DOMAIN metadata' = DOMAIN metadata
        /\ \A x \in DOMAIN metadata : x # m => metadata'[x] = metadata[x]
    BY <1>1, <1>2, <1>4 DEF Metadata
  <1>8. archivos'[m] \in Fcb /\ metadata'[m] \in Metadata
    BY <1>2, <1>3, <1>6, <1>7 DEF Fcb, Metadata
  <1>9. /\ \A x \in DOMAIN archivos' : archivos'[x] \in Fcb
        /\ \A x \in DOMAIN metadata' : metadata'[x] \in Metadata
    BY <1>6, <1>7, <1>8 DEF Tipos
  <1> QED BY <1>6, <1>7, <1>9 DEF inicio, fin

\* A turn that moves a file: which file, and where to.
LEMMA CompactarMueve ==
    ASSUME Coherente, Tipos, Compactar, fase' = "COMPACTAR"
    PROVE  LET r == archivos[pedido.nombre].fin_bloque
               c == truncado.cantidad
               libre == fs_buscar_primera_ocurrencia_libre(r, c)
           IN  /\ r \in Nat /\ c \in Nat /\ InicioDeLibres(r, c) # {}
               /\ \E m \in DOMAIN archivos \ {pedido.nombre} :
                     /\ archivos[m].fin_bloque = libre - 1
                     /\ fs_desplazar_archivo_hacia_derecha(m, c)
               /\ truncado.i # 0 /\ truncado' = [truncado EXCEPT !.i = @ - 1]
               /\ truncado' \in Truncados
               /\ UNCHANGED <<fase, pedido, respuesta>>
  <1> DEFINE r == archivos[pedido.nombre].fin_bloque
             c == truncado.cantidad
             libre == fs_buscar_primera_ocurrencia_libre(r, c)
  <1>1. fase = "COMPACTAR"
    BY DEF Compactar
  <1>2. pedido.nombre \in DOMAIN archivos
    BY <1>1 DEF Coherente, PasoDelPedido, EnDisco, MetadataAlDia, EnMarcha
  <1>3. r \in Nat /\ truncado \in Truncados
    BY <1>2 DEF Tipos, Fcb
  <1>4. /\ ~ (truncado.i = 0 \/ libre = NoHay)
        /\ \E m \in DOMAIN archivos \ {pedido.nombre} :
              /\ archivos[m].fin_bloque = libre - 1
              /\ fs_desplazar_archivo_hacia_derecha(m, c)
        /\ truncado' = [truncado EXCEPT !.i = @ - 1]
        /\ UNCHANGED <<fase, pedido, respuesta>>
    BY DEF Compactar, TerminarCompactacion, Caer
  <1>5. InicioDeLibres(r, c) # {}
    BY <1>4 DEF fs_buscar_primera_ocurrencia_libre
  <1>6. truncado' \in Truncados
    BY <1>3, <1>4 DEF Truncados
  <1> QED BY <1>3, <1>4, <1>5, <1>6 DEF Truncados

(* A turn of fs_compactar keeps the types and its index within the loop. *)
LEMMA CompactarTipos ==
    ASSUME Coherente, Tipos, Compactar PROVE Tipos'
  <1>1. CASE fase' = "COMPACTAR"
    <2> DEFINE r == archivos[pedido.nombre].fin_bloque
               c == truncado.cantidad
               libre == fs_buscar_primera_ocurrencia_libre(r, c)
    <2>1. /\ r \in Nat /\ c \in Nat /\ InicioDeLibres(r, c) # {}
          /\ truncado' \in Truncados /\ UNCHANGED respuesta
      BY <1>1, CompactarMueve
    <2>2. PICK m \in DOMAIN archivos \ {pedido.nombre} :
              /\ archivos[m].fin_bloque = libre - 1
              /\ fs_desplazar_archivo_hacia_derecha(m, c)
      BY <1>1, CompactarMueve
    <2> HIDE DEF r, c
    <2>3. libre \in Nat /\ libre + c - 1 \in Bloques
      BY <2>1, HuecoEnDisco
    <2>4. EnMarcha
      BY DEF Compactar, EnMarcha
    <2>5. /\ DOMAIN archivos' = DOMAIN archivos /\ DOMAIN metadata' = DOMAIN metadata
          /\ \A x \in DOMAIN archivos' : archivos'[x] \in Fcb
          /\ \A x \in DOMAIN metadata' : metadata'[x] \in Metadata
      BY <2>1, <2>2, <2>4, DesplazarHace
    <2>6. bitmap' \subseteq Bloques
      <3> DEFINE inicio == archivos[m].inicio + c
                 fin == archivos[m].fin_bloque + c
      <3>1. archivos[m].inicio \in Nat /\ archivos[m].fin_bloque \in Nat
        BY DEF Tipos, Fcb
      <3>2. bitmap' \subseteq bitmap \cup (inicio .. fin)
        BY <2>2 DEF fs_desplazar_archivo_hacia_derecha
      <3> HIDE DEF libre
      <3>3. inicio .. fin \subseteq Bloques
        BY <2>1, <2>2, <2>3, <3>1, DialFsAssumption DEF Bloques
      <3> QED BY <3>2, <3>3 DEF Tipos
    <2> QED BY <1>1, <2>1, <2>5, <2>6, VaciasSiguen DEF Tipos, Creando
  <1>2. CASE Caer
    BY <1>2, MuevenPocoTipos
  <1>3. CASE TerminarCompactacion
    BY <1>3 DEF TerminarCompactacion, Tipos, Creando
  <1> QED BY <1>1, <1>2, <1>3 DEF Compactar

\* The types are kept by every step.
LEMMA PasoTipos ==
    ASSUME Coherente, Tipos, [Next]_vars PROVE Tipos'
  <1>1. CASE UNCHANGED vars
    BY <1>1 DEF vars, Tipos, Posicion, fs_buscar_bloque_libre, Libres
  <1>2. CASE Detener
    BY <1>2, MuevenPocoTipos DEF Detener
  <1> QED
    BY <1>1, <1>2, MuevenPocoTipos, CrearTipos, GuardarCreadoTipos, MarcasTipos, TruncarTipos,
       CompactarTipos, GuardarTruncadoTipos DEF Next

\* A step with its history is a step.
LEMMA PasoConHistoria == [NextHistoria]_varsHistoria => [Next]_vars
  BY DEF NextHistoria, varsHistoria, vars

\* The state of the file system has the shape of the code's structures, whatever
\* the size of the disk, the names and the requests: no size and no block
\* number is negative, in spite of what a compaction counts, and the bitmap marks
\* only blocks of the disk.
THEOREM DialFsTipo == SpecHistoria => []TipoDialFs
  <1> DEFINE I == Coherente /\ Tipos /\ previsto \in BOOLEAN
  <1>1. InitHistoria => I
    BY InicioCoherente, InicioTipos DEF InitHistoria
  <1>2. I /\ [NextHistoria]_varsHistoria => I'
    <2> SUFFICES ASSUME I, [NextHistoria]_varsHistoria PROVE I'
      OBVIOUS
    <2>1. Coherente' /\ Tipos'
      BY PasoConHistoria, PasoCoherente, PasoTipos
    <2>2. previsto' \in BOOLEAN
      BY Zenon DEF NextHistoria, varsHistoria
    <2> QED BY <2>1, <2>2
  <1>3. I => TipoDialFs
    BY DEF TipoDialFs, Tipos, Coherente, PasoDelPedido
  <1> QED BY <1>1, <1>2, <1>3, PTL DEF SpecHistoria

---------------------------------------------------------------------------
(* The blocks, while the file system is used as foreseen *)

Inicio(n) == metadata[n].BLOQUE_INICIAL

Fin(n) == Cargar(metadata[n]).fin_bloque

\* The blocks of a file, as a restart would find them.
Ocupa(n) == Inicio(n) .. Fin(n)

Ocupados(S) == UNION {Ocupa(n) : n \in S}

\* Where a stop leaves a request half done.
Cortables == {"GUARDAR_CREADO", "MARCAR_CREADO", "QUITAR_BORRADO", "GUARDAR_TRUNCADO"}

Creciendo == {"COMPACTAR", "MARCAR_TRUNCADO", "GUARDAR_TRUNCADO"}

\* The blocks a TRUNCATE is about to add, and the run a compaction looks for.
Nuevos == Fin(pedido.nombre) + 1 .. Fin(pedido.nombre) + truncado.cantidad

Hueco == InicioDeLibres(Fin(pedido.nombre), truncado.cantidad)

Libre == fs_buscar_primera_ocurrencia_libre(Fin(pedido.nombre), truncado.cantidad)

\* The files between the one that grows and the run.
PorMover == {m \in DOMAIN metadata : Fin(pedido.nombre) < Inicio(m) /\ Inicio(m) < Libre}

Separados == \A n, m \in DOMAIN metadata : n # m => Ocupa(n) \cap Ocupa(m) = {}

\* The bits at each step of a request, and the file without keys of a CREATE.
Marcas ==
    /\ fase \notin {"MARCAR_CREADO", "QUITAR_BORRADO", "GUARDAR_TRUNCADO"} =>
          bitmap = Ocupados(DOMAIN metadata)
    /\ fase # "MARCAR_SIN_ARCHIVO"
    /\ vacias = IF fase = "GUARDAR_CREADO" THEN {pedido.nombre} ELSE {}
    /\ fase \in {"MARCAR_CREADO", "QUITAR_BORRADO"} =>
          bitmap = Ocupados(DOMAIN metadata \ {pedido.nombre})
    /\ fase = "GUARDAR_TRUNCADO" => bitmap = Ocupados(DOMAIN metadata) \cup Nuevos

\* A file grows from its one block, by as many blocks as its bytes will need.
Crecimiento ==
    /\ fase = "MARCAR_CREADO" =>
          Inicio(pedido.nombre) = Posicion /\ Fin(pedido.nombre) = Posicion
    /\ fase \in Creciendo =>
          /\ Inicio(pedido.nombre) = Fin(pedido.nombre)
          /\ truncado.fin = Fin(pedido.nombre) + truncado.cantidad
          /\ BloquesDe(truncado.tamanio) = 1 + truncado.cantidad

\* Where it grows to: the turns of the compaction that are left are more than
\* the files it has still to move.
Lugar ==
    /\ fase = "COMPACTAR" /\ truncado.cantidad > 0 =>
          Hueco # {} /\ Cardinality(PorMover) < truncado.i
    /\ fase = "MARCAR_TRUNCADO" => Nuevos \subseteq Libres
    /\ fase = "GUARDAR_TRUNCADO" =>
          \A m \in DOMAIN metadata : Nuevos \cap Ocupa(m) = {}

Orden ==
    /\ fase # "RECHAZADO"
    /\ fase = "DETENIDO" => archivos = Vacio
    /\ EnMarcha => archivos = Cargados
    /\ Separados
    /\ Marcas
    /\ Crecimiento
    /\ Lugar

\* What a file's metadata says of its blocks.
LEMMA BloquesDeUnArchivo ==
    ASSUME Tipos, NEW n \in DOMAIN metadata
    PROVE  /\ Inicio(n) \in Nat /\ Fin(n) \in Nat /\ Inicio(n) <= Fin(n)
           /\ Inicio(n) \in Ocupa(n) /\ Fin(n) \in Ocupa(n)
           /\ Fin(n) = Inicio(n) + BloquesDe(metadata[n].TAMANIO_ARCHIVO) - 1
           /\ BloquesDe(metadata[n].TAMANIO_ARCHIVO) \in Nat
           /\ metadata[n].TAMANIO_ARCHIVO \in Nat
           /\ Cargar(metadata[n]) = [total_size |-> metadata[n].TAMANIO_ARCHIVO,
                                     inicio |-> Inicio(n), fin_bloque |-> Fin(n)]
  <1>1. metadata[n] \in Metadata
    BY DEF Tipos
  <1>2. /\ Cargar(metadata[n]) \in Fcb
        /\ Cargar(metadata[n]).inicio = metadata[n].BLOQUE_INICIAL
        /\ Cargar(metadata[n]).total_size = metadata[n].TAMANIO_ARCHIVO
        /\ Cargar(metadata[n]).inicio <= Cargar(metadata[n]).fin_bloque
        /\ Cargar(metadata[n]).fin_bloque
             = Cargar(metadata[n]).inicio + BloquesDe(metadata[n].TAMANIO_ARCHIVO) - 1
    BY <1>1, CargarTipo
  <1>3. metadata[n].TAMANIO_ARCHIVO \in Nat
    BY <1>1 DEF Metadata
  <1>4. BloquesDe(metadata[n].TAMANIO_ARCHIVO) \in Nat
    BY <1>3, BloquesDeBytes
  <1>5. Cargar(metadata[n]) = [total_size |-> Cargar(metadata[n]).total_size,
                               inicio |-> Cargar(metadata[n]).inicio,
                               fin_bloque |-> Cargar(metadata[n]).fin_bloque]
    BY <1>2 DEF Fcb
  <1>6. Inicio(n) \in Nat /\ Fin(n) \in Nat /\ Inicio(n) <= Fin(n)
    BY <1>2 DEF Inicio, Fin, Fcb
  <1>7. Inicio(n) \in Ocupa(n) /\ Fin(n) \in Ocupa(n)
    BY <1>6 DEF Ocupa
  <1> QED BY <1>2, <1>3, <1>4, <1>5, <1>6, <1>7 DEF Inicio, Fin

\* What is in memory of a file, when it is what a restart would read.
LEMMA EnMemoria ==
    ASSUME Tipos, archivos = Cargados, NEW n \in DOMAIN metadata
    PROVE  /\ DOMAIN archivos = DOMAIN metadata
           /\ archivos[n] = [total_size |-> metadata[n].TAMANIO_ARCHIVO,
                             inicio |-> Inicio(n), fin_bloque |-> Fin(n)]
           /\ BloquesDelArchivo(n) = Ocupa(n)
  BY BloquesDeUnArchivo DEF Cargados, BloquesDelArchivo, Ocupa

(* An empty disk is in order. *)
LEMMA InicioOrden == Init => Orden
  BY DEF Init, Orden, Vacio, EnMarcha, Separados, Marcas, Ocupados, Crecimiento, Lugar, Creciendo

\* Nothing moves when no metadata changes.
LEMMA MismosBloques ==
    ASSUME UNCHANGED metadata
    PROVE  /\ \A n : Inicio(n)' = Inicio(n) /\ Fin(n)' = Fin(n) /\ Ocupa(n)' = Ocupa(n)
           /\ \A S : Ocupados(S)' = Ocupados(S)
           /\ Separados' = Separados
           /\ Cargados' = Cargados
  BY DEF Inicio, Fin, Ocupa, Ocupados, Separados, Cargados

\* Between two requests, the steps that touch no file.
LEMMA QuietoOrden ==
    ASSUME Orden, fase \in {"ESPERA", "ATENDER"}, fase' \in {"ESPERA", "ATENDER"},
           UNCHANGED <<archivos, metadata, vacias, bitmap>>
    PROVE  Orden'
  <1>1. archivos' = Cargados' /\ Separados'
    BY MismosBloques DEF Orden, EnMarcha
  <1>2. bitmap' = Ocupados(DOMAIN metadata)'
    BY MismosBloques DEF Orden, Marcas
  <1> QED BY <1>1, <1>2 DEF Orden, Marcas, Crecimiento, Lugar, Creciendo

\* A restart is not refused, and builds what the disk says.
LEMMA ArrancarOrden ==
    ASSUME Coherente, Tipos, Orden, Arrancar PROVE Orden'
  <1>1. ~ HayEntreBloques
    <2> SUFFICES ASSUME NEW n \in DOMAIN metadata, NEW m \in DOMAIN metadata, n # m,
                        EntreBloques(Cargados[n], Cargados[m])
                 PROVE  FALSE
      BY DEF HayEntreBloques
    <2>1. /\ Inicio(n) \in Nat /\ Fin(n) \in Nat /\ Inicio(n) <= Fin(n)
          /\ Inicio(m) \in Nat /\ Fin(m) \in Nat /\ Inicio(m) <= Fin(m)
          /\ Cargados[n].inicio = Inicio(n) /\ Cargados[n].fin_bloque = Fin(n)
          /\ Cargados[m].inicio = Inicio(m) /\ Cargados[m].fin_bloque = Fin(m)
      BY BloquesDeUnArchivo DEF Cargados
    <2>2. Inicio(m) <= Fin(n) /\ Inicio(n) <= Fin(m)
      BY <2>1 DEF EntreBloques
    <2>3. Ocupa(n) \cap Ocupa(m) # {}
      BY <2>1, <2>2 DEF Ocupa
    <2> QED BY <2>3 DEF Orden, Separados
  <1>2. fase = "DETENIDO" /\ fase' = "ESPERA" /\ archivos' = Cargados
        /\ UNCHANGED <<metadata, vacias, bitmap>>
    BY <1>1 DEF Arrancar, Orden, Marcas
  <1>3. archivos' = Cargados' /\ Separados'
    BY <1>2, MismosBloques DEF Orden
  <1>4. bitmap' = Ocupados(DOMAIN metadata)'
    BY <1>2, MismosBloques DEF Orden, Marcas
  <1> QED BY <1>2, <1>3, <1>4 DEF Orden, Marcas, Crecimiento, Lugar, Creciendo

\* A stop between two writes of one request is unforeseen; any other leaves the
\* bits of the files.
LEMMA CaerOrden ==
    ASSUME Orden, Caer, fase \notin Cortables
    PROVE  Orden'
  <1>1. fase' = "DETENIDO" /\ archivos' = Vacio /\ UNCHANGED <<metadata, vacias, bitmap>>
    BY DEF Caer
  <1>2. Separados' /\ bitmap' = Ocupados(DOMAIN metadata)' /\ vacias' = {}
    BY <1>1, MismosBloques DEF Orden, Marcas, Cortables
  <1>3. Vacio' = Vacio
    BY DEF Vacio, NoPedido
  <1> QED BY <1>1, <1>2, <1>3 DEF Orden, Marcas, Crecimiento, Lugar, Creciendo, EnMarcha

(* CREATE changes no file; the one it leaves without keys is the one it goes on with. *)
LEMMA CrearOrden ==
    ASSUME Coherente, Tipos, Orden, Crear, ~ NoAbre PROVE Orden'
  <1>1. fase = "ATENDER" /\ UNCHANGED <<archivos, metadata, bitmap>>
    BY DEF Crear, Atiende
  <1>2. CASE Responder("ERROR") /\ UNCHANGED vacias
    BY <1>1, <1>2, QuietoOrden DEF Responder
  <1>3. CASE CrearVacia /\ UNCHANGED pedido
    <2>1. fase' = "GUARDAR_CREADO" /\ vacias' = vacias \cup {pedido.nombre}
      BY <1>1, <1>3 DEF CrearVacia, NoAbre
    <2>2. vacias' = {pedido'.nombre}
      BY <1>1, <1>3, <2>1 DEF Orden, Marcas
    <2>3. archivos' = Cargados' /\ Separados' /\ bitmap' = Ocupados(DOMAIN metadata)'
      BY <1>1, MismosBloques DEF Orden, EnMarcha, Marcas
    <2> QED BY <2>1, <2>2, <2>3 DEF Orden, Marcas, Crecimiento, Lugar, Creciendo
  <1> QED BY <1>2, <1>3 DEF Crear

(* The new file takes a free block, so that no file is touched; its bit is not yet
   written. *)
LEMMA GuardarCreadoOrden ==
    ASSUME Coherente, Tipos, Orden, GuardarCreado PROVE Orden'
  <1>1. PICK n, posicion, fcb, hoja :
           /\ n = pedido.nombre /\ posicion = Posicion
           /\ fcb = [total_size |-> 0, inicio |-> posicion, fin_bloque |-> posicion]
           /\ hoja = [TAMANIO_ARCHIVO |-> 0, BLOQUE_INICIAL |-> posicion]
    OBVIOUS
  <1>2. /\ fase = "GUARDAR_CREADO" /\ fase' = "MARCAR_CREADO"
        /\ archivos' = Con(archivos, n, fcb) /\ metadata' = Con(metadata, n, hoja)
        /\ vacias' = vacias \ {n} /\ UNCHANGED <<pedido, bitmap>>
    BY <1>1 DEF GuardarCreado
  <1>3. posicion \in Nat /\ posicion \in Libres /\ Posicion' = posicion
    <2>1. Posicion \in Nat
      BY <1>2, DialFsAssumption DEF Tipos, Creando, Bloques
    <2>2. fs_buscar_bloque_libre # NoHay
      BY <2>1 DEF Posicion, NoHay
    <2> QED BY <1>1, <1>2, <2>1, <2>2, BloqueLibre DEF Posicion, fs_buscar_bloque_libre, Libres
  <1>4. archivos = Cargados /\ bitmap = Ocupados(DOMAIN metadata) /\ Separados /\ vacias = {n}
    BY <1>1, <1>2 DEF Orden, Marcas, EnMarcha
  <1>5. n \notin DOMAIN metadata
    BY <1>1, <1>2 DEF Coherente, PasoDelPedido, EnDisco
  <1>6. Cargar(hoja) = fcb
    <2>1. 0 \div BlockSize = 0
      BY Division, DialFsAssumption
    <2>2. posicion + 0 = posicion
      BY <1>3
    <2> QED BY <1>1, <2>1, <2>2 DEF Cargar
  <1>7. /\ DOMAIN metadata' = DOMAIN metadata \cup {n} /\ metadata'[n] = hoja
        /\ \A m \in DOMAIN metadata : m # n /\ metadata'[m] = metadata[m]
    BY <1>2, <1>5 DEF Con
  <1>8. archivos' = Cargados'
    BY <1>2, <1>4, <1>5, <1>6, <1>7 DEF Cargados, Con
  <1>9. Inicio(n)' = posicion /\ Fin(n)' = posicion
    BY <1>1, <1>6, <1>7 DEF Inicio, Fin
  <1>10. \A m \in DOMAIN metadata : Ocupa(m)' = Ocupa(m)
    BY <1>7 DEF Ocupa, Inicio, Fin
  <1>11. Ocupa(n)' = {posicion}
    BY <1>3, <1>9 DEF Ocupa
  <1>12. Separados'
    <2>1. \A m \in DOMAIN metadata : posicion \notin Ocupa(m)
      BY <1>3, <1>4 DEF Libres, Ocupados
    <2> QED BY <1>4, <1>7, <1>10, <1>11, <2>1 DEF Separados
  <1>13. bitmap' = Ocupados(DOMAIN metadata \ {pedido.nombre})'
    <2>1. DOMAIN metadata' \ {n} = DOMAIN metadata
      BY <1>5, <1>7
    <2>2. Ocupados(DOMAIN metadata \ {pedido.nombre})' = Ocupados(DOMAIN metadata)
      BY <1>1, <1>2, <1>10, <2>1 DEF Ocupados
    <2> QED BY <1>2, <1>4, <2>2
  <1>14. Inicio(pedido.nombre)' = Posicion' /\ Fin(pedido.nombre)' = Posicion' /\ vacias' = {}
    BY <1>1, <1>2, <1>3, <1>4, <1>9
  <1> QED BY <1>2, <1>8, <1>12, <1>13, <1>14 DEF Orden, Marcas, Crecimiento, Lugar, Creciendo

(* The bit of the created file was the one missing. *)
LEMMA MarcarCreadoOrden ==
    ASSUME Coherente, Tipos, Orden, MarcarCreado PROVE Orden'
  <1> DEFINE n == pedido.nombre
  <1>1. /\ fase = "MARCAR_CREADO" /\ fase' = "ESPERA"
        /\ UNCHANGED <<archivos, metadata, vacias>>
        /\ bitmap' = bitmap \cup {Posicion}
    BY DEF MarcarCreado, Responder, Orden, Marcas
  <1>2. n \in DOMAIN metadata
    BY <1>1 DEF Coherente, PasoDelPedido, EnDisco
  <1>3. /\ archivos = Cargados /\ Inicio(n) = Posicion /\ Fin(n) = Posicion
        /\ bitmap = Ocupados(DOMAIN metadata \ {n}) /\ vacias = {}
    BY <1>1 DEF Orden, EnMarcha, Marcas, Crecimiento
  <1>4. Inicio(n) \in Nat
    BY <1>2, BloquesDeUnArchivo
  <1> HIDE DEF n
  <1>5. Ocupa(n) = {Posicion}
    BY <1>3, <1>4 DEF Ocupa
  <1>6. bitmap' = Ocupados(DOMAIN metadata)
    BY <1>1, <1>2, <1>3, <1>5 DEF Ocupados
  <1>7. /\ archivos' = Cargados' /\ Separados' /\ bitmap' = Ocupados(DOMAIN metadata)'
        /\ vacias' = {}
    BY <1>1, <1>3, <1>6, MismosBloques DEF Orden
  <1> QED BY <1>1, <1>7 DEF Orden, Marcas, Crecimiento, Lugar, Creciendo

(* DELETE forgets the file before its bits: they are the ones in excess. *)
LEMMA BorrarOrden ==
    ASSUME Coherente, Tipos, Orden, Borrar PROVE Orden'
  <1> DEFINE n == pedido.nombre
  <1>1. fase = "ATENDER" /\ UNCHANGED <<archivos, metadata>>
    BY DEF Borrar, Atiende
  <1>2. CASE ~ Existe(n)
    BY <1>1, <1>2, QuietoOrden DEF Borrar, Callar
  <1>3. CASE Existe(n)
    <2>1. /\ fase' = "QUITAR_BORRADO" /\ UNCHANGED pedido
          /\ bitmap' = bitmap \ BloquesDelArchivo(n)
      BY <1>3 DEF Borrar, BloquesDelArchivo
    <2>2. archivos = Cargados /\ bitmap = Ocupados(DOMAIN metadata) /\ Separados
      BY <1>1 DEF Orden, Marcas, EnMarcha
    <2>3. n \in DOMAIN metadata
      BY <1>3, <2>2 DEF Existe, Cargados
    <2> HIDE DEF n
    <2>4. bitmap' = bitmap \ Ocupa(n)
      BY <2>1, <2>2, <2>3, EnMemoria
    <2>5. bitmap' = Ocupados(DOMAIN metadata \ {n})
      BY <2>2, <2>3, <2>4 DEF Ocupados, Separados
    <2>6. bitmap' = Ocupados(DOMAIN metadata \ {pedido.nombre})'
      BY <1>1, <2>1, <2>5, MismosBloques DEF n
    <2>7. archivos' = Cargados' /\ Separados'
      BY <1>1, <2>2, MismosBloques
    <2> QED BY <1>1, <2>1, <2>6, <2>7, VaciasSiguen DEF Orden, Marcas, Crecimiento, Lugar, Creciendo
  <1> QED BY <1>2, <1>3

(* Without the bits of the deleted file the bitmap is exact again. *)
LEMMA QuitarBorradoOrden ==
    ASSUME Coherente, Tipos, Orden, QuitarBorrado PROVE Orden'
  <1> DEFINE n == pedido.nombre
  <1>1. /\ fase = "QUITAR_BORRADO" /\ fase' = "ESPERA"
        /\ archivos' = [m \in DOMAIN archivos \ {n} |-> archivos[m]]
        /\ metadata' = [m \in DOMAIN metadata \ {n} |-> metadata[m]]
        /\ UNCHANGED bitmap
    BY DEF QuitarBorrado, Responder, Sin, Restrict
  <1>2. archivos = Cargados /\ bitmap = Ocupados(DOMAIN metadata \ {n}) /\ Separados
    BY <1>1 DEF Orden, Marcas, EnMarcha
  <1> HIDE DEF n
  <1>3. DOMAIN metadata' = DOMAIN metadata \ {n}
        /\ \A m \in DOMAIN metadata' : metadata'[m] = metadata[m]
    BY <1>1
  <1>4. \A m \in DOMAIN metadata' : Ocupa(m)' = Ocupa(m)
    BY <1>3 DEF Ocupa, Inicio, Fin
  <1>5. archivos' = Cargados'
    BY <1>1, <1>2, <1>3 DEF Cargados
  <1>6. Separados'
    BY <1>2, <1>3, <1>4 DEF Separados
  <1>7. bitmap' = Ocupados(DOMAIN metadata)'
    BY <1>1, <1>2, <1>3, <1>4 DEF Ocupados
  <1> QED BY <1>1, <1>5, <1>6, <1>7, VaciasSiguen DEF Orden, Marcas, Crecimiento, Lugar, Creciendo

\* A file whose size and last block are saved together.
LEMMA GuardarBloques ==
    ASSUME Coherente, Tipos, Orden, EnMarcha,
           NEW n \in DOMAIN metadata, NEW t \in Nat, NEW b \in Nat,
           GuardarTamanio(n, t, b), b = Inicio(n) + BloquesDe(t) - 1
    PROVE  /\ archivos' = Cargados'
           /\ DOMAIN metadata' = DOMAIN metadata
           /\ Ocupa(n)' = Inicio(n) .. b
           /\ \A m \in DOMAIN metadata : m # n => Ocupa(m)' = Ocupa(m)
  <1>1. archivos = Cargados /\ DOMAIN archivos = DOMAIN metadata
    BY DEF Orden, Cargados
  <1>2. /\ archivos'[n] = [total_size |-> t, inicio |-> Inicio(n), fin_bloque |-> b]
        /\ metadata'[n] = [TAMANIO_ARCHIVO |-> t, BLOQUE_INICIAL |-> Inicio(n)]
        /\ DOMAIN archivos' = DOMAIN archivos /\ DOMAIN metadata' = DOMAIN metadata
        /\ \A m \in DOMAIN archivos : m # n => archivos'[m] = archivos[m]
        /\ \A m \in DOMAIN metadata : m # n => metadata'[m] = metadata[m]
        /\ metadata'[n] \in Metadata
    <2>1. archivos[n].inicio = Inicio(n)
      BY <1>1, EnMemoria
    <2> QED BY <1>1, <2>1, GuardarTipos DEF Inicio
  <1>3. Cargar(metadata'[n]) = [total_size |-> t, inicio |-> Inicio(n), fin_bloque |-> b]
    <2> DEFINE h == metadata'[n]
    <2>1. h \in Metadata /\ h.TAMANIO_ARCHIVO = t /\ h.BLOQUE_INICIAL = Inicio(n)
      BY <1>2
    <2> HIDE DEF h
    <2>2. /\ Cargar(h) \in Fcb /\ Cargar(h).inicio = Inicio(n) /\ Cargar(h).total_size = t
          /\ Cargar(h).fin_bloque = b
      BY <2>1, CargarTipo
    <2>3. Cargar(h) = [total_size |-> t, inicio |-> Inicio(n), fin_bloque |-> b]
      BY <2>2 DEF Fcb
    <2> QED BY <2>3 DEF h
  <1>4. archivos' = [m \in DOMAIN metadata |-> archivos'[m]]
    <2>1. archivos' = [m \in DOMAIN archivos' |-> archivos'[m]]
      BY <1>1, GuardarCoherente
    <2> QED BY <1>1, <1>2, <2>1
  <1>5. archivos' = Cargados'
    <2>1. \A m \in DOMAIN metadata : archivos'[m] = Cargar(metadata'[m])
      BY <1>1, <1>2, <1>3 DEF Cargados
    <2> QED BY <1>2, <1>4, <2>1 DEF Cargados
  <1>6. Ocupa(n)' = Inicio(n) .. b
    BY <1>2, <1>3 DEF Ocupa, Inicio, Fin
  <1>7. \A m \in DOMAIN metadata : m # n => Ocupa(m)' = Ocupa(m)
    BY <1>2 DEF Ocupa, Inicio, Fin
  <1> QED BY <1>2, <1>5, <1>6, <1>7

\* The last write of a TRUNCATE: the file takes the blocks that were marked.
LEMMA GuardarTruncadoOrden ==
    ASSUME Coherente, Tipos, Orden, GuardarTruncado PROVE Orden'
  <1>0. PICK n : n = pedido.nombre
    OBVIOUS
  <1>1. /\ fase = "GUARDAR_TRUNCADO" /\ fase' = "ESPERA" /\ UNCHANGED bitmap
        /\ GuardarTamanio(n, truncado.tamanio, truncado.fin)
    BY <1>0 DEF GuardarTruncado, Responder
  <1>2. n \in DOMAIN metadata /\ EnMarcha
    BY <1>0, <1>1 DEF Coherente, PasoDelPedido, EnDisco, EnMarcha
  <1>3. truncado.tamanio \in Nat /\ truncado.fin \in Nat /\ truncado.cantidad \in Nat
    BY DEF Tipos, Truncados
  <1>4. /\ Inicio(n) = Fin(n) /\ truncado.fin = Fin(n) + truncado.cantidad
        /\ BloquesDe(truncado.tamanio) = 1 + truncado.cantidad
        /\ Inicio(n) \in Nat
    BY <1>0, <1>1, <1>2, BloquesDeUnArchivo DEF Orden, Crecimiento, Creciendo
  <1>5. truncado.fin = Inicio(n) + BloquesDe(truncado.tamanio) - 1
    BY <1>3, <1>4
  <1>6. /\ archivos' = Cargados'
        /\ DOMAIN metadata' = DOMAIN metadata
        /\ Ocupa(n)' = Inicio(n) .. truncado.fin
        /\ \A m \in DOMAIN metadata : m # n => Ocupa(m)' = Ocupa(m)
    BY <1>1, <1>2, <1>3, <1>5, GuardarBloques
  <1>7. Ocupa(n)' = Ocupa(n) \cup Nuevos
    <2> DEFINE i == Inicio(n)
               f == Fin(n)
               c == truncado.cantidad
    <2>1. Ocupa(n) = i .. f /\ Nuevos = f + 1 .. f + c
      BY <1>0 DEF Ocupa, Nuevos
    <2>2. i = f /\ i \in Nat /\ c \in Nat /\ truncado.fin = f + c
      BY <1>3, <1>4
    <2> HIDE DEF i, f, c
    <2>3. i .. f + c = (i .. f) \cup (f + 1 .. f + c)
      BY <2>2
    <2>4. Ocupa(n)' = i .. f + c
      BY <1>6, <2>2 DEF i
    <2> QED BY <2>1, <2>3, <2>4
  <1>8. /\ Separados /\ bitmap = Ocupados(DOMAIN metadata) \cup Nuevos
        /\ \A m \in DOMAIN metadata : Nuevos \cap Ocupa(m) = {}
    BY <1>1 DEF Orden, Marcas, Lugar
  <1> DEFINE N == Nuevos
  <1> HIDE DEF N
  <1>9. Separados'
    <2> SUFFICES ASSUME NEW x \in DOMAIN metadata, NEW y \in DOMAIN metadata, x # y
                 PROVE  Ocupa(x)' \cap Ocupa(y)' = {}
      BY <1>6 DEF Separados
    <2>1. Ocupa(x) \cap Ocupa(y) = {}
      BY <1>8 DEF Separados
    <2>2. CASE x = n
      BY <1>6, <1>7, <1>8, <2>1, <2>2
    <2>3. CASE y = n
      BY <1>6, <1>7, <1>8, <2>1, <2>3
    <2>4. CASE x # n /\ y # n
      BY <1>6, <2>1, <2>4
    <2> QED BY <2>2, <2>3, <2>4
  <1>10. bitmap' = Ocupados(DOMAIN metadata)'
    <2>1. Ocupados(DOMAIN metadata)' = UNION {Ocupa(m)' : m \in DOMAIN metadata}
      BY <1>6 DEF Ocupados
    <2>2. UNION {Ocupa(m)' : m \in DOMAIN metadata} = Ocupados(DOMAIN metadata) \cup Nuevos
      BY <1>2, <1>6, <1>7 DEF Ocupados
    <2> QED BY <1>1, <1>8, <2>1, <2>2
  <1> QED BY <1>1, <1>6, <1>9, <1>10, VaciasSiguen DEF Orden, Marcas, Crecimiento, Lugar, Creciendo

(* A growth marks free blocks next to the last one, a shrinking clears its own. *)
LEMMA MarcarTruncadoOrden ==
    ASSUME Coherente, Tipos, Orden, MarcarTruncado PROVE Orden'
  <1> DEFINE n == pedido.nombre
  <1>1. /\ fase = "MARCAR_TRUNCADO" /\ fase' = "GUARDAR_TRUNCADO"
        /\ UNCHANGED <<archivos, metadata, pedido, truncado>>
        /\ bitmap' = bitmap \cup (BloquesNuevos \cap Bloques)
    BY DEF MarcarTruncado
  <1>2. n \in DOMAIN metadata
    BY <1>1 DEF Coherente, PasoDelPedido, EnDisco
  <1>3. /\ archivos = Cargados /\ bitmap = Ocupados(DOMAIN metadata)
        /\ Nuevos \subseteq Libres /\ Crecimiento
    BY <1>1 DEF Orden, EnMarcha, Marcas, Lugar
  <1>4. BloquesNuevos = Nuevos
    <2>1. archivos[n].fin_bloque = Fin(n)
      BY <1>2, <1>3 DEF Cargados, Fin
    <2> QED BY <2>1 DEF BloquesNuevos, Nuevos
  <1>5. bitmap' = Ocupados(DOMAIN metadata) \cup Nuevos
    BY <1>1, <1>3, <1>4 DEF Libres
  <1>6. \A m \in DOMAIN metadata : Nuevos \cap Ocupa(m) = {}
    BY <1>3 DEF Libres, Ocupados
  <1>7. Nuevos' = Nuevos
    BY <1>1 DEF Nuevos, Fin
  <1>8. /\ archivos' = Cargados' /\ Separados'
        /\ bitmap' = Ocupados(DOMAIN metadata)' \cup Nuevos'
        /\ \A m \in DOMAIN metadata' : Nuevos' \cap Ocupa(m)' = {}
    BY <1>1, <1>3, <1>5, <1>6, <1>7, MismosBloques DEF Orden
  <1>9. Crecimiento'
    BY <1>1, <1>3 DEF Crecimiento, Creciendo, Inicio, Fin
  <1> QED BY <1>1, <1>8, <1>9, VaciasSiguen DEF Orden, Marcas, Lugar

\* A TRUNCATE that fits in the block the file has, or is refused.
LEMMA TruncarTermina ==
    ASSUME Coherente, Tipos, Orden, Truncar, fase' \notin {"COMPACTAR", "MARCAR_TRUNCADO"}
    PROVE  Orden'
  <1>0. PICK n : n = pedido.nombre
    OBVIOUS
  <1> DEFINE t == archivos[n].total_size + pedido.dato
             b == archivos[n].fin_bloque
  <1>1. fase = "ATENDER" /\ fase' = "ESPERA" /\ UNCHANGED bitmap /\ EnMarcha
    BY DEF Truncar, Atiende, Responder, EnMarcha
  <1>2. \/ UNCHANGED <<archivos, metadata>>
        \/ /\ n \in DOMAIN archivos /\ archivos[n].total_size = 0 /\ t < BlockSize
           /\ GuardarTamanio(n, t, b)
    BY <1>0 DEF Truncar, Existe
  <1>3. CASE UNCHANGED <<archivos, metadata>>
    BY <1>1, <1>3, QuietoOrden, VaciasSiguen
  <1>4. CASE /\ n \in DOMAIN archivos /\ archivos[n].total_size = 0 /\ t < BlockSize
             /\ GuardarTamanio(n, t, b)
    <2>1. archivos = Cargados /\ Separados /\ bitmap = Ocupados(DOMAIN metadata)
      BY <1>1 DEF Orden, Marcas
    <2>2. n \in DOMAIN metadata
      BY <1>4, <2>1 DEF Cargados
    <2>3. archivos[n] = [total_size |-> metadata[n].TAMANIO_ARCHIVO,
                         inicio |-> Inicio(n), fin_bloque |-> Fin(n)]
      BY <2>1, <2>2, EnMemoria
    <2>4. pedido.dato \in Nat
      BY DialFsAssumption DEF Truncar, Atiende, Coherente, PasoDelPedido, Pedidos
    <2>5. t = pedido.dato /\ b = Fin(n) /\ metadata[n].TAMANIO_ARCHIVO = 0
      BY <1>4, <2>3, <2>4
    <2> HIDE DEF t, b
    <2>6. t \in Nat /\ BloquesDe(t) = 1 /\ BloquesDe(0) = 1
      BY <1>4, <2>4, <2>5, Division, BloquesDeBytes, DialFsAssumption
    <2>7. /\ Inicio(n) \in Nat /\ Fin(n) \in Nat
          /\ Fin(n) = Inicio(n) + BloquesDe(metadata[n].TAMANIO_ARCHIVO) - 1
      BY <2>2, BloquesDeUnArchivo
    <2>8. b = Inicio(n) + BloquesDe(t) - 1 /\ b \in Nat
      BY <2>5, <2>6, <2>7
    <2>9. /\ archivos' = Cargados'
          /\ DOMAIN metadata' = DOMAIN metadata
          /\ Ocupa(n)' = Inicio(n) .. b
          /\ \A m \in DOMAIN metadata : m # n => Ocupa(m)' = Ocupa(m)
      BY <1>1, <1>4, <2>2, <2>6, <2>8, GuardarBloques
    <2>10. \A m \in DOMAIN metadata : Ocupa(m)' = Ocupa(m)
      BY <2>5, <2>9 DEF Ocupa
    <2>11. Separados'
      BY <2>1, <2>9, <2>10 DEF Separados
    <2>12. bitmap' = Ocupados(DOMAIN metadata)'
      BY <1>1, <2>1, <2>9, <2>10 DEF Ocupados
    <2> QED BY <1>1, <2>9, <2>11, <2>12, VaciasSiguen DEF Orden, Marcas, Crecimiento, Lugar, Creciendo
  <1> QED BY <1>2, <1>3, <1>4

\* A TRUNCATE that goes on, used as foreseen: the file has one block, and there
\* is a run of free blocks beyond it.
LEMMA TruncarPrevisto ==
    ASSUME Coherente, Tipos, Orden, Truncar, ~ CreceMal,
           fase' \in {"COMPACTAR", "MARCAR_TRUNCADO"},
           NEW n, n = pedido.nombre
    PROVE  LET c == truncado'.cantidad
           IN  /\ n \in DOMAIN metadata /\ c \in Nat /\ Inicio(n) = Fin(n)
               /\ truncado'.fin = Fin(n) + c
               /\ BloquesDe(truncado'.tamanio) = 1 + c
               /\ truncado'.i = Cardinality(DOMAIN metadata)
               /\ c > 0 => InicioDeLibres(Fin(n) + 1, c) # {}
               /\ UNCHANGED <<archivos, metadata, bitmap, pedido>>
               /\ \E compactar \in fs_tiene_compactar(n, c) :
                     fase' = IF compactar THEN "COMPACTAR" ELSE "MARCAR_TRUNCADO"
  <1> DEFINE k == BloquesATruncar(archivos[n], pedido.dato)
             m == metadata[n]
  <1>1. fase = "ATENDER" /\ archivos = Cargados
    BY DEF Truncar, Atiende, Orden, EnMarcha
  <1>2. /\ n \in DOMAIN archivos /\ k \in Nat
        /\ truncado' = [cantidad |-> k, fin |-> archivos[n].inicio + k,
                        tamanio |-> archivos[n].total_size + pedido.dato,
                        i |-> Cardinality(DOMAIN archivos)]
        /\ UNCHANGED <<archivos, metadata, bitmap, pedido, respuesta>>
        /\ \E compactar \in fs_tiene_compactar(n, k) :
              fase' = IF compactar THEN "COMPACTAR" ELSE "MARCAR_TRUNCADO"
    BY TruncarSigue
  <1>3. n \in DOMAIN metadata /\ DOMAIN archivos = DOMAIN metadata
        /\ archivos[n].inicio = Inicio(n)
    BY <1>1, <1>2 DEF Cargados, Cargar, Inicio
  <1> HIDE DEF k
  <1> DEFINE antes == BloquesDe(m.TAMANIO_ARCHIVO)
  <1>4. /\ Inicio(n) \in Nat /\ Fin(n) \in Nat /\ Inicio(n) <= Fin(n)
        /\ Fin(n) = Inicio(n) + antes - 1 /\ antes \in Nat
    BY <1>3, BloquesDeUnArchivo
  <1>5. /\ ~ (antes > 1)
        /\ BloquesDe(truncado'.tamanio) = antes + k
        /\ k > 0 => InicioDeLibres(m.BLOQUE_INICIAL + antes, k) # {}
    <2>1. truncado'.cantidad = k
      BY <1>2
    <2> HIDE DEF antes
    <2> QED BY <1>1, <2>1 DEF CreceMal, antes
  <1>6. antes = 1 /\ Inicio(n) = Fin(n)
    <2> HIDE DEF antes
    <2> QED BY <1>4, <1>5
  <1>7. m.BLOQUE_INICIAL + antes = Fin(n) + 1
    BY <1>6 DEF Inicio
  <1> HIDE DEF antes, m
  <1> QED BY <1>2, <1>3, <1>5, <1>6, <1>7

\* When there is nothing to compact, the next blocks are free.
LEMMA SinCompactar ==
    ASSUME Tipos, archivos = Cargados, Separados, bitmap = Ocupados(DOMAIN metadata),
           NEW n \in DOMAIN metadata, Inicio(n) = Fin(n), NEW c \in Nat,
           c > 0 => InicioDeLibres(Fin(n) + 1, c) # {},
           FALSE \in fs_tiene_compactar(n, c)
    PROVE  Fin(n) + 1 .. Fin(n) + c \subseteq Libres
  <1> DEFINE siguientes == {m \in DOMAIN archivos : archivos[m].inicio > archivos[n].inicio}
             inicios == {archivos[m].inicio : m \in siguientes}
             iguales == {m \in DOMAIN archivos : archivos[m].inicio = archivos[n].inicio}
  <1>1. /\ DOMAIN archivos = DOMAIN metadata
        /\ \A m \in DOMAIN metadata : archivos[m].inicio = Inicio(m)
        /\ archivos[n].fin_bloque = Fin(n)
    BY DEF Cargados, Cargar, Inicio, Fin
  <1>2. \A m \in DOMAIN metadata : Inicio(m) \in Nat /\ Fin(m) \in Nat /\ Inicio(m) \in Ocupa(m)
                                   /\ Inicio(m) <= Fin(m)
    BY BloquesDeUnArchivo
  <1>3. iguales = {n}
    <2>1. \A m \in DOMAIN metadata : Inicio(m) = Inicio(n) => m = n
      BY <1>2 DEF Separados
    <2> QED BY <1>1, <2>1
  <1>4. ~ (siguientes # {} /\ archivos[n].fin_bloque + c >= Min(inicios))
    BY <1>3 DEF fs_tiene_compactar
  <1> SUFFICES ASSUME NEW x \in Fin(n) + 1 .. Fin(n) + c PROVE x \in Libres
    OBVIOUS
  <1>5. Fin(n) \in Nat /\ x \in Nat /\ x > Fin(n) /\ x <= Fin(n) + c /\ c > 0
    BY <1>2
  <1>6. x \in Bloques
    <2>1. PICK y \in Fin(n) + 1 .. BlockCount - c : TRUE
      BY <1>5 DEF InicioDeLibres
    <2>2. Fin(n) + c <= BlockCount - 1
      BY <1>5, <2>1, DialFsAssumption
    <2> QED BY <1>5, <2>2, DialFsAssumption DEF Bloques
  <1>7. ASSUME NEW m \in DOMAIN metadata, x \in Ocupa(m)
        PROVE  FALSE
    <2>1. Inicio(m) \in Nat /\ Fin(m) \in Nat /\ Inicio(m) <= x /\ x <= Fin(m)
      BY <1>2, <1>7 DEF Ocupa
    <2>2. m # n
      BY <1>5, <2>1
    <2>3. Inicio(m) > Inicio(n)
      <3>1. Fin(n) \notin Ocupa(m)
        BY <1>2, <2>2 DEF Separados
      <3> QED BY <1>2, <1>5, <2>1, <3>1 DEF Ocupa
    <2>4. m \in siguientes /\ Inicio(m) \in inicios
      BY <1>1, <2>3
    <2>5. inicios \in SUBSET Nat
      BY <1>1, <1>2
    <2> HIDE DEF inicios
    <2>6. Min(inicios) <= Inicio(m) /\ Min(inicios) \in Nat
      BY <2>4, <2>5, MinimoNat
    <2>7. Fin(n) + c >= Min(inicios)
      BY <1>5, <2>1, <2>6
    <2> QED BY <1>1, <1>4, <2>4, <2>7
  <1> QED BY <1>6, <1>7 DEF Libres, Ocupados

(* TRUNCATE leaves in course a growth over free blocks, a shrinking, or a compaction
   that finds its run of free blocks: what CreceMal excludes is all that could go wrong. *)
LEMMA TruncarOrden ==
    ASSUME Coherente, Tipos, Orden, Truncar, ~ CreceMal PROVE Orden'
  <1>1. CASE fase' \notin {"COMPACTAR", "MARCAR_TRUNCADO"}
    BY <1>1, TruncarTermina
  <1>2. CASE fase' \in {"COMPACTAR", "MARCAR_TRUNCADO"}
    <2>0. PICK n : n = pedido.nombre
      OBVIOUS
    <2>1. PICK c : c = truncado'.cantidad
      OBVIOUS
    <2>2. /\ n \in DOMAIN metadata /\ c \in Nat /\ Inicio(n) = Fin(n)
          /\ truncado'.fin = Fin(n) + c
          /\ BloquesDe(truncado'.tamanio) = 1 + c
          /\ truncado'.i = Cardinality(DOMAIN metadata)
          /\ c > 0 => InicioDeLibres(Fin(n) + 1, c) # {}
          /\ UNCHANGED <<archivos, metadata, bitmap, pedido>>
          /\ \E compactar \in fs_tiene_compactar(n, c) :
                fase' = IF compactar THEN "COMPACTAR" ELSE "MARCAR_TRUNCADO"
      BY <1>2, <2>0, <2>1, TruncarPrevisto
    <2>3. fase = "ATENDER" /\ archivos = Cargados /\ Separados
          /\ bitmap = Ocupados(DOMAIN metadata)
      BY DEF Truncar, Atiende, Orden, EnMarcha, Marcas
    <2>4. /\ archivos' = Cargados' /\ Separados' /\ bitmap' = Ocupados(DOMAIN metadata)'
          /\ Inicio(n)' = Inicio(n) /\ Fin(n)' = Fin(n)
      BY <2>2, <2>3, MismosBloques
    <2>5. Crecimiento'
      <3>1. /\ Inicio(pedido.nombre)' = Fin(pedido.nombre)'
            /\ truncado'.fin = Fin(pedido.nombre)' + truncado'.cantidad
            /\ BloquesDe(truncado.tamanio)' = 1 + truncado'.cantidad
        BY <2>0, <2>1, <2>2, <2>4 DEF BloquesDe, Inicio, Fin
      <3> QED BY <1>2, <3>1 DEF Crecimiento, Creciendo
    <2>6. Fin(n) \in Nat
      BY <2>2, BloquesDeUnArchivo
    <2>7. CASE fase' = "COMPACTAR"
      <3>1. /\ Hueco' = InicioDeLibres(Fin(n), c)
            /\ PorMover' \subseteq DOMAIN metadata \ {n}
        <4>1. Hueco' = InicioDeLibres(Fin(n), c)
          BY <2>0, <2>1, <2>2, <2>4 DEF Hueco, InicioDeLibres, Libres, Fin
        <4>2. \A m \in PorMover' : m \in DOMAIN metadata /\ Fin(n) < Inicio(m)
          BY <2>0, <2>2 DEF PorMover, Inicio, Fin
        <4>3. ~ (Fin(n) < Inicio(n))
          BY <2>2, <2>6
        <4> QED BY <4>1, <4>2, <4>3
      <3>2. c > 0 => InicioDeLibres(Fin(n), c) # {}
        BY <2>2, <2>6, DialFsAssumption DEF InicioDeLibres
      <3> DEFINE D == DOMAIN metadata
      <3>3. IsFiniteSet(D) /\ n \in D
        BY <2>2 DEF Tipos
      <3> HIDE DEF D
      <3>4. /\ IsFiniteSet(D \ {n}) /\ Cardinality(D \ {n}) = Cardinality(D) - 1
            /\ Cardinality(D) \in Nat
        BY <3>3, FS_RemoveElement, FS_CardinalityType
      <3>5. PICK P : P = PorMover'
        OBVIOUS
      <3>6. IsFiniteSet(P) /\ Cardinality(P) <= Cardinality(D \ {n})
        BY <3>1, <3>4, <3>5, FS_Subset DEF D
      <3>7. Cardinality(P) < Cardinality(D)
        BY <3>4, <3>6, FS_CardinalityType
      <3>8. Cardinality(PorMover)' < truncado'.i
        BY <2>2, <3>5, <3>7 DEF D
      <3>9. Lugar'
        BY <2>1, <2>7, <3>1, <3>2, <3>8 DEF Lugar
      <3> QED BY <2>3, <2>4, <2>5, <2>7, <3>9, VaciasSiguen DEF Orden, Marcas
    <2>8. CASE fase' = "MARCAR_TRUNCADO"
      <3>1. FALSE \in fs_tiene_compactar(n, c)
        <4>1. fs_tiene_compactar(n, c) \subseteq BOOLEAN
          BY DEF fs_tiene_compactar
        <4> QED BY <2>2, <2>8, <4>1
      <3>2. Fin(n) + 1 .. Fin(n) + c \subseteq Libres
        BY <2>2, <2>3, <3>1, SinCompactar
      <3>3. Nuevos' = Fin(n) + 1 .. Fin(n) + c /\ Libres' = Libres
        BY <2>0, <2>1, <2>2, <2>4 DEF Nuevos, Libres, Fin
      <3>4. Lugar'
        BY <2>8, <3>2, <3>3 DEF Lugar
      <3> QED BY <2>3, <2>4, <2>5, <2>8, <3>4, VaciasSiguen DEF Orden, Marcas
    <2> QED BY <1>2, <2>7, <2>8
  <1> QED BY <1>1, <1>2

\* A compaction ends where the blocks beside the file are free: it never runs out
\* of turns.
LEMMA CompactarTermina ==
    ASSUME Coherente, Tipos, Orden, Compactar, fase' = "MARCAR_TRUNCADO"
    PROVE  Orden'
  <1> DEFINE r == archivos[pedido.nombre].fin_bloque
             c == truncado.cantidad
             proximos == {m \in DOMAIN archivos : archivos[m].fin_bloque = Libre - 1}
  <1>1. fase = "COMPACTAR" /\ UNCHANGED <<archivos, metadata, bitmap, pedido, truncado>>
    BY DEF Compactar, TerminarCompactacion, Caer
  <1>2. pedido.nombre \in DOMAIN metadata
    BY <1>1 DEF Coherente, PasoDelPedido, EnDisco
  <1>3. archivos = Cargados /\ Separados /\ bitmap = Ocupados(DOMAIN metadata) /\ Crecimiento
    BY <1>1 DEF Orden, EnMarcha, Marcas
  <1>4. r = Fin(pedido.nombre)
    BY <1>2, <1>3 DEF Cargados, Fin
  <1>5. c \in Nat /\ truncado.i \in Nat
    BY DEF Tipos, Truncados
  <1>6. Fin(pedido.nombre) \in Nat
    <2>1. PICK n : n = pedido.nombre
      OBVIOUS
    <2> QED BY <1>2, <2>1, BloquesDeUnArchivo
  <1>7. Nuevos \subseteq Libres
    <2>1. CASE c = 0
      BY <1>6, <2>1 DEF Nuevos
    <2>2. CASE c > 0
      <3>1. Hueco # {} /\ Cardinality(PorMover) < truncado.i
        BY <1>1, <2>2 DEF Orden, Lugar
      <3>2. /\ Libre \in Nat /\ Libre # NoHay
            /\ Libre .. Libre + c - 1 \subseteq Libres
        BY <1>5, <1>6, <3>1, HuecoEnDisco DEF Libre, Hueco
      <3>3. Cardinality(PorMover) \in Nat
        <4>1. PorMover \subseteq DOMAIN metadata
          BY DEF PorMover
        <4> QED BY <4>1, FS_Subset, FS_CardinalityType DEF Tipos
      <3>4. truncado.i # 0
        BY <1>5, <3>1, <3>3
      <3>5. fs_buscar_primera_ocurrencia_libre(r, c) = Libre
        BY <1>4 DEF Libre
      <3>6. pedido.nombre \in proximos
        <4> HIDE DEF r, c
        <4>1. fase' # "DETENIDO" /\ fase' # "COMPACTAR"
          OBVIOUS
        <4> QED BY <1>1, <3>2, <3>4, <3>5, <4>1 DEF Compactar, Caer, TerminarCompactacion, r, c
      <3>7. Fin(pedido.nombre) = Libre - 1
        BY <1>4, <3>6
      <3> DEFINE L == Libre
                 f == Fin(pedido.nombre)
      <3>8. L \in Nat /\ f = L - 1 /\ L .. L + c - 1 \subseteq Libres /\ Nuevos = f + 1 .. f + c
        BY <3>2, <3>7 DEF Nuevos
      <3> HIDE DEF L, f, c
      <3>9. f + 1 .. f + c = L .. L + c - 1
        BY <1>5, <3>8
      <3> QED BY <3>8, <3>9
    <2> QED BY <1>5, <2>1, <2>2
  <1>8. Nuevos' = Nuevos /\ Libres' = Libres
    BY <1>1 DEF Nuevos, Libres, Fin
  <1>9. archivos' = Cargados' /\ Separados' /\ bitmap' = Ocupados(DOMAIN metadata)'
    BY <1>1, <1>3, MismosBloques
  <1>10. Crecimiento'
    BY <1>1, <1>3 DEF Crecimiento, Creciendo, Inicio, Fin, BloquesDe
  <1> QED BY <1>1, <1>7, <1>8, <1>9, <1>10, VaciasSiguen DEF Orden, Marcas, Lugar

\* Which file a turn moves, used as foreseen: one with one block, from just before
\* the run to its end.
LEMMA CompactarPrevisto ==
    ASSUME Coherente, Tipos, Orden, Compactar, ~ MueveUnLleno, fase' = "COMPACTAR",
           NEW n, n = pedido.nombre, NEW c, c = truncado.cantidad, NEW l, l = Libre
    PROVE  /\ n \in DOMAIN metadata /\ c \in Nat \ {0} /\ l \in Nat
           /\ Hueco # {} /\ l .. l + c - 1 \subseteq Libres /\ l + c - 1 \in Bloques
           /\ Fin(n) \in Nat /\ Fin(n) < l /\ Inicio(n) = Fin(n)
           /\ \E m \in DOMAIN metadata \ {n} :
                 /\ Inicio(m) = l - 1 /\ Fin(m) = l - 1
                 /\ DOMAIN metadata' = DOMAIN metadata
                 /\ archivos' = Cargados'
                 /\ Inicio(m)' = l - 1 + c /\ Fin(m)' = l - 1 + c
                 /\ \A x \in DOMAIN metadata : x # m =>
                       metadata'[x] = metadata[x]
                 /\ bitmap' = (bitmap \ {l - 1}) \cup {l - 1 + c}
  <1>1. fase = "COMPACTAR" /\ EnMarcha
    BY DEF Compactar, EnMarcha
  <1>2. n \in DOMAIN metadata
    BY <1>1 DEF Coherente, PasoDelPedido, EnDisco
  <1>3. archivos = Cargados /\ Separados /\ bitmap = Ocupados(DOMAIN metadata)
    BY <1>1 DEF Orden, Marcas
  <1>4. /\ DOMAIN archivos = DOMAIN metadata
        /\ \A x \in DOMAIN metadata :
              archivos[x] = [total_size |-> metadata[x].TAMANIO_ARCHIVO,
                             inicio |-> Inicio(x), fin_bloque |-> Fin(x)]
    BY <1>2, <1>3, EnMemoria
  <1>5. archivos[n].fin_bloque = Fin(n) /\ Inicio(n) = Fin(n)
    BY <1>1, <1>2, <1>4 DEF Orden, Crecimiento, Creciendo
  <1>6. l = fs_buscar_primera_ocurrencia_libre(Fin(n), c) /\ Hueco = InicioDeLibres(Fin(n), c)
    BY DEF Libre, Hueco
  <1>7. /\ Fin(n) \in Nat /\ c \in Nat /\ InicioDeLibres(Fin(n), c) # {}
        /\ \E m \in DOMAIN archivos \ {n} :
              archivos[m].fin_bloque = l - 1 /\ fs_desplazar_archivo_hacia_derecha(m, c)
    BY <1>5, <1>6, CompactarMueve
  <1>8. /\ l \in Nat /\ Fin(n) <= l /\ c > 0 /\ l .. l + c - 1 \subseteq Libres
        /\ l + c - 1 \in Bloques
    BY <1>6, <1>7, HuecoEnDisco
  <1>9. Fin(n) < l
    <2>1. Fin(n) \in Ocupa(n)
      BY <1>2, BloquesDeUnArchivo
    <2>2. Fin(n) \notin Libres
      BY <1>2, <1>3, <2>1 DEF Libres, Ocupados
    <2>3. l \in Libres
      BY <1>7, <1>8
    <2> QED BY <1>7, <1>8, <2>2, <2>3
  <1>10. PICK m \in DOMAIN metadata \ {n} :
             archivos[m].fin_bloque = l - 1 /\ fs_desplazar_archivo_hacia_derecha(m, c)
    BY <1>4, <1>7
  <1> DEFINE inicio == archivos[m].inicio + c
             t == metadata[m].TAMANIO_ARCHIVO
  <1>11. Inicio(m) \in Nat /\ Fin(m) = l - 1 /\ t \in Nat
         /\ Fin(m) = Inicio(m) + BloquesDe(t) - 1
         /\ archivos[m].inicio = Inicio(m) /\ archivos[m].fin_bloque = Fin(m)
         /\ archivos[m].total_size = t
    BY <1>4, <1>10, BloquesDeUnArchivo
  <1>12. /\ DOMAIN archivos' = DOMAIN archivos /\ DOMAIN metadata' = DOMAIN metadata
         /\ archivos'[m] = [total_size |-> archivos[m].total_size, inicio |-> inicio,
                fin_bloque |-> inicio + archivos[m].total_size \div BlockSize]
         /\ metadata'[m] = [TAMANIO_ARCHIVO |-> t, BLOQUE_INICIAL |-> inicio]
         /\ \A x \in DOMAIN archivos : x # m => archivos'[x] = archivos[x]
         /\ \A x \in DOMAIN metadata : x # m => metadata'[x] = metadata[x]
    BY <1>1, <1>4, <1>7, <1>10, DesplazarHace
  <1> HIDE DEF t
  <1>13. t < BlockSize
    <2>1. metadata'[m].BLOQUE_INICIAL = Inicio(m) + c
      BY <1>11, <1>12
    <2>2. metadata[m] # metadata'[m]
      BY <1>7, <1>8, <1>11, <2>1 DEF Inicio
    <2>3. ~ (t >= BlockSize)
      BY <1>1, <2>2 DEF MueveUnLleno, t
    <2> QED BY <1>11, <2>3, DialFsAssumption
  <1>14. t \div BlockSize = 0 /\ BloquesDe(t) = 1
    BY <1>11, <1>13, Division, BloquesDeBytes
  <1>15. Inicio(m) = l - 1 /\ inicio = l - 1 + c /\ inicio \in Nat
    BY <1>7, <1>8, <1>11, <1>14
  <1> HIDE DEF inicio
  <1>16. archivos'[m] = [total_size |-> t, inicio |-> inicio, fin_bloque |-> inicio]
    BY <1>11, <1>12, <1>14, <1>15
  <1>17. Cargar(metadata'[m]) = archivos'[m]
    <2>1. inicio + 0 = inicio
      BY <1>15
    <2> QED BY <1>12, <1>14, <1>16, <2>1 DEF Cargar
  <1>18. archivos' = Cargados'
    <2>1. archivos' = [x \in DOMAIN archivos' |-> archivos'[x]]
      BY <1>4, <1>10 DEF fs_desplazar_archivo_hacia_derecha, Coherente, Formas
    <2>2. \A x \in DOMAIN metadata : archivos'[x] = Cargar(metadata'[x])
      BY <1>3, <1>4, <1>12, <1>17 DEF Cargados
    <2> QED BY <1>4, <1>12, <2>1, <2>2 DEF Cargados
  <1>19. Inicio(m)' = inicio /\ Fin(m)' = inicio
    BY <1>12, <1>16, <1>17 DEF Inicio, Fin
  <1>20. bitmap' = (bitmap \ {l - 1}) \cup {l - 1 + c}
    <2>1. bitmap' = (bitmap \ {Inicio(m)}) \cup (Inicio(m) + c .. Fin(m) + c)
      BY <1>10, <1>11, <1>15 DEF fs_desplazar_archivo_hacia_derecha
    <2>2. l - 1 + c .. l - 1 + c = {l - 1 + c}
      BY <1>7, <1>8
    <2> QED BY <1>11, <1>15, <2>1, <2>2
  <1>21. c \in Nat \ {0}
    BY <1>7, <1>8
  <1> QED
    BY <1>2, <1>5, <1>6, <1>7, <1>8, <1>9, <1>11, <1>12, <1>15, <1>18, <1>19, <1>20, <1>21

\* A turn of the compaction: the file goes to free blocks, the run grows towards
\* the file that waits, and there is one file less in between.
LEMMA CompactarAvanza ==
    ASSUME Coherente, Tipos, Orden, Compactar, ~ MueveUnLleno, fase' = "COMPACTAR"
    PROVE  Orden'
  <1>0. PICK n, c, l : n = pedido.nombre /\ c = truncado.cantidad /\ l = Libre
    OBVIOUS
  <1> DEFINE D == DOMAIN metadata
  <1>1. /\ n \in D /\ c \in Nat \ {0} /\ l \in Nat
        /\ Hueco # {} /\ l .. l + c - 1 \subseteq Libres /\ l + c - 1 \in Bloques
        /\ Fin(n) \in Nat /\ Fin(n) < l /\ Inicio(n) = Fin(n)
    BY <1>0, CompactarPrevisto
  <1>2. PICK m \in D \ {n} :
             /\ Inicio(m) = l - 1 /\ Fin(m) = l - 1
             /\ DOMAIN metadata' = D
             /\ archivos' = Cargados'
             /\ Inicio(m)' = l - 1 + c /\ Fin(m)' = l - 1 + c
             /\ \A x \in D : x # m => metadata'[x] = metadata[x]
             /\ bitmap' = (bitmap \ {l - 1}) \cup {l - 1 + c}
    BY <1>0, CompactarPrevisto
  <1>3. /\ fase = "COMPACTAR" /\ fase' = "COMPACTAR" /\ UNCHANGED <<pedido, respuesta>>
        /\ truncado.i # 0 /\ truncado' = [truncado EXCEPT !.i = @ - 1]
        /\ truncado \in Truncados
    BY CompactarMueve DEF Tipos
  <1>4. Separados /\ bitmap = Ocupados(D) /\ Cardinality(PorMover) < truncado.i
        /\ truncado.fin = Fin(n) + c /\ BloquesDe(truncado.tamanio) = 1 + c
    BY <1>0, <1>1, <1>3 DEF Orden, Marcas, Lugar, Crecimiento, Creciendo
  <1>5. /\ truncado'.cantidad = c /\ truncado'.fin = truncado.fin
        /\ truncado'.tamanio = truncado.tamanio /\ truncado'.i = truncado.i - 1
        /\ truncado.i \in Nat
    BY <1>0, <1>3 DEF Truncados
  <1>6. \A x \in D : x # m =>
            Inicio(x)' = Inicio(x) /\ Fin(x)' = Fin(x) /\ Ocupa(x)' = Ocupa(x)
    BY <1>2 DEF Inicio, Fin, Ocupa
  <1> HIDE DEF D
  <1>7. Ocupa(m) = {l - 1} /\ Ocupa(m)' = {l - 1 + c}
    <2>1. l - 1 .. l - 1 = {l - 1} /\ l - 1 + c .. l - 1 + c = {l - 1 + c}
      BY <1>1
    <2> QED BY <1>2, <2>1 DEF Ocupa
  <1>8. /\ l - 1 + c \in Libres /\ l - 1 + c # l - 1
        /\ \A x \in D : l - 1 + c \notin Ocupa(x)
    <2>1. l - 1 + c \in l .. l + c - 1 /\ l - 1 + c # l - 1
      BY <1>1
    <2>2. l - 1 + c \in Libres
      BY <1>1, <2>1
    <2> QED BY <1>4, <2>1, <2>2 DEF Libres, Ocupados
  <1> DEFINE llegada == l - 1 + c
             salida == l - 1
  <1>9. /\ Ocupa(m) = {salida} /\ Ocupa(m)' = {llegada} /\ llegada # salida
        /\ \A x \in D : llegada \notin Ocupa(x)
        /\ bitmap' = (bitmap \ {salida}) \cup {llegada}
        /\ \A x \in D : x # m => Ocupa(x)' = Ocupa(x)
    BY <1>2, <1>6, <1>7, <1>8
  <1> HIDE DEF llegada, salida
  <1>10. Separados'
    <2> SUFFICES ASSUME NEW x \in D, NEW y \in D, x # y
                 PROVE  Ocupa(x)' \cap Ocupa(y)' = {}
      BY <1>2 DEF Separados
    <2>1. Ocupa(x) \cap Ocupa(y) = {}
      BY <1>4 DEF Separados, D
    <2>2. CASE x = m
      BY <1>9, <2>2
    <2>3. CASE y = m
      BY <1>9, <2>3
    <2>4. CASE x # m /\ y # m
      BY <1>9, <2>1, <2>4
    <2> QED BY <2>2, <2>3, <2>4
  <1>11. bitmap' = Ocupados(DOMAIN metadata)'
    <2>1. Ocupados(DOMAIN metadata)' = UNION {Ocupa(x)' : x \in D}
      BY <1>2 DEF Ocupados
    <2>2. salida \notin UNION {Ocupa(x) : x \in D \ {m}}
      BY <1>2, <1>4, <1>9 DEF Separados, D
    <2>3. bitmap = UNION {Ocupa(x) : x \in D}
      BY <1>4 DEF Ocupados
    <2>4. UNION {Ocupa(x)' : x \in D} = (bitmap \ {salida}) \cup {llegada}
      BY <1>2, <1>9, <2>2, <2>3
    <2> QED BY <1>9, <2>1, <2>4
  <1>12. Crecimiento'
    <2>1. Inicio(pedido.nombre)' = Inicio(n) /\ Fin(pedido.nombre)' = Fin(n)
      BY <1>0, <1>1, <1>2, <1>3, <1>6 DEF Inicio, Fin
    <2>2. BloquesDe(truncado.tamanio)' = BloquesDe(truncado.tamanio)
      BY <1>5 DEF BloquesDe
    <2> QED BY <1>1, <1>3, <1>4, <1>5, <2>1, <2>2 DEF Crecimiento, Creciendo
  <1>13. PICK H : H = Hueco'
    OBVIOUS
  <1>14. l - 1 \in H /\ H \in SUBSET Nat
    <2>1. H = {b \in Fin(n) .. BlockCount - c : c > 0 /\ b .. b + c - 1 \subseteq Libres'}
      <3>1. Fin(pedido.nombre)' = Fin(n) /\ truncado'.cantidad = c
        BY <1>0, <1>1, <1>2, <1>3, <1>5, <1>6 DEF Fin
      <3> QED BY <1>13, <3>1 DEF Hueco, InicioDeLibres
    <2>2. l - 1 \in Fin(n) .. BlockCount - c
      <3>1. l + c - 1 <= BlockCount - 1
        BY <1>1, DialFsAssumption DEF Bloques
      <3> QED BY <1>1, <3>1, DialFsAssumption
    <2>3. ASSUME NEW x \in l - 1 .. l - 1 + c - 1
          PROVE  x \in Libres'
      <3>1. x \in Nat /\ x # l - 1 + c /\ (x = l - 1 \/ x \in l .. l + c - 1)
        BY <1>1
      <3>2. l - 1 \in Bloques
        BY <1>1, DialFsAssumption DEF Bloques
      <3>3. x \in Bloques /\ x \notin bitmap \ {l - 1}
        BY <1>1, <3>1, <3>2 DEF Libres
      <3> QED BY <1>2, <3>1, <3>3 DEF Libres
    <2>4. H \in SUBSET Nat
      BY <1>1, <2>1, DialFsAssumption
    <2> QED BY <1>1, <2>1, <2>2, <2>3, <2>4
  <1>15. Libre' = Min(H) /\ Min(H) \in Nat /\ Min(H) <= l - 1
    <2>1. Min(H) \in Nat /\ Min(H) <= l - 1
      BY <1>14, MinimoNat
    <2>2. Libre' = Min(H)
      BY <1>13, <1>14 DEF Libre, Hueco, fs_buscar_primera_ocurrencia_libre
    <2> QED BY <2>1, <2>2
  <1>16. PICK P : P = PorMover'
    OBVIOUS
  <1>17. P \subseteq PorMover \ {m} /\ m \in PorMover
    <2>1. P = {x \in D : Fin(n) < Inicio(x)' /\ Inicio(x)' < Min(H)}
      <3>1. Fin(pedido.nombre)' = Fin(n)
        BY <1>0, <1>1, <1>2, <1>3, <1>6 DEF Fin
      <3> QED BY <1>2, <1>15, <1>16, <3>1 DEF PorMover
    <2>2. \A x \in D : Inicio(x) \in Nat
      BY BloquesDeUnArchivo DEF D
    <2>3. m \notin P
      BY <1>1, <1>2, <1>15, <2>1
    <2>4. PorMover = {x \in D : Fin(n) < Inicio(x) /\ Inicio(x) < l}
      BY <1>0 DEF PorMover, D
    <2>5. ASSUME NEW x \in P
          PROVE  x \in PorMover
      <3>1. x \in D /\ x # m /\ Fin(n) < Inicio(x) /\ Inicio(x) < Min(H)
        BY <1>6, <2>1, <2>3
      <3>2. Inicio(x) < l
        BY <1>1, <1>15, <2>2, <3>1
      <3> QED BY <2>4, <3>1, <3>2
    <2>6. m \in PorMover
      <3>1. Fin(n) # l - 1
        <4>1. Fin(n) \in Ocupa(n)
          BY <1>1, BloquesDeUnArchivo DEF D
        <4>2. Ocupa(n) \cap Ocupa(m) = {}
          BY <1>1, <1>2, <1>4 DEF Separados, D
        <4> QED BY <1>7, <4>1, <4>2
      <3>2. Fin(n) < l - 1
        BY <1>1, <3>1
      <3> QED BY <1>1, <1>2, <2>4, <3>2
    <2> QED BY <2>3, <2>5, <2>6
  <1>18. Cardinality(P) < truncado.i - 1
    <2>1. PorMover \subseteq D /\ IsFiniteSet(D)
      BY DEF PorMover, D, Tipos
    <2>2. PICK Q : Q = PorMover
      OBVIOUS
    <2>3. IsFiniteSet(Q) /\ Cardinality(Q) \in Nat
      BY <2>1, <2>2, FS_Subset, FS_CardinalityType
    <2>4. IsFiniteSet(Q \ {m}) /\ Cardinality(Q \ {m}) = Cardinality(Q) - 1
      BY <1>17, <2>2, <2>3, FS_RemoveElement
    <2>5. IsFiniteSet(P) /\ Cardinality(P) <= Cardinality(Q \ {m}) /\ Cardinality(P) \in Nat
      BY <1>17, <2>2, <2>4, FS_Subset, FS_CardinalityType
    <2> QED BY <1>4, <1>5, <2>2, <2>3, <2>4, <2>5
  <1>19. Lugar'
    <2>1. Hueco' # {} /\ Cardinality(PorMover)' < truncado'.i
      BY <1>5, <1>13, <1>14, <1>16, <1>18
    <2> QED BY <1>3, <2>1 DEF Lugar
  <1> QED BY <1>2, <1>3, <1>10, <1>11, <1>12, <1>19, VaciasSiguen DEF Orden, Marcas

(* A turn of fs_compactar moves one file into free blocks, leaves one file fewer to
   move, and never runs out of turns; MueveUnLleno is what could go wrong. *)
LEMMA CompactarOrden ==
    ASSUME Coherente, Tipos, Orden, Compactar, ~ MueveUnLleno PROVE Orden'
  <1>1. fase = "COMPACTAR"
    BY DEF Compactar
  <1>2. CASE fase' = "COMPACTAR"
    BY <1>2, CompactarAvanza
  <1>3. CASE fase' = "MARCAR_TRUNCADO"
    BY <1>3, CompactarTermina
  <1>4. CASE Caer
    BY <1>1, <1>4, CaerOrden DEF Cortables
  <1> QED BY <1>2, <1>3, <1>4 DEF Compactar, TerminarCompactacion

\* Every step that is foreseen keeps the blocks in order.
LEMMA PasoOrden ==
    ASSUME Coherente, Tipos, Tipos', Orden, [Next]_vars, ~ Imprevisto PROVE Orden'
  <1>1. CASE UNCHANGED vars
    <2>1. UNCHANGED <<archivos, metadata, vacias, bitmap, fase, pedido, truncado>>
      BY <1>1 DEF vars
    <2> QED
      BY <2>1, MismosBloques
         DEF Orden, EnMarcha, Marcas, Crecimiento, Lugar, Creciendo, Nuevos, Hueco, Libre,
             PorMover, Inicio, Fin, BloquesDe, InicioDeLibres, Libres, Posicion,
             fs_buscar_bloque_libre, fs_buscar_primera_ocurrencia_libre
  <1>2. CASE Detener
    <2>1. Caer
      BY <1>2 DEF Detener
    <2>2. fase \notin Cortables
      BY <2>1 DEF Imprevisto, CortaUnPedido, Caer, Cortables
    <2> QED BY <2>1, <2>2, CaerOrden
  <1>3. CASE Pedir \/ Escribir \/ Leer
    <2>1. /\ fase \in {"ESPERA", "ATENDER"} /\ fase' \in {"ESPERA", "ATENDER"}
          /\ UNCHANGED <<archivos, metadata, vacias, bitmap>>
      BY <1>3 DEF Pedir, Escribir, Leer, Atiende, Responder, Callar
    <2> QED BY <2>1, QuietoOrden
  <1>4. ~ NoAbre /\ ~ CreceMal /\ ~ MueveUnLleno
    BY DEF Imprevisto
  <1> QED
    BY <1>1, <1>2, <1>3, <1>4, ArrancarOrden, CrearOrden, GuardarCreadoOrden, MarcarCreadoOrden, BorrarOrden,
       QuitarBorradoOrden, TruncarOrden, CompactarOrden, MarcarTruncadoOrden,
       GuardarTruncadoOrden DEF Next

\* The invariant that the three theorems share.
LEMMA HistoriaOrdenada ==
    SpecHistoria => [](Coherente /\ Tipos /\ (previsto => Orden))
  <1> DEFINE I == Coherente /\ Tipos /\ previsto \in BOOLEAN /\ (previsto => Orden)
  <1>1. InitHistoria => I
    BY InicioCoherente, InicioTipos, InicioOrden DEF InitHistoria
  <1>2. I /\ [NextHistoria]_varsHistoria => I'
    <2> SUFFICES ASSUME I, [NextHistoria]_varsHistoria PROVE I'
      OBVIOUS
    <2>1. Coherente' /\ Tipos'
      BY PasoConHistoria, PasoCoherente, PasoTipos
    <2>2. previsto' \in BOOLEAN
      BY Zenon DEF NextHistoria, varsHistoria
    <2>3. ASSUME previsto'
          PROVE  Orden'
      <3>1. CASE Next /\ ~ Imprevisto /\ previsto
        BY <2>1, <3>1, PasoOrden
      <3>2. CASE UNCHANGED vars /\ previsto
        <4>1. ~ Imprevisto
          BY <3>2 DEF vars, Imprevisto, CortaUnPedido, NoAbre, CreceMal, MueveUnLleno
        <4> QED BY <2>1, <3>2, <4>1, PasoOrden
      <3>3. (Next /\ ~ Imprevisto /\ previsto) \/ (UNCHANGED vars /\ previsto)
        BY <2>3, Zenon DEF NextHistoria, varsHistoria
      <3> QED BY <3>1, <3>2, <3>3
    <2> QED BY <2>1, <2>2, <2>3
  <1> QED BY <1>1, <1>2, PTL DEF SpecHistoria

\* What is in memory is what a restart would read, or nothing.
LEMMA MemoriaDeUnOrden ==
    ASSUME Coherente, Tipos, Orden
    PROVE  \A n \in DOMAIN archivos :
              n \in DOMAIN metadata /\ BloquesDelArchivo(n) = Ocupa(n)
  <1>1. CASE EnMarcha
    <2>1. archivos = Cargados
      BY <1>1 DEF Orden
    <2> QED BY <2>1, EnMemoria DEF Cargados
  <1>2. CASE ~ EnMarcha
    BY <1>2 DEF EnMarcha, Orden, Vacio
  <1> QED BY <1>1, <1>2

\* While the file system is used as foreseen, no two files share a block: not
\* between two requests, not half way through a compaction, not after a restart,
\* for every size of the disk and of the files (fs_buscar_bloque_libre,
\* fs_compactar, dialfs_atender_kernel and metadata_inicializar).
THEOREM DialFsSinSolapes == SpecHistoria => []SinSolapes
  <1>1. Coherente /\ Tipos /\ (previsto => Orden) => SinSolapes
    <2> SUFFICES ASSUME Tipos, Orden, Coherente PROVE SinSolapes
      BY DEF SinSolapes
    <2>1. ASSUME NEW n \in DOMAIN archivos, NEW m \in DOMAIN archivos, n # m
          PROVE  BloquesDelArchivo(n) \cap BloquesDelArchivo(m) = {}
      BY <2>1, MemoriaDeUnOrden DEF Orden, Separados
    <2> QED BY <2>1 DEF SinSolapes
  <1> QED BY <1>1, HistoriaOrdenada, PTL

\* Between two requests that were foreseen the bitmap marks the blocks of the
\* files and no others.
THEOREM DialFsBitmapExacto == SpecHistoria => []BitmapExacto
  <1>1. Coherente /\ Tipos /\ (previsto => Orden) => BitmapExacto
    <2> SUFFICES ASSUME Tipos, Orden, fase \in {"ESPERA", "ATENDER"}
                 PROVE  bitmap = UNION {BloquesDelArchivo(n) : n \in DOMAIN archivos}
      BY DEF BitmapExacto
    <2>1. archivos = Cargados /\ bitmap = Ocupados(DOMAIN metadata)
      BY DEF Orden, EnMarcha, Marcas
    <2>2. DOMAIN archivos = DOMAIN metadata
          /\ \A n \in DOMAIN metadata : BloquesDelArchivo(n) = Ocupa(n)
      BY <2>1, EnMemoria DEF Cargados
    <2> QED BY <2>1, <2>2 DEF Ocupados
  <1> QED BY <1>1, HistoriaOrdenada, PTL

\* A restart of a file system that was used as foreseen would find the very files
\* that are in memory, and metadata_inicializar never refuses it.
THEOREM DialFsReinicioFiel == SpecHistoria => []ReinicioFiel
  <1>1. Coherente /\ Tipos /\ (previsto => Orden) => ReinicioFiel
    BY DEF ReinicioFiel, Orden, Marcas, EnMarcha
  <1> QED BY <1>1, HistoriaOrdenada, PTL
=============================================================================
