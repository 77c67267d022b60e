# A verification of the P2P download service

This directory models the programs `servidor.cpp`, `cliente.cpp` and
`includes/almacen.cpp` in TLA+, checks them with TLC on small instances and
proves the main results with TLAPS for every instance. Definitions keep the
Spanish names of the code.

## The system

A **server** keeps a table: file name -> addresses (IP, port) of clients that
offer it. A **client** asks the server for the list of files (option 0),
registers a file of its own and starts a thread that serves it (option 1), or
asks for the address of a file and starts a thread that downloads it from the
other client (option 2). Files can also be registered over HTTP. On Ctrl+C the
server writes its table to a backup file, which it reads when it starts.

| part | source | state | operations | interacts by |
|---|---|---|---|---|
| `AlmacenDirecciones` | `includes/almacen.cpp` | `tabla`: map from name to vector of (IP, port) | `agregar_cliente`, `obtener_cliente`, `obtener_ficheros`, `salvar_datos`, `recuperar_datos`, and the readers `to_html`, `to_string` | called by main, HTTP workers and the signal handler, without a lock |
| server main | `servidor.cpp` 130-263 | position in the dialogue (which `recv` it is in) | start-up, options 0, 1, 2 | one ZeroMQ REP socket for all clients |
| HTTP server | `servidor.cpp` 36-128, Crow | none of its own | `/guardar`, `/agregar_fichero`, `/`, `/perfil` | threads beside main; takes over SIGINT |
| SIGINT handler | `servidor.cpp` 28-34 | none | save, join, exit | interrupts main anywhere |
| backup file | `storage/datos_almacen.txt` | text | written line by line, read token by token | outlives the process |
| client main | `cliente.cpp` 27-176 | three fields that outlive an iteration, threads | menu, three dialogues, join | one REQ socket, standard input |
| transfers | `cliente.cpp` 178-332 | files, sockets, buffers | accept, read/write loops, connect | TCP between clients |

What is hard about it:

- a dialogue has two requests, but the server remembers only *which `recv` it
  is in*, not with whom: requests of two clients, or of one client across a
  restart, are taken for one another (`servidor.cpp:200`, `:232`, `:168`);
- every error in the server ends the process (`exit(-1)`, an uncaught
  exception, an index out of range), and what it had queued is lost, while the
  REQ sockets of the clients wait without a timeout (`cliente.cpp:68`, `:86`,
  `:112`, `:146`);
- the backup is written in one format and read in another
  (`almacen.cpp:105-111`, `:130`), and can be cut short by a crash; a reader
  that has lost its place may not notice (`:131`);
- who handles SIGINT changes while the process starts (`servidor.cpp:133`,
  `:147`, `:127`), and the handler waits for a thread (`:32`);
- ports are cut to 16 bits independently on the two sides
  (`almacen.cpp:82`, `cliente.cpp:120`);
- the table is shared by threads without a lock (`almacen.cpp:13-18`);
- transfers: truncate before connect, errors taken for the end of the file, one
  exception that ends all serving (`cliente.cpp:270`, `:237`, `:226`, `:190`); a write
  that blocks the one thread that serves everybody (`:226`); files that several
  threads read and write at once, each with its own offset (`:190`, `:242`).

`PROJECT.json` lists these hazards with the properties that cover them.

What makes each part correct:

- the table and the backup: it is known exactly what a restart loses and when it
  makes something up, and an entry is never replaced;
- the dialogue: an ACK means "registered with this port", an address means
  "offered for this file", whatever the interleaving (an address recovery made up
  aside);
- the connections: at most one message under way per client, nobody waits for
  nothing unless a server process has ended, everybody is answered while the
  server lives;
- the signal handling: what the messages and comments of the code promise;
- the table between threads: a confirmed file stays on the list, and it is known
  how many confirmed addresses can be lost;
- a transfer: no unit of a file ends up in the wrong place, a download that ends
  quietly while its peer serves is complete, every download ends.

## Modules

| module | models | extends |
|---|---|---|
| `Almacen` | table, conversions, messages, tokens of the backup file: operators only | |
| `Servidor` | the server process, its restarts and its backup file | `Almacen` |
| `RedZmq` | external: the REQ/REP connections | `Almacen` |
| `Cliente` | client processes | `RedZmq` |
| `Servicio` | all of it together | `Servidor`, `Cliente` |
| `Directorio` | abstract: what the server promises as a directory; `Servidor` is shown to implement it | |
| `AlmacenConcurrente` | the table under main and Crow's workers, access by access | |
| `Transferencia` | serving and downloading threads, connections and files | |
| `Copia` | abstract: what a download promises; `Transferencia` is shown to implement it | |
| `MCServidor`, `MCServicio`, `MCConcurrente`, `MCTransferencia` | instances for TLC | |
| `AlmacenProofs`, `ServidorProofs`, `ServicioProofs` | theorems | each the one before |
| `DirectorioProofs` | the refinement of `Directorio`, and the theorems about the growing table, the restart and what it makes up | `ServidorProofs` |
| `DialogoProofs` | what an ACK and an address mean to a client | `ServicioProofs`, `DirectorioProofs` |
| `ConcurrenteProofs` | theorems about `AlmacenConcurrente` | |
| `TransferenciaProofs` | what transfers do to the files | `Transferencia` |
| `CopiaProofs` | complete copies, and the refinement of `Copia` | `TransferenciaProofs` |

**Texts.** A text is a record: the number it begins with (`NoNum` if
`std::stoi` would throw) and the rest. That is all the code tells apart: `stoi`
at `servidor.cpp:168`, `almacen.cpp:82` and `cliente.cpp:120`, and the stream
extractions of `recuperar_datos`. So `1.txt` is a name that reads as option 1.
The constant `Orden` lists every text that can become a key, in the order of
`std::map`; `CierreAssumption` says that writing and reading back leads to no
other. Texts contain neither blanks nor `</>` (what `cin >>` reads has no
blanks; a name with `</>` in it is not considered).

**Server.** `spc` is where main is: `parado` (no process), `arranque` (handler
installed, before `recuperar_datos`), `leyendo`, `cargado`, the three `recv`s
`recv`, `recv_datos`, `recv_nombre`, and `salvando` and `join` of the handler.
`crow` is the HTTP thread, which decides who gets SIGINT. An action is what main
does between two blocking points; reading and saving are one action per record
and per line, so that signals, crashes and HTTP registrations come in between.
`Para` is the end of the process, however it comes about: memory is gone, the
file stays. The end by `exit`, exception or crash is part of the action in
which the code does it (`RecvNoValido`, `RecvDatosMal`, `SigintCrow`, ...).
`aceptados`, `inventados` and `lineas` are ghosts: every registration ever accepted,
every record recovery read that was not one of them, and what each line of the
file was meant to say.

**What recovery makes up.** `1.txt` with two addresses and then `2.txt` are saved as
`1.txt i p i p` and `2.txt i p`. The reader takes the record `1.txt i p`, and then
`i` for a name, `p` for an IP and the 2 of `2.txt` for a port; the next record is
the file `.txt`. An IP of no more than 16 bits (0.0.0.0) has the same effect as the
digit. `Confusas` are the registrations that can be mistaken in this way;
`Repetidas` says that there has been one that makes a line which is not three
tokens (the empty name, or a name for the second time). `Desliza` says of a given
file that the three tokens at which the reader gets lost read as a record.

**Client.** `cpc` is where main is: at the menu, at a question, in one of the
five `recv`s, in `join`, ended. `entrada` becomes false when `cin` fails;
then `opcion` stays 0 and fields keep their old values, as in the code.
`sirviendo` and `descargas` are the threads, each with its arguments.

**Connections.** `salida`, `cola`, `respuesta`: a request on its way, a request
in the server's queue, a reply. When a server process ends its queue is lost and
any reply may be; a request that is still in the client is delivered to the next
process, or is lost too if it went into the dead connection.

**Directory, abstractly.** `Directorio` is active or not and has two sets, the
registrations on offer and all that were ever accepted. It may start, publish one,
bring one back, and stop, which is the only step that takes offers away. What it
brings back was accepted, until it has accepted one of `Confusas`. `Servidor` maps
"there is a process" to the first, its table to the second (`Ofertas`) and its ghost
`aceptados` to the third.

**Table between threads.** In `AlmacenConcurrente` an operation is a sequence of
accesses (`pc`), each with a beginning and an end: `find`, then `push_back` or
`emplace`; `find`, then element 0; one iteration over the keys (option 0) or over
keys and vectors (the page `/`). `Lee` and `Escribe` say which objects an access
touches, the tree or the vector of one file. When an access begins beside a
conflicting one, `carrera` becomes true (overlap in time; accesses that are merely
unordered by C++ but do not overlap behave as written), and from then on `Dana` may lose entries
and `Cae` may crash the process. `emplace` on a key that is there by now does
nothing, and `agregar_cliente` returns true all the same.

**Transfers.** One shared file, any number of processes (`Nodos`), each started in
a folder (`Carpeta`), and downloads (`Descargas`), each a thread of one process
(`Quien`) that was given the address of another (`De`). A file is a sequence of
units; `disco` is the file in each folder. `hilo` is the serving thread, which the
processes in `Sirven` may start: one
`io_context`, one handler at a time, so while it is blocked in `write` for a
download (`ocupado`) it does nothing else. Before it can accept a peer, `do_accept`
opens the file for it (`Crea`; `listo`: there is a `FileService` for the next peer);
when `open` fails the `stream_descriptor` throws and the thread ends
(`CreaFalla`, state `sin_fichero`; every other end is `acabada`). `srv`, `datos`, `leidos` are the
`FileService` of a connection at the server (read ahead, offset), `canal` what TCP
holds (`Ventana`), `dpc` and `escritos` the downloading thread. A connection that
is closed delivers what is in `canal` first; a peer that is gone makes `write`
throw, at once or after it has taken some more. `Trunca` happens before `Connect`,
as in `do_connect`; `FinDescarga` is the end of the stream, whatever caused it.

**Copy, abstractly.** `Copia` has the local file, whether the peer still serves and
the state of the download; its one promise is that a download that ends quietly
while the peer serves has the whole file, and that until then the local file is a
growing beginning of it.

## Runs

Passing:

| run | instance | properties | states | shows |
|---|---|---|---|---|
| `restart` | names `a.txt`, `1.txt` and the empty one, IPs 0.0.0.0 and the empty one (INADDR_NONE), 1 port and the empty one, 4 registrations, 3 processes | `TypeOKServidor`, `NadaInventado`, `RecuperaPrefijo`, `TablaSoloCrece`, `ImplementaDirectorio` | 628,158 | recovery keeps the first address of every line up to the first with two addresses or an empty name, and nothing else exactly when it notices that it is lost there; it makes something up only after a registration of `Confusas` *and* one of `Repetidas`; the address handed out never changes while the process runs; all this implements `Directorio` |
| `reinicio` | 2 clients, one dialogue each, names `a.txt` and `1.txt`, port 70000, 2 processes | `TypeOK`, `UnaPeticion`, `AltaConfirmada`, `DireccionPedida` | 1.46 million | one message per connection, and who waits for nothing has lost a server process; a confirmed file is announced with the port it is served on, except names that begin with 1 or 2; an address was offered for the file asked for (two dialogues are too few for recovery to make one up: that alternative is covered by the theorem) |
| `vivo` | 2 clients, 2 processes, fairness | `Atendida` | 826,283 | while the server stays in its loop every request is answered, except those lost with a process |
| `transferencia` | 3 processes in 3 folders: one with the file, one that downloads its old copy again while it serves it, one that downloads from both; a file of 3 units, buffer 2, window 1; two of them serve, and `open` may fail | `TypeOK`, `PosicionCorrecta`, `DestinoCompleto`, `HebraCaePorUnPar`, `ImplementaCopia` | 448,138 | units never move; quiet ends from good sources leave complete files, also when two downloads share a folder; a thread with peers is lost only to a peer whose download failed, or to a file that could not be opened; the download that is alone implements `Copia` |
| `lentas` | 2 downloads from one thread, one of them slow, fairness | `Acaba` | 88,995 | a download ends unless the thread is blocked for the slow one |
| `concurrente` | main, 2 workers, 4 registrations of one file, 1 of another | `TypeOKConc`, `ListadoCompleto`, `PerdidasAcotadas` | 18,251 | without a collision a confirmed file stays on the list, and at most two confirmed addresses per file are lost to three threads |

Violated, each against what the repository says (`findings` in `PROJECT.json`):

| run | property | what happens |
|---|---|---|
| `recupera_fiel` | `RecuperaFiel` | after a complete save the next start has lost an address, and has one that nobody registered |
| `ctrlc_guarda` | `CtrlCGuarda` | once Crow runs, Ctrl+C ends the process and saves nothing |
| `ctrlc_borra` | `CtrlCNoBorra` | Ctrl+C during start-up overwrites the backup |
| `ctrlc_termina` | `CtrlCTermina` | Ctrl+C while Crow starts: the handler waits for ever in `join` |
| `cruzado` | `DialogoCasado` | two clients: one's option is next in the queue where the other's data are expected (the property fails when it is queued, one step before it is misread) |
| `emplace` | `AltaEnTabla` | two first registrations at once: one is confirmed and nowhere |

Bounds. `MaxAltas` bounds HTTP and stand-alone registrations, `MaxOps` the
options 1 and 2 of a client (option 0 is free), `MaxArranques` the server
processes. Three processes let one history be saved, recovered, saved again and
recovered again; four registrations give a file with two addresses before and
after another file, and with `1.txt` and 0.0.0.0 both ways for the reader to go on
in the wrong place. Two clients are what a crossed dialogue needs. Port 70000
is cut by both sides, and its two bytes differ. `MaxU32` stands for 2^32 - 1: TLC's
integers have 31 bits, so its instances use 2147483647, which only moves the
value of INADDR_NONE (the empty IP); the proofs hold for every `MaxU32`.
Three units and a buffer of two make a file that takes two reads and can be cut
in the middle of a piece; with a window of one the write blocks at every unit.
`Sirven` keeps the process nobody downloads from in `transferencia` from serving;
in `lentas` all serve.
Four registrations of one file are more than the bound on losses for three
threads. Clients, workers and registrations of one file are symmetric in the
safety runs; the liveness runs use no symmetry.
`CHECK_DEADLOCK FALSE`: the process may stay down and the clients may all have
ended.

Fairness. `FairSpecServidor`: main and the HTTP thread run their own code.
`FairSpecServicio`: ZeroMQ delivers a request while a server listens and its REP
socket serves its peers in turn (fair queueing), and a client that has a reply
takes it. `FairSpec` of `Transferencia`: every serving thread runs, and every
downloading thread but the slow ones (`Lentas`: a process its user has stopped,
or one on a stalled disk). No user, signal, crash or restart is forced.

## Proofs

| theorem | statement | argument |
|---|---|---|
| `HtonsInvolutiva` | `Htons(Htons(n)) = n % 65536` | on the two bytes |
| `TipoServidor` | `SpecServidor => []TypeOKServidor` | the closure assumptions on texts keep everything read back from the file among the texts |
| `TipoServicio` | `SpecServicio => []TypeOK` | one step per action |
| `UnaPeticionSiempre` | `SpecServicio => []UnaPeticion` | inductive invariant `InvConexion` |
| `AltaConfirmadaSiempre` | `SpecServicio => []AltaConfirmada` | inductive invariant `InvAlta` |
| `DireccionPedidaSiempre` | `SpecServicio => []DireccionPedida` | inductive invariant `InvDescarga`, and `NadaInventado` |
| `DirectorioRefinado` | `SpecServidor => ImplementaDirectorio` | every step under `InvBackup` and `InvPrevio` starts, stops, publishes, brings back or stutters |
| `TablaSoloCreceSiempre` | `SpecServidor => TablaSoloCrece` | inductive invariant `InvPrevio` |
| `RecuperaPrefijoSiempre` | `SpecServidor => RecuperaPrefijo` | inductive invariant `InvLectura` |
| `NadaInventadoSiempre` | `SpecServidor => []NadaInventado` | inductive invariants `InvBackup` and `InvOrden`, one for each condition |
| `TipoConcurrente` | `SpecConc => []TypeOKConc` | part of `InvConc` |
| `ListadoCompletoSiempre` | `SpecConc => []ListadoCompleto` | inductive invariant `InvConc` |
| `PerdidasAcotadasSiempre` | `SpecConc => []PerdidasAcotadas` | inductive invariant `InvConc` |
| `TipoTransferencia` | `Spec => []TypeOK` of `Transferencia` | part of `Inv` |
| `PosicionCorrectaSiempre` | `Spec => []PosicionCorrecta` | inductive invariant `Inv` |
| `HebraCaePorUnParSiempre` | `Spec => []HebraCaePorUnPar` | `Inv` and the property itself |
| `DestinoCompletoSiempre` | `Spec => []DestinoCompleto` | `Inv`, then `Exactas`, then `Cubiertas` |
| `CopiaImplementada` | `Spec => ImplementaCopia` | `Inv`, `Exactas` and `Copian` |

No theorem restricts what users type. `NadaInventado` names two conditions, each of
which is enough, so it takes two arguments.

The first: nothing in `Confusas` has been accepted (`Claras`). The property speaks of
the table, but the danger is in the file, so `InvBackup` says what any text in the
file looks like (`Gramatica`): a name is followed by an address that was accepted
for it, an IP by a port, a port comes after an IP, and the three kinds of token
exclude each other. Lines can then be appended, a prefix of lines keeps the form,
and the reader either takes a name with its own address or stops.

The second: nobody has registered the empty name, or a name twice (`~Repetidas`).
Then names and IPs may be anything: every vector and every line has one address
(`InvOrden`, by the cardinality of the set of accepted names against `altas`), so the
reader is never lost. When both conditions fail an address can be made up: the run
`recupera_fiel` ends in such a state.

`TablaSoloCrece` depends on the order of start-up: `recuperar_datos` clears the
table, and that removes nothing only because nobody can have registered a file
yet. `InvPrevio` says so: the table is empty before it, and there is no HTTP
thread before main has finished loading.

`RecuperaPrefijo` needs to know where the reader is in the file. The lines of a
file have different lengths, but up to the first one with an empty name or with
several addresses each has three tokens, so line k begins after token 3(k - 1)
(`Escrito`). While the reader has its place there is a k such that it has consumed
exactly 3k tokens and the table holds the first addresses of the lines 1 .. k
(`Leidas`). A record it can still read is then line k + 1, or, after a line with
addresses left over, the three tokens `Desliza` describes; in that case the table
has more than it should from then on (`Perdido`), because vectors only grow.
When it can read no more and is not lost, line k + 1 is not one it could read.
`Claves` says that no
key is written twice, also when a save was interrupted and begun anew, which
follows from the cursor and the injectivity of `Orden`.

`InvConexion` adds to `UnaPeticion` that a client that has ended has nothing left
but what is in the server's queue, and that a process that was never started has
never ended. `InvAlta` follows a registration from `PideDatos` to the ACK: while
the client waits, what is under way is its own registration, and an ACK was
earned in one of two ways, by `agregar_cliente` or as option 1 or 2. `InvDescarga`
does the same for a name; an address may come from a recovered table, so it is
either accepted or in `inventados`, and `NadaInventado` says when that is not empty.

The assumptions are the named ones of the modules (`NumAssumption`,
`OrdenAssumption`, `CamposAssumption`, `CierreAssumption`, and the bounds are
natural numbers; `ConcurrenteAssumption`: finitely many workers;
`TransferenciaAssumption`: the file is a sequence, buffer and window are not
empty, "no file" is not a file); TLC evaluates them in every run.

`PerdidasAcotadas` is not inductive: what is lost is decided earlier. `InvConc`
bounds the *debt* of a file, the registrations that are lost or whose thread has
already seen no entry (`EnDeuda`). When the first entry is made the debt is at
most one registration of every other thread, and afterwards it never grows,
because `find` sees the entry.

**Transfers.** Everything is said with one operator: `Casa(f, p, H)`, the units f
are those of the file from offset p on, or members of H (`{Hueco}` where another
download may have left holes, `{}` where not). `PosicionCorrecta` is about files
only; `Inv` adds what is in memory and on the network: what a server has read
ahead belongs just before its offset (`leidos`), what is in the socket just after
the offset of the download (`escritos`), and while both ends are up the three
lengths add up, so nothing is missing in between (`Flujo`). `Conexion` and `Hilos`
say which states of the two ends go together. Two threads writing to one file
then cannot move a unit, because each writes what it has at the offset where it
belongs. `HebraCaePorUnPar` is about the one exception a peer can cause: the write
throws only for a download whose end is gone, and a download that has read the end
of the stream has had its connection closed by the server first.

`DestinoCompleto` takes two more steps. `Exactas`: from a source that is complete
and that nobody writes to, what is under way has no holes, the server stops
reading only at the end, and a connection it has closed without ending still holds
all the rest. `Cubiertas`: in a folder all of whose downloads have gone well so
far there is one, the last to empty the file, such that everything *it* has written is
there; the others can only have put the same units in the same places again.
When all have ended, that one has written the whole file. `Copian` is the same for
a download that is alone: its file is exactly what it has written, which with
`Exactas` makes every step of `Transferencia` one of `Copia` or none.

Only model-checked: liveness (`Atendida`, `Acaba`), which is out of the prover's
reach, and the violated properties, which are false. Every other property of a
passing run is a theorem.

## Abstractions, and what is not modelled

- In `Servidor` and `Servicio` a table operation and an HTTP handler are atomic;
  `AlmacenConcurrente` looks into them, without dialogue and backup. What
  the signal handler reads in the middle of a change of main is not modelled.
- A crash cuts a save between two lines, where `std::endl` flushes, not inside
  a line.
- SIGINT is handed to main on Linux unless it is masked there; a second SIGINT
  in the middle of a save is not modelled; signals arrive at the points where
  actions meet.
- `separar_string` on a text without separators reads element 0 of an empty
  vector; the build reads a null pointer and the process ends.
- The server's `bind` at start-up succeeds. That the backup cannot be opened is
  modelled for reading and for writing, and so is that a client cannot open the
  file it serves or downloads, or get its port.
- Reading the served file fails only at its end. After any other error
  (`cliente.cpp:221`) the connection is closed as if it were the end, and
  `DestinoCompleto` and `Copia` would not hold.
- Once a server process has ended, a client that waits without a request or reply
  under way is taken to have lost it with that process (`UnaPeticion`, `Atendida`);
  which of its requests was lost is not remembered.
- The text of the pages `/` and `/perfil` and of the HTTP responses; `to_string`,
  which nobody calls.
- `Transferencia` has one file and starts each thread at most once; addresses are
  given (where they come from is the business of `Servicio`). Sockets are closed
  when their process ends; a machine that stops, or a network that
  drops packets for ever, is not modelled (the download would wait for ever).
- `src/asio-1.28.0`, `src/includes/crow_all.h` and `src/includes/zmq.hpp` are
  vendored third-party code, nearly all of the lines in the repository. They are
  not translated: they appear only through what the program's own files
  use of them. Of those files (`servidor.cpp`, `cliente.cpp`, `almacen.cpp`,
  `almacen.h`, 940 lines, a quarter of which is HTML, blank lines or debug output)
  every function that reads or changes state is modelled.

## Plan

Done, in the order of importance: directory and backup, dialogue, transfers,
table between threads, the two abstract specifications.

Proved, in the same order: types and safety of the server, the dialogue and the
table between threads, what survives a restart, the transfers, and both
refinements.

Next: the theorems about the server process alone (`TablaSoloCrece`,
`RecuperaPrefijo`, the refinement of `Directorio`) for the server inside
`Servicio`, where the requests are those of the clients.
