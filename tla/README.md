# TLA+ models of hafley-tsp

hafley-tsp is a set of TypeSpec libraries and emitters. From a TypeSpec program
they generate Rust (a command line program that is both a client and its own
background daemon, SQL writers, functions that sync tables with HTTP endpoints),
SQL schemas, C programs, Go structs and React components. What is hard to get
right is of two kinds, and so are the modules here: behaviour of the code that is
**generated** and of the files that are emitted again and again, modelled as
state machines; and the **agreement** of parts of a generator that are written
apart from each other (a statement and the table it names, a client and its
routes, a constructor and its codec), modelled as operators from small programs to
what is generated for them, below a state machine that uses the result.

Paths below are relative to `src/packages/` unless they begin with `src/`.

## 1. Inventory

| Component | State it keeps | Operations | Interacts with | What is hard | What makes it correct |
|---|---|---|---|---|---|
| Daemon and client lifecycle (`rust/src/emitter/templates/server_auto.rs`, `client_auto.rs`, `daemon_auto.rs`) | socket file, pid file, lock file, socket directory, executable; the daemon's stamp and token; the client's attempts and connection | `serve`: prepare, lock, clear the socket, read the stamp, bind, serve, drain, unlink. `connect_ready`: probe, spawn, greet, retry. `call` | the kernel (flock, listen queue, unlink), several processes of both kinds | interleavings of processes at every system call, crashes, the executable replaced under a running daemon | one server; a live listener is reachable; no client is served by a daemon with an older stamp; no accepted request is cut off by an orderly end; clients end |
| Request accounting and idle shutdown (`server_auto.rs`) | `active`, `last`, the cancellation token | `touch` middleware, drop of `RequestGuard`, watcher, `/shutdown`, graceful end | lifecycle (the token), axum (external) | two atomics updated in several steps, read in two steps by another task | only an idle daemon ends; an idle one does end |
| Streamed responses (`server_auto.rs`, `client_auto.rs`) | batch, channel, trailers, reader of the client | producer thread, `send_batch`, body stream, client loop | lifecycle (connection), accounting (guard in the body) | three parties, a bounded channel, failure on each side | order, exit code, delivered diagnostics, termination |
| Operation plan (`rust/src/emitter/04_ops-plan.ts`, `rust/src/components/4_codegen/7_OpsTransports.tsx`, `5_TransportBinding.tsx`, `rust/src/emitter/07_daemon-files.tsx`, `emit-helper/src/http`) | none; one call on its way | plan commands, routes, arguments; parse, send, route, fill | clap, axum, matchit, serde (external) | six front ends plan the same arguments in different places | a call reaches its own operation with the arguments it means; legal calls are taken |
| Command line in C (`c/src/emitter/6_cli_runtime.ts`, `7_cli.ts`) | the scan of argv | two scans, descent through the commands, filling | getopt_long (external) | options of the root and of a command in one argv | the same |
| SQL facts and schema (`sql/src/1_decorators.ts` to `5_emit_sql.ts`) | none after a compile | relations, fields, interning plan, tables, facts for other generators | all writers | five readers of one schema | tables, references and facts fit together |
| Plain writers (`rusqlite/src/3_storage.tsx`, `3a_value_writer.ts`, `sqlx/src/3_storage.tsx`, `binding-core/src/6_emit-go.tsx`) | a table | `upsert_<t>`, `insert_<t>`, `insert_values`, delete of children | SQLite (external) | rows recognised by one list and refused by another; retries; keys that are returned | stored means stored under the returned key; keys stand; a retry changes nothing |
| Interned storage (`rusqlite/src/2_intern_writer.ts`, `sqlx/src/2_intern_writer.ts`) | word tables, entity tables with word ids; savepoints | `intern_<domain>`, `upsert_<entity>` | SQLite (external), transactions of the callers | statements of two connections, failure or death between any two, rollback of words whose ids were handed out | views behave like plain tables |
| Tagged row writer (`rusqlite/src/3b_tagged_row_writer.ts`) | a batch grouped by table, the limits of the connection | `insert_all` | SQLite limits (external) | arithmetic at two limits, off by one, a failure after some tables | no statement is too long; Ok means all |
| Sync functions (`binding-core/src/5_emit-rust.tsx`) | poll state, item and child tables | the generator of structs, extraction, queries and `sync_<entity>`; a call of one | HTTP endpoint (external), plain writers of SQLx | code in four places that must name the same columns; failure between statements, a validator stored too early, children that move | the functions fit; a validator stands for what the tables hold; tables catch up |
| Files with zones (`rust/src/components/4_codegen/3_ReplaceFile.tsx`, `react/src/03_replace-region.tsx`) | the file on disk | first emit, splice | users who edit between emits | long sequences of emits and edits | hand-written lines stay; generated zones are current; an emit twice is an emit once |
| Auto files and emit hooks (`sql/src/6_auto_file.ts`, `7_auto_emitters.ts`, the `5_validate.ts` of the storage libraries, `rust/src/emitter/05_write-crate.ts`, `06_on-emit.ts`, `c/src/emitter/3_write.ts`) | the files of a project | validate, emit, skip or write a file | the compiler (external), users | a compile cut off in the middle of its writes; files with different rules of when to skip | what is on disk after a compile that succeeded is of that program; one writer per file; the user's code stays |
| C declarations, constructors and codecs (`c/src/emitter/0_types.ts`, `1_type_map.tsx`, `2_emit.tsx`, `5_wire.tsx`, `c/src/c/0_name-policy.ts`) | values in heaps | `create`, `json_encode`, `json_decode`, destroy | mimalloc, a JSON library (external) | ownership of nested memory; any allocation may fail; names mapped to one identifier | a value lives in its heap alone; copies are whole; what is written is read again; names differ |
| Decorator libraries (`decorator-def/src`, `asyncapi/src`, the decorators of `binding-core`, `sql` and `rust`) | the state maps of a compile | apply, reject, repeat for a copy; two generators of a library | the compiler (external) | state keyed by type or by name, shared keys, the order in which decorators run | accessors tell what was said of the type; the two generators agree |
| Alloy scopes, C store and printing, walkers of emit-helper, React, tools | see section 8 | | | | |

The complete list of the parts, with what is left out of each, is `components` in
`PROJECT.json`; the hazards that drive the choice of properties are `hazards`
there, each at its line.

How the parts meet. A client *call* runs through the lifecycle (connect, spawn,
greet), is counted by the accounting for as long as its body lives, and is
answered by a streamed response; what it asks for is planned by the operation
plan. The accounting owns the token whose cancellation starts the end of the
lifecycle (`Cancel` in `Daemon`, its cause in `IdleWatch`). Decorators give the
facts that `Schema` reads; the plain writers and the sync functions are generated
from that schema, and `PlainWriters` and `SyncFunctions` both extend it. The files
the emitters write go through zones (`Regions`) and through the rules of `Emits`.
Parts that share no more than a single event (the token, an answer, a failing
statement) have modules of their own, in which that event may happen at any time.

## 2. Modules

| Module | Role |
|---|---|
| `Rendezvous` | abstract promise of the lifecycle: one owner, and a door only its owner opens |
| `Daemon`, `DaemonProofs` | lifecycle of daemons and clients, one action per system call; theorems about it |
| `IdleWatch` | accounting, idle watcher, graceful end; theorems about it in `DaemonProofs` |
| `JsonlStream`, `JsonlStreamProofs` | one streamed response from the producer to the exit code of the client; theorems about it |
| `Routes` | operators: commands, routes, clients and arguments of a service |
| `CCommandLine` | operators: both scans of the C front end. Extends `Routes` |
| `Requests` | one call through one of six front ends. Extends `CCommandLine` |
| `Schema` | operators: from models to relations, the interning plan, tables, facts |
| `PlainWriters`, `PlainWritersProofs` | sequences of calls of the writers of one table; theorems about them. Extends `Schema` |
| `TextTable` | abstract promise of interned storage: atomic upserts of plain text |
| `InternWriter`, `InternWriterProofs` | the statements of interned writers; theorems, among them that they implement `TextTable` |
| `SyncFunctions` | operators: what is generated for the bindings of a program, and whether it fits together. Extends `Schema` |
| `Sync`, `SyncProofs` | a sync function against an endpoint that changes; theorems about it. Extends `SyncFunctions` |
| `TaggedRows`, `TaggedRowsProofs` | `insert_all`; theorems about it |
| `Regions` | emits and edits of a file with zones; theorems about them in `FilesProofs` |
| `Emits`, `FilesProofs` | compiles of a changing program, cut off or not, and edits between them; theorems about them and about `Regions` |
| `CTypes` | operators: names, symbols and refused programs of the C emitter |
| `CValues` | operators: constructors and codecs with one failing allocation. Extends `CTypes` |
| `CHeaps` | a program that makes, copies, writes, reads and destroys values. Extends `CValues` |
| `DecoratorLibraries` | operators: descriptions of libraries and the two generators of their files |
| `Decorators`, `DecoratorsProofs` | applications of decorators in a compile; theorems about what accessors return and about the two generators. Extends `DecoratorLibraries` |
| `MC…` | constants for TLC: model values, small sets, small programs, symmetry |

Definitions whose name ends in an underscore and a remark (`TryLock_Ignored`,
`SetsPollState` of `Answer_SetsPollState`) are *mutated* forms of the definition
that follows them, each a plausible bug. No specification uses them; `mutants` in
`PROJECT.json` names, for every property of a run, the mutation that breaks it.

### Daemon

Files: `exe` is the stamp of the executable on disk, `sockFile` and `pidFile`
name the daemon that made the file, `lock` the holder of the flock, `parentDir`
whether the directory of the socket exists. Per daemon: `dpc`, `image` (the
binary it runs), `stamp` (what it read at `server_auto.rs:257`), `cancelled`.
Per client: `cpc`, `cstamp`, `attempts`, `started` (whether it has spawned).
Connections: `link[c]` and `xchg[c]`, the phase of the one exchange of `c`.

A daemon goes through `PrepareDirs`, `TryLock`, `ClearStale`, `ReadStamp`, `Bind`,
`WritePid`, serves (`Accept`, `AnswerHandshake`, `AnswerRequest`), is cancelled
(`Cancel`, possible whenever it serves), then `StopAccepting`, `Drained`,
`RemoveSocket`, `RemoveParent`, `RemovePid`, `Exit`. `PidWriteFails` goes from the
bind straight to the cleanup. `Crash` is possible everywhere and closes descriptors
without removing files. Both count as faults. A client goes through `BeginReady`,
`ProbeConnects` or `ProbeRefused`, `Greet`, `HearGreeting`, `Nap`, `Send`,
`HearAnswer`. `Upgrade` replaces the executable. `Handshake` and `SeparateParent`
are options of the generated program (a handshake is generated or not; a socket
path that is too long moves to a directory of its own).

`Rendezvous` says: a process owns the place before it opens the door, and closes
the door before it gives up the place. The refinement maps `owner` to `lock` and
`door` to `Door`, the daemon whose listening socket is open.

### IdleWatch

Requests enter through `Enter`, `Touch`, run, and leave by `Respond` and `EndBody`
(the guard lives in the body) or by `AbandonHandler` (the guard is dropped with
the future), then `StampLast`, `Leave`. The watcher reads `active` then `last` in
two steps (`ReadActive`, `ReadLast`) and cancels. `Shutdown` is the endpoint. Time
is `Tick`; ages are capped at `Idle`. Assumption, stated in the module: the two
reads of the watcher fall in the same tick.

### JsonlStream

The producer (`Pull`, `Diagnose`, `Fail`, `Finish`, `Panic`) fills a batch;
`SendBatch` and `SendError` block on a channel of `Capacity`; the server (`RecvFirst`,
`Emit`, `EmitTrailers`, `EmitEnd`) moves it to a connection with room for `Window`
frames; the client (`ReadHead`, `ReadFrame`, `Quit`, `Die`, `SeeBroken`) writes to
stdout and ends with an exit code. A panic of the producer only closes its end of
the channel: the client then sees a complete response, and `ExitCodeTellsTruth`
excludes that case.

### Routes, CCommandLine, Requests

A service is a sequence of operations with a verb, a path of literal and variable
segments, and parameters (where a value comes from, its kind, whether it is
optional, has a default, is skipped, is a stream, its constraints). `Routes` plans,
as the code does, the tree of commands, which path an operation is served under
for which of its optional segments, the method and path a client of the daemon
uses, and how a parser or extractor fills each argument. `CCommandLine` adds
`cli_scan` and `cli_parse` as folds over argv. In `Requests` a caller chooses an
operation and what it gives for each parameter (`Ask`), it becomes the words of a
command line, a request or a message in every way it may be spelled (`Send`), and
the generated code takes it or refuses it (`Answer`). `mode` is one of "clap",
"axum", "daemon" (clap in the client, JSON to the server), "c", "endpoint", "ws".
`Meanings` and `Legal` are what the interface promises, written independently of
the plan; `Differs` lists, front end by front end, the calls for which the code is
known to do something else, each a named operator with a comment.

### Schema, PlainWriters

`Schema` follows `sql/src` from models to what is declared: which models are
entities, `columnName` and `resolveRelTarget` of a relation, `entityTable` and
`internTable` with keys, unique lists and references, `internStorageFails`,
and `tableFacts`, which other generators read instead. `Resolved`
adds to a field what its relation `leads` to, which is "?" if it is nullable, and to
a model whether anything is `related` under its simple name. `PlainWriters` takes one model,
a back end and a strategy, makes the statement that back end generates
(`emitRusqliteWriter`, `sqlx_emitUpsertFn`, `go_emitUpsertFn`: columns, conflict
columns, updates, RETURNING) and runs it on a table with the constraints that
`Schema` declared, unless the script of the schema ended before the table was made
(`Undeclared`): `Execute` is SQLite, `Answer` what the function returns, with the
SELECT that follows when nothing was written. Actions are `Write`, `InsertValues`
(the positional writer) and `DeleteChildren`. `CasesAssumption` says which models are
meant: fields and columns have names of their own, a relation leads to a model, a
unique list is of fields of the model, and what the writer of rusqlite looks for is
among its parameters, without which the generated function does not compile.

### InternWriter

A database is a dictionary of words and the rows of each entity, both sequences
whose places are the ids (ids are given in order and nothing is deleted), with a
history of what callers were told and for which words they wrote. A writer goes
statement by statement through `intern_` (`InternInsert`, `InternSelect`) for each
field and through `upsert_` (`InsertRow`, `SelectId`) inside a savepoint, with or
without an outer transaction of its caller (`BeginOuter`, `CommitOuter`,
`RollbackOuter`), or calls `intern_` directly (`CallIntern`, `BareInsert`,
`BareSelect`). `CanWrite` is the write lock of SQLite. `Fail` is a statement that
returns an error; `Die` the death of the process. `TextTable` has one step per
upsert, commit or rollback and knows neither words nor ids. The refinement reads
committed and pending tables through the views (`View`). NULL in a unique key never
conflicts, so rows may repeat (`SameKey`).

### SyncFunctions, Sync

A program is its models (with their strategies), its sources and its bindings.
`SyncFunctions` generates from it, as `5_emit-rust.tsx` does, the struct and the
extraction of each binding, the GraphQL selection, and for each bound entity its
sync function: parameters, transport, freshness, the calls of the writers of
`packages/sqlx`, and for each kind of nested children where they are, how they are
written and which DELETE goes before them. `Fits` says that what these pieces name
and pass to each other is there and of the right type, `Odd` lists what an author
may write that makes them not fit.

`Sync` runs the function that was generated. The endpoint has a `version` and what
it `listed` (`Change`); time passes (`Tick`). `Call` asks unless the last poll is
recent; `NotModified` or `Answer`; per item `UpsertItem`, per kind of children
`NextKind`, `DeleteChildren`, `InsertChild`; `ItemDone`, `SetPollState`. `Fail` is a
request or statement that fails anywhere, after which what is written stays.
`NoFunctions` is the stuttering of a program whose functions do not fit.

### TaggedRows

`BeginInserts` computes the capacity of a statement per table from the two limits
(`StatementCapacity`, integer division as in the generated code); `InsertChunk`
runs one statement for one chunk; `RejectOrdinal`, `RejectLimit`, `Fail` are the
three ways to return an error. `SetLimits` changes the limits between calls.

### Regions

A file is a sequence of lines: sigils, generated lines with their version,
hand-written lines, blanks. `Emit` is the whole of the first emit or of the splice,
for both emitters (`emitter`); `WriteLine`, `CutZone`, `RemoveFile` and `CutSigil` are
what a user does. `Careless` names the emitters whose users also delete single
sigils.

### Emits

A file is its body (the program it was rendered for), the hash its header names
and what the user wrote in it. A compile (`Compile`) runs stages in any order in
which every library comes before every emitter (`InTurn`): the validation of each
storage library that is loaded, which refuses (`Diagnose`) or writes, and then the
Rust and the C emitter (`Begin`, `WriteFile`, `Finish`). Which
files are left alone is decided per rule: `autoFile`, `unchanged` (C),
`USER_OWNED_FILES`. `CutOff` is a write that fails or a process that ends: of the
writes under way any part may be done, cut or not begun. `EditProgram`, `EditFile`
and `WriteOwn` are the user between compiles.

### CTypes, CValues, CHeaps

`CTypes` has the identifiers (`cIdentifier`, names joined with underscores), all
symbols of a header and of the file of its code (`fileSymbols`), the members of a struct, the ordinals of an enum, and
`emitCThrows`. `CValues` has a value in C memory, in which every pointer names the heap
it lies in, and `create`, `json_encode`, `json_decode` over it; each takes the place of the one
allocation that fails. Integers have `Wide` bits, floats end at `FloatMax`, texts
end at NUL. `CHeaps` is a caller: `Build` (from memory of its own, right or wrong),
`Copy` (from heap to heap), `Encode`, `Receive` (a document from elsewhere),
`Decode` (the one just written), `Destroy`.

### DecoratorLibraries, Decorators

`readLibrarySpec` turns models into a description; `generateTs` (`decorator-codegen.ts`)
and `TsFile` (`generate.tsx`) turn a description into what the two files of a
library declare: names, parameters, factories with their state keys, accessors.
`Builds` says whether the result compiles. `Decorators` runs the factories
(`flagDec`, `valueDec`, `objectDec`, `listDec`, `exclusiveDec`, `merge`): `Apply` for a
decorator in the source, `Reject` for a target a decorator refuses, `Repeat` for
the copy of a property that a spread makes. The libraries of the repository (sql,
binding-core, clap, daemon, AsyncAPI) are there by their source.

## 3. What the runs check

Every property is stated in words above its definition.

| Run | Bounds | Shows |
|---|---|---|
| `daemon` | 2 daemons, 2 clients, 2 attempts, 1 upgrade, 1 fault, directory of its own, handshake; fair | `OneServer`, `ListenerPublished`, `NeverServedByOlder`, `NoRequestCutOff`, `ImplementsRendezvous`, `ClientsEnd`, `CancelledLeaves` |
| `idle_watch` | 3 requests, idle after 2 ticks; fair | `IdleMeansIdle`, `IdleDaemonEnds` |
| `jsonl` | 5 items, batches of 2, channel of 2, 2 frames under way, 2 diagnostics; fair | `StdoutInOrder`, `ExitCodeTellsTruth` (exit code and diagnostics), `ResponseEnds` |
| `requests` | 70 services of one or two operations, 6 front ends, 2 words | `RightCall`, `Verdict` |
| `plain_writers` | 25 models (23 accepted), 3 back ends, 3 strategies, 2 values, 2 rows, keys up to 3 | `Stored`, `TablesStand`, `KeysStand`, `RetrySettles` |
| `intern` | 2 connections, 2 words, 3 calls, 2 entities; symmetry | `ClaimsStand`, `NothingLeftBehind`, `ImplementsTextTable` |
| `sync` | 24 programs (7 fit), 6 documents of 2 items with 2 children of one kind and 1 of another, 3 versions, 2 failures; fair | `FunctionsFit`, `EtagMeansRows`, `Converges` |
| `tagged_rows` | 2 tables, 4 rows, 2 calls, limits that admit none, one or two rows per statement, ordinals up to 7 | `OkMeansAll`, `StoredInOrder`, `StatementsFit` |
| `regions` | 3 zones (1 of them may be empty), 2 versions, 2 hand-written lines, 3 emits, 2 edits, both emitters, single sigils deleted in TypeScript files; symmetry | `ManualPreserved`, `ZonesCurrent`, `EmitSettles` |
| `emits` | 4 versions of a program (2 interned, 1 refused), 4 sets of libraries, 9 files, 5 compiles and edits | `Current`, `OneWriter`, `UserCodeStays` |
| `heaps` | 22 programs (12 accepted), 2 heaps, 4 calls, integers of at most 3 bits; symmetry | `OwnMemory`, `CopyWhole`, `RoundTrip`, `ReadsTrue`, `NamesApart` |
| `decorators` | 17 described libraries written by both generators, 5 libraries of the repository and 3 parts of them, up to 3 applications, 10 types, 2 values | `AccessorsTell`, `GeneratorsAgree` |

All runs pass: every property holds, with the exceptions that it names. Each
exception is an operator of its own (`Differs`, `SetsRelationKeys`, `NotRepaired`,
`Muddled`, ...), so that what the code does not do can be read next to what it does.

Why the bounds are enough to be of interest. *Daemon*: two daemons give a server
and one that starts while it serves, ends or is dead; two clients give one with an
old and one with a new stamp; one upgrade makes the two stamps; a crash leaves the
stale socket. A third daemon has been explored without finding more, and the safety
properties are proved for any number. `MaxAttempts` is 100 in the code; what matters
is whether it runs out before or after the daemon is ready, and both happen with 2.
*IdleWatch*: one request may be entering, one running and one leaving. *JsonlStream*:
five items fill a batch, the channel and the window, and leave a partial batch.
*Requests*: the services hold every kind of parameter alone and beside one or two
others, and every pair of operations whose paths or commands meet; words are
"x" and one that looks like an option. *PlainWriters*: two rows are the fewest with
which one call meets one row by the list it is recognised by and another by a
second list; a key above those stored shows whether a key is given twice.
*InternWriter*: a word interned in a rolled back call, interned again by the other
connection, and used by a third call. *Sync*: an item or a child that comes, goes,
moves and comes back takes two changes and three calls; each thing of `Odd` has a
program that has it. *TaggedRows*: an empty table, a full chunk, a rest and a second
table; the proofs take over beyond that. *Regions*: an added, a kept and a removed
zone in one emit, and an emit after that; the proofs take over for files of any length.
*Emits*: a compile that is cut off, an edit and two more compiles. *CHeaps*: each kind of type occurs alone and inside another;
value, copy, document and copy of the document. *Decorators*: three applications are
one more than an exclusive pair or a list needs, on models with one name and on a
property that is copied.

Deadlock is checked, except where counters of emits, calls or steps are bounds of
the model (`regions`, `tagged_rows`, `plain_writers`, `emits`, `heaps`,
`decorators`): a run stops when they are used up. The other specifications end in
explicit stuttering at a state where all is over (`AllOver`, `Done`, `Over`,
`AllQuiet`), or go on for ever (`requests`, `sync`).

### Fairness

- `Daemon`: weak fairness of the steps of each daemon, of each client, and of
  accepting and answering each connection. These are single system calls or tokio
  tasks that are always scheduled again while they can run. None for `Upgrade`,
  `Crash` and `Cancel`: nothing makes them happen. Clients end because of
  `MaxAttempts` and because a listener that closes resets its queue, not because of
  a timeout.
- `IdleWatch`: weak fairness of each request (handlers end; a body ends or is
  dropped), of the watcher, of the server, and of time.
- `JsonlStream`: weak fairness of producer, server and client. The operation is
  assumed to finish its stream, fail or panic.
- `Sync`: weak fairness of the statements of a call and of time; the program calls
  again and again, as one that polls does.

## 4. Disagreements between code and documentation

Met while the modules were written. No run is kept for them; each is visible in the
model as an exception or an excluded case.

- `src/chat_log/20260330.2.fact-extraction-sql-emitter.md:20` says that a foreign key
  is resolved to the key of its target. The type of a nullable relation, `Org | null`,
  is a union, for which `resolveRelTarget` gives "?" (`sql/src/2_facts.ts:8-12`); a plain
  model that has one is declared with `REFERENCES ?(id)`, which SQLite does not read
  (`OddTarget`, `Undeclared`; the cases "guest" and "afterGuest" of the run).
- `binding-core/README.md:54` says that collisions of generated SQL names are rejected.
  The indexes of ordinary models are not registered, and CREATE INDEX IF NOT EXISTS
  passes over the second of two with one name (`sql/src/5_emit_sql.ts:78`; `Registered`
  leaves them out as the code does, and no property is about them).
- `c/README.md:8-9` says that collisions of mapped symbols are errors. The table
  `E_strings` in the code of an enum (`c/src/emitter/2_emit.tsx:125`) is not looked at and
  is called like an enumerator `strings` of it (`NamedAsTable`; the run has that enum).
- `server_auto.rs:229-232` prepares the socket's parent before the fork so that
  failures reach the caller. A daemon that ends removes that directory (277-280) even
  after a starting daemon has prepared it; the bind of the new one then fails after
  the fork, in silence. It needs the socket directory for long paths.
- `client_auto.rs:101` says the old daemon cancels itself when its executable
  differs. The daemon compares with the stamp of the *file*, read after start
  (`server_auto.rs:257`). If the file is replaced before that, it answers OK to new
  clients and runs the old image for ever. `NeverServedByOlder`, which is about
  stamps, holds.
- `3_ReplaceFile.tsx:26-27` says that everything outside zones is preserved. If the
  user deleted the start sigil of a zone that is no longer given, the zone is
  stripped from offset 0 (151, 173); so `Careless` leaves the Rust emitter out.
- `binding-core/lib/sync.tsp:7` says "INSERT each" of `delete-replace`; the writer is
  `INSERT OR IGNORE`, so a child with a key of its own that moved to another parent
  is not inserted while its old row is there (`LosesMoved`).
- The same sentence of `c/README.md`: the
  symbols made from members and variants are compared without the underscore that a
  keyword or a leading digit gets (`c/src/emitter/2_emit.tsx:205-207`, `Respelled`),
  and those of the store are not compared with the rest (`4_store.ts:60-75`).
- `sql/lib/entity.tsp:11` calls `@unique` a composite constraint on the field and the
  fields it names; the field it stands on is left out of the list
  (`sql/src/1_decorators.ts:8-13`), and so it is of `@index`, whose comment says "this
  field plus additional fields".
- The sections for configuration let a value of the command line replace that of the
  file also when the flag was not given (`5_emit-rust.tsx:510-522`; not modelled).
- `src/examples/ghcacher`: `pr_label.tsp` uses `delete-replace` with a relation whose
  column is not the one the DELETE names (`5_emit-rust.tsx:349`), and `repo` has a
  field without a source, which the generated extraction does not set. Both are
  among the programs of `Odd`.

## 5. What is proved

All proofs are checked by TLAPS to the last leaf.

**Daemon** (`DaemonProofs`), for any set of daemons and of clients, any number of
attempts, upgrades and faults, with and without handshake and separate directory,
from `DaemonAssumption` only (`None` is no daemon, the options are Booleans,
the bounds natural numbers, and at least one attempt is made):

- `Invariance`: `Spec => []IInv`, where
  `IInv == TypeOK /\ AttemptsInv /\ LockInv /\ FilesInv /\ WireInv /\ StampInv`.
- `TypeCorrect`, `MutualExclusion` (`OneServer`), `Published`
  (`ListenerPublished`), `FreshEnough` (`NeverServedByOlder`), `Graceful`
  (`NoRequestCutOff`), `Refinement` (`ImplementsRendezvous`).

Why the conjuncts are needed. `OneServer` alone is not inductive: it needs that the
phases between `TryLock` and `Exit` are those of the lock's holder (`LockInv`).
`ListenerPublished` needs that nobody but the holder makes or removes a socket
file (`FilesInv`). `NoRequestCutOff` needs that an exchange under way belongs to a
daemon that listens or drains (`WireInv`). `NeverServedByOlder` needs the least
obvious one: stamps of the file only grow and a daemon reads its stamp *after* it
took the lock, so successive holders have stamps that do not decrease; once a
client was told OK by one holder, no later holder is older than the client
(`StampInv`). Reading the stamp before the lock, the mutation `ReadStamp_BeforeLock`,
breaks exactly this.

**TaggedRows** (`TaggedRowsProofs`), for any number of tables, columns, lengths,
limits and rows, from `TaggedRowsAssumption`:

- `CapacityFits`: n rows fit in one statement, by variables and by length, exactly
  if n is at most `StatementCapacity`. The integer division with the separator
  counted on both sides is neither too large nor too small. It rests on the lemma
  `Quotient`.
- `Complete` (`OkMeansAll`), `Ordered` (`StoredInOrder`), `TypeCorrect`,
  `WithinLimits` (`StatementsFit`). The inductive invariant `IInv` adds to `TypeOK`
  that at every point the stored and the remaining rows of each table are the
  batch of the call, in its order (`Accounted`).

**IdleWatch** (`DaemonProofs`), for any set of requests, finite or not, and any
idle time of at least one tick, from `IdleAssumption`:

- `CancelsOnlyIdle` (`IdleMeansIdle`), `WatchTypeCorrect`, and `WatchInvariance` of
  `WatchInv == WatchTypeOK /\ Counted /\ QuietLags /\ CheckStands`.

The counter is exactly the number of requests between `fetch_add` and `fetch_sub`
(`Counted`, with the cardinality lemmas of finite sets). The watcher reads two
atomics one after the other, so the property is about a step whose premises were
read earlier: `CheckStands` says what is left of the first read at the time of the
second. A request that came in between has not passed `touch` yet, or it has set
the time of the last activity back. `QuietLags` says that this time is ahead of the
last end of a response only while a guard is about to set it.

**JsonlStream** (`JsonlStreamProofs`), for any number of items of any sizes, any
sizes of batch, channel and connection, and any number of diagnostics, from
`StreamAssumption`:

- `PrintsInOrder` (`StdoutInOrder`), `TellsTruth` (`ExitCodeTellsTruth`),
  `TypeCorrect`, and `Invariance` of `IInv == TypeOK /\ Flow /\ ProducerInv /\
  ChanInv /\ ServerInv /\ WireInv /\ ClientInv`.

`Flow` carries the argument: what is printed, what is on the wire, what the server
holds, what is in the channel and what is in the batch are the items cut at places
that follow each other (`Chain`, a witness of the cuts, in place of a concatenation,
which would need an induction). The lemmas on `Chain` say what taking the first piece,
adding one, and growing the last do to it. The other conjuncts tie the phase of each
party to what is in front of it: an error row is the last message of the channel, the
head comes first, trailers after all data and the end after them, and an exit code that
was remembered is that of an operation that failed.

**InternWriter** (`InternWriterProofs`), for any connections, words, entities with
any lists of fields and any key among them, from `InternAssumption` (`Null` and
`Nobody` are no words or writers, an entity has a field and its key is of fields):

- `IdsStand` (`ClaimsStand`), `FailureLeavesNoWord` (`NothingLeftBehind`),
  `TypeCorrect`, and `Invariance` of
  `IInv == TypeOK /\ DbInv /\ CallType /\ \A w \in Writers : WriterInv(w)`.
- `TablesOfText` (`ImplementsTextTable`): `Release` maps to an upsert of plain text,
  `CommitOuter` to a commit, a rollback, a failure or a death of the one that holds
  the database to a rollback, and every other step to a stutter.

`DbInv` says of all three copies of the database (`disk`, `mark`, `mem`) that words and
keys are distinct, that ids in rows are of words that are there, and that every row
still has the text its caller was told of (`Sound`); that each copy has the words of the
one before it; and that only `mem` may hold words nobody has said yet. `WriterInv` says
of each writer how far it has come with its fields, which ids it holds, and what its view
of the database has more than the savepoint's: new words show in no view before their
row does. Ids are held by the writer that holds the database only, which is why none
outlives a rollback. The refinement rests on `SpellsParts` and `UpsertedView`: two rows of ids have
one key exactly if their texts have, so ON CONFLICT on ids is a conflict of texts.

**Sync** (`SyncProofs`), for any programs, any documents the endpoint may list, any
number of its versions, of calls and of failures, from `SyncAssumption`:

- `ValidatorMeansRows` (`EtagMeansRows`), `TypeCorrect`, and `Invariance` of
  `IInv == TypeOK /\ ValidatorInv /\ (Fresh => AnswerLeft /\ ItemsDone /\
  ItemAtHand) /\ EtagMeansRows`.

The property speaks of the moment a validator is stored. Its invariant speaks of the
loops before that, as long as the answer is of the version the endpoint still has
(`Fresh`): the items that are left are the end of its document (`AnswerLeft`), those
before are in the tables with all their children (`ItemsDone`), the one at hand with
those of the kinds that are done (`ItemAtHand`). What a statement for one item does to
the rows of another is in the lemmas `OthersDeleted` and `OthersInserted`; they need
that the endpoint lists an item once and a child of a kind with one item.
`ValidatorInv` says that a call that works on an answer did not have the validator of
that version, so it cannot take the way of `NotModified`.

**Emits** (`FilesProofs`), for any versions of the program, any bodies, any sets of
libraries and emitters, any routes that keep files apart, and any number of compiles,
edits and writes cut off, from `EmitsAssumption`:

- `EndsCurrent` (`Current`), `WritesAlone` (`OneWriter`), `UserCodeIsKept`
  (`UserCodeStays`, an action property), `TypeCorrect`, and `Invariance` of
  `IInv == TypeOK /\ StageInv /\ PendingInv /\ CurrentInv /\ WritersInv`.

`CurrentInv` says what is true in the middle of a compile: it is going to be refused
(`Doomed`), or every file is good, or waits to be written, or is of a stage that is
still to come (`Settled`). `SkippedIsGood` is the point where the rules differ: a file
that a rule leaves alone is one that is good already, unless it is one of
`NotRepaired`. `PathsApart` and `OwnFiles` are what the assumption on routes is for.

**Regions** (`FilesProofs`), for files of any length, any zones and versions, any number
of emits and edits and both emitters, from `RegionsAssumption` and `MissingAssumption`:

- `HandsSurvive` (`ManualPreserved`), `ZonesStayCurrent` (`ZonesCurrent`) and
  `EmitsSettle` (`EmitSettles`), all action properties; `FileTypeCorrect`
  (`FileTypeOK`); and `FileInductive`: `FileSpec => []FileInv`.

The theorems suppose `"rust" \notin Careless`, as in the run: section 4 has what becomes of
a Rust file that lost a single sigil. TypeScript files may lose any.

`FileInv` says that a file is `WellFormed`: no line but blank ones is there twice, and
between the two sigils of a zone stand the generated lines of that zone, all of them and
nothing else but blank lines (`Whole`); a file of the Rust emitter also has no half of a zone (`Paired`).
Without `Whole` the splice could take a line of the user for one of the zone.

A splice cuts the old file at offsets and puts pieces of it and new lines together, in the
order of the sigils. The proof gives each line that is to be in the new file a number, its
key: twice its old place; one more than its zone's start sigil, if it is new content; for
the zones that are added, numbers above those of the last zone on disk, to which the lines
behind it make room (`SpliceKeys`). A piece is `Keyed` if it has exactly the
lines with keys in an interval, in the order of the keys; two such pieces whose intervals
meet are such a piece again (`KeyedConcat`), hence all turns of the loop together are
(`KeyedFlatten`, by the smallest turn that is not). That the loop takes the zones by
position is in `SortedZones` and `Seats`. So the new file is the lines with keys in their
order, and what the properties say of it is arithmetic on keys: lines of the user keep
their old places (`HandsKept`), those of a zone lie between its sigils (`SplicedFresh`),
and when the file is fresh already the keys are in the order of the places
(`FreshSettles`).

**PlainWriters** (`PlainWritersProofs`), for any schemas, back ends, strategies and
values and tables of any size, from `WritersAssumption` and `CasesAssumption`:

- `KeysStandForGood` (`KeysStand`, two action properties), `StoredAsCalled`
  (`Stored`), `RetriesSettle` (`RetrySettles`, an action property),
  `TablesFitTogether` (`TablesStand`), `TypeCorrect`, and `Invariance` of
  `IInv == Tables /\ LastCall`.

The proof has two halves. The first is about what is generated, for every model: the
declared table (`ColumnsFit`: a rowid is the whole key, every unique list is of
columns of the table, a key that the database gives has a counter) and the statement
that each back end writes for it (`StatementFits`: what ON CONFLICT names is unique in
the table, no key is updated, every other column is updated or recognised by). All the
exceptions by name in section 6 come from here. The second is about calls.
`Tables` says that rows are distinct by every unique list and that the counter covers
the keys of rows, so that the next key is in no row (`NextKeyIsNew`, from the lemma
`Greatest` on sets of numbers). `Executed` sorts what SQLite does with a statement into
`Inserts`, `Updates` and `Leaves`. `LastCall` says what the last call left in the table
without the key that the database filled in: a row with all that it gave (`Settles`),
a row for which it was ignored (`Holds`), or one that was in its way (`InTheWay`). It
is what a retry meets: the same call finds that row, sets in it what is there, and
clashes with nothing, because rows are distinct.

`TablesFitTogether` is about the whole schema instead of one table, again for every
list of models that is not refused. Names: two tables, dictionaries or views of one
name would come from one place (`PlaceOfTable`, `NamesStand`), because the plan refuses
a name that is registered twice. Columns of one view have names of their own
(`ColumnsStand`). References (`ReferencesStand`) follow a relation, if it leads to a model
(a nullable one of a plain model does not, `OddTarget`), to the one key of that
model, plain or interned (`KeyOfPlain`, `KeyOfInterned`), and an interned
field to the key of its dictionary (`KeyOfDictionary`). What is told to the other
generators is declared (`ToldAsDeclared`), table by table.

**Decorators** (`DecoratorsProofs`), for any described libraries, from
`DecoratorsAssumption`: types have names and owners as a program gives them
(`TypesAssumption`), descriptions are well formed (`WellDescribed`), and a library that
is used at all compiles.

- `AccessorsAlwaysTell` (`AccessorsTell`);
- `GeneratorsAlwaysAgree` (`GeneratorsAgree`);
- `DecoratorsTypeCorrect`.

What accessors return is about a store that forgets and a history that does not, so
the inductive invariant (`StateTold`) ties the two, slot by slot. `Wrote(slot)` are the
applications that wrote a slot; if all are of one shape (`Alike`), the slot holds what
the last one says (`LastInv`: flags, values, records), what each of them says in order
(`ListInv`), the value of the first (`FirstInv`), or field by field what the last that
gave it says (`MergeInv`). Diagnostics are one less than the applications (`ReportsInv`).
These are true with and without the exceptions of `AccessorsTell`: the state maps are
never wrong, it is the meaning of a slot that is lost. That is the second half
(`AboutIs`): without a key shared by what does not belong together (`SharedKey`), or types
that a name does not tell apart (`SameName`, `Copies`), the applications that wrote the
slot of an accessor are those it is for; for a merged record, those of the one
decorator that has the field (`FieldOnce`, from `Builds`). `BuiltIsSaid` closes the gap from
the arguments the compiler passes to the names in the description, options included.
The proof made two exceptions wider than the runs had needed: `SharedKey` also when
places differ or one decorator's name is the key of another, and `OnlyFirst` for every
decorator of the key. The positions of applications are sets in their order
(`InOrder`, `Rank`), so that one more application is one more element (`OneMore`).

The two generators are compared piece by piece for one decorator (`SamePassed`,
`SameInterface`, `SameFields`, `SameFactory`, `SameAccessors`) and then for the library (`SameLibrary`,
`BothBuild`). The proof found what no example had shown: `generate.tsx` leaves out the key
that a decorator with several parameters or a list names (`factoryCall`), while
`decorator-codegen.ts` uses it. Usually nobody can tell, as the key is the library's
own; but if another decorator names as *its* key what the first would have been kept
under, one generator keeps the two apart and the other does not. `KeyIgnored` is
that exception, and the run has a library with it.

**Only model-checked.** Liveness (`ClientsEnd`, `CancelledLeaves`,
`IdleDaemonEnds`, `ResponseEnds`, `Converges`): TLAPS here does neither fairness nor
`ENABLED`. `FunctionsFit`, `RightCall` and `Verdict`: what lists put
together by folds, flattening and selection amount to, for every list, needs an
induction, which the installed provers cannot take from the theorems of the library.
(Minimal counterexamples can be taken by hand, formula by formula: `Least` in
`PlainWritersProofs` and `DecoratorsProofs` does so for numbers. `TablesStand`,
`AccessorsTell` and `Regions` were restated with sets and functions of places instead,
and proved.) `CTypes`, `CValues` and `CHeaps` are recursive over types and values.
The type invariants of the modules with proofs are proved and no property of a
run; those of the others hold in the instances of section 3 and document their
state.

## 6. Abstractions to know of

- *Daemon*: one exchange per client; TCP-level errors are refused and reset; the
  removed directory is the only failure of a system call that a fault does not
  cover. On platforms where `current_exe()` of a replaced file names the removed
  file, `ReadStamp` fails and the daemon ends without files of its own, which has
  the effect of `Crash` at that point.
- *Requests*: clap, axum and matchit are external and modelled by how the generated
  code uses them; a call of clap is words and flags, of the C parser every token of
  argv. Values are symbols: numbers are parsed where a range is checked and nowhere
  else. Abbreviated option names (getopt_long takes them), delimiters inside a
  value, maps, help texts and arguments of a root model are left out.
- *Schema, PlainWriters*: SQLite is external; foreign keys are not enforced (the
  generated code does not switch them on), letter case and most scalar types are
  left out. A call is one step: it is one statement, or two in a savepoint that has
  written. Exceptions by name: `SetsRelationKeys` (SQLx and Go take a key that is a
  relation for a column to be set on conflict) and `NamedAsKey` (they take a field
  whose column is called like such a key for a key), `NoRowReturned` and `NotCalledId`
  (they use `RETURNING id` with fetch_one, whatever the key is called, even if another
  column is called id), `ManualMissing` and `ManualUnique` (nothing fills a column
  without a default, and a default is the same in every row), `NoColumns`, `KeyKept`
  (the row that a call met keeps its key, and so may clash with another one in columns
  the call gave another value for), `KeysGiven` (a call that leaves a nullable key to the
  database is given a new one each time), `OddTarget` (a reference to what is no
  single plain key, or by a nullable relation of a plain model) and `Undeclared` (a table
  that such a relation keeps from being made). The run has a model for each of them.
  Relations to scalars, which lead to "?" as well, and the plain indexes of
  ordinary models are left out. Relations are kept by the simple name of the model
  (`sql/src/1_decorators.ts:54-59`), so models of one name share them; `relationsOf`
  does that too.
- *InternWriter*: statements are atomic, savepoints nest, one writer at a time.
  Interned fields only; a second unique key is one more failing statement.
- *Sync*: one call at a time; validators do not recur; rows are recognised in one
  way, by columns that are given, and have others beside them. An item with only a
  key that the database gives and no unique list is stored anew by each sync. What
  the Rust compiler and a GraphQL endpoint accept is external and stated by `Fits`.
  Pages, Rust keywords, names with a leading underscore and properties of type
  `never` are left out. An endpoint lists an item once, and a child of a kind with one
  item. `LosesMoved` is the one exception of `Converges`.
- *Regions*: lines of files stand for offsets. Zone ids that occur twice, nested
  sigils and files without a final newline are left out. `EmitSettles` is up to
  blank lines, because an empty zone of the Rust emitter gains one per emit.
- *Emits*: the user edits between compiles only. A file that is cut off keeps its
  header, the worst case for the rule of the C emitter. Routes of the crate lead files
  to different places, none of them the place of a file of another emitter. Two kinds of files are not
  repaired (`NotRepaired`). Files of earlier versions that the program no longer has
  are left behind and looked at by no property.
- *CTypes, CValues, CHeaps*: inheritance is taken as flattened; the range of
  enumerators, unnamed unions of several types, number and boolean literals and the
  precision of floats are left out; values are acyclic; one allocation fails per
  call, and none while a document is written. A run is about one value and its
  copies. `NamesApart` is about headers, structs and files of code, with
  `Respelled` and `NamedAsTable` as its exceptions; the helpers of fixed names and what
  the JSON and heap libraries declare are left out. `NullText` (a JSON null in a field
  that may be NULL) is an exception of `RoundTrip`.
- *Decorators*: the application of decorators is the compiler's and external, as is
  that it runs them again for the copy of a property. Names are injective in case
  and dashes; comments and the exact text of files are left out. Exceptions by name:
  `SharedKey`, `OnlyFirst`, `SameName`, `Copies` (together `Muddled`) and `LeftOut`. A
  list kept under the key of another shape stops the compile (`Pushes`).

## 7. Plan

Order of further work, the most important first.

1. Proofs: what `FunctionsFit` says of one generated function, from `ColumnsFit` and
   `StatementFits`, by inductions written out on the pattern of `Least`.
2. Input streams of requests and raw responses, in `JsonlStream` or beside it.
3. The sections for configuration, command line and HTTP of `5_emit-rust.tsx`, as
  operators beside `SyncFunctions`.
4. The walk of `emit-helper` over small type graphs: termination on cycles, one
  declaration per type.
5. The store of the C generator as a fourth back end of `PlainWriters`.

## 8. Not modelled

- Scopes, symbols and references of Alloy for Rust, and printing in the C generator,
  run on the reactive scheduler of `@alloy-js/core`, which is not in the repository.
- The C store is one plain INSERT or SELECT per call; the extraction of the Go
  emitter reads fields from JSON; both are without state of their own.
- The walkers of `emit-helper` and the React generator are functions of one compiled
  program; the files of the latter go through `Regions`.
- Tools, examples and design notes have no behaviour of their own.

## 9. Running

    tlc -config daemon.cfg MCDaemon
    tlapm DaemonProofs.tla

The other proofs are in `TaggedRowsProofs`, `JsonlStreamProofs`,
`InternWriterProofs`, `SyncProofs`, `FilesProofs`, `PlainWritersProofs` and `DecoratorsProofs`. All pass with the default time
limits; `FilesProofs`, `JsonlStreamProofs`, `InternWriterProofs` and `DecoratorsProofs` take some minutes.

`runs` in `PROJECT.json` names the module and configuration of every run. The
longest (`daemon`, `regions`) take two to four minutes with two workers, the others
less than two.
