# A verification development of ambry

ambry is a key-value store in C++: a library that keeps a database in three
files, a command interpreter with users and permissions on top of it, and a
server with a python client. This directory models it in TLA+, checks the models
with TLC and proves theorems with TLAPS: about the storage engine, its crashes, the
bytes of its index file, transactions, the clients' databases, users and permissions,
and the server with its clients.

Contents: [the system](#the-system) ·
[modules](#modules-and-the-code) · [runs](#runs) · [fairness](#fairness) ·
[proofs](#proofs) · [where the code departs from its promises](#where-the-code-departs-from-what-it-promises) ·
[not modelled](#not-modelled) · [plan](#plan)

## The system

| part | state | operations | talks to |
|---|---|---|---|
| `DB` (lib/db.cpp) | index, free list, cache vector, options | open, close, destroy, set, get, get_cached, update, erase, switch_cache | RW, Cache and IoManager by calls; all four share one `DBContext` |
| `RW` (lib/rw.cpp) | none of its own | write, update, free, find_free, manage_free | free list in memory and `.free` |
| `Cache` (lib/cache.cpp) | none of its own | write, write_at | the vector |
| `IoManager` (lib/io_manager.cpp) | three descriptors | load and write `.dat`, `.idx`, `.free`; flock, unlink | the file system |
| `Transaction` (lib/transaction.cpp) | a list of commands, as views of the caller's memory | set, update, erase, commit | DB |
| `Interpreter` (aci/aci.cpp) | table of open databases, logins with their working databases, users, roles | parse, interpret, some thirty commands | DB; its users and roles are two more databases |
| `Server` (server/server.cpp) | listening socket, epoll set, connections | listener thread; receive, execute, answer on the main thread | Interpreter by calls, clients by TCP |
| client (server/client.py) | none between two turns | poll stdin and socket; ask for the database's name; send a line; print an answer | Server |
| server options (server/flags.hpp, main.cpp) | a table of flags | parse the command line | Server, once at the start |
| ASF (lib/asf.cpp) | marks in a schema | serialize, deserialize, check against a schema | nobody |

What is hard to get right here, and hard to test:

* **Space.** The free list exists twice, in memory and in `.free`, with different
  rules (`manage_free` drops every extent of one length from memory and one slot
  from the file). A byte with two owners shows only after erases, sets and
  reopenings in the right order.
* **An object that is used again** after `destroy` keeps the keys of the deleted files
  and writes where their records were.
* **The cache** has to follow `.dat` through appends, reuse and loading.
* **Crashes** between the system calls of one `set`, `update` or `erase`.
* **Views**: a transaction executes what the caller's buffers hold at the commit.
* **Shared objects**: several clients point to one `DB` object, which one of them
  can close; descriptor numbers are closed twice, while another thread accepts
  connections.
* **Permissions** are counted, not compared; accounts, roles and what the command
  table asks for are kept in three places with three lifetimes (two databases, a
  map of logins, a table in memory), and records of accounts are rewritten from
  what they say.
* **Bytes**: records without marks or checksums, lengths cut to one or two bytes,
  byte orders, quotes and escapes.
* **Framing and one thread**: requests in two parts, batches of events cut short,
  clients that end at any moment, answers that wait for room.

`PROJECT.json` lists every such hazard at its line, with the properties that
cover it.

## Modules and the code

| module | what it is | models |
|---|---|---|
| `KVStore` | abstract specification | what the library promises: a map, and the answer of the last call |
| `Storage` | one DB object and its files, one action per call | lib/db, rw, cache, io_manager |
| `StorageCrash` | the same calls, taken apart into system calls, with `Crash` | the same, at the granularity of writes |
| `Transaction` | a list of commands on a `KVStore` | lib/transaction |
| `Workspaces` | abstract specification | what the interpreter promises: each client works on the database it chose |
| `Sessions` | table of databases, DB objects, logins, descriptors | aci/aci.cpp (databases), server.cpp (accept, end of a connection), io_manager.cpp (descriptors, locks) |
| `IndexFile` | `.idx` byte by byte, with byte orders and writes cut short | lib/io_manager.cpp |
| `Accounts` | abstract specification | what the interpreter promises about users, roles and permissions |
| `Permissions` | the two internal databases, logins, what `create_user` asks for | aci/aci.cpp (users and roles) |
| `Parser` | `parse` as functions on sequences of characters | aci/aci.cpp (from `ParserCtx` on) |
| `Asf` | serializing and deserializing as functions on sequences of bytes, schemas | lib/asf.cpp, asf.hpp |
| `Flags` | the command line of the server as functions | server/flags.hpp, main.cpp |
| `Formats` | somebody writes, `Parser`, `Asf` or `Flags` reads | the three together |
| `Server` | listener, command loop, python client and network as processes | server/, client.py |
| `MC*` | values for the constants of the runs | |
| `Recursion` | induction, recursive functions, sequences and `FlattenSeq` | |
| `StorageProofs` | theorems about `Storage` and `StorageCrash`: invariants, then the refinements | |
| `IndexFileProofs` | theorems about `IndexFile` | |
| `TransactionProofs` | theorems about `Transaction` | |
| `SessionsProofs` | theorems about `Sessions`: invariants, then the refinement | |
| `PermissionsProofs` | theorems about `Permissions`: invariants, then the refinement | |
| `ServerProofs` | theorems about `Server` | |
| `FormatsProofs` | theorems about `Formats` and what it extends: one part per reader | |

`Storage` refines `KVStore`, `StorageCrash` extends `Storage` and refines
`KVStore` as well; `Transaction` extends `KVStore`, so that what is checked of it
holds of every database that implements the map; `Sessions` refines `Workspaces`.
`Permissions` refines `Accounts`. `Sessions` and `Permissions` share the logins:
in `Sessions` whoever is logged in has the permissions the commands on databases
need, in `Permissions` a login has no working database, and no command of one
changes what the other one's properties are about. `IndexFile` is the layer under
`Storage`: what `Storage` takes for a sequence of records is there a sequence of bytes.
`Formats` extends the three modules of pure functions. `StorageProofs` extends
`StorageCrash`, which adds actions and one assumption about a constant of its own to `Storage`.
`Server` and `Sessions` meet in one number: a request is, for `Server`, the number
of commands in it, and every command gets one answer.

**Storage.** `index`, `freeList`, `cache` and `cached` are the fields of
`DBContext`; `datFile`, `idxFile`, `freeFile` the three files; `datPos` is the
position of the `.dat` descriptor, which `load_dat` reads from. A byte of `.dat`
is a byte of the model. A record of `.idx` is a record with its valid byte, a slot of
`.free` an offset and a length; their byte positions are the numbers of record
and slot. `Allocations` is `find_free` and `manage_free`; `SetNew`, `UpdateFound`
and `EraseFound` are the calls from their first test to their last write.
`CacheSlices` says what a view into the vector's memory may show: the elements,
and any bytes past the end. `FreedRecord` is the index node that `erase` uses
after it freed it (lib/db.cpp:94): the node's own record if `FreedIntact`, any
record or none otherwise. An object that was destroyed keeps what it has in memory,
and if it is opened again (the call "reuse") its positions are those of the deleted
files: a write past the end of `.free` leaves slots of zeros in between, one past the end of `.idx`, or
where another key's record is, leaves bytes that `load_index` cannot take apart.
`torn` says that this has happened, and `Misread` which entries it may find from
then on. Whether a position of a deleted file meets the key's own record in the new one is decided by the number of
the record (`OwnRecord`), which says the same as its bytes if keys are of one length. `Calls` and `CacheModes` say which calls a workload makes,
so that runs and theorems can name the calls they are about.

**StorageCrash.** `pc` is the system call that comes next and `job` the local
variables of the running call. `Crash` keeps the files and loses everything else. The
databases have no cache: `CInit` and `Quick` make none that has. `BeginUpdate` has the two
branches of `RW::update`: a value that is not longer is given new space, a longer one is written
over the old extent. What the latter does to a key and its neighbour if the process dies is in the table [below](#where-the-code-departs-from-what-it-promises).

**Transaction.** A command holds the buffer it views (`view`), and, for the
property only, what the buffer held when it was queued (`queued`).

**Sessions.** A database is one file and one descriptor (the three are opened,
locked, closed and unlinked together), and its content is one value. `dbt` maps a
name to the address of its object, `obj` an address to the object, so that a
working database whose object was deleted is an address outside `obj`, and may be
one that a new object has. `fdt` is the table of the process's descriptors, which
files and connections share. `close`, `close_all` and `destroy_all` close
descriptors twice, once by the call and once by the destructor: `Drop` is the
second half, and the listener, which runs at any time, may accept a connection in between. The commands `destroy_open`
and `destroy_closed` are `destroy` of a name that is in the table or not;
`switch_logged_out` is `switch` of a client that has not logged in.

**IndexFile.** `file` is `.idx`, `index` what the process has in memory, with the
position of the valid byte of each record, as in the code. A number is a sequence of
digits to the base `Base`, in the order of `machine`; `Fits` says that it has no more
of them than there are bytes. `Open` is `handle_endian` and
`load_index`, whose recursion is the loop over records, each found behind the one
before; what `read` leaves untouched at the end of the file is any byte. With
`Travels` a closed database may be opened on a machine of the other order, with
`Short` a record may be written in part.

**Permissions.** `users` maps a name to the fields of its record (the password, then
roles), `roles` a name to its permissions, `logins` is the interpreter's map of
descriptors, and `gate` what the command table asks for `create_user`: nothing
while there is no account, every permission after the first was created, its own
after a restart. Since `perm_table` lacks one of the permissions, nobody can have them all, and
`create_user` is refused from the first account to the next start. `Length` is the
length of a name or a password: it decides what a record reads as, because a field has a
length of one byte, signed in `calculate_perms` and unsigned in `get_field`. One
action is one command that passes the checks of `interpret`. `Liberties`, `Damaged`
and `Misread` are what callers allow themselves, what becomes of a record whose
neighbour grows over it, and what a role of 256 characters reads as.

**Parser, Asf, Flags, Formats.** Three readers as pure functions: of command lines,
of serialized maps, of command-line options. `Formats` makes a system of them: a
writer produces the bytes (by `serialize`, or as a person types a command or starts
the server) and keeps in `given` what it meant; `taken` is what the reader makes
of it. Between two readings only the marks in a schema survive. "beyond" is the
status of a reader that ran past its buffer (in the code, an exception or any
bytes), "dead" that of one that wrote through an end iterator. `Value[d]` are the
values that are nested at most `d` deep, with the limits of the format: bytes up to
255, keys up to `MaxKey` bytes, everything else up to `MaxLength`, as far as the
loops of the code count. A numeral, to the parser of options, is one token of `Flags`: all
the digits that stand together. What the code does by recursion over trees of values is
here a function: `_serialize` of the values, level by level, `_deserialize` of the
offsets, where each level of nesting is behind the one around it; the loops over the items
of an array or the pairs of a map are functions of the number of those that were read.

**Server.** An answer is one message of the server's, but the client asks for it
with one `recv` for the head and one for the body (client.py:21): unless `WholeReads`, either may
bring a part only. `skew` says that the client then takes other bytes for a head; from
there on it may read any part of what has arrived as an answer, find the beginning of an answer again,
or wait for more than there will be (`ReadShort`, `ReadSkewed`, `ReadOn`).
A request is a head and a body that arrive as separate pieces, and a
"tail" of bytes when the client counted characters (client.py:18). `pc` is where the main thread is,
`events` what it has left of the batch, `msgs` what it received. "starved" is the
state in which left-over bytes were taken for a length, "spin" the loop of
`recvall` at the end of a stream, "dead" the signal of a write to a lost peer. A
connection has room for `OutCap` answers, after which `send` blocks.

## Runs

Twelve runs; the time is for two workers.

| run | properties | what it shows |
|---|---|---|
| `storage` | NoSharedSpace, OneRecordPerKey, ReloadAgrees, CacheMirrorsFile, ImplementsKV | sets, erases, reads (cached and not), updates that do not grow, closing, destroying and opening: the files implement the map (1–2 min) |
| `storage_all` | TypeOK, OneRecordUntilTorn | every call, the faulty ones as well, also of objects that are used after `destroy`: until such an object has written astray, no key has two records |
| `storage_grow` | OneKeyChanges, **violated** | an update with a longer value overwrites its neighbour |
| `index_file` | ITypeOK, FileSpellsIndex, HeldByCalls | the bytes of `.idx` say what is in memory, through closings and reopenings |
| `crash_set_update` | CrashNoSharedSpace, CrashImplementsKV | a set, or an update with a value that is not longer, cut short anywhere has happened or has not |
| `transaction` | TTypeOK, CommitRunsQueued | a commit runs what was queued up to the first failure |
| `sessions` | DescriptorsOwn, ConnectionsKept, WorkingDbAlive, StaysUp, OpenMeansOpen, ImplementsWorkspaces | considerate clients are kept apart, whenever the listener runs |
| `sessions_all` | SessionsTypeOK, OneDescriptorPerFile | every command in every order, two names of one file, descriptors running out |
| `permissions` | PTypeOK, OpenOnlyAtFirst, PermissionsAsGranted, ImplementsAccounts | accounts and what they may do change only by those who may change them (1–2 min) |
| `formats` | LinesAreCommands, ScriptsComeBack, OptionsAsGiven, MapsComeBack, SchemaDecides | what is typed without quotes is executed, merged or dropped as LinesAreCommands says, what is quoted and what is serialized comes back, a schema decides, options are heeded |
| `server` | SurvivesClients, PromptIsWorkingDb, Answered | patient users are answered, whoever else ends |
| `server_all` | ServerTypeOK, AnswersInOrder, DiesOwing | anybody, ending anywhere, reading in parts: the stream to a client is its own answers in order, and only one that ends owed two answers kills the server |

**Bounds.** Storage: two keys, values of one and of three bytes, `.dat` of six
bytes, four records, three slots. An extent of three bytes is split by a value of
one into a rest of two, which is split again into one byte that nothing fits
into; an exact fit is passed over; two extents of one length meet in the free
list; a key is erased and set again until the records run out. Two
values suffice because `NoSharedSpace` sees an overlap even where the bytes happen to be
equal.
`storage_all` has shorter values and files because all calls at once branch more; its `Misread` has an entry that
ends inside `.dat` and one that does not. StorageCrash: the same as `storage` with three records, no cache. Transaction: two buffers, two commands,
two keys, which gives every pair of operations on equal and on different keys.
Sessions: two clients, two databases, two addresses (so that an address is used
again), four descriptors (two connections, two files) or three, where one open
or accept too many fails; in both the listener runs in the middle of commands too. Server: two clients, three lines in all (two in
`server_all`), room for one answer per connection, batches of one event or of two: the smallest sizes at which
a batch can be cut short and `send` can block. 
IndexFile: bytes of two values and numbers of two bytes, so that a key can be as
long as its length can say, and keys that look like a valid byte or a
length; a file of 32 bytes holds three or four records, with keys inserted, moved, erased
and inserted again. Permissions: two clients, two accounts, three roles (admin and
two that share a permission), records of at most three fields, so that a role may
be there twice. Formats: all texts of up to five characters of five kinds (a
letter, a blank, the newline, quote and backslash), scripts of up to three words or two commands,
maps of up to two pairs whose values nest two deep, up to three options. A reader's
decisions are about one character and the next two, one header, or one
option and its value, all of which occur next to each other within these bounds.
`Room` (in Storage and StorageCrash), `MaxFile`, `MaxArgs`, `MaxFields`, `MaxCmds`,
`Addrs`, `MaxFd` and `MaxLines` are the only bounds; none is a bound of the code.

**Deadlock** is not checked where the bounds end the behaviours (a full database, a dead or
waiting server, users who typed all their lines); `transaction`, `permissions` and
`formats` check it.

**Assumptions of the passing runs**, each a constant: `storage` makes no growing
update, no update of a cached database, no `switch_cache`, does not open an object again that was
destroyed with keys or free extents in memory, and finds freed nodes intact. `crash_set_update` makes no growing update
either, and its erases run to the end. `transaction` leaves viewed buffers alone. `sessions`
has clients that close and destroy only what nobody else works on
(`Courteous`), never destroy an open database by name, and log in before they switch; names lead to different files, descriptors
suffice, and uninitialised descriptors are numbers nobody has, which is up to
chance and not to the code. `index_file` has keys whose
lengths fit, writes that are complete and machines of one byte order.
`permissions` has names and passwords below 128 characters, callers that take from
an account all its roles or none and do not create an account under a name
somebody is still logged in with, and records that do not run into each other when
they grow. `formats` has two machines of one order, no doubles, schemas that
are used once and allow no undefined keys, options in the form their type takes,
and memory that is zero. `server` has users who
wait for their answers and type ASCII lines of at most one command, and clients
whose `recv` gets all the bytes it asks for; clients end between two messages. What happens otherwise is in the table
[below](#where-the-code-departs-from-what-it-promises).

## Fairness

Only `Server` has liveness. `Fairness` is weak fairness throughout: of the main
thread (`Work` and `Wait`), of the listener for each connection, of the client program's
reactions (`Answering`; typing is up to the user and not fair, and so is ending),
and of delivery: threads are scheduled, and TCP delivers. Nothing is assumed of the
order in which `epoll_wait` reports connections. That is enough because users
type finitely many lines, so that nobody can keep another connection out of the
batches for ever; with unbounded input `Answered` would also rest on the kernel's
ready list, which puts what it reported last at the end.

## Proofs

`tlapm` proves, for all keys, values, clients, names and bounds:

| theorem | statement | assumes |
|---|---|---|
| `TypeCorrect` | `Spec => []TypeOK` | nothing: every call is allowed |
| `Invariance` | `Spec => []IInv` | `SafeCalls` |
| `SpaceSafe`, `ReloadSafe`, `RecordsUnique` | `[]NoSharedSpace`, `[]ReloadAgrees`, `[]OneRecordPerKey` | `SafeCalls` |
| `CacheSafe` | `[]CacheMirrorsFile` | `CacheCalls` |
| `Implementation` | `Spec => ImplementsKV` | `ReadCalls` |
| `CrashSafe` | `CSpec => []CrashNoSharedSpace` of `StorageCrash` | `CrashCalls` |
| `CrashImplements` | `CSpec => CrashImplementsKV` | the same, and that there is a value |
| `TransactionTyped` | `TSpec => []TTypeOK` of `Transaction` | nothing |
| `CommitDoesQueued` | `TSpec => CommitRunsQueued` | `~BuffersReused` |
| `FileInvariant` | `Spec => []FInv` of `IndexFile` | `Steady` |
| `IndexFileIsTyped`, `FileAlwaysSpells`, `HoldsWhatCallsSay` | `[]ITypeOK`, `[]FileSpellsIndex`, `Spec => HeldByCalls` | the same |
| `SessionsTyped`, `OneDescriptor` | `[]SessionsTypeOK`, `[]OneDescriptorPerFile` of `Sessions` | nothing |
| `DescriptorsKept`, `WorkspacesAlive`, `ServerStaysUp` | `[]DescriptorsOwn`, `[]WorkingDbAlive`, `[]StaysUp` | `Considerate` of `SessionsProofs`, `OwnFiles`, `Enough`, `CleanMemory` |
| `ConnectionsLast`, `OpenTellsTheTruth`, `SessionsImplement` | `Spec => ConnectionsKept`, `Spec => OpenMeansOpen`, `Spec => ImplementsWorkspaces` | the same |
| `PermissionsTyped` | `Spec => []PTypeOK` of `Permissions` | nothing |
| `ShutAfterFirst` | `[]OpenOnlyAtFirst` | nothing |
| `GrantedOnly` | `[]PermissionsAsGranted` | `ShortNames` |
| `InterpreterImplements` | `Spec => ImplementsAccounts` | `Considerate` of `PermissionsProofs` |
| `ServerInvariant`, `ServerIsTyped` | `Spec => []SInv`, `[]ServerTypeOK` of `Server` | nothing |
| `AnswersComeInOrder` | `[]AnswersInOrder` | nothing |
| `ServerDiesOwing` | `[]DiesOwing` | nothing |
| `ServerSurvives` | `[]SurvivesClients` | `Patient`, `WholeReads`, `Ascii`, `HangUps # "anytime"`, `AnswerCounts \subseteq {0, 1}`: run `server`, without the ends of clients that kill or spin it |
| `PromptShowsWorkingDb` | `Spec => PromptIsWorkingDb` | `Patient`, `WholeReads` |
| `FormatsInvariant` | `Spec => []FInv` of `Formats` | nothing |
| `LinesCorrect` | `[]LinesAreCommands` (of every text without quotes) | `TextsAre` |
| `ScriptsCorrect` | `[]ScriptsComeBack` | `ScriptsAre` |
| `OptionsCorrect` | `[]OptionsAsGiven` | `OptionsAre` |
| `MapsCorrect` | `Spec => MapsComeBack` | `MapsAre` |
| `SchemasCorrect` | `Spec => SchemaDecides` | `SchemasAre` |

`SafeCalls`: no growing update, no object that is opened again after it was destroyed with keys or
free extents in memory, freed nodes are read back intact. `CrashCalls`: no growing update, freed
nodes are read back intact, no death inside an erase. `CacheCalls` adds: no update of a cached database and
no `switch_cache`. `ReadCalls`: `SafeCalls`, and `CacheCalls` if cached reads are
made at all. The assumptions on constants are `ByteAssumption`,
`CallsAssumption`, `ModesAssumption`, `FreedAssumption`, `MisreadAssumption`, `BoundAssumption` of
`Storage`; TLC evaluates them in every run of `MCStorage`.

*The inductive invariant.* `NoSharedSpace` speaks of the files only and is not
inductive: `set` takes its space from the free list in memory, so that list must
offer nothing `.free` does not have; `erase` gives back the extent of the index in memory, so
the index must be the one the records describe, which in turn takes one valid
record per key, for `load_index` keeps the first. And no write may have gone
where no record is. Hence
`IInv == TypeOK /\ ~torn /\ OneRecordPerKey /\ NoSharedSpace /\ ReloadAgrees`.
What an object has in memory when it is opened is nothing: after `close` because that empties
it, after `destroy` because "reuse" is not among the calls. `destroy` itself
establishes all of it, for the files are empty then (`EmptyInv`, `DestroyInv`); in the
abstract map it is the step that empties it (`DestroyMaps`).
The proof has one lemma per action; those that write have a step per conjunct.
The core is that `manage_free` replaces a slot by a part of itself (the value) and
a slot for the rest, which are apart from each other and from whatever the
slot was apart from. For the refinement, a `pwrite` inside the file or at its end
leaves every extent that is apart from it as it was, so that the values read
through all other records are unchanged; the values of the abstract map are read
through the index of an open database and through `.idx` of a closed one, and
`ReloadAgrees` says that these are the same.

*Crashes.* The assumptions of `CrashSafe` are those of run `crash_set_update`: the
process may die between any two system calls of a `set` or of an `update` with a value
that is not longer. A growing update has overwritten the old value by the time it writes the
record, so that neither theorem holds with it, nor with a death inside an `erase`. Between them the files are not what `IInv` asks
for, so that `CInv` says what they are on the way. `Marked` is `.idx` with the
record invalidated that a running `erase` will mark, for its extent is in `.free` already;
`Known` is the index without the key a running `set` is about to write, for it is in
memory from the start of the call. `CInv` says of these two what `IInv` says of
`.idx` and the index, and `Reserved` what the running call has set aside and nobody
else may have: the slot it will clear, then its extent, which is in neither file,
then the part of it the value goes to. A database that is not open has nothing in memory (`Emptied`, which
is inductive by itself). `Crash` drops what is set aside: space
is lost, never shared. The refinement maps the map as in `Storage`, through `.idx` as it is;
it adds `Underway`: the value is in `.dat` before the record is written, and
the record an `erase` marks is its key's only one, so that each call
takes effect in the one system call that writes the record.

*Transactions.* How far `pos` runs is bounded by the list, and the list while
commands are queued; `TInv` has both. `QInv` adds, for callers that leave their
buffers alone, that the buffers hold what was queued and that a running commit
has come as far as the queued commands lead: `Contents`, the contents after
each of them, is a recursive function, and `ContentsUnfold` proves that it is what its
definition says.

*Recursive functions.* A recursive function is the one `CHOOSE` finds to be
equal to its body; to use that equation one has to show that there is such a function,
by induction. The library's induction takes an operator as a parameter, which the provers
cannot instantiate, so that `Recursion` states it for sets (`SetInduction`, from
the well-foundedness of the order) and derives from it that functions exist which go up
by one (`Recursion`) or down by jumps of any length (`JumpingRecursion`, for `load_index`,
which goes on behind the record it has read).

*Index file.* `Steady` is what run `index_file` assumes: files stay on machines of one byte
order, writes are complete, and the length of every key fits. Bytes have any number
of values, keys are any sequences of them, and the file is of any length. `FInv` has to say where the records
are, which nothing in the file does: it says that there is a set of positions such that each
record ends where another begins or the file ends (`Whole`), that no key has two records that
are not erased, and that those records say what is in the index (`Describes`). `LoadedIs`
proves that `load_index` then finds the index, by induction from the end of the file; with `DescribesOne`
that is `FileSpellsIndex`. `NumberComesBack` proves that the bytes of a number that fits spell the number, in
either order. `insert` adds a position to the set; `update` and `erase` write inside one
record, behind the length and beside the key, so that it ends where it did and
all others are untouched (`OthersKept`).

*Sessions.* `TInv` is the type invariant with one addition, that no two names
have one object: otherwise closing one database would free another's. With it
`OneDescriptorPerFile` is inductive, by the locks: whoever finds the file locked waits and
opens nothing. Both hold of all clients. The other theorems assume what run `sessions` assumes, in
terms of the constants: `Considerate` is what the clients see to (`Courteous`, no `destroy` of an open
database by its name, no `switch` without a login), `OwnFiles` a file for every name, `Enough` descriptors for all of
them, `|Clients| + |Names| =< MaxFd + 1`, and `CleanMemory` that no descriptor has a number that
uninitialised memory holds, which nobody sees to. Each is needed, as the changes of run `sessions`
[below](#where-the-code-departs-from-what-it-promises) show. The listener runs at any time. `CInv` then accounts for every
descriptor: it belongs to a connection or to a database in the table (`Accounted`), so that
one is left whenever an `open` or an accept needs it (`DescriptorLeft`, a count of both). The
converse does not hold: a connection that the listener accepts on the number of a database while
the command that closes it runs is closed by the destructor. What holds is that such a client cannot
have logged in, as the main thread is busy: no login and no open database has the number of one that is
being closed (`ClosingOK`), whose command is of a client that is logged in (`ByOK`), and every login is a
connected client's, with a working database in the table (`LoginsOK`). That is `DescriptorsOwn`, and
`ConnectionStays` with the lemmas on each closing command gives `ConnectionsKept`. `OpenOK` says that every
database in the table, but for those whose `close` has run and whose destructor has not,
has a descriptor on its own file, and holds what is in it.
The refinement reads the database a client works on as the name
under which its object is in the table, and what it holds from its file.

*Permissions.* `ShortNames`: every name and password is below 128 characters.
`Considerate` adds `Liberties = {}` and `Damaged = {}`. Clients, names, sets of
permissions and the bounds are any. `OpenOnlyAtFirst` follows from `GateShut`: while
there is an account, `create_user` asks for something, which holds after the first
`create_user` and after a restart for different reasons. `PermissionsAsGranted` is
a fact about the code's counting: with finitely many permissions, as many are
satisfied as are needed if and only if all of them are (`CountingIsComparing`),
and the fields read as roles are all fields but the first. The refinement needs
`AInv`: types, `GateShut`, records that consist of a password and roles (the
password of a record is otherwise not one of `Accounts`), the role admin, which is
never deleted (a restart would otherwise change a role), nobody logged in while
`create_user` asks for nothing (the first account would otherwise be somebody's who
logged in earlier), and that what `create_user` asks for later has its own
permission in it. There is one lemma per command; `Appended` and `RemovedAll` say
what becomes of a record.

*Server.* `SInv` holds of all clients, patient or not, ending anywhere, for any batch
size and any room in a connection; the conditions appear in it as hypotheses of
its parts. `Types` and `Batch` say where the main thread is and whose requests it has,
no client's twice; `Known` that every piece on its way and every request received is one
that was sent; `Ended` that only a client that is gone has closed its stream or failed; `Turns`
that a patient user whose client reads whole answers has at the prompt read everything, but the answer to the
question for the name; `Safe` that the thread neither starves nor spins if clients send what they say and end
between requests. `DiesOwing` needs no condition: the thread dies at the second answer
to a client that is gone, and all answers from the request in its hands on are still to come to that client (`Due`),
also when its last request was cut off (`Cut` says that the pieces before follow each other); `Owing` says
so of the request that kills. `AnswersInOrder` is
about what a client finds (`Orders`), and is kept because the server keeps its place in
each client's stream: `Follow` says that the pieces on their way are whole requests in order
(`Flow`; `Taken` is the number of those received), that the request in the hands of the
main thread is the one received last, and that the answers done with are those to the
requests before it and the part of its own that was sent (`Place`). Clients that may have broken
off within a request, and one whose left-over bytes the thread has taken for a length, are not
followed (`Tracked`): they read no more, or nothing more is sent. The answers to
a sequence of requests are a `FlattenSeq`, whose lemmas are in `Recursion`.

*Formats.* What is given is any text, script, list of options or map; the
hypotheses say what kind of thing it is and what run `formats` assumes of it.
`TextsAre`: texts are sequences over some set of characters, which has in it those
the parser tells apart; nothing is asked of where they have blanks and ends of lines. A text without quotes
is read as if every end of a line behind a blank were a blank (`Merged`, `MergedIs`), so that `LinesMean`, about texts in
which a line ends behind a word, says what becomes of all (`LinesRead`). `ScriptsAre`: scripts are made of such characters, and no
command is empty. `OptionsAre`: every setting is in the form its flag takes, with a
value `set_value` does not shorten, and memory is zero. `MapsAre`: the machines are
of one order, there are no Doubles, and the maps are in `Maps(Value[Depth])`, for
any `Depth`. `SchemasAre` adds that schemas are used once and that one which allows
keys it does not have meets none. The invariant `FInv` says what the bytes are
and that what is taken is what the reader makes of them, so that the properties
become theorems about the readers, of which each is proved in three steps. First the recursive
functions are unfolded (`QuotedUnfold`, `ParseUnfold`, `FlagsUnfold`, `ReadUnfold`
and others), as under *Recursive functions*. Then it is said where in the
bytes everything is: `PlacedText` has the words of a text behind the characters
before them, `OnLine` the settings on the command line, `PartsIn` and `PairsAt` the
items and pairs of a value. That a writer's bytes are laid out like this follows
from lemmas about `FlattenSeq` (`SeparatedForm`, `CommandLine`, `PartsAreIn`); for
the pieces of lines, which nobody concatenated, from the end of the text backwards.
Last, the reader is followed along the layout by induction on its positions
(`CommandRead`, `TextRead`, `OptionsRead`, `ArrayRead`, `MapRead`). For values there is
a second induction, on how deep they are nested, and what it carries has to say
how many levels of `_deserialize` are needed: `ComesBack` says that a value at an offset is read
if there are at least as many as there are bytes behind it, and five bytes of
header go with each level (`LevelDown`). For schemas it has to be said which marks
are set after `i` pairs (`FieldsRead`); as they are those of the keys that were met,
the code's last loop finds exactly the required keys that are missing.

Only model-checked: `Answered`, since liveness under fairness is beyond the prover.
`OneKeyChanges` is violated.

## Where the code departs from what it promises

One run is expected to fail, `storage_grow`, and `PROJECT.json` quotes what the
documents say. Other deviations show when a constant of a passing run is changed:

| change | fails | because |
|---|---|---|
| `storage`: `Calls` with "shrink_cached" | CacheMirrorsFile, ImplementsKV | `write_at` past the end of the vector (lib/rw.cpp:54) |
| `storage`: `Calls` with "switch_cache" | CacheMirrorsFile, ImplementsKV | off leaves `enable_cache` on; on reads from the end of the file (lib/db.cpp:156) |
| `storage`: `FreedIntact = FALSE` | NoSharedSpace, OneRecordPerKey, ReloadAgrees, ImplementsKV | `erase` uses a freed node (lib/db.cpp:94) |
| `storage`: `Calls` with "reuse", `Misread <- MCMisread` | all five | a destroyed object writes where the deleted files had its records (lib/io_manager.cpp:37, 290, 306) |
| `storage`: `Calls` with "grow" | NoSharedSpace, ImplementsKV | the longer value is written over its neighbour (lib/rw.cpp:36) |
| `crash_set_update`: `CrashIn` with "erase" | CrashNoSharedSpace, CrashImplementsKV | the extent is free before the record is erased (lib/db.cpp:92) |
| `crash_set_update`: `Calls` with "grow" | CrashNoSharedSpace, CrashImplementsKV | the old value is overwritten before the record is (lib/rw.cpp:38) |
| `index_file`: `Travels = TRUE` | FileSpellsIndex, HeldByCalls | the header changes, the records do not (lib/io_manager.cpp:143) |
| `index_file`: `Short = TRUE` | FileSpellsIndex, HeldByCalls | a record in part shifts those behind it (lib/io_manager.cpp:282) |
| `index_file`: `Keys <- MCLongKeys` | FileSpellsIndex, HeldByCalls | the length of a key is cut (lib/io_manager.cpp:270) |
| `permissions`: "remove_some" in `Liberties` | ImplementsAccounts | kept roles are replaced by arguments (aci/aci.cpp:461) |
| `permissions`: "reuse_name" in `Liberties` | ImplementsAccounts | logins outlive the account (aci/aci.cpp:480) |
| `permissions`: `Length <- MCLong` | PermissionsAsGranted | a signed length (aci/aci.cpp:872) |
| `permissions`: `Length <- MCWide` | ImplementsAccounts | a name of 256 characters (aci/aci.cpp:332), which add_roles does not refuse (417) |
| `permissions`: `Damaged <- MCNeighbour` | ImplementsAccounts | add_roles updates to a longer value (aci/aci.cpp:421, lib/rw.cpp:36) |
| `formats`: `Doubles = TRUE` | MapsComeBack | the length of a Double takes eight bytes (lib/asf.cpp:119) |
| `formats`: `Reader = FALSE` | MapsComeBack | lengths are not reversed (lib/asf.cpp:240, 316) |
| `formats`: `Reused = TRUE` | SchemaDecides | marks are never taken back (lib/asf.cpp:397) |
| `formats`: `Schemas <- MCLenient` | SchemaDecides | an end iterator is written through (lib/asf.cpp:397) |
| `formats`: `Settings <- MCTrailing` | OptionsAsGiven | text after a number is ignored (server/flags.hpp:307) |
| `formats`: `Settings <- MCFalse` | OptionsAsGiven | `-v=false` sets the flag (server/flags.hpp:140) |
| `formats`: `Memory <- MCAny` | OptionsAsGiven | transports are not initialised (server/main.cpp:71) |
| `transaction`: `BuffersReused = TRUE` | CommitRunsQueued | commands are views (lib/transaction.hpp); lib/readme.md:56 says they are stored |
| `sessions`: `Courteous = FALSE` | WorkingDbAlive, ImplementsWorkspaces | close forgets one client's pointer only (aci/aci.cpp:87) |
| `sessions`: "destroy_open" in `Commands` | OpenMeansOpen, DescriptorsOwn, ConnectionsKept | the entry stays in the table (aci/aci.cpp:205) |
| `sessions`: `MaxFd = 1` | ImplementsWorkspaces, OpenMeansOpen, DescriptorsOwn | a failed open leaves its entry (aci/aci.cpp:63) |
| `sessions`: `FileOf <- MCOneFile` | StaysUp, DescriptorsOwn | a lock held by the thread that waits for it (lib/io_manager.cpp:69) |
| `sessions`: "switch_logged_out" in `Commands` | StaysUp | reference from a null pointer (aci/aci.cpp:932) |
| `sessions`: `Garbage` = the descriptors | DescriptorsOwn, ConnectionsKept, OpenMeansOpen | uninitialised `m_files` (lib/io_manager.hpp:81) |
| `server`: `Ascii = FALSE` | Answered | a length in characters, a body in bytes (client.py:18) |
| `server`: `Patient = FALSE` | PromptIsWorkingDb | the client takes the first answer (client.py:32) |
| `server`: `WholeReads = FALSE` | PromptIsWorkingDb, Answered | one `recv` for a head and one for a body, which may bring less (client.py:21, 27) |
| `server`: `HangUps = "anytime"` | SurvivesClients | `recv` returns 0 for ever (socket_util.cpp:158) |
| `server`: `AnswerCounts = {2}` | SurvivesClients | SIGPIPE (socket_util.cpp:180) |

They are constants rather than runs because each is a one-line change of a run that is there.

What shows without any change of a constant, in what the properties say: commands are not always "newline
seperated" (aci/readme.md:7), as a line that ends in a blank goes on with the next one (aci/aci.cpp:1027), and
`parse` answers a text with no commands at all if the end of a line is behind its last word (1060);
`LinesAreCommands` says exactly which texts these are. What the passing runs allow, as nothing promises otherwise: a
connection that is accepted on a descriptor number that a command is about to close a second time is closed (lib/io_manager.cpp:28),
and `ConnectionsKept` says that no other is; the requests of a client that has ended are dropped
(server/server.cpp:115), and its descriptor is never closed; and what `serialize_value` writes is never read back,
because `deserialize_value` skips six bytes of a header of two (lib/asf.cpp:299), so that
no property of single values is stated.

## Not modelled

* **Failing reads and writes of `.dat` and `.free`**, a machine that crashes: the
  code looks at no return value and flushes nothing, so nothing is promised. Records
  of `.idx` that are written in part are in `IndexFile`.
* **`delete_role`**: `perm_table` lacks the permission it needs, so that it is refused
  to everybody, as any command may be by `Refuse`.
* **`to_string`** of lib/asf.cpp and the listings of the interpreter (all but
  `user_roles`): text for people, which changes nothing.
* **Iterators and `operator[]`** (dangling views, a matter of C++ lifetimes that
  changes no state), `reserve`.
* **`Server::stop` and `close`** (no caller), `m_cons` (no reader), `call` and `to_string` of
  the flag parser (no caller), logger, `fmt`, socket set-up.
* **Extents left behind** by updates: a loss of space that no property forbids.

## Plan

Done: the modules above, and proofs about all of them. What is left, in this order:

1. The interpreter on `Storage` rather than on one value, for the commands that
   take their database through `switch_cache` and `destroy`.
2. `.free` byte by byte, as `.idx` is in `IndexFile`.
