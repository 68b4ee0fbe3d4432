# A TLA+ development for sync-analysis

sync-analysis records what the threads of a C or C++ program do with its locks
and analyses the record afterwards. A small C library (`lib/`) keeps a lock-free
queue of events in memory and a worker thread that writes them to a dump file;
integration libraries (`integration/`) make the program's lock operations capture
events; an executable (`executable/`) reads the file and hands each event to
analyzers, which are shared objects (`analyzers/`).

This directory holds TLA+ modules for these parts, TLC configurations that
check them on small instances, and proofs that TLAPS checks. `PROJECT.json` is
the index: components, runs, mutated definitions that each property rejects, the
lines of the source behind each definition, findings, hazards, theorems.

## 1. Inventory

| Component | Source | State it keeps | Operations | Module | 
|---|---|---|---|---|
| event queue | `lib/src/buffer.c`, `global_buffer.c` | pages of slots, `pages_front`, `pages_back`, per page `storage_front`, `storage_back` | acquire a slot, release the front page | `EventQueue` |
| capture interface | `lib/src/sync_analysis.c` | the slot between initialize and finalize | initialize, finalize, capture | `EventQueue` |
| worker thread | `lib/src/worker_thread.c` | `buf_page`, `back`, the file, the stop token | drain, stop | `EventQueue` |
| library start and end | `lib/src/init.c` | – | `syan_init`, `syan_shutdown` | `EventQueue` (shutdown; init is its initial state) |
| header, clock, backtrace | `lib/src/{dump_file_header,event_time,backtrace}.c` | – | write, read a clock, unwind | header only, in `EventFileReader` |
| file reader and analysis loop | `executable/src/{event_file_reader,run_analysis}.cpp` | a chunk buffer, its cap and cursor, "done" | open, read chunk, read event | `EventFileReader` |
| cxxsync, pthread shim | `integration/` | the locks and threads themselves | create, lock, try, unlock, destroy; create, join, detach a thread | `SyncObjects` |
| database | `executable/src/database.cpp` | `active_objects`, `object_names` | before / after the analyzers, `object_create_event`, `object_name` | `Database` |
| environment | `executable/src/{environment,analyzer}.cpp` | the loaded analyzers | handle event, shut down | `Analysis` |
| reports | `executable/src/report.cpp`, `report.hpp` | sections with event handles, "sent" | create, add section, send, destroy | `Reports` |
| five analyzers | `analyzers/*.cpp` | a map each, keyed by object or thread | handle event, report in destructors | `UselessLock`, `RedundantRWLock`, `RedundantRecursiveMutex`, `LockShadow`, `MutexLockOrder` |
| `Event` handles | `executable/src/event.cpp`, `event.hpp` | a pointer each, a reference count per event | make, copy, move, assign, destroy | `EventHandles` |
| symbolizer | `executable/src/stacktrace_symbolizer*.cpp` | a child process, two pipes | create, symbolize a stack trace, destroy | `Symbolizer` |
| name rules, search | `executable/src/find_analyzers.cpp`, `options.cpp` | the rules, the matching table, the analyzers loaded | find, match, load or close | `AnalyzerRules` |
| main | `executable/src/main.cpp` | – | find the analyzers, run the analysis | `Executable` |
| debug output, tests, benchmarks | `executable/src/debug.cpp`, `tests/`, `benchmarks/` | – | – | not modelled: output and clients |

How they interact:

- *program thread → queue*: shared memory only. One load of `pages_back`, one
  fetch-add of the page's `storage_back`, plain writes to the slot, and a
  release store of the signature as the sole publication of the event; a CAS when a page is full.
- *queue → worker*: the worker polls. It reads `storage_back` of the front page,
  spins on each signature, writes the range with one `fwrite`, and zeroes a page
  it has emptied. `pages_front` and `storage_front` are its own.
- *shutdown → worker*: a stop token and a join, in a library destructor, while
  other threads may go on capturing.
- *file → reader*: chunks of records; a record without signature is corrupt.
- *event → database → analyzers → database*: the database learns of a created
  object before the analyzers see the event and forgets a destroyed one after.
- *analyzer → database*: lookups by address, for the create event and the name,
  which throw when the address is not there.
- *analyzer → report → symbolizer → child*: a report copies the handle of each event
  it names; when it is sent it asks a child process for the stack trace of each, a
  question through one pipe and lines back through another, with a limit on the
  reads that return nothing.
- *main*: the search for analyzers is over before the dump file is opened.

What is hard here: the lock-free hand-over of slots against the recycling of
pages (nothing synchronises a thread that has loaded `pages_back` with the worker
that releases that page); shutdown racing captures; the end of file seen only by a
short read; addresses and thread ids that are used again; captures that stand
next to pthread calls, not inside them; verdicts that depend on an object's
whole history; lookups in destructors, where an exception ends the process; and a
child process that answers late, not at all, or dies, with nothing in its answers that
says which question they belong to.
The list with lines is under `hazards`.

What makes each part correct:

- queue and worker: a slot has one owner at a time; the worker never takes an old
  signature for a new one; every finalized event reaches the file, once, whole,
  in its place; captures return; the worker stops.
- reader: every readable record is handed on, once, in order, at any ratio of file
  length to chunk size; only a corrupt file is refused.
- integrations and database: the file never shows two owners of a lock; a live
  object's entry is its own.
- analyzers: the report is exactly what the program did, in the analyzer's terms;
  the analysis never dies of an event.
- handles: an event lives exactly as long as something points to it.
- symbolizer and reports: under each event stands the stack trace of that event; a
  report ends whatever the child does.
- rules: the table says whether a name matches a pattern; the last rule that matches decides.

## 2. Modules and the code

### EventQueue (`MCEventQueue`, `EventQueueProofs`, `EventLogProofs`) and EventLog

One action per access to shared memory. `pages_back`, `storage_back` and the stop
token are sequentially consistent atomics in the C code, so interleaving is the
right semantics for them; the signature is stored with release and loaded with
acquire, which orders it after the fields it publishes. The `memset` of a released
page and the field writes are plain accesses. The model interleaves those too, slot by slot; what a compiler or
a weakly ordered machine could add to them is outside it.

| Code | Actions |
|---|---|
| `syan_buffer_acquire_event_slot` | `LoadPagesBack`, then `AcquireSlot` or `PageFull`, and after the latter `AdvancePage`, then again `LoadPagesBack` |
| the field writes of `syan_initialize_event` | `InitializeEvent` |
| the signature of `syan_finalize_event` | `FinalizeEvent` |
| `loop()` | `CheckStopToken`, `AfterWork` |
| `work()` | `LoadFrontPage`, `SeeSignature` (one turn of the busy wait), `WriteBatch` or `WriteFails`, `KeepPage` or `ReleasePage` |
| `syan_buffer_release_front_page`, `syan_reset_buffer_page` | `ReleasePage` up to the store of `storage_back`, then `ClearSlot` for each slot in any order (the `memset`), `PageCleared` |
| `syan_shutdown` | `StopWorker`, `JoinAndClose` |

An event is its number; a record is the number of the event last written to the
slot. `storage_back`, which grows by one with each failed attempt on a full page,
saturates at `PageSize`: producers compare with it and the worker clamps to it, so
no statement tells the values beyond apart.

Five history variables (`laps`, `placed`, `finalized`, `atStop`, `hazards`) are
written and never read by a guard. A slot of a page that has been released *n*
times has a *place*, its index in the file if pages are written in ring order.
`hazards` collects the ways in which a reservation can go out of turn:

- `stale`: the slot comes from a page that is not the one being filled any more;
- `window`: the slot is acquired after the store of `storage_back` and before the
  `memset` reaches it;
- `early`: the worker releases the page `pages_back` still points to;
- `lapped`: `pages_back` moves onto the page the worker has yet to release;
- `skip`: `pages_back` moves off a page that was recycled and has room.

They are there because the code does lose or misplace events, and a property that
merely excluded those runs would say little: each property names the hazards
that excuse it and no others, so it says exactly what costs what. `NothingVanishes`
is excused by `window` alone, `InTurnUnlessHazard` holds *with* `window`, and
`SlotExclusive`, `UnsignedWhileHeld`, `WriteOnlySigned` and `DumpByPlace` are
excused by nothing.

`EventLog` is the abstract promise: places are reserved, finalized, and appended
to the file without gaps; an unwritten place may be spoiled; the file is closed only
when its next place was not reserved before the stop. `ImplementsLog` is the
refinement: `reserved <- Placed`, `written <- Len(dump)`, and a place is spoiled when
its event is neither in the file nor intact in its slot.

### EventFileReader (proofs in `ExecutableProofs`)

The reader's fields under their own names, and the loop of `run_analysis`. A
file is the number of complete header fields, which records carry the signature,
and how many records the stream delivers (an I/O error and the end of file look
alike to `fread`). `Open` is the constructor, with the choice of the file;
`NothingToDo` and `StartUp` are what `run_analysis` does between the header and the
loop; `Refill` and `Take` are the two halves of `read()`, `Take` includes what the
loop does with the event, and `Finish` is the loop's exit. The buffer keeps the old
records beyond a short chunk, as the code's does.

### AnalyzerRules (`AnalyzerRulesProofs`)

`find_analyzers` from one shared object to the next. `arguments` are the values of
`--analyzer`; `Given` adds the default, `Rules` is the reversed list. `FindAnalyzer` is
the next shared object, whatever its name; `SkipVoidRule`, `BeginTable`, `RuleMatches`,
`RuleDiffers` and `NoRuleMatches` are the loop of `respects_analyzer_name_rules`;
`FillCell` is the body of the inner loop of `respects_analyzer_name_rule` and `NextRow`
the end of it, so that the invariant can speak of a half-filled table.

The table is compared with what a pattern *means*, a definition that shares nothing
with it: `Fits` says that the name can be cut into pieces, one for each character
of the pattern, of any length where the pattern has `*` and the character itself elsewhere.
`Accepts` is that, but for patterns that begin with two stars, of which the code makes something
else: one character, then a name that fits. With it `TableCorrect` is an equivalence for every pattern and
`LastRuleDecides` speaks of every command line, as it was given, and of the rules that match. The help
text promises `Fits` for all patterns (section 6), and for a name that no rule matches it promises
`UnmatchedIsDisabled`, which `rules_unmatched` refutes.

### EventHandles (`EventHandlesProofs`)

Every object of class `Event` is a handle with a pointer (`ptr`), every record that was
made into an event a cell with a count. `CopyConstruct`, `MoveConstruct`, `CopyAssign`,
`MoveAssign` and `Destroy` apply `Inc` and `Dec` in the order in which the code does, on any two
handles, the same one included. A freed cell is never allocated again, so that a
second delete or a pointer to it stays visible.

### Symbolizer (`SymbolizerProofs`)

`Create` is the constructor: pipes, `fork`, and a stdout that does not block; any of them
may abort. A call is `BeginCall`, `WriteCommand` (or `BrokenPipe`), then `ReadLine`
and `ReadFails` until it returns. addr2line is sent a line for each address and nothing for an
empty trace, atos one line in every case; the first answers two lines for each address, the other
one. The unit is the line: the code reads characters, counts newlines, and
sets its counter of fruitless reads to zero with each character, which makes no difference to
a tool that writes a line at once. `GivesUp` stands for 20000 reads in a row.

The child is external: it answers one address when there is room for the answer, at any
time, or it ends. Nothing in an answer says what was asked. So the model's lines carry
the event and the frame they are about, which the code cannot see, and `owed` counts the
lines that calls have given up on.

### Reports (`MCReports`, `ReportsProofs`)

`Reports` composes the symbolizer and the handles. `CreateReport`, `AddSection`, `Send`,
`AddNote`, `NotesDone`, then for each section `SymbolizeSection` and the steps of
the call (`InSection`), or `SkipSection` without a binary; `SendReport`, and `DropSection`
for the handles. `ClientStep` is everything that the reader, the environment, the database and the
analyzers do with their own handles between reports. The child runs beside all of it.
`text` is what the report's string holds: for each section the event, the outcome of
the call, the lines, and what was owed when it returned.

### Executable (`MCExecutable`, `ExecutableProofs`)

`main`: the steps of `AnalyzerRules` until the search is done, then those of
`EventFileReader`, with `NothingToDo` when nothing was loaded and `StartUp` when
something was.

### SyncObjects

The program and its integration library. The capture before a pthread call, the
call, and the capture after it are separate steps: `RequestLock`, `Acquire` or
`AcquireFails`, `CaptureAcquired`; `CaptureUnlock`, `Release`. Creation and
destruction of a lock are one step each with their capture, because no other thread may use
the object then. `ReserveThread` is `syan_initialize_event` before
`pthread_create`; the id that the call will return is chosen there, so that the create
event is at its reserved place in the file with the id that is filled in later. It is chosen among
the ids that are free at that moment; one that a join frees while `pthread_create` is running is not
chosen, and no property tells the difference, for the database keeps the entry of a thread in any case.
`StartFails` is the failed `pthread_create`, after which the event is finalized
with whatever the id variable holds (`StaleIds`). `JoinThread` frees an id before
`CaptureReaped` captures the join, so ids are used again in between.

pthreads are external: a mutex is exclusive, a recursive mutex counts, a
read-write lock admits readers or one writer and refuses a thread that asks again
while it writes. The program is assumed to lock only objects that exist, to unlock only what
it holds and to destroy only what is free; it may deadlock on its locks, and the
runs let it.

A thread id is the address of a thread's control block, and what a failed
`pthread_create` leaves in the id variable is null or an older id. `IdsAssumption`
says of them only that none is the address of a lock. It is needed: were a stale id
the address of a live lock, its create event would stand for the lock's in the
database, and `DatabaseKnowsLive` would fail.

### Database, the analyzers, Analysis (`MCAnalysis`, `AnalysisProofs`)

Each analyzer is a module over `Database`: its map as a variable, its
`handle_event` as an operator from the event to the map's next value, its
destructor as the set of reports, its lookups as a set of ids, and one history
variable with what the program really did. `Analysis` composes them: an event goes
through `Before`, the enabled analyzers, `After`; a lookup that fails turns the
analysis to `terminated`. Lookups of threads, which the sections of every report make, are
left out of these sets: `ThreadsStayKnown` shows that none of them can fail.

lock-shadow keeps the create events of the objects a thread has, and a report has one of
them; but the number it prints is the one the database has for that event's *address* when
the report is made. `ShadowReport` has both, the event and the number, so that the two can differ.
`ShadowSections` adds a history of what was let go inside which section, for the paper's rule alone (`ByRule`).

The analysis runs after the program, on the file. It has no way to influence the
program, and the file holds the events in the order in which their slots were reserved (when no
hazard of section 2 occurs), so `ProgramStep` handles an event in the step that
captures it. That joint step is what allows a property to compare a report
with the program's state. `ShutDown` can come after any step: the
program may be killed.

## 3. Runs

| Run | Instance | What it shows |
|---|---|---|
| `queue_pages` | 2 threads, 2 pages × 2 slots, 5 events | slots stay exclusive, no old signature is taken for a new one, each record is at its place, nothing vanishes or goes out of turn but for the named hazards, the last drain takes what it must, and the queue implements the log |
| `queue_live` | 2 threads, 2 pages × 2 slots, filled by one thread before the worker has run, and 2 more events | captures return from a full ring, the worker stops, and an event reaches the file while the program runs, although its page may never be filled |
| `reader` | `Executable`: every rule of ≤ 4 characters and every two of ≤ 2 over `*`, `-`, `a`, every name of ≤ 3; chunks of 2, up to 5 records | tables and verdicts are right; every file, every readable length, every cut header: order, completeness, justified refusals; the whole ends |
| `reports` | 3 events with 2, 1 and 0 frames, 2 handles outside of reports, 2 reports of up to 2 sections, each tool, a child that is slow or dies | counts are exact; what is late stays late; traces belong to their events while nothing is owed, and so long no write waits; reports end |
| `analysis_single` | 2 thread ids, 1 address, all kinds of lock, 4 creations | the three analyzers of single objects are exact and never end the analysis; the database knows what is alive and forgets no thread |
| `analysis_nested` | 2 threads, 2 addresses, mutexes and rwlocks | critical sections do not overlap in the file; no inversion goes unreported; lock-shadow's intersections are exact |
| `queue_loss`, `queue_hang`, `reader_last`, `rules_unmatched`, `analysis_rule`, `analysis_crash` | small | violated: see section 6 |

The bounds. `MaxEvents` (capture calls): 5 in four slots make every
page fill, be released and fill again, with a thread that stalls across the
release; TLC reaches each of the five hazards
(`queue_loss` needs one thread only). `Places` bounds
the abstract file for TLC and is larger than any place those events can have.
`MaxEvents` also hides two things. A worker that drains for as long as threads keep capturing never
leaves its last loop: `WorkerStops` is about a finite number of captures. And one capture can be
overtaken for ever by others that take each slot before it, as in any lock-free loop: so is `CaptureReturns`.
`queue_live` starts from a full ring (`Filled` in `MCEventQueue`), a state to which `Init` leads in four captures of one
thread: with two more, both threads can be waiting for a page, and the event that gets a recycled page first is alone on it.
There `LoadFullPage`, a worker that writes only full pages, fails `EventuallyWritten`, and `LoadOneShort`, one that leaves the last slot for
later and so never releases a page, fails `CaptureReturns`.
`MaxRecords` 5 with chunks of 2 covers an empty file, one shorter than a chunk, exact
multiples and the rest. `MaxCreations` 4 counts create events, the main thread's
included: an address is used three times over, or two addresses and a thread.
In `reports`, an event with 2 frames is the first whose lines can be torn apart, one with none is a
case of its own in the code, 2 sections are asked for with the same pipes, and the second
report finds what the first left behind. `StdinRoom` 3 and `StdoutRoom` 4 are too small for two
questions and for two answers of the longer trace, so a write can wait and
the child can be held up. `MaxFailures` 2 stands for 20000: what counts is that a
line may or may not come before the limit. Patterns of four characters have room for two
stars with something between and after them, `-` is both a sign and a
character; `MaxFound` is 1, as a shared object is judged without regard to the ones
before it (`LastRuleIsDecisive` holds for any number).
`MaxDepth` bounds recursion; 2, in `analysis_single`, is the first depth at which the analyzers' states
differ. `analysis_nested` has two addresses and no recursion; what three would add, intersections of larger sets, and
what recursion would, is in the theorem `LockShadowIsExact`. `StaticLocks` is empty in the runs, see section 6.

Symmetry is used over threads in the queue and over locks in `Analysis`, in
runs without liveness. The threads of `Analysis` are not interchangeable: one is `Main`.
Deadlock is not checked: a program may stop capturing, and threads that wait for
each other's locks are legal input.

Every property of a passing run has a mutated definition in `PROJECT.json` under
which TLC finds it violated; the mutations (`\* Mutation:`) stand before the
definitions they replace.

## 4. Fairness

`FairSpec` of `EventQueue` assumes weak fairness of each thread *inside* a capture
call, of the worker, and of the join. Capture calls take no lock and
never block, so any scheduler that runs every runnable thread gives this; the worker is a plain
thread that sleeps (`usleep`) only after a turn in which it wrote nothing, and is runnable again after that. Nothing is assumed of the program (it need not capture
again, nor shut down), and `WriteFails` is never obliged. The fairness is weak on the
disjunction of a thread's steps, since one of them is always enabled while
it is inside a call. `Executable` assumes that its only thread runs: it waits for nothing. `Reports` assumes
weak fairness of `ReportStep`, what the analysis' one thread does in a report; an abort is not
obliged and nothing is assumed of the child, which may neither read, nor answer, nor
end. `ReportsEnd` therefore excuses one thing, a write that waits for a living child to make room
(`Blocked`); the read never waits for long. That wait has a condition of its own, `WaitsOnlyBehindLate`: the analysis and
the child, each writing into a full pipe, cannot be waiting for each other unless an earlier call has given up. The analysis of events itself has
no fairness and no liveness property.

## 5. Proofs

`EventQueueProofs` proves, for every set of threads, every number of pages from two and of slots
from one, and every number of events:

- `TypeCorrect`: `Spec => []TypeOK`
- `SlotsExclusive`: `Spec => []SlotExclusive`
- `HeldUnsigned`: `Spec => []UnsignedWhileHeld`
- `WritesOnlySigned`: `Spec => []WriteOnlySigned`

from the assumptions on the constants in `EventQueue` only. The argument is one inductive invariant,
`IInv == TypeOK /\ ScanInv /\ SlotInv` (theorem `Invariance`):

- *A held slot lies below `storage_back` of its page.* The fetch-add makes it
  so, and only a release lowers the counter.
- *A slot at or above `storage_back` is unsigned, or the memset has yet to reach
  it.* So a slot handed out carries no old signature, except in that window.
- *What the worker has looked at is signed.* When a page is released all its slots
  were below `wnext`, so all were signed; since a held slot is unsigned outside
  the window, and there is no window while the worker scans, nobody holds
  a slot of the page. That is why setting `storage_back` to zero cannot hand out
  a slot twice, which neither `SlotExclusive` nor `UnsignedWhileHeld` could
  show alone: neither is inductive, and each needs the other.

The proof of the step has one lemma per action.

`EventLogProofs`, from the same assumptions, shows that the ring of pages is the log of
`EventLog`. It is a chain of invariants, each inductive relative to those before it and to
`IInv`:

- `RingInv`: pages before the front page have been released once more than it, and only the
  front page is partly written. It gives every page a number in the order of the file, and makes
  places unique (`PlaceInjective`, `PlaceOrder`).
- `ReserveInv`: every place given lies in a released page or belongs to a slot that has been
  handed out; a thread in a slot captures the event that reserved the slot's place; a signature is that of
  such an event, finalized, outside of the part of a page that is still being cleared.
- `FileInv`: the file ends where the front page begins plus what was written of it, and each of its
  records is in its place.
- `StopInv`, `WindowInv`, `TurnInv`: what the last drain will find, that a finalized event is in the
  file or intact in its slot unless the memset took it, and that places are given in turn
  until a hazard of section 2 is met.

They give `DumpedInPlace` (`DumpByPlace`), `FinalizedKept` (`NothingVanishes`), `ReservedInTurn`
(`InTurnUnlessHazard`), `ClosedFileComplete` (`ClosedComplete`), and the step simulation `QueueImplementsLog`:
`Spec => ImplementsLog`. The last has an assumption of its own, `Places = Nat`. The log has a place for every number,
and TLC needs a finite set; with a finite one the theorem would be false for a long
enough run, which is why `Places` in `queue_pages` exceeds what `MaxEvents` can reserve. An event that the memset took
from its slot is a place *spoiled* in the log, and the proof is where one sees that nothing else
spoils a place.

`AnalysisProofs` is about the program, the database and the analyzers, for any number of threads,
locks of any kind, create events and recursions. `SyncInv` says what the
pthread calls keep true of the program: who holds what, and that the operands of a call in progress stay valid.
`StepCases` then sorts the steps into seven kinds (create, destroy, take, capture of a lock, capture of an unlock,
let go, and steps with no say in who holds what), each of which concerns one lock and leaves
the others alone (`Apart`). Every analyzer is proved once over these kinds, from an invariant that relates
what it keeps to what the program did *up to the captures still due*, since between
the pthread call and its capture the two differ:

- `DatabaseIsRight` (`DatabaseKnowsLive`), from `DbInv`: the entry of each created object, none for
  a destroyed one.
- `UselessLockIsExact`, `RedundantRWLockIsExact` and `RedundantRecursiveMutexIsExact` (`UselessExact`, `RwExact`, `RecExact`). Each assumes
  that its analyzer is enabled, for one that is not says nothing. `RecInv` carries the
  argument of `redundant-recursive-mutex`: because an unlock is captured before the mutex is free and a lock after it
  is taken, the owner in the analyzer's entry is always a thread that really has the mutex.
- `LockOrderIsComplete` (`OrderComplete`): what a thread has and the file knows of is among `owned`, and every pair
  locked one inside the other among `edges`.
- `SectionsDoNotOverlap` (`LogExclusive`), from `LogInv`: `thread_locks` has a lock as often as its thread has it, less 1
  (`Due`) before the capture of a lock and after that of an unlock.
- `LockShadowIsExact` (`ShadowExact`): the shadows in the entry, cut with what each thread has besides whose capture is due, are what
  was held at every acquisition; an entry that is let go was covered by nothing. So a report has the create event of an object that
  was held each time; its number is that of the object now at that address, which is what the theorem says and no more. It needs
  `LogInv`, for what the analyzer takes for a thread's locks is what the file says, and `HeldKept`: while a capture is due its thread does
  nothing else.
- `ThreadsAreKnown` (`ThreadsStayKnown`): who captures an event has an entry, since its create event was
  reserved before it could run (`LivesInv`), and no event takes an entry of a thread away.
- `SingleAnalyzersEndNormally` (`NeverTerminates`): of a program without static locks, useless-lock, redundant-rwlock and
  redundant-recursive-mutex never look up what the database does not have, wherever the events stop. It needs `CalmInv` (a
  disabled analyzer has nothing to name at the end) beside `DbInv` and `UselessInv`. Both hypotheses are needed, see section 6.
- `AnalysisTypeCorrect` (`TypeOK`).

The assumptions are those of the modules: `IdsAssumption`, at least one creation and one level of recursion, the
known analyzer names, and that no thread id is one of the two marks that `UselessLock` uses beside them (`MarksAssumption`; the code has a `std::optional`).

Two things came to light in these proofs. `OrderComplete` as it was first stated is false: it spoke of any lock the thread has, and an address that was a
mutex when two were nested can be a read-write lock later, which `mutex-lock-order` does not look at. TLC finds the
behaviour with five creations; the property is now about mutexes, as its wording was. And five `CASE`
expressions of the analyzers and their histories had guards that overlap. TLC takes the first that holds, TLA+ leaves the choice open; their
guards are now exclusive, in the order of the code's `if`s.

`ExecutableProofs` proves of the reader, for every chunk size and every file of any
length, `TypeCorrect`, `ReadsInOrder` (`HandledInOrder`), `SeesEverything`
(`DoneSawEverything`) and `RefusesOnlyCorrupt` (`CorruptJustified`). The invariant adds to
these where the cursor stands: the chunk's first `bufferCap` slots are the records before
`position`, the number of records handled is `position - bufferCap + bufferCursor`,
every chunk but the last is full, so that `position` is a multiple of the chunk size, and the last one
ends at the last readable record. It is what shows
that the stale records beyond a short chunk are never taken: the properties
speak of what was handled and say nothing of the buffer.

`EventHandlesProofs`, for every finite set of handles: `CountsExact`, `RefExact` with the types
(`HandlesTypeOK`), which are inductive together. The lemmas say what adding or removing one owner does to the
cardinality of `Owners`, in each order in which the code lets go and takes.

`SymbolizerProofs`, for every number of frames, every room in the pipes and every number of
failures: `LinesStayLate` (`NeverCaughtUp`), `ReturnsOwnTrace` (`OwnTrace`) and `NeverWaits` (`WaitsOnlyBehindLate`). `SymInv` has two parts beyond the
types. A *count*: during a call, the lines in the pipes, with two or one for each
address on its way, and the lines read come to what is owed and what the call expects. And, while nothing is owed, an
*order*: lines read, lines in the stdout pipe and answers to the addresses in the stdin pipe,
one after the other, are the lines of the trace that was asked for. None of the properties
is inductive: each speaks of one moment, and the count and the order of all the others. With nothing owed the count says that the pipes are empty
when a question is written, and a question fits an empty pipe (`RoomAssumption`).

`ReportsProofs`: a behaviour of `Reports` is one of `Symbolizer` (`ImplementsSymbolizer`) and one of `EventHandles`
(`ImplementsHandles`), which gives `ReportsKeepCounts` (`RefExact`), `ReportsStayLate`
(`NeverCaughtUp`) and `ReportsNeverWait` (`WaitsOnlyBehindLate`); `TypeCorrect` and `ReportsOwnTraces` (`ReportOwnTraces`) follow from an invariant
that says which sections are alive and that the trace asked for is that of the current section.

`AnalyzerRulesProofs`, for rules and names of every length and any number of them: `SearchTypeCorrect`, `TableIsCorrect`
(`TableCorrect`) and `LastRuleIsDecisive` (`LastRuleDecides`). The heart are two lemmas about the meaning of
patterns, `FitsStar` and `FitsCharacter`: how a name with one character more fits a pattern with one more,
shown by making the cut for the longer from that for the shorter and back. `AcceptsStar` and `AcceptsCharacter` carry them over to
patterns that begin with two stars, where everything is shifted by one character; the cell's formula is theirs.
`SearchInv` adds that no rule tried so far matches the name (`NoneBefore`), which is what makes the verdict that of the last one.

`ExecutableProofs` goes on to `Executable`, which implements both of its parts (`ExecutableReads`, `ExecutableSearches`), so all their invariants are
its own (`ExecutableCorrect`).

Every safety property of the passing runs, and the refinement of `EventLog`, is a theorem. Model-checked only are the
liveness properties (`CaptureReturns`, `WorkerStops`, `EventuallyWritten`, `AlwaysEnds`, `ReportsEnd`), since the prover does not handle
fairness and `ENABLED`; and what the violation runs refute is refuted by TLC alone.

## 6. Where the code and its documents disagree

Checked by the violation runs:

- **Events are lost without any race** (`queue_loss`, `FileComplete`). The worker
  releases a page when its last slot is written, though `pages_back` moves on only
  when the *next* capture finds the page full. The page is zeroed, so that
  capture finds room in it and stays there, while the worker waits on the next page.
  One thread is enough. With the real library (pages of 256 events, one event every
  500 µs), 255 of 300 events are in the file, and of 600 the file goes from event
  255 straight to 512.
- **The worker may wait for ever** (`queue_hang`, `WorkerAlwaysStops`): a slot acquired and
  signed in the window of the `memset` loses its signature.
- **A corrupt last record is not always forgiven** (`reader_last`): not when the
  number of records is a multiple of the chunk size.
- **An analyzer that no rule matches is loaded** (`rules_unmatched`, `UnmatchedIsDisabled`): `find_analyzers.cpp:48` returns
  true where the help text (`options.cpp:49-50`) says that it is not enabled.
- **lock-shadow can end the analysis** (`analysis_crash`): it names a shadow that
  has been destroyed, in a destructor.
- **It takes hand-over-hand locking for shadowing, and reports one shadow of several** (`analysis_rule`, `ReportedByRule`). It compares at the
  acquisition only, where the paper's rule (4.3, lines 53-59) asks for the whole critical section, and of the objects left it reports
  the one whose event is lowest in memory, where the paper (4.3, lines 85-87) has a report for each pair. In the run an object is locked under two others, one of
  which is let go first: that one is reported, and the other, which the rule finds, is not.

Met while reading or modelling, without a run:

- lock-shadow may name another object: the number of a shadow is looked up by address, which may be in use again by then. The paper
  (3.3, lines 240-243) gives objects numbers so that names do not collide. `ShadowExact` says what is printed.
- mutex-lock-order reports a mutex locked twice in a row as an inversion: an unlock erases nothing from its set of lock events
  (`mutex-lock-order.cpp:58`), and `tests/analyzers/CMakeLists.txt:43` has a TODO on the positive tests of this analyzer.
- mutex-lock-order can end the analysis too: it never erases an edge or an owned mutex, and a report that names a destroyed one throws.
- Two threads may have one number: joined threads are never erased, and the create event of a thread whose id is in use again is
  not taken (`database.cpp:7`). useless-lock takes the two for one; `UselessExact` is therefore stated of thread *ids*.
- Two stars at the beginning of a pattern stand for at least one character: `**a` does not match `a`,
  because the first column of the table is set for one star only. The help text (`options.cpp:44-45`) has `*` for any group of characters;
  `Accepts` says what the code makes of it.
- A statically initialized mutex is never created, so its first event makes
  `object_type` throw: with a member in `StaticLocks`, `NeverTerminates` fails at once.
- One timeout misplaces every later stack trace: the lines that come after it are read as the answer to
  the next question, and that question's last lines are left for the one after. This is `NeverCaughtUp`. Only an event with an empty
  backtrace puts it right, by accident: it reads until nothing comes.
- An event with an empty backtrace waits out the whole limit and is then printed as "Failed to symbolize
  stacktrace".
- The word `ERROR` of a report goes to `std::cout`, the rest of it to the report stream (`report.cpp:56`).

## 7. Not modelled, and the plan

Clocks, unwinding, debug output and the wording of reports are I/O without state
another part depends on. `syan_init`'s error exits end the process before any event. Which
files a directory holds, and whether `dlopen` accepts them, is the set `Names`; the other options are values handed on. Tests and
benchmarks are clients, read for how the system is used.

Next, in this order:

1. Which programs the analysis outlives with lock-shadow or mutex-lock-order enabled: those whose shadows and edges name
   only objects that are destroyed after the objects they are named with. `SingleAnalyzersEndNormally` is about the other three.
2. The converse of `OrderComplete`: which reports of mutex-lock-order are justified, where no unlock has been captured.
