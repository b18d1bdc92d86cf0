# A TLA+ model of C-DEH

C-DEH (Cross-Cloud Data Exchange Hub, `src/cdeh`) moves objects between
storages under a *share*: a saved definition with a source adapter, a
destination adapter, filters, transforms, a policy and a retry rule. This
directory holds TLA+ modules of the parts of it that have state, the TLC
configurations that check them on small instances, and proofs checked by TLAPS.

    tlc -workers 2 -config AuditLog_threads.cfg MCAuditLog.tla   # any run
    tlapm AuditLog_proofs.tla                                    # any proofs

`PROJECT.json` lists the components, the runs, a mutant for every checked
property, the source lines behind every definition (`map`), the findings, the
hazards and the theorems.

## 1. Inventory

| part | source | state | operations |
|---|---|---|---|
| audit log | `core/audit.py` | `audit.log`, `audit.log.1`; in each process the last hash, a line count, a lock | `append` (which rotates), `_bootstrap`, `verify_chain`, `tail` |
| transfer engine: a run | `core/transfer.py` | share definitions (one JSON file each); per engine the byte cache and the fields `_current_share_name`, `_current_checkpoint` | `save_share`, `delete_share`, `run` |
| transfer engine: one object | `core/transfer.py` | chunk objects `.partNNNN` at the destination, a checkpoint, a pool of 4 uploads | `_transfer_one`, `_transfer_with_retry`, `_stitch_parts` |
| transfer engine: batches | `core/transfer.py` | an executor of 8 workers, created on first use | `run_async`, `run_batch`, `shutdown` |
| policy engine | `core/policy.py` | policies by name, a list of time stamps per user, a lock | `evaluate`, `add_policy` |
| transfer cache | `core/cache.py` | an `OrderedDict` of time stamp and bytes, a lock | `get`, `put`, `mark_present`, `invalidate`, `stats` |
| checkpoint stores | `core/checkpoint.py` | a JSON file per path, or one SQLite table | `put_part`, `mark_completed`, `reset`, `get`, `list` |
| data catalog | `core/catalog.py` | `catalog.json` and its dictionary, a lock; an asset carries the fingerprints of its last transfers | `register`, `delete`, `mark_synced` |
| RBAC | `core/auth.py` | `users.json` and its dictionary, a lock | `add_user`, `add_to_group`, `set_department`, `check` |
| client facade | `core/gateway.py` | `adapters.json` and its dictionary, no lock | `register_adapter`, `remove_adapter`, `shares.create`, `run_share`, ... |
| HTTP server | `server.py` | one client, one lock around every request | GET, POST, DELETE |
| command line | `cli.py` | none | one client per call |
| adapters | `adapters/*.py` | the objects of the storage | `list`, `get`, `put`, `delete`, `stat` |
| transformers | `transformers/*.py` | none | functions on bytes |

How they meet. `run_share` loads a definition and calls `TransferEngine.run`.
The run asks RBAC once; it lists the source; for each object it asks the
filters and the policy engine, compares the fingerprint with the one in the
catalog, fetches the bytes (through the cache), writes them (in chunks when they
are large, each noted in the checkpoint), records the fingerprint in the
catalog and appends to the audit log. `run_async` and `run_batch` execute runs
on threads that share one engine: its cache, its catalog, its two `_current_...`
fields. A server and `cdeh` commands are different processes on the same
files, each with dictionaries it has loaded when it started.

What is hard, and what should hold:

| part | hard behaviour | correctness |
|---|---|---|
| audit log | threads and processes append and rotate; file operations that raise, and kills, between two of them or inside one | an undamaged chain verifies; an acknowledged entry is lost only behind a torn line; the size limit; history only grows |
| a run | the source changes between listing and fetching; fingerprints that do not tell versions apart; failing fetches, puts, saves and audit writes; kills; concurrent runs of one share | what is skipped is current; the destination catches up; every object reported once; every write audited |
| one object | chunks side by side, a failure among them, a retry, leftovers of a killed run, deletes that raise | never a mixture of versions; attempts do not overlap; the run ends; a resumed run skips |
| batches | the executor is created and shut down by racing threads; `fail_fast` | complete reports; nothing starts afterwards; the batch returns |
| policy engine | many threads, a sliding window, policies replaced during a call | no call over its rate; no refusal below it |
| cache | stamps taken before the lock | bound, eviction order, never a wrong value |
| stores | concurrent changes, failing saves, kills, a shared SQLite connection | acknowledged changes are on disk; no update is lost; the file always parses |
| server and commands | processes with memories of different age on one file; a `.tmp` file they share; a request that fails after its effect; kills and restarts | requests are atomic and answered; only overlapping processes lose changes; no run for a user who was never granted it |

## 2. Modules

| module | models | composed with |
|---|---|---|
| `AuditLog` | the log, for any number of threads and processes | implements `AppendOnlyHistory` |
| `AppendOnlyHistory` | abstract: a history to which one record at a time is added | |
| `Adapters` | what the five adapters do with an object: fingerprints, failed puts, deletes (operators, no state) | used by the next two |
| `ShareRun` | runs of one share together with the cache, the catalog's fingerprints and the audit trail | |
| `ChunkedTransfer` | the transfer of one large object, its retries, pool, checkpoint and stitching | implements `AtomicPut` |
| `AtomicPut` | abstract: each attempt puts one whole version by one change of the destination | |
| `RunBatch` | `run_batch`, `_executor`, `shutdown` | |
| `PolicyEngine` | `evaluate`, the rate limit, `add_policy` | |
| `TransferCache` | the cache | implements `LossyMap` |
| `LossyMap` | abstract: a concurrent map that may forget but never lies | |
| `Stores` | the five stores on disk, one of them at a time, write by write | |
| `Service` | server, commands and client facade on one configuration directory | implements `RequestService` |
| `RequestService` | abstract: requests served one after the other on an atomic dictionary | |
| `MC<module>` | names and functions for the constants of a small instance | |
| `<module>_proofs` | theorems about `AuditLog`, `ShareRun`, `ChunkedTransfer`, `RunBatch`, `PolicyEngine`, `TransferCache`, `Stores`, `Service` | |

Definitions named `<definition>_<word>` ("a defect for ...") are mutated forms
of the definition below them. No specification uses them: with one of them in
its place, the property named in its comment fails.

### AuditLog

Each process has `lastHash`, `lineCount` and a lock; each thread is at a label
of `append`: `Build` (take the lock, build the entry on the remembered hash),
`Write` (the line goes to the file), `Advance` (move the head, count, decide
whether to rotate), then `Unlink`, `Rename`, `Touch`, `Mark` (the
`audit.rotate` entry) and `Return`. Each file operation may raise, with the
process alive, and `append` with it: `WriteRaises` (of an entry or of the
rotation's entry; nothing, a fragment, or all of the line is then in the file,
and the memory does not know), `StatRaises` and `RenameRaises` (also because a
second process has renamed the file in between), `RotationRaises` (`unlink`,
`rename` or `touch`; a `touch` that raises leaves no file and the head of the
old one in memory). `Crash` stops a process anywhere, `CrashMidWrite` inside
either write, and `Restart` is `_bootstrap` with the last lines that parse (a
bootstrap that itself raises has started nothing and is no step). A line
without its newline (`open`) swallows what is written next (`AddLine`).
`tears` counts such lines, and `damaged` names the files in which a write
stopped half way or raised behind its line, or that a failing `touch` has left
to be created by the next append on the old head: what a half-done operation may
break and nothing else may. `VerifyChain` is `verify_chain`, which takes no lock and
raises when `audit.log` is not there (`audit.py:152`).

SHA-256 is an injection (fresh numbers); sizes are counted in
lines; `open` and `write` of one line are one step, so that a reader sees of the
line of a live, undisturbed write all or nothing (a reader in the middle of a
`write` of the operating system is left out). The history that `AppendOnlyHistory`
speaks of is that of the terminated lines: a line without newline is not yet part
of it.

### Adapters

A version of a source object is a number, and an adapter is known by three
things: the fingerprint it gives of a version (`Stamp`: digests and etags tell
all versions apart, the times of SFTP and MySQL are whole seconds), what a
`put` that raises or is killed leaves at the destination (`PutLeaves`: files
may be cut short, clouds replace or do not, the `stat` at the end of a put may
raise when everything is written, MySQL never writes), and how a `delete` may
end (`DeleteEnds`). `Writable`, `Md5` and `IsHttps` are what the engine asks
besides. The vendors' libraries behind the calls are not modelled.

### ShareRun

Content is a version number. `Start` loads the definition and asks
`RBAC.check`; `Refuse` stands for the errors before the listing (adapter,
transform, or an `AdapterError` of `list`) and `Raises` for exceptions that
leave `run`; `List` takes all the fingerprints; `Filter` (an audit entry, and no
field of the result), `Deny` (the policy: an error in the result, and an audit
entry), `Skip` and `Begin` decide an object, in the modes `etag`, `mtime` and `none`; `Fetch`, `Fill`,
`Put` are `_transfer_one` below the chunk threshold; `AttemptFailed` is
`_transfer_with_retry`; `Settle`, `Record`, `Log` are what follows an upload,
and `RecordFails`, `LogFails` the same with a catalog that cannot be saved or
an audit log that cannot be written. The fingerprints are read in `Settle` and
written back in `Record`, since the code copies, changes and registers them
without a lock around the three; `saved` is what `catalog.json` holds, which is
what a `Kill` leaves of them. `result` says in which field of `TransferResult`
an object is, if in any (a filtered one is in none): with a failing catalog it may
be counted as transferred and as failed. The environment: `Update` of the source, `Expire` of a cache entry,
`Kill` (which may truncate the object being put), `DeleteShare`,
`DefineShare`. The catalog update at the end of `run_share` registers the same
asset object again and leaves the fingerprints as they are, so it is no step
here (it is `Note` in `Service`).

### ChunkedTransfer

`Plan` reads the checkpoint; `StartChunk`, `UploadChunk`, `NoteChunk`
(`put_part`) and `ChunkFails` are the pool; `Collect` and `Drain` are what
`ex.map` and the end of its `with` block do with a failure; `ReadPart`,
`Replace`, `DeletePart` are `_stitch_parts`; `Mark` is `mark_completed`; each of
them has its failing form, as far as the adapter lets it fail. `AttemptFails`
starts the next attempt or gives up, on the last one and also earlier, when the
audit entry of the retry cannot be written. The engine's
`_current_share_name` is read at the moment a chunk is noted, as the code does.
Runs of other shares (`Others`) appear only by what they do to the engine's
fields and to the checkpoints: `StartOther`, `NoteOther`. A call of the
checkpoint store is one step: `Stores` checks that its calls do not lose each
other's changes. `PutsAtomically` maps all this to `AtomicPut`: `fetch` is
`"taking"`, everything from there to `mark` is `"putting"`, and an object is the
version of its chunks (or no version at all, when they differ). `ShareRun` puts an
object in one step; for a large one, this refinement is the reason why it may.

### RunBatch

One task per share, with the outcomes `ok`, `errors` (a result that lists
errors) and `raised`. `Look`, `Create`, `Take` are the three accesses to the
attribute `_exec`, so that two threads may create two executors and `shutdown`
may delete the attribute in between. `shutdown` waits (its default).
`ThreadPoolExecutor`, with its worker `StartTask`, is modelled from its use: first
in, first out, a bound, `cancel` only before the start. On an exception with
`fail_fast`, `Collect` is the cancellation of the futures that have not started and
the return in one step: a future that starts in between is not cancelled, and what
starts before the return is allowed to. A thread calls `run_batch` once.

### PolicyEngine

`Lookup` reads the policy without the lock, `Decide` runs the checks and the
rate limit under it, `AddPolicy` may come between. A time stamp is the grant it
stands for; the clock never goes back. The match of a declared transform
(a substring test) is the constant relation `Within`.

### TransferCache

`CallGet` and `CallPut` read the clock before they wait for the lock, as the
code does; `Get`, `Put`, `Invalidate` are the parts under the lock. The order of
the `OrderedDict` is the set of pairs of keys of which the first comes before the
second: its head, which `popitem(last=False)` evicts, is the key before all others.
`usedAfter` remembers independently which key was used after which.

### Stores

`kind` says which store a behaviour is about. The three dictionaries in memory
(catalog, users, adapters) and the JSON checkpoint share `Begin`, `Write`, `Fill`,
`Replace`, `SaveFails`, `Return`: lock, change, write `.tmp`, rename. They
differ in where an operation starts from (memory or file), in `Restart`, and in
their operations (`Names`). SQLite has `FirstStatement`, `Statement`, `Commit`: the
threads of a process share its connection, so they share its transaction. A
process that has to wait for another's transaction waits, or gives up after the
five seconds of the library: that is one of the ways in which a statement raises
(`StatementFails`), like a full disk or an I/O error; `CommitFails` is the same of
a commit. An error may roll the transaction back, with what other threads have
written in it (`RollBack`), or leave it open until the next operation of the
process (`LeaveOpen`). A thread whose first statement was rolled back goes on with its
second (`SecondStatement`). `undone` names the operations whose statements an
error of another thread has rolled back.

The adapters have no lock of their own: `Free`
is the lock of the HTTP server there. `reset` of a JSON checkpoint takes no
lock; the engine never calls it, and the model lets it run only while no thread
is inside an operation. Callers of `register` change the asset in memory before
they call, outside of the lock (`transfer.py:780`, `gateway.py:140`); `Stores` has
only what `register` does, `ShareRun` and `Service` have the change.

### Service

Operations are numbered as they are sent; process 0 is the server, process *i*
the command *i*. An entry of a file is the number of the operation that set it
and whether it is live. `Boot` and `Load` build a client, that is, load the
three files; a file that does not parse counts as empty. `Send` is a request or
a command, `Acquire` the server's lock, `End` the release of the lock and the
response, or the exit of the command. `BadBody` is the
answer to a body that is no JSON, given without the lock, and `Refuse` the other
errors before an effect. `Change` is the head of
`register_adapter`, `remove_adapter`, `add_user` and `register` (memory only);
`Write` and `Rename` are the save, whose `.tmp` file all processes share, so
that a write next to another's may leave bytes that do not parse, and a rename
may find its file gone (`SaveFails`); `Record` is the audit entry, and
`RecordFails` the error after the effect. `save_share` is `ChangeShare` (its
`.tmp` file) and `ReplaceShare` (the rename); mixed bytes of two processes in that
`.tmp` file are left out. `Look` and `StartRun` are the other
operations. Of a run, `Transfer` is everything that `ShareRun` has in detail; as far
as the files are concerned, it changes the asset in memory and saves it when it
records the fingerprint of an object (`print` and `keep` are the labels of that
save; the save of one object stands for those of all), and `Note` does so at the
end. Without the asset in the catalog, the former makes one, while the latter
raises a `TypeError` that it ignores, and registers nothing (`gateway.py:136-143`):
`Known`. `KillServer` and `KillCommand` may leave a `.tmp` file cut short. The
client that gives up after 30 seconds is not noticed by the server: what it
asks for again is one more request. The mapping of `ServesAtomically` shows of
the memory of the server the names of its adapters, and of an operation whether
it waits, has taken effect, or is answered.

## 3. Runs

| run | instance | shows |
|---|---|---|
| `AuditLog_threads` | 2 threads, 1 process, limits of 3 lines and 4 sizes, 1 line replayed, 6 appends, 1 operation that raises, 2 kills | types; the chain of every file that no half-done write or touch has damaged verifies, but for a missing file in the middle of a rotation, with the invariant that explains it; an acknowledged entry is lost only behind a torn line; the file exceeds its limit by at most a line per kill and per operation that raised; the generations of files together are an append-only history |
| `AuditLog_processes` | 2 processes, 3 appends, limits of 3 lines and 2 sizes, 1 operation that raises, 1 kill | an append whose write, stat or rename raises, also because of the other process, still releases its lock; a torn line costs at most one acknowledged entry |
| `ShareRun_sequential` | 2 objects, 2 versions with one stamp on SFTP, sources local and SFTP, destinations S3 (https) and Azure (http, which the policy refuses), 3 users with three roles, 1 fault, 1 kill, 1 redefinition | only what the stamps call current is skipped; the destination catches up |
| `ShareRun_concurrent` | 2 runs, 3 objects (one to transfer, one that the filters exclude, one that the policy denies), destinations SFTP and MySQL, 2 attempts, 3 faults | types; every run accounts for its listing, in one field of its result or by the audit entry of a filtered object; every write is audited |
| `ShareRun_failed_put` | 1 object, 2 versions, a failed upload | finding 1 |
| `ChunkedTransfer_run` | 2 chunks, 2 workers, 2 attempts, 2 versions, SFTP, kill, runs of another share | types; no mixture; a finished run stored what it fetched; attempts do not overlap; refinement of `AtomicPut`; a run ends |
| `ChunkedTransfer_resume` | 2 chunks, kill | finding 2 |
| `RunBatch` | 2 callers with 2 shares each, one `fail_fast`, an unknown adapter, 1 worker per executor, 2 executors, shutdown | counts and items of a report agree, and no share is without an item unless `fail_fast` left it; nothing starts after the return; batches that have submitted return |
| `PolicyEngine` | 2 threads, 2 users, rates 0, 1 and 2, window of 2 ticks | no call over its rate, none refused below it |
| `TransferCache` | 2 threads, 3 keys, room for 2, time to live 0 | the bound; the least recently used entry goes; refinement of `LossyMap` |
| `Stores` | each of the 5 stores, 3 threads, 2 processes (SQLite), 2 keys, 4 operations, 1 save, statement or commit that fails, 1 kill | acknowledged changes are on disk, but for those that another thread's error has rolled back; the file never goes back and always parses; memory agrees with it; the lock is given back |
| `Service` | 2 requests (of register, remove, list, run) and 1 command (of register, user, asset, define, delete), 2 adapters, 1 user, 1 share, with its asset or without, 1 fault or kill, restarts | a saved change is lost only to an overlapping process; no run for a user who was never granted it; every request ends; refinement of `RequestService` |

Why the bounds are enough. Every hazard listed needs two actors, one or two
keys, and a fault between two steps of one of them, and the instances allow
that: more appends than two rotations need, more keys than the cache holds, more
attempts than one, a rate that is reached inside one window and again after it
has passed, a command that starts and ends around a request. The mutants are
the evidence: for every property of every passing run a plausible defect is
found within the same bounds. `AuditLog_threads` replays one line, so that a
restart really forgets lines; the number does not matter to the chain (it is a
constant in the proof). For the safety properties that are proved, the bounds
do not matter at all. The longest runs are `Service` (590 000 states, three
minutes, most of it for liveness), `ShareRun_concurrent` (760 000 states, two
minutes), `Stores` (320 000 states) and `ChunkedTransfer_run` (470 000 states).

Deadlock is checked everywhere except in `RunBatch`, where every thread may be
finished, and in `Service`, where every operation may be over and the faults
spent. `Quiescent` in `AuditLog` and `Stores` is the idle end of a bounded
instance. Symmetry is used in `ShareRun_concurrent`, `PolicyEngine` and
`TransferCache`, over interchangeable threads, users or values, in runs without
a liveness property.

Fairness. `AuditLog`, `Stores`: a thread inside an operation goes on; nobody is
obliged to call one, and nothing restarts a dead process. `ChunkedTransfer`: every
call of a run returns or raises (adapters have no infinite wait of their own).
`RunBatch`: threads and workers go on, and a run ends. `Service`: some
operation that can go on does; each takes a bounded number of steps, and the
transfer ends (`ChunkedTransfer`, `Terminates`). `ShareRun_sequential`
also assumes that the share is started again and again for each user, which is
what its schedulers (cron, Airflow in the documentation) do; failures and kills
get no fairness and are bounded, so "eventually" means: once they stop and the
source stops changing.

## 4. Proofs

Everything that the passing runs check, but for liveness, is proved for all values
of the constants: every invariant, every property on steps and the four
refinements. Each proof module assumes the named
assumptions of its module on the constants and what is said here. The pattern is
the same everywhere: a state formula that `Init` implies and that every action keeps, with a step per action and
lemmas on the frame of what other threads see.

`AuditLog_proofs`:

* `TypeCorrect`: types, for any number of processes, threads, lines, faults and kills.
* `ChainInvInductive`, `ChainIsIntact`: for one process, whatever the number of
  threads, the limits, the lines replayed, the operations that raise, the torn lines and
  the kills, `verify_chain` says ok of every file that is not in `damaged`; it
  finds `audit.log` missing, and raises, only while a thread is between the rename
  and the touch, or when the process has died there (`Rotating`). `ChainVerifies` is
  not inductive: an append is safe only because the hash in memory is the one of
  the last line. `ChainInv` adds that (`HeadIsRemembered`), with its two
  exceptions (after the write of a line, and after the rename of the file),
  that a thread inside `append` holds the lock of a running process
  (`OwnerDiscipline`), that what is about to be written was built on the head
  (`BuiltOnHead`), that no line of an undamaged file is open, and when there is a
  file (`FileIsThere`). `AppendKeepsChain` and
  `BootFindsHead` are the lemmas on lines, `SoleThread` is mutual exclusion.
* `HistoryIsAppendOnly`: for any number of processes, torn lines and faults included,
  `AuditLog` implements `AppendOnlyHistory`, under
  `history <- dropped \o rotated \o Terminated`. A rotation is a stutter there, by
  associativity; a write appends one record (`AppendToLast`), and so does the one
  that ends a torn line (`WriteTerminates`, `TearTerminates`).
* `LossNeedsTear` (`LossIsBounded`): for any number of processes, threads, faults and
  kills, without further assumption, no more acknowledged entries are unreadable
  than lines were torn, by a kill or by a write that raised in a process that lives on.
  `LossInv` is the argument: every
  append has a hash of its own (`IdentInv`); a torn line that ends the file is of an
  append that will never return (`TornIsDead`); and the written entries that cannot
  be read, with one more while a torn line is waiting to swallow the next entry,
  are no more than the torn lines (`LossPaid`). `ReadableStays` says that a step can
  make unreadable only what stands in a torn last line.
* `SizeStaysBounded`: for one process whose limit is more
  than one entry, the file exceeds it by at most a line per kill and per operation that
  raised. `SizeInv` separates the two reasons for a file at its limit: an append on its
  way to the rotation, and an append stopped on that way. With a limit of one entry the
  `audit.rotate` entry fills the new file by itself, and the bound is false.

`ShareRun_proofs`, for any number of concurrent runs, users and objects, all
modes and adapters, all faults:

* `ShareTypes`, `NothingIsLost` (`Accounted`), `NoSilentWrite`
  (`WritesAreAudited`). `RunInv` is a statement on one run and one object at a
  time (`Account`), because the counts of `Accounted` are about sets: where the
  object is (to come, under way, decided, filtered out, or counted twice for want
  of a record), and which entries it then has.
* `SkipIsRight` (`SkipsOnlyCurrent`), under `OneAtATime`: one run of the share at a
  time, adapters named like their kinds, no failing put (a put to a read-only
  adapter may fail), one destination, and no comparison of times of modification
  without transforms. The code ensures none of these, and each is needed: TLC
  refutes the property when any one of them is dropped (finding 1, and other
  disagreements of section 5). Everything else is arbitrary: objects, versions,
  stamps, users, policies, kills, failing fetches, catalog saves and audit writes.
  In `SyncInv`, a recorded fingerprint is no newer than what the destination holds,
  or older than the source, so that the next listing differs from it (`Backed`);
  the cache holds only the object on its way (`Cached`); the bytes in hand are no
  older than what was listed, and once they are put, neither is the destination
  (`Carried`); for an object that a run has still to treat, `Backed` holds of what
  the run has listed (`Awaited`), since the source may go on changing.

`ChunkedTransfer_proofs`, for all numbers of chunks, workers, attempts, runs
and versions:

* `ChunkTypes`, `NoOverlap`: `PoolInv` says that the pool is empty outside of
  the two states in which it works, and that no checkpoint has a size, so that
  no attempt starts with chunks taken for done.
* `ObjectsAreWhole`, `FinishedMeansStored`, provided that no two threads run the same share
  (`SeparateShares`): `WholeInv` follows the bytes of one attempt from the
  chunk objects to the parts read back and to the object. Two runs of one share
  do mix their chunks (section 5).
* `TransferIsAtomic` (`PutsAtomically`), with `SeparateShares`: `ChunkedTransfer`
  implements `AtomicPut`. `Replace` is the put there, `ReplaceFails` a failed one,
  `Fetch` takes the version, `Mark` ends the run; every step of a chunk, a part or the
  checkpoint is a stutter. It needs `WholeInv`, and that cached bytes are of a
  version that the source has had (`CacheIsOld`).

`RunBatch_proofs`: `BatchTypes`, `BatchIsReported`, `ReturnedBatchIsQuiet`, for all
callers, sizes, executors and outcomes. `CallInv` says what the loop of a batch
has submitted and collected, `ReportCounts` that the counts of a report add up to its
items. A report may leave out shares only for a caller with `fail_fast`, after
another share of the batch has raised; `BatchIsReported` says so, and says nothing of
batches that raise instead of returning.

`PolicyEngine_proofs`: `PolicyTypes`, `RateInvInductive`, `RateIsRespected`,
`RefusalIsJust`, for all threads, users, policies and windows. The invariant
behind them, `WindowInv`: the list of a user holds every grant of that user that
is younger than the window and nothing but grants of that user.

`TransferCache_proofs`, for all threads, keys, values, sizes and times to live:

* `CacheTypes`: among the types, that the cache holds at most `max_items` entries and
  that `order` is a strict total order of its keys. `CacheInv` adds that one key is
  before another only if the other was used after it, which `LeastRecentlyUsedGoes`
  needs of the key that is evicted.
* `LeastRecentlyUsedIsEvicted` (`LeastRecentlyUsedGoes`), `CacheImplementsMap`
  (`ImplementsLossyMap`): `TransferCache` implements `LossyMap`; hits and puts are
  reads and writes, evictions, expired entries and invalidations are what it forgets.

`Stores_proofs`, for any number of processes, threads and keys, whatever save,
statement or commit fails or is killed: `StoreTypes`, `StoreIsReadable`, `AcknowledgedIsDurable`,
`MemoryIsTheFile`, `NoLostUpdate`. `StoreInv` compares everything on its way to the
disk (the draft of a thread, the memory, the open transaction) with the disk: it
is at least as new in every key. `AcknowledgedIsDurable` has the exception of the
code: operations in `undone`, which another thread's SQL error has rolled back.

`Service_proofs`, for any number of adapters, users, shares, requests, commands and
faults:

* `ServiceTypes`: types, and that a request without the lock waits for it or is over.
* `OnlyGrantedRun`: `GrantInv` says that what a process knows of the users was
  once in `users.json`, except in a command that is about to write there.
* `ServiceIsAtomic`: `Service` implements `RequestService`. A request takes
  effect in `Change`, `ChangeShare` or `StartRun`; its end is its reply; commands and
  their kills are stutters, since they work on another memory. `MoveFrame` says
  how one step of the detailed service shows in the abstract one.
* `OnlyOverlapLoses` (`LostOnlyToOverlap`): a process replaces a whole file from its
  memory, so the invariant has to say what all memories hold. `GoodInv`: an entry,
  on disk or in the memory of a process, is the last one saved alone, or of an
  operation that was answered with an error, or about to be saved by that
  process, or the fingerprint of a run that it failed to save and goes on with
  (`Holding`); except that the server's memory of assets may hold such a run, which
  only the next one replaces. `TmpInv`: the `.tmp` file of a save under
  way is its memory. `NumInv`: an entry is known by an operation on its own file.

Only model-checked:

* liveness, which is out of the prover's reach: `LockIsReleased` (of the log and of
  the stores), `EventuallySynced`, `Terminates`, `BatchReturns`, `EveryRequestEnds`.

The two properties that the code violates (section 5) are refuted by TLC; nothing is
proved of them except `SkipsOnlyCurrent` under `OneAtATime`.

## 5. Findings

Each is a run that TLC refutes with a property quoted from the code.

1. `ShareRun_failed_put`. A run fetches version 1, caches it and fails to upload.
   The source moves to version 2; the next run lists version 2, finds the bytes of
   version 1 in the cache, uploads them and records the fingerprint of version
   2. The run after it skips the object: the destination stays old
   (`transfer.py:524`).
2. `ChunkedTransfer_resume`. `put_part` and `mark_completed` never write the key
   `total_bytes` that `transfer.py:544` compares, so no run ever resumes.

Other disagreements met on the way, which the passing runs exclude as said:

* Two processes on one log (a server and a `cdeh` command) both append to the
  hash they remember, and the chain does not verify although nobody tampered with
  it (`audit.py:104`; the comment at 107-108 says the chain "is always consistent
  under concurrent writers"). The theorem `ChainIsIntact` is therefore about one process.
* `verify_chain` takes no lock and tests nothing: called by another thread between the
  rename and the touch of a rotation (`audit.py:126-127`), or after a kill there, it
  raises `FileNotFoundError` (152) although nothing is wrong with the log.
* A `touch` that raises (127) leaves the head of the old file in memory, and a write that
  raises behind its line leaves the file one entry ahead of it: the chain of
  that file does not verify any more (`damaged`).
* A line torn by a kill, or by a write that raises in a process that lives on (110),
  makes `verify_chain` fail, although the text was not
  "modified/tampered" (SECURITY.md:109-110); the next entry is appended to the torn
  line and lost although its `append` returns. `LossIsBounded` bounds the loss by
  the torn lines.
* An `append` that raises may have written its entry (the rename or the stat
  comes after it), and a rename that raises because another process came first has
  deleted `audit.log.1` before (122-126): the lock is given back, the rotation is
  left half done.
* After a restart the line count starts at ten or less, so a file may hold more
  than `max_lines` lines (`audit.py:7-8`); `SizeIsBounded` is what is left. With
  several processes the limit is exceeded by lines of the others too; that is not
  checked.
* `run` invalidates the cache under `share.src_adapter` (`transfer.py:486`) but
  fills it under `src.kind` (519, 524): with an adapter not named like its kind
  (`NameIsKind = FALSE`) nothing is invalidated, and finding 1 needs no failure.
* SFTP and MySQL give whole seconds as fingerprints (433): a version written
  within the second of the one before is skipped. `SkipsOnlyCurrent` and
  `EventuallySynced` are stated up to the stamp. In the mode `mtime` two adapters
  that both tell seconds may agree by chance on different content.
* Two concurrent runs of one share: an older upload may stay recorded as
  current (490), fingerprints of one run are lost (772), chunks of two versions are
  stitched together (549; `MCChunkedTransfer` has `SameShare` for it).
* An object that the filters exclude is in no field of `TransferResult` (399-407);
  only the audit log has it. `Accounted` counts its `filtered_out` entry.
* An upload whose fingerprint or audit entry cannot be written is counted as
  transferred and reported as an error (490-502); `Accounted` allows just that.
* `delete_share` leaves the fingerprints in the catalog (300; DEPLOY.md:248):
  a share defined again with another destination skips objects that are not there.
* A prefix is cut off as a string (795): S3 lists `/data2/x` under `/data`, and two
  objects may get one destination.
* `_current_share_name` is overwritten by the run of another share (335), and
  chunks are noted in the wrong checkpoint.
* Two threads may create two executors (740), so the bound of eight workers
  does not hold.
* `shutdown` during the submission of a batch makes `submit` raise (697): the batch
  raises, and its caller loses sight of the shares already submitted, which run on.
* An unknown adapter is reported but does not stop a `fail_fast` batch (684;
  `tests/test_sync_async_batch.py:105-106`); `fail_fast` also ignores a result with
  errors (710).
* The policy `block-all` admits every call (`policy.py:82`, against 62).
* The engine calls `rbac.check` without an asset: groups and departments of
  assets do not apply to runs (API.md:66). The server checks against the users it
  loaded when it started: a user demoted by a command keeps running shares.
* Each JSON store is replaced from the memory of one process: of two processes,
  the one that saves last wins, and their common `.tmp` file may hold bytes of both.
  `LostOnlyToOverlap` says that nothing else loses a change.
* A request may be answered with an error although it took effect: the audit
  entry is written last (`gateway.py:84`).
* `cmd_adapter_remove` returns 1 whether or not there was an adapter to remove
  (`cli.py:51`).
* A `MySQLAdapter` built from its configuration is always read-only
  (`write_mode` is dropped), although the error of its `put` asks for
  `write_mode='replace'`: a share with a MySQL destination always fails.
* `base.py:107` calls `delete` idempotent, with no error if the object is already
  gone; the one of MySQL always raises (`mysql.py:238`).
* Threads share one SQLite connection and its transaction: an error of one that rolls
  it back (`checkpoint.py:228-237`) discards the statements of the others, whose commit
  then returns without complaint. `AckedAreOnDisk` names these operations (`undone`)
  and says that no others are lost.
* `FileCheckpointStore` says "Thread-safe across processes (file lock per
  checkpoint)"; it has a `threading.Lock` per instance. `_encode` gives `/a_b` and
  `/a/b` the same file. `src_size` and `src_etag` of its docstring are never written.
* `run_share` builds `DataAsset(description=...)`, which raises a `TypeError`
  that is swallowed (`gateway.py:136-143`). A GET of a missing share is an
  `AttributeError` and a 500.

## 6. Not modelled

* Transformers, argument parsing, printing, JSON bodies: data, not control. A share
  with transforms differs from one without by the flag `Transforms`.
* Vendors' libraries, connections, ranges and multipart uploads: `Adapters` says
  what the engine relies on.
* Paths as strings, and therefore how a destination path is built; text with line
  separators such as U+2028 in audit entries; clocks set back.
* The branches of `RBAC.check` for an asset and a department: the engine never
  passes an asset, so no run reaches them.
* Requests and commands that only read: the list of the adapters stands for them.
  The 30 seconds of a client are one more request.
* Runs of one share at a time next to each other below the level of `ShareRun`:
  `ChunkedTransfer_run` has one run and the effects of others on the engine.
* Migrations and `list` of checkpoints, `reset` next to a transfer under way; an asset
  that a caller has changed and not yet registered, in `Stores`.
* A reader of the log in the middle of a `write` of the operating system, a
  bootstrap that raises, the `.tmp` file of a share that two processes write at a time.
* Deployment files, examples, tests.

## 7. Plan

The modules above are the plan of the survey, in the order in which it was
carried out: audit log; share run and chunked transfer; batches, policies,
cache, stores; then adapters, the server with its commands, and the proofs. What
would add most next, each instead of a run or a property that is now proved:

1. *Audit log*: entries whose text holds a line separator; a bound on lines for
   several processes.
2. *Catalog and run*: which fingerprints several runs of one share may lose, as a
   property of `ShareRun`, and the stale destination of a share defined again.
3. *Stores*: two instances per file (the store that every run builds for itself),
   `reset` next to `put_part`.
4. *Theorems*: `SkipsOnlyCurrent` for several runs whose objects are disjoint; the
   objects of `ShareRun`, one by one, as an `AtomicPut`.
