# sys_monitor: models and proofs

sys_monitor is an Android kernel module that hooks system calls and writes one
log record per call into a ring buffer, which a native program reads through
the character device `/dev/sys_monitor`, filters and prints. This directory
holds TLA+ models of it, the configurations that check them with TLC, and
TLAPS proofs. Paths below are relative to `src/`.

## Inventory

| Component | Code | State it keeps | Operations | Modelled in |
|---|---|---|---|---|
| Log device | `driver/interface.c` | `sem`, `owner_pid`, `device_ready`, the ring with `read_ptr`, `write_ptr` | `write_to_interface`, `interface_open/read/release` | `Interface`, `Pipe`, `InterfaceProofs` |
| Module life cycle | `driver/main.c`, `interface_init/cleanup` | which parts exist, which calls are hooked | `sys_monitor_init`, `sys_monitor_exit` | `ModuleLife`, `HookTable`, `LifeProofs` |
| Trace dog | `driver/trace_dog.c` | `g_ref_count`, `ref_table`, `trace_dog_sem` | `trace_dog_enter/leave`, `wait_for_unload` | `ModuleLife`, `LifeProofs` |
| Hooked calls | `driver/sys_calls/*.c` | `sys_call_table`, the original entries, the copied ARM wrappers | one fake per call; hooking and unhooking | frame in `ModuleLife`, table in `HookTable` (both proved in `LifeProofs`), effect on the caches in `SysCalls`, `SysCallsProofs`, what is logged in `CallLog` |
| Process table | `driver/process.c` | `process_cache`, `outstanding_header`, `before_execve` | `notify_enter`, `notify_execve`, build and clean up records | `ProcessTable`, `ProcessProofs` |
| Descriptor cache | `driver/fd_cache.c` | per process record: a list, a sorted array, a ring | `insert_into_cache`, `get_cache_by_fd`, `delete_cache_by_fd`, initize, cleanup | `FdCache`, `FdMap`, `PathBag`, `FdCacheProofs` |
| Call log | `driver/log.c` | one `log_item` per slot | begin, add parameter, end, store | `CallLog`, `CallLogProofs`; the stored record in `SysReader` |
| Log program | `native/jni/main.cpp`, `interface.cpp` | its place in the byte stream | `Initize`, `ReadHeader`, `ReadContent`, `Cleanup` | `SysReader` (composed with `Interface`), `ReaderProofs` |
| Filter | `native/jni/filter.cpp` | list of rules | `AddFilter`, `FilterLog` | `Filter`, `FilterProofs` |

`deelx.h` is a vendored regular expression library, `share/debug.*` prints, and
the build files and READMEs have no behaviour; none is modelled.

How they interact. A task that makes a hooked system call enters its fake
(`sys_calls`), is counted by the trace dog, updates its process record and the
descriptor cache in it, fills the log item of its slot, runs the original call,
stores the record, for which it calls `write_to_interface`, and is counted down.
Only execve and exit, which are not expected to return, store the record and are
counted down first, and then run the original (`exec.c:73`, `exit.c:39`). These tasks
share the ring and its semaphore with the processes that open the device;
`sys_reader` is one. `rmmod` removes the hooks, waits for the count to reach
zero and then releases everything the fakes use.

What is hard. Any number of tasks run the fakes at once; every wait is a
`down_interruptible`, which a signal may cut short, with a different clean-up on
each path; the ring distinguishes full from empty only by never being full;
records are written whole but read in two pieces; the count that guards the
unloading is taken inside the code it guards; the list of process records is
changed without its lock; what the driver knows of a descriptor is read before the
original call and used after it, while other threads and calls that are not hooked
change the same descriptors; memory may run out between any two allocations; and the
descriptor cache keeps three linked structures in step by index arithmetic. The hazards are listed with
their lines in `PROJECT.json`.

## Modules

### Interface

One variable per variable of `interface.c`, a program counter and the locals for
each task. `Writers` run `write_to_interface`, `Readers` run open, read and
release. A step ends wherever the code has decided something on shared state
(after the size check, after the read is planned), so that if the semaphore
failed to exclude another task a stale decision would be acted upon. A byte is
modelled by its position in the stream of all bytes ever accepted: a lost,
repeated or overwritten byte is then visible in the ring, in `user_buf` and in the
history variables `accepted` and `next`. `Interruptible` says which calls' waits
may be cut short, `CopyFaults` whether `copy_to_user` may stop in the middle.
`Pipe` is the abstract specification: a bounded FIFO into which records go whole
and from which bytes leave in order.

### SysReader

Extends `Interface` with `main()` of the native program. Each program reads a
header, takes `content_size` from it, reads the content, and passes both on; it
leaves when a read returns something else than it asked for. `records` remembers
where each stored record begins, `logged` what the program passed on.
`KillPoints` are the points at which the program may be ended from outside.

### ModuleLife

`loader` is the position in `sys_monitor_init` / `sys_monitor_exit`, `up` the set of
parts that exist, `hooked` the hooked calls. Every part may fail to initialise,
and then the labels of `main.c` and `interface_init` are followed (`Undo`). Tasks
are dispatched through `sys_call_table`, counted, do their work with the original call
in it (step `Body`), are counted down and return. An execve or an exit is counted down
first and then in its original (`Original`), uncounted; exit does not come back, execve
may (it does when it fails; the model leaves open whether a successful one does, and a
build that turns the last call into a jump has no way back at all). Failures of
`class_create` and `device_create` are error pointers, which the code takes for success
(`FailsUnseen`); what `device_destroy` does with one is outside the model. A signal may
cut short each of the three waits for `trace_dog_sem`; the history `cut` remembers which,
because each spoils something else.

Three timing assumptions are explicit. One is in `Grace`: the 500 ms that end
`wait_for_unload` suffice for the code of a fake outside the original call. The second is
the constant `PromptEntry`: a task that was dispatched before the hooks were removed has
been counted when rmmod reads the count. The third is `PromptExecve`: what the kernel does
in an execve is over within the 500 ms. Without either of the last two the module can go
away under a task (`life_entry`; an execve that fails late).

### HookTable

Extends `ModuleLife` with the entries of `sys_call_table`, one per step of hooking and
unhooking. An entry, an original and a branch are numbers; ARM words are modelled with
12 bits (`ImmSize`, `Opcodes`) and wrap around as the C code lets them. `Kernels` says
which calls have a wrapper in `entry-common.S`. A vfork without one is hooked into the
entry of fork (`fork.c:322`); in such a kernel the two calls are `Mixed`, and the
properties say of them what is left. Where a call gets to (`Arrives`,
`ServedBy`) is computed as the processor would, not as the driver does. The offsets hold
for fakes that lie after the copies, as `MCHookTable` places them: a backward branch would
carry into the opcode (`fork.c:289`).

### ProcessTable

`process_cache`, the list from `outstanding_header` and the fields of each record.
What a process does to its own record is one step. The list is shared without a lock, so
the test of its head, the link to the old head and the new head are three steps
(`EnterFirst`, `LinkNext`, `LinkHead`), and so is the publication under `proc_sem`.
Processes end and leave their pid to another one, execute programs, and the module is
unloaded and loaded again. A string is represented by the number of the program it is
of; the memory for it is assumed to be there (the memory for a record is not).
`overlapped` and `twice` are histories: records whose linking met another one, and
records whose descriptors were released a second time.

### SysCalls

The fake calls of a program with several threads as the steps on either side of the
original call, with the table of open files that the threads share and the driver does
not own. The cache of a thread is what `FdMap` promises, a bag of paths for each
descriptor (`PathBag`): `FdCache` is shown to implement that. `renew` stands for what
`ProcessTable` shows of `notify_enter`. The history `foreign` holds the descriptors that
were changed by another thread, by a call that is not hooked or by a close that reported
an error, while a thread had a record of them or a call on them; it is what the driver
cannot know. The kernel's own actions are external.

### CallLog

The log item of one process through a call: the copy of the path, the array of parameters,
each parameter, the size of the details, and the loop that fills them. A string is its
length; each allocation may fail. `live` counts the strings allocated and not freed. The
path is copied before `begin_log_system_call_internal` looks at the caller and gets the item,
and when it then logs nothing, nobody frees the copy: `lost` counts those of the log program's
own calls (`log.c:309`), `leaked` those of other calls that found no memory for the item of
their slot (`log.c:213`, 355). `StringsAccounted` says that there is no third way to lose a
string. `log_cleanup` does not find these copies.

### FdCache

The cache of one process down to its pointers: `area` is the part of the process
record that `fd_cache.c` owns with the nodes it points to, and each C function is an
operator from one area to the next. A process record is used by one task, so each
function is one action. The loops of the C code that shift the array
are one function expression (`SetCells`), with `moved` for the range of the loop.
`Opened` says for which paths a descriptor may be opened; a descriptor may be recorded
again without a deletion, because the code does not see the closes made by `dup2`, by
close-on-exec or by another thread. `FdMap` is the abstract specification: a bag of
paths for each descriptor with a first-in first-out queue of the hot ones. A lookup
of a descriptor with two records returns one of them, which one is left open: the
search may find the older one (`fd_cache.c:273`).

### Filter

The rules are a sequence, a record has a value in each column but `process`, and the
name of its process is asked from `/proc` whenever a rule or the printed line needs it,
while it may change (`Change`). `FilterLog` takes one rule per step. `Wanted` is the
reference definition of the verdict: the first rule that matches decides, and a list that
ends with an include rule rejects what no rule matches.

Definitions named `Bug...` are not part of a specification. Each is the definition
after it with a plausible mistake in it; TLC must find the property violated when
it takes the place of the correct one (`mutants` in `PROJECT.json`).

## Runs

Passing:

| Run | Question | Instance |
|---|---|---|
| `interface` | Is the ring a bounded FIFO under every interleaving, with faults of the reader's buffer and signals during write and open, and who owns the device? | 2 loggers, 2 readers, 4 cells, records of 2 and 3 bytes, 6 accepted bytes: the stream goes around the ring |
| `interface_live` | Does every call return? | 2 loggers, 1 reader, signals in every wait |
| `reader` | Are the records passed on whole, in order, once, and all of them? | 2 loggers, 1 program, header of 2 bytes in a ring of 6, records of 3 to 5 bytes: both header and content get split by the end of the ring, and some records find no room |
| `module_life` | Is the module ever released under a call, are the counters exact, which signal spoils which of these, is every call served by its own function at every moment and monitored when loaded, is everything put back, and does rmmod end? | 2 tasks that call read (the original inside the count) and execve (after it), 11 hooks, two sets of wrappers in which each call once has one and once has none, failures of the search of the table and of six parts (`device` the one that fails unseen; a `class` that fails unseen only makes `device` fail too, so it is left to the theorems, as are exit, which is execve without the return, and the other calls), repeated loading, signals in all three waits, drift of the counters bounded by `MaxDrift`; dispatch and execve prompt |
| `process_table` | Does a record describe its process, can the list be walked, what can be lost? | 3 processes (one of which opens files, executes and leaves its pid), 4 records |
| `sys_calls` | Is a cached path true, and a call logged with the file it worked on? | 2 threads, 2 descriptors, 2 paths, one error number, calls that are not hooked, up to 2 records in a cache |
| `call_log` | Which strings are lost, do the details and the record fit, and are the details as long as they can be? | all 11 calls with their parameters, paths of 20 to 990 bytes around the lengths that leave no or little room or are too long by themselves, parameters of 15 and 40 bytes or missing |
| `filter` | Is a record printed exactly when the rules say so? | every list of up to 2 rules, values that differ in case and length, up to 2 names of the process during one record |
| `fd_cache` | Do array, ring and list stay consistent, and are they together a map with a FIFO hot set? | 4 records, 4 descriptors, one of them opened for 2 paths, 3 hot slots |

Three hot slots are the least for which the victim can be left of, at and right of the
insertion point with something in between, which is all the index arithmetic
distinguishes. Two loggers are the least for the check and the copy of one to
have another in between; the semaphore treats all others alike, which the proofs confirm
for any number. Three processes are the least for two first calls to meet while a third has
linked itself; four records let one be lost and still serve all. Two threads and two descriptors
show every way a descriptor can change under a call; two rules show order, first match and what the last
rule decides.

Violations, each a disagreement between the code and what it says of itself
(`findings` in `PROJECT.json`):

* `interface_full`: `interface_read` calls `up(&sem)` when its wait was cut short.
  Two loggers then enter together and fill the ring, which the comment at
  `interface.c:113` excludes.
* `life_entry`: without `PromptEntry`, a task between its dispatch and its count is
  invisible to `wait_for_unload`, and may then block in the original call while
  the module is released.
* `hook_vfork`: where vfork has no wrapper its fake goes into the entry of fork, under the
  comment "deal with vfork" (`fork.c:304`, 322).

Seen while modelling and not kept as runs:

* an execve that was counted down and takes longer than the 500 ms returns into the released
  module when it fails: with `PromptExecve = FALSE` TLC shows `UnloadSafe` violated (`exec.c:73`);
* a failed `class_create` or `device_create` is an error pointer; the module goes on, hooks the
  calls and prints "device added, interface init success" (`interface.c:413`, 421, 449);
* the copied path of a call that is not logged, by the log program or for want of memory for the
  item, is freed by nobody, `log_cleanup` included (`log.c:309`, 355, 62);
* a signal to a task in `trace_dog_leave` leaves it counted for ever, so that rmmod never
  ends (`trace_dog.c:94`), and one to rmmod ends `wait_for_unload` whatever the count is
  (`trace_dog.c:45`);
* a signal in `interface_release` leaves `owner_pid` at a process that has gone, so the device is
  never owned again (`interface.c:283`), which is why `OwnerHasDevice` is checked
  without it; `interface_open` computes `-EACCES` for a second process and returns 0
  (`interface.c:170`), so several processes can read and share the stream;
* a `sys_reader` killed between header and content leaves the next session out of step
  (`KillPoints` containing `"content"` makes TLC show `LogsRecords` violated);
* when a pid is reused the descriptors of its record are released twice (`process.c:416`,
  348, after the comment "clean it first");
* a failed open whose error is not -1 is recorded under the error number (`open.c:78`); a close
  that reports an error of the file keeps its record (`close.c:48`); a thread that is not the
  leader and calls execve goes on with the leader's record, to which the new program was not
  announced (`exec.c:59`);
* `insert_into_cache` never removes an older record of the descriptor, and the binary
  search may return it (`fd_cache.c:273`);
* a path that leaves no room for details makes a record without them, which is longer than
  `RECORD_MAX_SIZE` if the path is (`log.c:558`; `DetailsFit` says that this is the only such
  record), and `copy_string_from_user` does not terminate a string of
  `STRING_MAX_SIZE` bytes (`log.c:289`);
* a rule with a tab between the words of its operator is accepted and never matches
  (`filter.cpp:115`).

Safety runs use symmetry where the members of a set are interchangeable; the
liveness runs use none. Where a constant bounds the model it is in a guard and named:
`MaxAccepted` (length of the stream), `MaxDrift` (error of the counters), `MaxStarts` and
`MaxImages` (processes of a pid, programs of a process), `MaxRecords` (records in a cache), `MaxLost`
(paths of calls that are not logged), `MaxRules`, `MaxNames`, the number of `Records`. Runs check for deadlock.

## Fairness

`Interface`: a task inside a call goes on (weak fairness of its steps), and a task
waiting for the semaphore gets it if it is given up again and again (strong fairness of
the `Down` steps): a kernel semaphore queues its waiters and `up` wakes the first.
Nothing makes a process begin a call. `SysReader` adds that a started program keeps
running. `ModuleLife` adds that the original call returns (or ends its task),
without which rmmod rightly waits for ever.

## Proofs

Eight modules hold the proofs, one per component or pair of components. They
rest on the named assumptions on the constants, and some on further hypotheses, which are given
below with the reason. What the passing runs check on one instance holds
by them for every value of the constants: any number of tasks, processes, threads, records and
descriptors, any size of ring, cache, word, path and record. The assumptions say what the code
takes for granted: sizes are positive and fit each other, `Tasks`, and the `Records` of a process
table and of a cache, are finite sets, the strings of a filter are sequences of letters, the
null pointer is neither an object nor a string.

### Device: `InterfaceProofs`

For any set of tasks, ring size, record sizes and read counts, with or without faults of
the user's buffer:

| Theorem | States |
|---|---|
| `Exclusion` | `Spec => []MutualExclusion` |
| `TypeCorrect` | `Spec => []TypeOK` |
| `StreamIntact` | `Spec => []RingHoldsStream` |
| `NotFull` | `Spec => []NeverFull` |
| `PipeImplemented` | `Spec => ImplementsPipe` |
| `ReadsInOrder` | `Spec => HandsOutInOrder` |
| `OwnershipKept` | `Spec => OwnerKeepsDevice` |
| `OwnerIsOpen` | `Spec => []OwnerHasDevice`, if also `"release" \notin Interruptible` |

Their further hypothesis is `"read" \notin Interruptible`: with signals in
the wait of `interface_read` they are false, as `interface_full` shows.

`MutualExclusion` is not inductive: `Exclusive` adds that `sem` is 1 when nobody is in a
critical section and 0 when somebody is. Each step either enters (`EnterKeeps`),
leaves (`LeaveKeeps`) or stays (`StayKeeps`).

`RingInv` carries the rest: types, `Exclusive`, `RingHoldsStream`, that what was
handed out is never behind the ring (`next >= accepted - UsedSize`), that a logger
about to copy has room for its record (`WriterPlan`), and that a reader about to copy
knows bounds that fit the ring as it is (`ReaderPlan`). The last two are statements about
decisions made in an earlier step; they survive the steps of other tasks because of
`Exclusive`. The arithmetic of the ring is in lemmas on `UsedSize`, `Advance` and
`Offset`, among them that a record which fits touches no unread byte
(`OffsetOfUnread`). The refinement maps the ring to `head = accepted - UsedSize` and
`tail = accepted`; a write is a `Push`, each part of a read a `Pop`, or a `Peek` when a fault
leaves `read_ptr` where it was.

`OrderInv` adds to `RingInv` where a reader is in its own buffer: at the start before
the first part, and with room for the rest before the second; and, while copies are
whole, that the byte due next is the oldest unread one (`next = accepted - UsedSize`).

`OwnerInv` says that a task about to take or give up the device does so on a test that
still holds (`Decided`); only those two steps touch `owner_pid` (`DeviceStays`), and
exclusion keeps them apart. `OpenInv` adds that the owner has not closed the file; a
release that a signal cuts short closes it and leaves `owner_pid`, hence the second
hypothesis of `OwnerIsOpen`.

### Log program: `ReaderProofs`

| Theorem | States |
|---|---|
| `RecordsPassedOn` | `RSpec => []LogsRecords`, if `Undisturbed` |

For any number of loggers and any sizes of ring and records, also across restarts of the
program. `Undisturbed` names what breaks it: a second program takes part of the stream (the
device lets it, `interface.c:170`), a read that faults leaves the program in the middle of a
record, a signal in the wait of `interface_read` breaks the ring, and a program killed between
header and content leaves the content to the next.

`ReaderInv` lies on top of `OrderInv` of the device. Its parts: the records tile the stream
(`Tiled`); a logger that has entered the ring writes one record, whole (`WritesRecords`);
and, for each point of the program and of the read it is in, which byte is due next, counted from
the end of what was passed on (`Place`). In the middle of a read that is `Reading`: the first part
was copied to the start of the buffer and `want` is what is missing. The header it then finds is the
one of the record that begins there (`Announced`), so that the size it asks for is the right one.

### Life cycle, trace dog and hook table: `LifeProofs`

For any number of tasks and calls, failures at every step of the loading, signals in every wait:

| Theorem | States |
|---|---|
| `LifeTypeCorrect` | `Spec => []TypeOK` |
| `CountsExact` | `Spec => []RefCountsCalls` |
| `HooksBacked` | `Spec => []HooksHaveParts` |
| `AllTakenBack` | `Spec => []NothingLeft` |
| `UnloadIsSafe` | `PromptEntry /\ PromptExecve => (Spec => []UnloadSafe)` |
| `HookInvariant` | `Layout => (HSpec => []HookInv)` |
| `AlwaysServed` | `Layout => (HSpec => []ServedByOwn)` |
| `AllCallsSeen` | `Layout => (HSpec => []AllMonitored)` |
| `TableFollows` | `Layout => (HSpec => []HookedIsTable)` |

`LifeInv` is types, `SemIsMutex` (who holds `trace_dog_sem`), `Positions` (which parts exist
and which calls are hooked at each position of the loader), `LoadsAlone` (no task is in a
fake before the first hook), `RefCountsCalls`, and `CountsEnough`, which is what remains of the exact count after
a signal: one in `trace_dog_leave` only ever leaves the count too high. From this `Draining` follows
the unloading: once the hooks are gone and rmmod has taken the semaphore nobody enters any more, a count of 0 seen
then means that nobody is counted any more: who is not in user space is on the way out of the module
(`LeftFirst` has the tasks in the original of an execve or exit), and after the grace period only an exit that does not
come back is left. It needs `PromptEntry` and `PromptExecve`; `life_entry` shows what happens
without the first, a late execve that fails is the same without the second.

`HookInv` says of every entry of the table, hooked or not, what it is, and what the saved original,
the wrapper and its copy are while it is hooked (`Entries`), and what is known before the hooking of
fork has told the wrappers apart (`Reading`). `ServedByOwn`, `AllMonitored` and
`HookedIsTable` hold for every set of wrappers; where vfork has none they leave out what `Mixed`
names. `Layout` says where the parts of the
kernel and of the module lie, so that every branch is within reach and no two of them coincide;
`MCHookTable` assumes it, so that TLC shows a layout that has it. The branch arithmetic is in words
of any size, modulo `2^w`.

### Hooked calls: `SysCallsProofs`

| Theorem | States |
|---|---|
| `CallsTypeCorrect` | `Spec => []TypeOK` |
| `CachesTrue` | `Spec => []CacheTrue` |
| `LogsTrue` | `Spec => LogTrue` |

For any number of threads, descriptors, paths and errors. The invariant says of each thread and
descriptor that nobody changed behind the driver (`Known`) how the cache and the table of open files
agree at each point of a call (`Agreement`): between the original open and its recording the cache
has no record and the file is open, after the original close it has exactly the one to be deleted, and
elsewhere the two are the same. `Sound` is what a thread may be doing while its record is stale.

### Call log: `CallLogProofs`

For all lengths of paths, all lengths of parameters from 2 on (each is `name: value`, `log.c:423-513`) and all
sizes with `HeaderSize <= ItemSize`:

| Theorem | States |
|---|---|
| `LogTypeCorrect` | `Spec => []TypeOK` |
| `NoStringLost` | `Spec => []StringsAccounted` |
| `DetailsAlwaysFit` | `Spec => []DetailsFit` |
| `LongestShown` | `Spec => []LongestPrefix` |

The invariant adds to these that the array of an item is the one of its call and holds nothing beyond
`current` (`ItemInv`; without it a parameter could overwrite one that is counted), that a call past
its begin has an array with room for what is still to be added (`CallInv`), and that what is left of
the buffer is positive and is its size less what was written (`DetailsInv`). The counting of strings
rests on the cardinality of the filled places of the array, which each parameter raises by one.

`LongestShown` has an invariant of its own, `PrefixInv`: while the loop runs, the parameters shown are as many as its rounds, and
what is left of the buffer is its size less their total length and their separators; either another may come and a
separator was appended for it (`More`), or there is none or no room (`NoMore`: no separator, and at
most 2 bytes left, which no parameter fits into). Without the least length of 2 a parameter could be appended there with no
separator before it. `Total`, the length of the first parameters, is a recursive function; that it
exists, that it adds up and that it never falls is proved by induction over sets of numbers.

### Process table: `ProcessProofs`

| Theorem | States |
|---|---|
| `ProcessTypeCorrect` | `Spec => []TypeOK` |
| `CallerAlwaysKnown` | `Spec => []CallerKnown` |
| `FreedTwiceOnlyByReuse` | `Spec => FreedTwiceByReuse` |
| `CleanupWalkEnds` | `Spec => []WalkEnds` |
| `OnlyOverlappedLost` | `Spec => []OnlyOverlappedStay` |

For any number of processes and records. The invariant `IInv` says that every record a process has,
published or in hand, is allocated and nobody else's (`OwnRecord`), and what a record says of its
process at each point (`Describes`): its start time is never later than that of the process that has
the pid, and when both agree and no execve was announced it names the right program. A step of one
process on its own record (`OwnStep`) cannot disturb another one's.

The list is another matter, because first calls meet on it without a lock. `ListInv` ranks the
records: `next` leads from a record only to one that was allocated before, whatever head
a process has read, so that no cycle can arise and the walk of `process_monitor_cleanup` over finitely
many records ends (a walk that went on would repeat a record); and a record that the head does not
lead to and that no process has in hand was met by another while it was linked.

### Descriptor cache: `FdCacheProofs`

| Theorem | States |
|---|---|
| `FdTypeCorrect` | `Spec => []TypeOK` |
| `ArraySorted` | `Spec => []HotSorted` |
| `RingOfHot` | `Spec => []RingIsHot` |
| `ListKept` | `Spec => []ListWellFormed` |
| `MapImplemented` | `Spec => ImplementsMap` |

For any number of records and descriptors and any size of the hot cache. `CacheInv` describes an area,
so that each C function is one lemma from areas to areas: the list from `file_fd_head` goes both ways
through the records allocated, as many as `fd_count` (`List`); the array is sorted and each record
in it knows its index (`Cells`); the ring from `hot_fd_head` goes both ways through the records of the
array (`Ring`). What a pointer leads to is the least set closed under it (`Along`), which
makes "everything is reached" something to prove about sets, without counting steps.

The two binary searches are recursive functions on the windows of the array. That such a function
exists is itself proved, by induction on the size of the window (`SearchExists`), and so is what the
search returns: a record with the descriptor if there is one (`HotIndexIs`), or a place where the descriptor keeps
the array sorted (`InsertIndexFits`). One lemma, `CellsMoved`, covers all loops that shift part of the array,
to the left or to the right.

`MapImplemented` needs more than the structure: the order of the ring. `Ordered(s, q)` says that
`q[0]`, `q[1]`, ... are the records of the array in the order in which `time_next` leads through
them. What an insertion, an eviction and a deletion do to the two links of a ring is shown to push a record in front of `q`,
to drop the last or to drop any one (`QueueAdd`, `QueueRemove`), and `RecentIs` that the walk
`FdMap` is read off by is this queue. The map counts records by descriptor and path; one record more or less changes one count
(`BagGrows`, `BagShrinks`). Each action is then one lemma, from a step of `FdCache` to
a step of `FdMap`, with `MapInv` (the invariant of the theorems above, and that a queue exists) to
start from.

### Filter: `FilterProofs`

| Theorem | States |
|---|---|
| `FilterTypeCorrect` | `Spec => []TypeOK` |
| `PrintedAsWanted` | `Spec => []ShownAsWanted` |
| `OperatorsFit` | `Spec => []OperatorsAgree` |

For any list of rules and values of any length. In the middle of the rules `Explained` says that one name the process
has had explains both what the rules behind said and what the ones ahead will say; it holds where the process keeps one name or at most
one rule asks for it, as `ShownAsWanted` states.

### Out of the prover's reach

Only model-checked: `CallsReturn`, `EveryRecordLogged` and `UnloadEnds`, which are liveness. The prover
has neither ENABLED nor fairness nor RECURSIVE operators. Induction over numbers is done
where it is needed in the form the prover can use, over sets of numbers (`SetInduction` in `ProcessProofs`,
`FdCacheProofs` and `CallLogProofs`, from the well-foundedness of `<` on the naturals).

## Not modelled

The regular expressions of `deelx.h` (most of the lines of the native program), debug output, and the
build files. Of the modelled components: the reading of a caller's memory in
`read_process_memory_locked` and the strings it fills, whose old copies `update_process_record` does
not free; the `prev` pointers of the list of process records, which are written and never read; the
text of parameters, of the printed line and of the names of operations; the search for
`sys_call_table` in the ARM vector page, which is one step that may fail; and opens of the device
while the module is being loaded or unloaded (`interface.c:432`), which lies between `ModuleLife` and
`Interface`.

## Plan

Done: every component above but the vendored library, the abstract specifications of the
device and of the descriptor cache, the compositions of device and log program, of life cycle
and hook table; all invariants of the passing runs as theorems, for all values of the constants,
and the refinements of the device and of the descriptor cache.

Left: liveness, which stays with TLC.
