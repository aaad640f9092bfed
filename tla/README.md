# TLA+ verification of everyfile

everyfile is a file name search tool for Linux: a kernel module reports the
creation and removal of files, a daemon applies these events to an index in
SQLite, and a command line program fills the index from scratch and queries it.
This directory holds TLA+ models of it, translated from the source, the TLC
configurations that check them on small instances, and TLAPS proofs.

    tlc -config VfsKprobeOverflow.cfg MCVfsKprobe
    tlapm VfsKprobeProofs.tla
    tlapm EfdProofs.tla

and so for each run of section 3 and each module `...Proofs`.

Paths below are relative to the repository.

## 1. Inventory

| Component | Source | State | Operations |
|---|---|---|---|
| message buffer | `kernelmod/vfs_kprobe.c:64-285` | `msg_buf`, `msg_buf_size`, `msg_ready`, `file_on`, `pos`, three spinlocks, the thread `send_kthread` | `add_vfs_changed`, `add_msg_to_file`, `send_func`, `send_msg`, `send_file_on`, `rcv_msg` |
| kprobe handlers | `vfs_kprobe.c:300-398` | `entry->data` of each of the six probes | `pre_handler_common`, `post_handler_common` |
| module load and unload | `vfs_kprobe.c:500-554` | `fp`, `nlsk`, `send_kthread`, the registered probes | `kprobe_init`, `kprobe_exit` |
| mount table, path filter | `vfs_kprobe.c:288-298, 400-500` | `mount_info` | `parse_mounts_info`, `get_root`, `mounted_at`, `is_special_mp`, `read_file_content` |
| lock-free queue | `src/datastruct/__no_lock_queue_with_CAS.h` | `Head`, `Tail`, `_size`, nodes | `enqueue`, `dequeue`, `CAS`, destructor |
| `ef --init` | `src/main.cpp`, `src/os/linux/_file.cpp`, `src/ef_file.cpp` | the queue `buf`, the flag `out`, two threads | `out_sys_files`, `_traverse_file_system`, `in_db`, `main` |
| index | `src/ef_db.cpp` over `src/db/sqlite3pp.ipp` | `/var/ef.db` and its locks | `add`, `rm`, `qry_exact`, `qry_no_exact` |
| daemon `efd` | `src/daemon/efd.cpp` | netlink socket, lock file, pid file | `ef_kernel_conn`, `start_daemon` |

How they interact. A handler runs on the CPU that made the call and puts a
message into the list. `efd` sends an ACK, whose delivery runs `rcv_msg` in the
kernel; that counts it and wakes `send_func`, which takes one message off the
list and sends it to the daemon's socket. The daemon applies it to the table and
sends the next ACK. Beside it `ef --init` walks the tree in one thread, passes
what it finds through the queue to another, and stores it. `ef --exact` and
`ef --fuzzy` read the table. All of these open `/var/ef.db` at once, and SQLite's
journal `/var/ef.db-journal` is itself a file whose creation and removal the
kernel module reports.

What is hard, by component, and what makes it correct:

* **Message buffer.** Handlers on every CPU, a kernel thread and a callback share
  a list, a counter and a file under three locks, which are not nested in one
  order and of which one is released by a thread that may not own it. The list
  must keep its order, agree with its counter, stay within its limit, and never
  be found empty by the overflow path; an ACK must not be slept through; a message
  must leave the list.
* **Handlers.** `entry->data` is one pointer per probe, not per call. A call that
  is alone in its probe must be reported exactly; no path may change its operation.
* **Load and unload.** `kprobe_init` opens the socket before there is a thread and
  plants the probes one after the other; each of its steps can fail, and what the
  earlier ones made stays. `kprobe_exit` runs beside five of the six probes. Neither
  should hang, the drain must account for every message it takes, and a datagram must
  find the thread it wakes.
* **Queue.** A CAS that is not atomic. As long as no freed node is touched the
  queue must be FIFO, must count its values, and must not claim to be empty wrongly.
* **`ef --init`.** Termination rests on a flag and a sleep, and an exception in one
  thread ends all three. It must not exit before the walk has ended, must find every
  regular file once, must hand on what it found in order, and must end.
* **Index.** Processes start and end at any time, without a busy timeout and without
  looking at results. What was not refused must be in the table; no lock may stay
  behind; a writer that could open the file may die only over a name that breaks its
  statement or where an earlier refusal explains it.
* **Mount table.** A device is looked up by the low bytes of its numbers. A path must
  get the root of its own file system, and none below `/dev`, `/proc`, `/sys`, `/run`,
  `/tmp` or `/var` mounts.
* **Daemon.** Several may be started at once, and end while others start. One at a time
  may be past the lock, the pid file must name it, and it must make itself heard in the
  kernel although any ACK may be lost.
* **The whole.** Events are recorded before they take effect, can be lost, and are
  applied beside `ef --init`. Index and file system may part only for a reason.

`PROJECT.json` lists every hazard at its line, with the properties that cover it.

## 2. Modules

Each module names the code it stands for. Variables have the names of the code
where it names them; one action is one step another actor can see the result of,
with `pc`-like variables (`hpc`, `kpc`, `rpc`, `xpc`, `wpc`, `cpc`, `mpc`, `pc`)
for where each thread is. A history variable is marked "history" where it is
declared, and no action reads it except to extend it.

| Module | Models | Used by |
|---|---|---|
| `KernelBuffer` | what the kernel module promises: a FIFO from which events are delivered, lost or spilled | refined by `VfsKprobe`, part of `EveryFile` |
| `VfsKprobe` | `add_vfs_changed` (actions `H...`, one handler per CPU), `rcv_msg` (`Rcv...`), `send_func` (`K...`), `kthread_stop` | `KprobeModule`, proofs |
| `VfsKprobeProofs` | theorems about `VfsKprobe` | |
| `KprobeModule` | `VfsKprobe` with `kprobe_init` (`I...`) and `kprobe_exit` (`X...`) | |
| `KprobeModuleProofs` | theorems about `KprobeModule`, on those of `VfsKprobeProofs` | |
| `Mounts` | `parse_mounts_info`, `is_special_mp`, `mounted_at`, `get_root` as operators, no state | `KprobeHandlers` |
| `KprobeHandlers` | the two handlers of a probe, any number of CPUs and probes, over a table filled by `Mounts` | |
| `KprobeHandlersProofs` | theorems about `KprobeHandlers` | |
| `FifoQueue` | what the queue promises | refined by `LockFreeQueue`, part of `InitIndex` |
| `LockFreeQueue` | `enqueue` and `dequeue`, every access to a half of `Tail` a step | |
| `LockFreeQueueProofs` | theorems about `LockFreeQueue` | |
| `InitIndex` | the walker (`W...`), `in_db` (`C...`) and `main` (`M...`) | |
| `InitIndexProofs` | theorems about `InitIndex` | |
| `EfDb` | the processes that use `ef_db`, from their start to their end, over the file locks of SQLite's rollback journal | |
| `EfDbProofs` | theorems about `EfDb` | |
| `Efd` | processes of efd: lock file, pid file, port 100, the ACK loop, their end (`CloseLock`, `CloseSocket`) | |
| `EfdProofs` | theorems about `Efd` | |
| `EveryFile` | all parts together: calls, `KernelBuffer`, efd (`D...`), the table (`Write...`), `ef --init` (`I...`) | |
| `EveryFileProofs` | theorems about `EveryFile` | |
| `MC...` | constants of the instances for TLC | |

Definitions marked "Variant" are the code with one plausible mistake in it; no
specification uses them. They serve to confirm that each property fails when the
code it is about is wrong.

**Details a reader should know.**

*`VfsKprobe`.* Taking a spinlock is a step; `spin_unlock` writes "free" whoever
owns the lock. The unsigned counter wraps at `UINT_MAX`. `wake_up_process` makes a
sleeping thread runnable and changes the task state, so a wake-up between
`set_current_state` and `schedule_timeout` is seen. `msg_ready++` is a load and a
store. `kernel_write` reads `pos` when it starts and stores it when it ends. A
handler whose first `kmalloc` fails drops its event. Two other results of `kmalloc` are
not checked: `send_msg`'s (`SendMsgDies`), where the thread dies with both locks held and
the message still in the list, and `add_msg_to_file`'s (`HSpill`), where the handler dies
with `sl_buf` held and its message off the list. `send_file_on` formats into an
uninitialised pointer; the thread dies there with `sl_file` held, unless its
allocation failed before. `Dead`, `Crossed` and `Sticks` say who no longer runs.

*`KprobeModule`.* insmod begins with the mount table: `read_file_content` is done after
one read (`IRead`), or goes round, perhaps for ever, storing through a pointer it has
advanced (`IReadAgain`). The probes are planted one by one, so handlers fire before
`register_kprobes` has returned, and when it fails it waits for them
(`IUnplanted`). The socket exists before the thread: a datagram may come in while
`send_kthread` is null and reach its `wake_up_process` after it has been assigned.
`kthread_create` may fail and nobody looks. A thread that dies before it was asked to stop
is gone, and `send_kthread` dangles (`Dangling`): the next datagram, and `kthread_stop`,
get a freed task. One that dies while `kthread_stop` waits is held by it. A call with a
bad pointer (`fault`), the freed text (`Freed`) and a drain that meets a handler (`DrainRaces`) are undefined, and
the model ends there; what can lead there is what the properties are about.
`unregister_kprobe` takes `vfs_mkdir`'s probe alone away: the CPUs of this module fire
the other five.

*`KprobeHandlers`.* A pre handler that fails returns 1 and leaves the instruction pointer:
there is no single step and no post handler, and the CPU resumes behind the breakpoint's
first byte. The hit may be over, or that CPU gone astray (`PreFails`).

*`LockFreeQueue`.* The Makefile passes no `-O`, so a two-word `Ptr` is read and
written in two accesses. `CAS` reads `Tail`, compares it with the thread's copy, and
stores a value back in either case. Touching a freed node is a fault and ends the
behaviour. Memory is sequentially consistent; an address is not reused.

*`Mounts`.* A path is the sequence of its components. The list `mount_info` is a function
on the numbers of the lines it was made from, whose order is the list's. Numbers keep their low byte, as
`krp_partition` and `vfs_op_args` do. The table may lack any lines: their `kmalloc`
failed, or `read_file_content` cut off the end of the file.

*`InitIndex`.* `ef_db::add` is a step that returns (`CAdd`; `added` has the values for
which it did, stored or refused) or throws (`CAddThrows`): nobody catches, and the process
is aborted with all its threads and without the destructor of the queue.

*`EfDb`.* SHARED, RESERVED, PENDING and EXCLUSIVE are as in SQLite's documentation
of its rollback journal; whatever is not free is SQLITE_BUSY. A
process starts with the constructor of `ef_db` (`Open`, which throws when `connect` fails,
`CreateShared`, `CreateReserved`), ends at any time (`End`) and may start again; what it leaves is
rolled back. The table itself is one more member of `rows`, "files", and `knows` has
the connections whose cached schema contains it: a statement of one that does not can
only be prepared if the table is there and SHARED is free (`Prepares`). `BEGIN` inside an
open transaction throws, and so does a statement that cannot be prepared; nobody
catches, and the process dies, but for `rm`, whose `execute` only returns the error. A
name in `Quoted` breaks the statement it is printed into, which then cannot be prepared.
`Daemons` (efd) call `add` and `rm`, `Inits` (`ef --init`) `add` only. `add` turns "//" into "/" by moving the letters down and
keeps the length, so that the last letter is there twice: `AddName` maps a name to
what is stored for it.

*`Efd`.* A process is what is left after the two forks of `start_daemon`. The kernel
closes the files of a process that ends in the order of their numbers, the lock file
before the socket. `ftruncate` and `write` succeed. A failing `sendto` returns -1, which
`!ret` does not see: the daemon goes on as if the ACK had arrived (`SendAck(p, arrives)`;
`heard` records whether one has since the kernel's last datagram).

*`EveryFile`.* `thread` says how `send_func` is: created, running once the first ACK has
woken it, gone when it died in `send_file_on`, stuck when `sl_buf` is held for ever,
because it died in `send_msg` (`KDie`) or because of an overflow (`KSpill`); then nothing
is recorded any more (`Report`). `ef --init` can die at any step (`IDie`). Handlers fire at the entry of a call, so the event precedes the
effect (`CallCreate`, then `Succeed` or `Fail`). `Probe` includes what
`KprobeHandlers` shows: another call's path, or nothing. `varProbed`, chosen at the start, says whether
`/var` lies on a probed file system, which is so unless it is a mount point. `Doubled`
gives the path that `ef --init` stores for the one it found: all its paths begin with
"//".

## 3. Runs

Passing runs:

| Run | Instance | Shows |
|---|---|---|
| `VfsKprobeOverflow` | 2 CPUs, 3 events, limit 1, 2 unread ACKs | `TypeOK`; `LockOwners` (what is guarded is touched by the owner only); `BufferWithinLimit` (counter exact, one message over the limit at most, and the overflow path never follows null); `BufferIsFifo`; `NoMissedWake` (no ACK slept through); `ImplementsBuffer` (refinement of `KernelBuffer`); `OnlyOverflowSticks` (the locks are crossed, a handler dies, or `send_func` dies anywhere but in `send_msg`, only after an overflow) |
| `KprobeModule` | 2 CPUs, 2 events, limit 1, one unread datagram, an ACK or another text | `TypeOKModule` (the counter that the drain wraps stays a counter); `DrainLeavesAsMany` (counting each message twice, the drain leaves as many as it takes); `DatagramFindsThread` (the only moments at which `wake_up_process` gets a bad pointer); `CallsReturn` (insmod and rmmod come back, but from `read_file_content`'s loop and from a thread or handler that sticks); `TimeoutDrains` (without another ACK the 10 second timeout alone empties the list, until something sticks) |
| `KprobeHandlers` | 2 CPUs, 2 probes, 3 hits on 3 of 4 mounts, any lines of the table missing | `AloneIsExact`; `KindKept`; `RootOfDevice` (nothing is reported below a special mount, and a call alone in its probe gets the root of its own file system, unless another's numbers have the same low bytes) |
| `LockFreeQueue` | 3 values, `Tail` counter to 4 | `ImplementsFifo`, `SizeCounts`, `FalseMeansDrained`, `RunsAlone` |
| `InitIndex` | three nested directories, four files, a link and a socket; every `lstat` and `opendir` may fail | `LostIsTail` (what was found goes to `add` in order; what does not is a tail), `ExitAfterWalk` (unless `add` throws), `WalkCovers`, `Ends` |
| `EfDb` | the daemon, `ef --init`, a reader, 2 names and one that breaks its statement, any number of starts, ends and kills | `NoLeakedLock`, `Accounted` (the table is what the calls that could be parsed and were not refused have made of it), `DeathExplained` (a writer that could open the database dies only over such a name, or after it was refused its CREATE TABLE or a COMMIT), `LeftoverEnds` (a transaction a failed COMMIT left open is ended again) |
| `Efd` | 3 processes, 2 datagrams | `OneDaemon`, `PidFileIsDaemons`, `BindFailsOnlyAtHandover` (the only way to have the lock and be refused the port), `KernelHears` (a daemon that serves gets an ACK through after each datagram, though any may be lost), `Consumed` (what is sent to a daemon does not stay in its socket) |
| `EveryFile` | 2 paths, their doubled forms and the journal; `/var` probed or not; limit 2, 3 events | `DesyncExplained` (index and file system part only where an event was lost, spilled, refused, mistaken or early, or by the doubling); `Settles` (without overflow and `/var` unprobed, efd works off all it was sent, and where `send_func` was started and lives the list comes to rest empty) |

Violated by the code, each with a finding in `PROJECT.json`:

| Run | Property | What happens |
|---|---|---|
| `VfsKprobeStuck` | `EveryMessageLeaves` | `vfs_kprobe.c:192-195` says the kernel keeps sending while ACKs come. One overflow, and `add_vfs_changed` (which takes `sl_file` inside `sl_buf`) and `send_func` (`sl_buf` inside `sl_file`) wait for each other. Deaths of either are excused by the property |
| `LockFreeQueueFault` | `NoFault` | a stale `Tail` is stored back and a thread touches a deleted node |
| `InitIndexLost` | `InitComplete` | the walk enqueues its last files and ends between `in_db`'s empty `dequeue` and its test of `out`: they are not stored |
| `EfDbAddLost` | `AddStores` | a reader makes `COMMIT` fail; `add` returns 0 and the row is not there |

**Bounds and why they are enough.** Two CPUs give every pair of handlers that can
meet; three events with a limit of one overflow twice, and two with a limit of one (`KprobeModule`) once, which is enough for both hangs. Three values make the queue
pass through empty, one and more while `Tail` is stale; a fault needs two. The tree
of `InitIndex` has files before, inside and after a directory, at three depths, and two
kinds that are skipped. Two writers and a reader give every conflict between lock
levels, between two that create the table and between one that creates it and one that
needs it; names that begin with "//" are in `EfDbAddLost` and `EveryFile`. The mounts have a root,
one that is special, one with the root's low bytes and one with neither. Of three
processes of efd one ends while two compete. In `EveryFile`, three of calls,
failures of efd, a run of `ef --init` and journals are a call, a failure and a
recovery. `UINT_MAX` is 7 there: what counts is that 0 wraps to something above the
limit. `CHECK_DEADLOCK` is off everywhere because every model may stop: events are
bounded, processes end, and the kernel module really can lock up.

**Fairness and why it holds.**

* `VfsKprobe`: weak for steps of running kernel code (who has died takes none; handlers run with preemption
  off, `send_func` is runnable, the timeout expires); strong for taking a lock,
  because spinlocks are queued and serve waiters in turn; weak for the daemon's next
  ACK, which it sends at least every 20 seconds (`efd.cpp:187-196`). Nothing makes a
  call fire a probe.
* `KprobeModule`: the same for `send_func` and the handlers, and weak for insmod and
  for rmmod once somebody has run it, which nobody must; not for another round of
  `read_file_content`. The model ends where its drain
  races with a handler (section 5). No datagram is asked for.
* `LockFreeQueue`: weak for the producer inside `enqueue`; the consumer may stop.
* `InitIndex`: weak for each of three threads, none of which blocks another.
* `EfDb`: weak for the steps of a call; strong for a writer's next `add` (an event or a
  file comes again), which `LeftoverEnds` is about. Nobody must start or end, and no
  reader must read to the end of its rows.
* `Efd`: weak for the steps of each process that has been started, the 20 second
  timeout among them; nobody must start, kill or send, and `select` need not fail.
  `KernelHears` supposes in its own text that of ACKs sent again and again some arrive: a
  socket of the kernel is not full for ever, and the module is loaded.
* `EveryFile`: weak for `send_func` while it runs and for efd while it is up; nothing is
  asked of calls, of restarts, of `ef --init` and of the first ACK, without which
  `send_func` is not even started. `Settles` therefore says of the list only that it
  empties where the thread runs for ever, and excepts behaviours in which the list
  overflows, after which fairness of `send_func` is not justified. That until then only
  `send_msg` can stop it is `OnlyOverflowSticks`; that it then works off the list is
  `TimeoutDrains`.

## 4. Proofs

`VfsKprobeProofs` proves, for any set of CPUs, any set of messages, any limit and any
bound on ACKs, the safety properties of `VfsKprobeOverflow`. The only assumption
is `ConstantsAssumption`: the limit is a natural below `UINT_MAX`, and the names of
actors and "free"/"none" are distinct from CPUs and messages.

The inductive invariant is

    IndInv == TypeOK /\ LockOwners /\ SpillInv /\ BufferIsFifo /\ WakeInv

`BufferWithinLimit` alone is not inductive: after an append the list may be one over
the limit, and that the next append does not add to it needs that the handler in
"spill" owns `sl_buf`, hence `LockOwners`. `SpillInv` adds that a handler in "spill"
has a list over the limit: so it is not empty, and `add_msg_to_file` finds a message. `NoMissedWake` needs to know who set `msg_ready` while `send_func`
was between its test and its sleep: `WakeInv` says that then either the task state is
already RUNNING or `rcv_msg` has its wake-up still to do. Each conjunct has a lemma
with a case for each action (`TypeStep`, `LockStep`, `SpillStep`, `FifoStep`,
`WakeStep`); `ListSteps` collects what a step can do to the list.

| Theorem | Says |
|---|---|
| `Invariance` | `Spec => []IndInv` |
| `TypeCorrect`, `LocksExclude`, `WithinLimit`, `Fifo`, `NoAckSleptThrough` | the invariants of the run |
| `QuietIsFree` | `Spec => OnlyOverflowSticks`, of the form `[]P => []Q`: `QuietStep` shows `QuietInv` (no handler on its way to the file, `file_on` not set, a dead thread has `sl_buf`) inductive for the steps after which the list is within its limit |
| `Refinement` | `Spec => ImplementsBuffer`: lemmas `InitRefines` and `StepRefines` map every step of the module to `Record`, `Deliver`, `Lose`, `Spill` or a stutter |

So `EveryFile`, which is composed from `KernelBuffer`, rests on a proved refinement.

`EfdProofs` proves all safety properties of the run `Efd` for any set of processes and
any number of datagrams, assuming `ProcsAssumption` (process names are distinct from
"free", "empty" and "none"). The inductive invariant is

    DaemonInv == TypeOK /\ LockInv /\ PortInv

`LockInv` says that whoever is past the lock has it: hence nobody else gets past it, and
nobody else writes the pid file. `PortInv` says that a process that has the
port has the lock too, until it is in `close_socket`: a daemon in "bind" has the lock, so
whoever keeps it from the port can only be there.

| Theorem | Says |
|---|---|
| `LockInvariance`, `DaemonInvariance` | the invariants |
| `OneDaemonAtATime`, `PidFileNamesDaemon`, `DaemonTypes` | the invariants of the run |
| `HandoverOnly` | `Spec => BindFailsOnlyAtHandover`, an action property |

`KprobeModuleProofs` proves the safety properties of the run `KprobeModule` under the
same assumption. Its invariant is

    ModuleInv == TypeOKModule /\ LoadInv /\ CountInv /\ DrainLeavesAsMany

The types of the variables of `VfsKprobe` follow from `TypeStep` of `VfsKprobeProofs`,
because every step but the drain of `kprobe_exit` is one of `VfsKprobe` or leaves them
alone; the drain, which takes no lock and counts twice, has cases of its own. Nothing
else of `IndInv` survives the drain. `LoadInv` says which pointers are set, and when
datagrams can come, at each step of insmod and rmmod. `CountInv` says that the counter,
which may have wrapped, falls behind the list by one for each round of the drain:
`msg_buf_size + drained = Len(msg_buf) + k * (UINT_MAX + 1)` for some integer k, so that
when it is zero as many are left as were written.
Theorems: `ModuleInvariance`, `ModuleTypes`, `DrainLosesHalf`, `DatagramsFindThread`.

`EfDbProofs` proves the four safety properties of the run `EfDb` for any processes and
names. The invariant is

    EfDbInv == TypeOK /\ LockAt /\ OneWriter /\ RefusedInv /\ Accounted

`LockAt` gives the lock of a connection at each of its steps, `OneWriter` that RESERVED
and above exclude each other, without which the one `image` would not be its holder's,
and `RefusedInv` what a connection that does not know the table, or has a transaction
left open, must have been refused. Theorems: `Invariance`, `TypeCorrect`, `NoLockLeaks`,
`AllAccounted`, `DeathsExplained`.

`KprobeHandlersProofs` proves all safety properties of the run `KprobeHandlers`, for any
number of CPUs, probes and hits and any mount table (`NamesAssumption`,
`LinesAssumption`: devices are pairs of naturals, mount points sequences of names):

    HandlerInv == HandlerTypes /\ HitInv /\ ProbeInv /\ AloneInv /\ RootInv

`HitInv`: two CPUs in one probe have both clashed. `ProbeInv`: whatever can be reached
from an entry's `data` was written in that entry's probe. `AloneInv`: what a hit that
has not clashed has found and written at each step. `RootInv`: from
`get_root` to the record, a root is a mount point that is not special, and that of a line
with the low bytes of the device it was looked up by (`Rooted`). Under it are lemmas
about the operators of `Mounts`: an item of the table stands for a line
(`TableOfLines`), `GetRoot` returns one of the device asked for (`GetRootFinds`), and no
mount point that `IsSpecialMp` lets through begins with one of the six names
(`NotSpecial`). Theorems: `Invariance`, `TypesKept`,
`AloneExact`, `KindsKept`, `RootsRight`.

`LockFreeQueueProofs` proves the safety properties of the run `LockFreeQueue` for any
number of values and any bound on the counter (`BoundsAssumption`: both are naturals):

    QueueInv == TypeOK /\ ListInv /\ PtrInv /\ CountInv /\ SizeInv

`ListInv`: up to the last linked node the nodes are linked in the order they were made,
and exactly those before `Head` are deleted. `PtrInv`: `Tail`, every copy of it and what a
CAS will store are nodes of the list, perhaps deleted ones, which is as much as a CAS
that stores old copies back leaves true of them. What `enqueue` links to is not stale
all the same: a null `next` it has read is the last node's, because nobody else moves the
end, and the end `dequeue` has seen never moves back. `CountInv` and `SizeInv` relate the
calls that have returned, and `_size`, to the list. `CountsAppend` and `CountsTail` are
the facts about sequences the refinement needs. Theorems: `Invariance`, `Types`,
`SizeExact`, `FalseIsDrained`, and `RefinesFifo`: `Spec => ImplementsFifo`. So
`InitIndex`, which uses `FifoQueue`, rests on a proved refinement too, as long as the
queue does not fault.

`InitIndexProofs` proves all safety properties of the run `InitIndex` for any file
system, of any depth, assuming `TreeAssumption`: an entry is a path, so at most one
directory lists it, once, and none lists the root:

    InitInv == Types /\ FlagInv /\ InOrder /\ WalkInv

`FlagInv`: `out` is 1 during the walk and `in_db` starts after the walk has set out, so
`in_db` ends, and main exits, only after the walk. `InOrder`: the values are, in order,
those added, the one `in_db` holds, those dropped and those in the queue, and together
as many as the walk has found. `WalkInv`, for `WalkCovers`: the entries still in front of
the open `readdir` loops have nothing below them in common (`Apart`), what was found is not below any of them
(`Left`), and, unless something failed, a file to be found was found or is below one. A step takes the first entry away and puts
its children in its place; that this keeps all three is `WalkStep`.

What is below an entry (`Below`) is what is in every set that contains it and is closed
under `Kids`, so the facts about trees need no induction: each names a closed set.
`BelowLeaf` and `BelowDir` take an entry apart into itself and what is below its
children; `ParentBelow` and `OneParent` say that whoever is below x has its parent below
x or is x, `NoCycle` that no entry is below its own children, `SiblingsApart` that
siblings have nothing below them in common. Theorems: `Invariance`, `TypesKept`,
`WalkFindsAll`, `WalkEndsFirst`, `OnlyTailLost`.

`EveryFileProofs` proves `TypeOK` and `DesyncExplained`, the property of the whole
system, for any paths, any `Doubled`, any limit and any number of events
(`SystemAssumption`). The invariant is small, `SystemInv == TypeOK /\ OnlyAdds /\
JournalIdle`: `ef --init` has only adds in its hands, and no call is on the journal. The
work is in what a sequence of events comes to. `Outcome` says it with quantifiers, not
with a recursive `SelectSeq`: the last event about a name decides. `OutcomeConcat` shows
that the outcome of a concatenation is that of the later part applied to that of the
earlier one, and so `PendingInParts` takes the events under way apart into efd's change,
its socket and the buffer (`Changed`, `Received`, `Final`). An event that moves from one
to the next, or into the table, then leaves `Final` alone (`Removed`, `RecvAgrees`,
`EfdWriteAgrees`); a recorded one has the last word (`Recorded`); more in the table before
the events is not less after them (`OutcomeMonotone`, for `ef --init`). Theorems:
`Invariance`, `SystemTypes`, `DesyncIsExplained`.

So every invariant, action property and refinement of the passing runs is proved. Only
model-checked is liveness, because it needs fairness and ENABLED, which are beyond the
prover: `CallsReturn`, `TimeoutDrains`, `RunsAlone`, `Ends`, `LeftoverEnds`,
`KernelHears`, `Consumed`, `Settles`; and the counterexamples of section 3.

## 5. Divergences seen while modelling, without a run of their own

* `vfs_kprobe.c:194` says that without an ACK the thread gives up the CPU. When its
  10 s are over it falls through and sends (`KTimeout`, `KUnlockMsg`): a message goes
  out with no daemon there and is lost.
* `vfs_kprobe.c:210` releases `sl_msg` again after the sleep, when `rcv_msg` may own it.
* `vfs_kprobe.c:193`: "if `file_on` is set, there are messages in the file".
  `pos` is changed outside `sl_file`, so `send_func` can reset it between the write and
  `file_on`.
* `vfs_kprobe.c:245` asks the caller of `add_msg_to_file` to hold `sl_buf`.
  `kprobe_exit` does not, with five probes still registered (`DrainRaces`), and
  decrements a counter that `add_msg_to_file` has already decremented: with an odd
  number of messages it wraps.
* `vfs_kprobe.c:542-544` says `kprobe_exit` is called when the module exits. It takes one
  of the six probes away, and neither the socket nor the log file: what calls them after
  that enters freed text (`Freed`). A `kprobe_init` that fails leaves what it had made:
  after a failing `register_kprobes` the socket and the thread.
* `vfs_kprobe.c:528`: the result of `kthread_create` is not looked at; the first datagram,
  or `kthread_stop`, gets an error pointer.
* `vfs_kprobe.c:103-104` and `257-258`: `kmalloc` is not checked. Without memory
  `send_func` dies with both locks held, with no overflow, and every handler spins after
  it; or a handler dies with `sl_buf` held (`SendMsgDies`, `HSpill`).
* `vfs_kprobe.c:145-150, 548`: a `send_func` that has died is gone, and `send_kthread`
  still points to it: the next datagram and `kthread_stop` use a freed task (`Dangling`).
* `vfs_kprobe.c:307, 314`: a pre handler that fails returns 1, which tells kprobes that it
  has changed the instruction pointer. It has not (`PreFails`).
* `vfs_kprobe.c:192` says the daemon's ACKs drive the thread; `kthread_create` (528) does
  not start it, so the first ACK does, and until then the list only grows.
* `vfs_kprobe.c:342` logs the current process with a path that may be another's.
* `vfs_kprobe.c:328` wants to leave out failed calls, but a post handler of a kprobe
  runs at the entry of the function and looks at a register that is not its result.
* `vfs_kprobe.c:402-404` wants `/var` filtered; `is_special_mp` looks at mount points
  only, and each change of the index makes two more events.
* `vfs_kprobe.c:400-470`: the table is read once, when the module is loaded; a file
  system mounted later has no root. Of `/proc/self/mountinfo` only what one read of 4 kB
  returns is kept: after a full read, an empty one or an error `read_file_content` advances
  the pointer `real_size`, not the size it asks for, and goes round, perhaps for ever
  (`IReadAgain`). Device numbers are compared by their low bytes
  (`RootOfDevice` names the exception).
* `src/ef_db.cpp:56-58` moves the letters of a path with "//" down by one and does not
  shorten it. All paths of `ef --init` begin with "//", so it stores `/etc/passwdd`,
  which `rm` for `/etc/passwd` does not find (`AddName`, `Doubled`).
* `src/ef_db.cpp:8` does not look at the result of CREATE TABLE. Two processes that start
  together on a new file refuse each other's; one that was refused and runs before the
  other has committed finds no table, and its `add` dies (`DeathExplained`).
* `src/ef_db.cpp:62` prints the name between quotation marks: one that contains a mark
  breaks the INSERT, the constructor of `command` throws (`sqlite3pp.ipp:257-259`) and the
  process dies. The DELETE (80) for it fails unseen (`Quoted`, `DeleteUnparsed`).
* `src/main.cpp:42`: an exception of `add` ends `ef --init` in the middle of the walk
  (`CAddThrows`). `sqlite3pp.ipp:71`: so does a failed `connect` any process (`Open`).
* `src/daemon/efd.cpp:271` tests `!ret` for a failed `sendto`, which returns -1: an ACK
  that was not sent goes unnoticed until the next one, 20 s later (`KernelHears`).
* `src/daemon/efd.cpp`: a daemon that ends gives up its lock before its port. A new one
  started in between has the lock, is refused the port and ends: none is left
  (`BindFailsOnlyAtHandover`).
* `src/os/linux/_file.cpp:22-25` says every file is passed to `func_obj` and errors
  are returned. Only regular files are, and an error below the root is dropped.

## 6. Not modelled

Mounts that change after the module was loaded; the forks of
`start_daemon`; weak memory order; reuse of node addresses; a crash in the middle of a commit
(hot journal); what a name with a quotation mark does beyond making the statement
unparsable; a `COMMIT` refused by a reader is one refused step in `EveryFile`;
symbolic link events, which efd ignores; paths longer than a message; what LIKE
and = match; sqlite3pp beyond what `ef_db` uses; `everyfiled.cpp.bak`, which nothing
builds; error and debug output.

## 7. Plan

Done, in the order of importance: `KernelBuffer`, `VfsKprobe`, `KprobeModule`,
`KprobeHandlers` with `Mounts`, `FifoQueue` and `LockFreeQueue`, `InitIndex`, `EfDb`,
`EveryFile`, `Efd`; the proofs of `VfsKprobe`, `Efd`, `KprobeModule`, `EfDb`,
`KprobeHandlers`, `LockFreeQueue`, `InitIndex` and `EveryFile`.

Next:

1. `Efd` composed with `rcv_msg` of `VfsKprobe`: an ACK that arrives is an event that
   leaves, across the end of one daemon and the start of the next.
2. Mounts and unmounts after the module is loaded, against `GetRoot`.
3. What is proved about the parts used in the proof of the whole: the steps of `EveryFile`
   as steps of `FifoQueue`, `EfDb` and `Efd`.
