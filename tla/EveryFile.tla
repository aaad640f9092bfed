----------------------------- MODULE EveryFile -----------------------------
(***************************************************************************)
(* The parts of everyfile together, from the file system to the index:     *)
(*                                                                         *)
(*   a call (open, mknod, mkdir, unlink, rmdir)   vfs_kprobe.c, the probes *)
(*     -> the kernel buffer                       module KernelBuffer      *)
(*     -> the daemon's netlink socket             module KernelBuffer      *)
(*     -> efd, one event at a time                efd.cpp, module Efd      *)
(*     -> the table files of /var/ef.db           ef_db.cpp, module EfDb   *)
(*   and, beside them, ef --init                  module InitIndex         *)
(*                                                                         *)
(* A probe's post handler runs at the entry of the probed function: the    *)
(* event is recorded before the call has its effect, and also for a call   *)
(* that then fails. Two calls on one name exclude each other (the lock of  *)
(* the parent directory).                                                  *)
(*                                                                         *)
(* A name stands for the full path of a regular file or a directory. A     *)
(* symbolic link's creation is reported (5) and ignored by efd, so links   *)
(* are not here.                                                           *)
(***************************************************************************)
EXTENDS Integers, Sequences

CONSTANTS
  Names,            \* paths
  Journal,          \* /var/ef.db-journal, which SQLite makes and unlinks in
                    \* every transaction that changes the table
  Doubled,          \* path |-> what ef --init stores for it
  MAX_MSG_BUF_LEN,  \* vfs_kprobe.c:242
  MaxEvents         \* bound on calls, runs of ef --init, failures of efd and
                    \* transactions whose journal is seen, each of which makes
                    \* work for two more

Paths == Names \cup {"outside"}  \* the paths, and all others

ASSUME SystemAssumption ==
  /\ Journal \in Names /\ "outside" \notin Names
  /\ Doubled \in [Names -> Paths]
  /\ MAX_MSG_BUF_LEN \in Nat /\ MaxEvents \in Nat

Events == [op : {"add", "rm"}, name : Paths]
Add(n) == [op |-> "add", name |-> n]
Rm(n)  == [op |-> "rm", name |-> n]
None   == [op |-> "none"]

VARIABLES
  fs,              \* the names that exist
  doing,           \* name |-> the call on it that is recorded and not done
  buffer, socket,  \* as in KernelBuffer
  thread,          \* send_func: "created", "running" once it is woken, "gone"
                   \* when it died, "stuck" when sl_buf is held for ever
  varProbed,       \* /var is on a probed file system: it is unless it is a
                   \* mount point of its own; it never changes
  up,              \* efd runs
  writing,         \* efd and ef --init: the change it is making to the table
  committing,      \* the writers whose transaction has its journal made
  rows,            \* the names in the table
  todo, found,     \* ef --init: names still to visit, names in its queue
  events           \* how many of MaxEvents have happened

fsVars     == <<fs, doing, varProbed>>
kernelVars == <<buffer, socket, thread>>
dbVars     == <<writing, committing, rows>>
initVars   == <<todo, found>>

vars == <<fsVars, kernelVars, up, dbVars, initVars, events>>

INSTANCE KernelBuffer WITH Msgs <- Events

Writers == {"efd", "init"}
Calls   == {"none", "add", "mknod", "rm"}

Init ==
  /\ fs \in SUBSET (Names \ {Journal})
  /\ doing = [n \in Names |-> "none"]
  /\ varProbed \in BOOLEAN
  /\ InitBuffer /\ thread = "created"
  /\ up = FALSE
  /\ writing = [w \in Writers |-> None] /\ committing = {}
  /\ rows = {}
  /\ todo = {} /\ found = {}
  /\ events = 0

Count == events < MaxEvents /\ events' = events + 1

\* add_vfs_changed. Nobody gets past an sl_buf that its owner keeps.
Report(e) == thread # "stuck" /\ Record(e) /\ UNCHANGED thread

-----------------------------------------------------------------------------
(* Calls, and what the probes make of them.                                *)

\* A probe fires. What it records is the path of the call or, when another
\* CPU is in a handler of the same probe, of that one's (entry->data is shared);
\* a failed kmalloc, or an error-like number left in the register that
\* is_syscall_success looks at, records nothing.
Probe(n, op) ==
  \/ \E said \in Names \ {Journal} : Report([op |-> op, name |-> said])
  \/ UNCHANGED kernelVars

CallCreate(n) ==
  /\ n \notin fs /\ n # Journal /\ doing[n] = "none"
  /\ Count
  /\ Probe(n, "add")
  /\ \E call \in {"add", "mknod"} : doing' = [doing EXCEPT ![n] = call]
  /\ UNCHANGED <<fs, varProbed, up, dbVars, initVars>>

\* mknod passes vfs_create (1) and then security_inode_create (6).
CallMknod(n) ==
  /\ doing[n] = "mknod"
  /\ Probe(n, "add")
  /\ doing' = [doing EXCEPT ![n] = "add"]
  /\ UNCHANGED <<fs, varProbed, up, dbVars, initVars, events>>

CallRemove(n) ==
  /\ n \in fs /\ n # Journal /\ doing[n] = "none"
  /\ Count
  /\ Probe(n, "rm")
  /\ doing' = [doing EXCEPT ![n] = "rm"]
  /\ UNCHANGED <<fs, varProbed, up, dbVars, initVars>>

Succeed(n) ==
  /\ doing[n] \in {"add", "rm"}
  /\ fs' = IF doing[n] = "add" THEN fs \cup {n} ELSE fs \ {n}
  /\ doing' = [doing EXCEPT ![n] = "none"]
  /\ UNCHANGED <<varProbed, kernelVars, up, dbVars, initVars, events>>

\* No permission, no space, a directory that is not empty.
Fail(n) ==
  /\ doing[n] # "none"
  /\ doing' = [doing EXCEPT ![n] = "none"]
  /\ UNCHANGED <<fs, varProbed, kernelVars, up, dbVars, initVars, events>>

\* No probe is on vfs_rename (nor on vfs_link, which is this without the loss
\* of the old name).
Rename(n, m) ==
  /\ n \in fs /\ n # m /\ {n, m} \cap {Journal} = {}
  /\ doing[n] = "none" /\ doing[m] = "none"
  /\ Count
  /\ fs' = (fs \ {n}) \cup {m}
  /\ UNCHANGED <<doing, varProbed, kernelVars, up, dbVars, initVars>>

-----------------------------------------------------------------------------
(* send_func and its netlink socket.                                       *)

otherVars == <<fsVars, up, dbVars, initVars, events>>

\* kthread_create does not start send_func: the first ACK does.
KStart ==
  /\ up /\ thread = "created"
  /\ thread' = "running"
  /\ UNCHANGED <<buffer, socket, otherVars>>

KDeliver ==
  /\ up /\ thread = "running"
  /\ Deliver
  /\ UNCHANGED <<thread, otherVars>>

KLose ==
  /\ thread = "running"
  /\ Lose
  /\ UNCHANGED <<thread, otherVars>>

\* send_msg writes to what kmalloc gave it, which may be nothing; the message
\* stays in the list and sl_buf locked.
KDie ==
  /\ thread = "running" /\ WithinLimit /\ buffer # <<>>
  /\ thread' = "stuck"
  /\ UNCHANGED <<buffer, socket, otherVars>>

\* An overflow. It can be the end of send_func, which dies in send_file_on, or
\* of sl_buf, when the locks cross or add_msg_to_file has no memory (module
\* VfsKprobe).
KSpill ==
  /\ Spill
  /\ thread' \in {thread, "gone", "stuck"}
  /\ UNCHANGED otherVars

-----------------------------------------------------------------------------
(* The table: add and rm of ef_db.                                         *)

After(e) == IF e.op = "add" THEN rows \cup {e.name} ELSE rows \ {e.name}

Done(w) ==
  /\ writing' = [writing EXCEPT ![w] = None]
  /\ committing' = committing \ {w}

\* Nothing to change, or a journal that no probe sees.
Write(w) ==
  /\ writing[w] # None /\ committing = {}
  /\ varProbed => After(writing[w]) = rows
  /\ rows' = After(writing[w])
  /\ Done(w)
  /\ UNCHANGED <<fsVars, kernelVars, up, initVars, events>>

\* The journal of a change is itself a file that is made and unlinked.
WriteJournal(w) ==
  /\ writing[w] # None /\ committing = {}
  /\ varProbed /\ After(writing[w]) # rows
  /\ Count
  /\ Report(Add(Journal))
  /\ fs' = fs \cup {Journal}
  /\ committing' = {w}
  /\ UNCHANGED <<doing, varProbed, up, writing, rows, initVars>>

WriteCommit(w) ==
  /\ w \in committing
  /\ Report(Rm(Journal))
  /\ fs' = fs \ {Journal}
  /\ rows' = After(writing[w])
  /\ Done(w)
  /\ UNCHANGED <<doing, varProbed, up, initVars, events>>

\* SQLITE_BUSY, which nobody looks at (module EfDb). A COMMIT that meets a
\* reader counts as refused from the start; its journal is left out.
WriteRefused(w) ==
  /\ writing[w] # None /\ w \notin committing
  /\ Done(w)
  /\ UNCHANGED <<fsVars, kernelVars, up, rows, initVars, events>>

WriterSteps(w) ==
  Write(w) \/ WriteJournal(w) \/ WriteCommit(w) \/ WriteRefused(w)

-----------------------------------------------------------------------------
(* efd.                                                                    *)

DStart ==
  /\ ~up
  /\ up' = TRUE
  /\ UNCHANGED <<fsVars, kernelVars, dbVars, initVars, events>>

\* Variant: the socket is emptied and its last datagram used.
DRecvLast ==
  /\ up /\ socket # <<>> /\ writing["efd"] = None
  /\ writing' = [writing EXCEPT !["efd"] = socket[Len(socket)]]
  /\ socket' = <<>>
  /\ UNCHANGED <<fsVars, buffer, thread, up, committing, rows, initVars, events>>

\* Variant: recvfrom with MSG_PEEK.
DRecvPeek ==
  /\ up /\ socket # <<>> /\ writing["efd"] = None
  /\ writing' = [writing EXCEPT !["efd"] = Head(socket)]
  /\ UNCHANGED <<fsVars, kernelVars, up, committing, rows, initVars, events>>

\* The select loop: one datagram, one change of the table, then an ACK.
DRecv ==
  /\ up /\ socket # <<>> /\ writing["efd"] = None
  /\ writing' = [writing EXCEPT !["efd"] = Head(socket)]
  /\ socket' = Tail(socket)
  /\ UNCHANGED <<fsVars, buffer, thread, up, committing, rows, initVars, events>>

\* Variant: the socket outlives the process.
DDieUnread ==
  /\ up /\ "efd" \notin committing
  /\ Count
  /\ up' = FALSE
  /\ writing' = [writing EXCEPT !["efd"] = None]
  /\ UNCHANGED <<fsVars, kernelVars, committing, rows, initVars>>

\* An exception of sqlite3pp, a signal, an error of recvfrom. The socket goes
\* with the process.
DDie ==
  /\ up /\ "efd" \notin committing
  /\ Count
  /\ up' = FALSE
  /\ socket' = <<>>
  /\ writing' = [writing EXCEPT !["efd"] = None]
  /\ UNCHANGED <<fsVars, buffer, thread, committing, rows, initVars>>

-----------------------------------------------------------------------------
(* ef --init.                                                              *)

IStart ==
  /\ todo = {} /\ found = {} /\ writing["init"] = None
  /\ Count
  /\ todo' = Names
  /\ UNCHANGED <<fsVars, kernelVars, up, dbVars, found>>

\* A directory, and what opendir and lstat refuse, is passed over.
IVisit(n) ==
  /\ n \in todo
  /\ todo' = todo \ {n}
  /\ found' \in {found} \cup (IF n \in fs THEN {found \cup {n}} ELSE {})
  /\ UNCHANGED <<fsVars, kernelVars, up, dbVars, events>>

\* The walk's paths start with "//", of which ef_db::add drops one by moving the
\* letters after it down; it leaves the length, so the last letter stays twice.
IStore(n) ==
  /\ n \in found /\ writing["init"] = None
  /\ found' = found \ {n}
  /\ writing' = [writing EXCEPT !["init"] = Add(Doubled[n])]
  /\ UNCHANGED <<fsVars, kernelVars, up, committing, rows, todo, events>>

\* What is in the queue when in_db stops (module InitIndex).
IDrop ==
  /\ todo = {} /\ found # {}
  /\ found' = {}
  /\ UNCHANGED <<fsVars, kernelVars, up, dbVars, todo, events>>

\* An exception of add, which nobody catches, or a signal.
IDie ==
  /\ todo # {} \/ found # {} \/ writing["init"] # None
  /\ "init" \notin committing
  /\ todo' = {} /\ found' = {}
  /\ writing' = [writing EXCEPT !["init"] = None]
  /\ UNCHANGED <<fsVars, kernelVars, up, committing, rows, events>>

-----------------------------------------------------------------------------
CallSteps(n) == CallMknod(n) \/ Succeed(n) \/ Fail(n)

KernelSteps == KDeliver \/ KLose \/ KSpill

InitSteps == (\E n \in Names : IVisit(n) \/ IStore(n)) \/ IDrop \/ IDie

Next ==
  \/ \E n \in Names : CallCreate(n) \/ CallRemove(n) \/ CallSteps(n)
  \/ \E n, m \in Names : Rename(n, m)
  \/ KStart \/ KernelSteps \/ KDie
  \/ \E w \in Writers : WriterSteps(w)
  \/ DStart \/ DRecv \/ DDie
  \/ IStart \/ InitSteps

Spec == Init /\ [][Next]_vars

\* Once it is started and while it lives, send_func takes events out as long as
\* the list does not overflow (module KprobeModule, TimeoutDrains); efd, while
\* it is up, runs. Nothing is asked of the calls, of ef --init, which may stop
\* half way, or of the first ACK.
FairSpec ==
  /\ Spec
  /\ WF_vars(KernelSteps)
  /\ WF_vars(WriterSteps("efd")) /\ WF_vars(DRecv)

-----------------------------------------------------------------------------
(* Properties.                                                             *)

TypeOK ==
  /\ fs \subseteq Names /\ doing \in [Names -> Calls]
  /\ buffer \in Seq(Events) /\ socket \in Seq(Events)
  /\ thread \in {"created", "running", "gone", "stuck"}
  /\ varProbed \in BOOLEAN
  /\ up \in BOOLEAN /\ (~up => socket = <<>> /\ writing["efd"] = None)
  /\ writing \in [Writers -> Events \cup {None}]
  /\ committing \subseteq {w \in Writers : writing[w] # None}
  /\ rows \subseteq Paths /\ todo \subseteq Names /\ found \subseteq Names
  /\ events \in 0 .. MaxEvents

\* The events recorded and not yet in the table, oldest first.
Pending ==
  (IF writing["efd"] = None THEN <<>> ELSE <<writing["efd"]>>)
    \o socket \o buffer

\* Whether n is in the table once the events have been applied to it: the last
\* one about it says.
Outcome(n, present, es) ==
  \/ present /\ \A i \in DOMAIN es : es[i].name # n
  \/ \E i \in DOMAIN es :
       es[i] = Add(n) /\ \A j \in i + 1 .. Len(es) : es[j].name # n

\* Whether n exists once the call on it has succeeded.
Expected(n) ==
  CASE doing[n] = "none"           -> n \in fs
    [] doing[n] \in {"add", "mknod"} -> TRUE
    [] doing[n] = "rm"             -> FALSE

InSync(n) == Outcome(n, n \in rows, Pending) = Expected(n)

\* The ways the index and the file system can part over n: a call that is
\* recorded under another name or not at all, another's that is recorded under
\* n, one that fails or has no probe,
\* an event that send_func cannot send or moves to the file, a change that the
\* database refuses, a daemon that ends with events in its hands, and a name
\* that ef --init stores for another one and that is not there.
Misreported(n) ==
  \E m \in Names, op \in {"add", "rm"} :
    /\ IF op = "add" THEN CallCreate(m) \/ CallMknod(m) ELSE CallRemove(m)
    /\ LET event == [op |-> op, name |-> n]
       IN  IF n = m THEN buffer' # Append(buffer, event)
           ELSE buffer' = Append(buffer, event)
Unreported(n) ==
  \/ Fail(n)
  \/ \E m \in Names : Rename(n, m) \/ Rename(m, n)
Unsent(n)  == (KLose \/ KSpill) /\ Head(buffer).name = n
Refused(n) == WriteRefused("efd") /\ writing["efd"].name = n
Died(n)    == DDie /\ \E e \in {Pending[i] : i \in DOMAIN Pending} : e.name = n
Stale(n) ==
  /\ Write("init") \/ WriteCommit("init")
  /\ writing["init"] = Add(n) /\ ~Expected(n)

\* README_ZH.md:2 promises a search of the files as they are. A name on which
\* index and file system agree (once what is under way has arrived) stays so
\* unless one of those things happens to it: no order of deliveries, database
\* changes, restarts of efd and steps of ef --init separates them otherwise.
DesyncExplained ==
  [][\A n \in Names : InSync(n) /\ ~InSync(n)' =>
        \/ Misreported(n) \/ Unreported(n) \/ Unsent(n)
        \/ Refused(n) \/ Died(n) \/ Stale(n)]_vars

\* When the calls stop, so do the events: efd works off what it was sent and
\* does not feed itself for ever; and where send_func has been started and does
\* not die for want of memory, what is recorded reaches the table or is lost.
\* The journal of a /var that is probed is excepted (each event makes two more),
\* and so is a list that overflowed (module VfsKprobe: send_func may then sleep
\* on it). An efd that is never started leaves the list as it is.
Overflow == Len(buffer) > MAX_MSG_BUF_LEN
Settles ==
  []~(varProbed \/ Overflow) =>
    <>[](/\ socket = <<>> /\ writing["efd"] = None
         /\ thread = "running" => buffer = <<>>)
=============================================================================
