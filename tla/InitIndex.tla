----------------------------- MODULE InitIndex -----------------------------
(***************************************************************************)
(* ef --init: src/main.cpp with the traversal of src/os/linux/_file.cpp.   *)
(*                                                                         *)
(* Three threads: out_sys_files walks the file system and enqueues every   *)
(* regular file, in_db dequeues and stores, main starts them, joins in_db  *)
(* (pid has been overwritten, so the walker is never joined) and exits.    *)
(* They share the queue and the flag out.                                  *)
(*                                                                         *)
(* The queue is FifoQueue, which LockFreeQueue implements as long as it    *)
(* does not fault. Its n-th value stands for visited[n]. ef_db::add is      *)
(* module EfDb's: here it returns, having stored the value or not, or       *)
(* throws; nobody catches that, and the process is terminated.             *)
(***************************************************************************)
EXTENDS FifoQueue, FiniteSets

CONSTANTS
  Root,      \* the entry "/"
  Mode,      \* entry |-> the S_IFMT bits lstat finds
  Children   \* directory |-> what readdir returns, without "." and ".."

Entries == DOMAIN Mode

GetFileType(m) ==
  LET types == [S_IFLNK |-> "ELNK", S_IFREG |-> "EREG", S_IFDIR |-> "EDIR",
                S_IFCHR |-> "ECHR", S_IFBLK |-> "EBLK", S_IFIFO |-> "EFIFO",
                S_IFSOCK |-> "ESOCK"]
  IN  IF m \in DOMAIN types THEN types[m] ELSE "ERR"

Type(e) == GetFileType(Mode[e])

Dirs == {e \in Entries : Type(e) = "EDIR"}

Kids(dir) == {Children[dir][i] : i \in DOMAIN Children[dir]}

\* An entry is a path: it has one parent, which lists it once.
ASSUME TreeAssumption ==
  /\ Root \in Entries
  /\ \A e \in Dirs : Children[e] \in Seq(Entries) /\ Root \notin Kids(e)
  /\ \A e, f \in Dirs : \A i \in DOMAIN Children[e], j \in DOMAIN Children[f] :
       Children[e][i] = Children[f][j] => e = f /\ i = j

VARIABLES
  out,       \* the flag out
  wpc,       \* out_sys_files: its step
  stack,     \* the readdir loops open, innermost first: what is left of each
  cpc, info, \* in_db: its step and its info
  mpc,       \* main: its step
  added,     \* the values for which in_db's ef_db::add has returned
  dropped,   \* the values ~buf threw away
  visited,   \* history: entries given to add_file_info, in order
  failed     \* history: some lstat or opendir failed

walkVars == <<wpc, stack, visited, failed>>
consVars == <<cpc, info, added>>
mainVars == <<mpc, dropped>>
vars == <<fifoVars, out, walkVars, consVars, mainVars>>

Init ==
  /\ InitFifo
  /\ out = 0
  /\ wpc = "none" /\ stack = <<>>
  /\ visited = <<>> /\ failed = FALSE
  /\ cpc = "none" /\ info = 0 /\ added = <<>>
  /\ mpc = "create" /\ dropped = <<>>

-----------------------------------------------------------------------------
(* out_sys_files and _traverse_file_system.                                *)

WStart ==
  /\ wpc = "start"
  /\ out' = 1
  /\ wpc' = "walk"
  /\ stack' = <<<<Root>>>>
  /\ UNCHANGED <<fifoVars, visited, failed, consVars, mainVars>>

\* Variant: return in the place of continue: the siblings are left out.
RestReturn == <<<<>>>> \o Tail(stack)

\* The next entry of the innermost loop, and the loops once it is taken.
Entry == stack[1][1]

Rest == <<Tail(stack[1])>> \o Tail(stack)

Walking == wpc = "walk" /\ stack # <<>> /\ stack[1] # <<>>

\* lstat fails (the entry is gone, or must not be looked at).
WGone ==
  /\ Walking
  /\ stack' = Rest
  /\ failed' = TRUE
  /\ UNCHANGED <<fifoVars, out, wpc, visited, consVars, mainVars>>

\* ef_file's: into the queue, however long it is.
AddFileInfo(e) == Enqueue /\ visited' = Append(visited, e)

WFile ==
  /\ Walking /\ Type(Entry) = "EREG"
  /\ AddFileInfo(Entry)
  /\ stack' = Rest
  /\ UNCHANGED <<out, wpc, failed, consVars, mainVars>>

WDir ==
  /\ Walking /\ Type(Entry) = "EDIR"
  /\ \/ /\ stack' = <<Children[Entry]>> \o Rest
        /\ UNCHANGED failed
     \/ /\ stack' = Rest  \* opendir failed
        /\ failed' = TRUE
  /\ UNCHANGED <<fifoVars, out, wpc, visited, consVars, mainVars>>

\* ELNK, ECHR, EBLK, EFIFO, ESOCK and ERR, whose result 1 nobody looks at.
WOther ==
  /\ Walking /\ Type(Entry) \notin {"EREG", "EDIR"}
  /\ stack' = Rest
  /\ UNCHANGED <<fifoVars, out, wpc, visited, failed, consVars, mainVars>>

WClosedir ==
  /\ wpc = "walk" /\ stack # <<>> /\ stack[1] = <<>>
  /\ stack' = Tail(stack)
  /\ UNCHANGED <<fifoVars, out, wpc, visited, failed, consVars, mainVars>>

\* Variant: the flag out is not reset.
WEndSilent ==
  /\ wpc = "walk" /\ stack = <<>>
  /\ wpc' = "done"
  /\ UNCHANGED <<fifoVars, out, stack, visited, failed, consVars, mainVars>>

WEnd ==
  /\ wpc = "walk" /\ stack = <<>>
  /\ out' = 0
  /\ wpc' = "done"
  /\ UNCHANGED <<fifoVars, stack, visited, failed, consVars, mainVars>>

Walker == WStart \/ WGone \/ WFile \/ WDir \/ WOther \/ WClosedir \/ WEnd

-----------------------------------------------------------------------------
(* in_db.                                                                  *)

\* Variant: out is tested before what was dequeued is stored.
CDequeueTest ==
  /\ cpc = "dequeue"
  /\ Dequeue
  /\ info' = Head(queue)
  /\ cpc' = IF out = 0 THEN "done" ELSE "add"
  /\ UNCHANGED <<out, walkVars, added, mainVars>>

CDequeue ==
  /\ cpc = "dequeue"
  /\ Dequeue
  /\ info' = Head(queue)
  /\ cpc' = "add"
  /\ UNCHANGED <<out, walkVars, added, mainVars>>

\* Variant: the result of dequeue is not looked at.
CEmptyAdd ==
  /\ cpc = "dequeue"
  /\ queue = <<>>
  /\ cpc' = "add"
  /\ UNCHANGED <<fifoVars, out, walkVars, info, added, mainVars>>

CEmpty ==
  /\ cpc = "dequeue"
  /\ queue = <<>>
  /\ cpc' = "test"
  /\ UNCHANGED <<fifoVars, out, walkVars, info, added, mainVars>>

CTestOut ==
  /\ cpc = "test"
  /\ cpc' = IF out = 0 THEN "done" ELSE "dequeue"
  /\ UNCHANGED <<fifoVars, out, walkVars, info, added, mainVars>>

\* Whether the value is now in the table, or the add was refused and returned
\* 0, nobody looks at.
CAdd ==
  /\ cpc = "add"
  /\ added' = Append(added, info)
  /\ cpc' = "dequeue"
  /\ UNCHANGED <<fifoVars, out, walkVars, info, mainVars>>

\* add throws: std::terminate ends all three threads, without exit's ~buf.
CAddThrows ==
  /\ cpc = "add"
  /\ mpc' = "aborted"
  /\ UNCHANGED <<fifoVars, out, walkVars, consVars, dropped>>

Consumer == CDequeue \/ CEmpty \/ CTestOut \/ CAdd \/ CAddThrows

-----------------------------------------------------------------------------
(* main.                                                                   *)

MCreateWalker ==
  /\ mpc = "create"
  /\ out' = 0
  /\ wpc' = "start"
  /\ mpc' = "sleep"
  /\ UNCHANGED <<fifoVars, stack, visited, failed, consVars, dropped>>

\* Variant: no sleep between the two threads.
MCreateConsumerAtOnce ==
  /\ mpc = "sleep"
  /\ cpc' = "dequeue"
  /\ mpc' = "join"
  /\ UNCHANGED <<fifoVars, out, walkVars, info, added, dropped>>

\* sleep(5): in five seconds the walker has at least set out.
MCreateConsumer ==
  /\ mpc = "sleep"
  /\ wpc # "start"
  /\ cpc' = "dequeue"
  /\ mpc' = "join"
  /\ UNCHANGED <<fifoVars, out, walkVars, info, added, dropped>>

MJoin ==
  /\ mpc = "join"
  /\ cpc = "done"
  /\ mpc' = "exit"
  /\ UNCHANGED <<fifoVars, out, walkVars, consVars, dropped>>

\* exit runs ~buf, which dequeues what is left.
MDestroy ==
  /\ mpc = "exit"
  /\ \/ /\ Dequeue
        /\ dropped' = Append(dropped, Head(queue))
        /\ UNCHANGED mpc
     \/ /\ queue = <<>>
        /\ mpc' = "ended"
        /\ UNCHANGED <<fifoVars, dropped>>
  /\ UNCHANGED <<out, walkVars, consVars>>

Main == MCreateWalker \/ MCreateConsumer \/ MJoin \/ MDestroy

-----------------------------------------------------------------------------
Over == mpc \in {"ended", "aborted"}

Next == ~Over /\ (Walker \/ Consumer \/ Main)

Spec == Init /\ [][Next]_vars

\* Three threads of one process, none of which blocks the others.
FairSpec ==
  /\ Spec
  /\ WF_vars(Walker) /\ WF_vars(Consumer) /\ WF_vars(Main)

-----------------------------------------------------------------------------
(* Properties.                                                             *)

TypeOK ==
  /\ out \in {0, 1}
  /\ wpc \in {"none", "start", "walk", "done"}
  /\ cpc \in {"none", "dequeue", "test", "add", "done"}
  /\ mpc \in {"create", "sleep", "join", "exit", "ended", "aborted"}
  /\ stack \in Seq(Seq(Entries))
  /\ visited \in Seq(Entries)
  /\ failed \in BOOLEAN
  /\ \A s \in {queue, got, added, dropped} : s \in Seq(1 .. Len(visited))
  /\ info \in 0 .. Len(visited)

\* The numbers of the first n files the walk found.
Values(n) == [i \in 1 .. n |-> i]

\* ef --init hands what the walk found to ef_db::add in its order, nothing
\* skipped and nothing twice; what it has not handed over when it exits is a
\* tail, which ~buf throws away. (What add does with a value is EfDb's.)
LostIsTail ==
  /\ added = Values(Len(added))
  /\ mpc = "ended" => added \o dropped = Values(Len(visited))

\* out stands in for the join main does not do: main does not exit while the
\* walk is still going on. (add's exception does end the process then.)
ExitAfterWalk == mpc \in {"exit", "ended"} => wpc = "done"

\* ef --init ends, by itself or by add's exception.
Ends == <>Over

\* x and whatever can be reached from it: what is in every set with x that has
\* the children of its directories.
Closed(S) == \A dir \in S \cap Dirs : Kids(dir) \subseteq S
Below(x) == {e \in Entries : \A S \in SUBSET Entries : x \in S /\ Closed(S) => e \in S}

Files == {e \in Below(Root) : Type(e) = "EREG"}

\* The walk: every regular file that can be reached through directories only,
\* links not followed, is found once; a failure only takes away.
WalkCovers ==
  wpc = "done" =>
    LET found == {visited[i] : i \in DOMAIN visited}
    IN  /\ Cardinality(found) = Len(visited)
        /\ found \subseteq Files /\ (~failed => found = Files)

\* main.cpp:92 (--init: init ef_db): when ef --init ends, what the walk found
\* is in the database.
InitComplete == mpc = "ended" => added = Values(Len(visited))
=============================================================================
