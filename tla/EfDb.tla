-------------------------------- MODULE EfDb --------------------------------
(***************************************************************************)
(* src/ef_db.cpp: the processes that have /var/ef.db open. The daemon efd  *)
(* and ef --init write (add, rm), ef --exact and ef --fuzzy read.          *)
(*                                                                         *)
(* SQLite is modelled by the file locks of its rollback journal, as the    *)
(* code uses it: through sqlite3pp, with no busy timeout, so a lock that   *)
(* is not free at once is SQLITE_BUSY. A connection rises from SHARED over *)
(* RESERVED and PENDING to EXCLUSIVE; one connection at a time can be at   *)
(* RESERVED or above; PENDING keeps new readers out; EXCLUSIVE needs the   *)
(* old ones gone. Writing the file under EXCLUSIVE is one step here.       *)
(* A row is its file name, and the table itself one more name.             *)
(*                                                                         *)
(* A statement is prepared against the schema, which its connection reads  *)
(* under SHARED when it does not know the table yet. Processes start and   *)
(* end at any time; what one leaves unfinished is rolled back.             *)
(***************************************************************************)
EXTENDS FiniteSets

CONSTANTS
  Daemons,  \* processes that call add and rm: efd
  Inits,    \* processes that call add only: ef --init
  Readers,  \* processes that run a query
  Names,    \* file names
  Quoted,   \* the names with a quotation mark that breaks the statement they
            \* are printed into
  AddName   \* name |-> what add makes of it: one that starts with "//" is
            \* moved down a letter, its length kept, its last letter twice

Writers == Daemons \cup Inits
Conns   == Writers \cup Readers

ASSUME ConnsAssumption ==
  /\ Writers \cap Readers = {} /\ {"none", "files"} \cap Names = {}
  /\ AddName \in [Names -> Names] /\ Quoted \subseteq Names

VARIABLES
  rows,    \* what is committed: names, and "files" once there is the table
  image,   \* the same as the open write transaction has it
  knows,   \* the connections whose schema has the table
  lock,    \* connection |-> lock it holds
  open,    \* the writers inside BEGIN .. COMMIT (autocommit is off)
  pc, arg, \* each process's step, and the name it works on
  wanted,  \* history: the table if every add and rm had taken effect
  lost,    \* history: the names for which one has not
  refused  \* history: the processes, while they run, that were refused a CREATE
           \* or a COMMIT

fileVars == <<rows, image>>
histVars == <<wanted, lost>>
vars == <<fileVars, knows, lock, open, pc, arg, histVars, refused>>

Locks == {"none", "shared", "reserved", "pending"}
Steps == {"closed", "create", "create_lock", "idle", "begin", "insert",
          "insert_lock", "delete", "delete_lock", "commit", "exclusive",
          "reading", "dead"}

Init ==
  /\ rows = {} /\ image = {} /\ knows = {}
  /\ lock = [c \in Conns |-> "none"]
  /\ open = {}
  /\ pc = [c \in Conns |-> "closed"]
  /\ arg = [c \in Conns |-> "none"]
  /\ wanted = {} /\ lost = {} /\ refused = {}

\* A process works on a name only in a call.
Call(c, step, n) == pc' = [pc EXCEPT ![c] = step] /\ arg' = [arg EXCEPT ![c] = n]
Goto(c, step) ==
  Call(c, step, IF step \in {"closed", "idle", "dead"} THEN "none" ELSE arg[c])

Hold(c, l) == lock' = [lock EXCEPT ![c] = l]

HoldsWrite(c)    == lock[c] \in {"reserved", "pending"}
SharedBusy(c)    == \E o \in Conns \ {c} : lock[o] = "pending"
ReservedBusy(c)  == \E o \in Conns \ {c} : HoldsWrite(o)
ExclusiveBusy(c) == \E o \in Conns \ {c} : lock[o] # "none"

\* What the table looks like to its writer, and the names a transaction changes.
Table   == IF \E c \in Conns : HoldsWrite(c) THEN image ELSE rows
Changed == Names \cap ((image \ rows) \cup (rows \ image))

\* A statement about a name can be parsed, and finds the table in the schema.
Prepares(c, n) ==
  n \notin Quoted /\ (c \in knows \/ ("files" \in rows /\ ~SharedBusy(c)))

\* The process ends, and SQLite rolls its transaction back.
Leave(c, step) ==
  /\ Goto(c, step)
  /\ Hold(c, "none")
  /\ open' = open \ {c}
  /\ knows' = knows \ {c}
  /\ lost' = IF HoldsWrite(c) THEN lost \cup Changed ELSE lost
  /\ image' = IF HoldsWrite(c) THEN rows ELSE image
  /\ refused' = refused \ {c}

\* exit(), or a signal.
End(c) ==
  /\ pc[c] \notin {"closed", "dead"}
  /\ Leave(c, "closed")
  /\ UNCHANGED <<rows, wanted>>

-----------------------------------------------------------------------------
(* The constructor of ef_db, run before main: CREATE TABLE IF NOT EXISTS,  *)
(* whose result is not looked at. When connect fails it throws.            *)

Open(c) ==
  /\ pc[c] \in {"closed", "dead"}
  /\ Goto(c, "create") \/ Goto(c, "dead")
  /\ UNCHANGED <<fileVars, knows, lock, open, histVars, refused>>

CreateShared(c) ==
  /\ pc[c] = "create"
  /\ \/ /\ SharedBusy(c)
        /\ Goto(c, "idle")
        /\ refused' = refused \cup {c}
        /\ UNCHANGED <<knows, lock>>
     \/ /\ ~SharedBusy(c) /\ "files" \in rows
        /\ Goto(c, "idle")
        /\ knows' = knows \cup {c}
        /\ UNCHANGED <<lock, refused>>
     \/ /\ ~SharedBusy(c) /\ "files" \notin rows
        /\ Goto(c, "create_lock")
        /\ Hold(c, "shared")
        /\ UNCHANGED <<knows, refused>>
  /\ UNCHANGED <<fileVars, open, histVars>>

CreateReserved(c) ==
  /\ pc[c] = "create_lock"
  /\ \/ /\ ReservedBusy(c)
        /\ Hold(c, "none")
        /\ Goto(c, "idle")
        /\ refused' = refused \cup {c}
        /\ UNCHANGED image
     \/ /\ ~ReservedBusy(c)
        /\ Hold(c, "reserved")
        /\ image' = rows \cup {"files"}
        /\ Goto(c, "commit")
        /\ UNCHANGED refused
  /\ UNCHANGED <<rows, knows, open, histVars>>

-----------------------------------------------------------------------------
(* add: BEGIN, INSERT, COMMIT. The result of the INSERT is not looked at,  *)
(* nor that of COMMIT, after which the transaction object forgets it.      *)

\* Variant: the name is not bound.
AddCallUnbound(w, n) ==
  /\ pc[w] = "idle"
  /\ Goto(w, "begin")
  /\ UNCHANGED <<fileVars, knows, lock, open, histVars, refused>>

AddCall(w, n) ==
  /\ pc[w] = "idle"
  /\ Call(w, "begin", AddName[n])
  /\ UNCHANGED <<fileVars, knows, lock, open, histVars, refused>>

\* Variant: the exception is caught and add returns.
BeginCaught(w) ==
  /\ pc[w] = "begin"
  /\ open' = open \cup {w}
  /\ Goto(w, IF w \in open THEN "idle" ELSE "insert")
  /\ UNCHANGED <<fileVars, knows, lock, histVars, refused>>

\* BEGIN in an open transaction is an error, and so is an INSERT that cannot be
\* prepared: the constructors throw, and nobody catches.
Begin(w) ==
  /\ pc[w] = "begin"
  /\ \/ /\ w \in open \/ ~Prepares(w, arg[w])
        /\ Leave(w, "dead")
        /\ UNCHANGED <<rows, wanted>>
     \/ /\ w \notin open /\ Prepares(w, arg[w])
        /\ open' = open \cup {w}
        /\ knows' = knows \cup {w}
        /\ Goto(w, "insert")
        /\ UNCHANGED <<fileVars, lock, histVars, refused>>

\* A refused statement leaves no lock behind.
InsertShared(w) ==
  /\ pc[w] = "insert"
  /\ IF SharedBusy(w)
     THEN /\ Goto(w, "commit")
          /\ wanted' = wanted \cup {arg[w]}
          /\ lost' = lost \cup {arg[w]}
          /\ UNCHANGED lock
     ELSE /\ Hold(w, "shared")
          /\ Goto(w, "insert_lock")
          /\ UNCHANGED histVars
  /\ UNCHANGED <<fileVars, knows, open, refused>>

\* Variant: an add whose INSERT is refused returns without COMMIT.
InsertReservedReturn(w) ==
  /\ pc[w] = "insert_lock"
  /\ wanted' = wanted \cup {arg[w]}
  /\ IF ReservedBusy(w)
     THEN /\ Hold(w, "none")
          /\ lost' = lost \cup {arg[w]}
          /\ Goto(w, "idle")
          /\ UNCHANGED image
     ELSE /\ Hold(w, "reserved")
          /\ image' = rows \cup {arg[w]}
          /\ Goto(w, "commit")
          /\ UNCHANGED lost
  /\ UNCHANGED <<rows, knows, open, refused>>

\* A name that is there already violates the PRIMARY KEY and changes nothing.
InsertReserved(w) ==
  /\ pc[w] = "insert_lock"
  /\ wanted' = wanted \cup {arg[w]}
  /\ IF ReservedBusy(w)
     THEN /\ Hold(w, "none")
          /\ lost' = lost \cup {arg[w]}
          /\ UNCHANGED image
     ELSE /\ Hold(w, "reserved")
          /\ image' = rows \cup {arg[w]}
          /\ UNCHANGED lost
  /\ Goto(w, "commit")
  /\ UNCHANGED <<rows, knows, open, refused>>

\* COMMIT, and the end of a DELETE or CREATE outside a transaction: with
\* nothing to write it only drops the lock; otherwise it goes for EXCLUSIVE.
Commit(c) ==
  /\ pc[c] = "commit"
  /\ IF HoldsWrite(c) /\ image # rows
     THEN /\ Hold(c, "pending")
          /\ Goto(c, "exclusive")
          /\ UNCHANGED open
     ELSE /\ Hold(c, "none")
          /\ Goto(c, "idle")
          /\ open' = open \ {c}
  /\ UNCHANGED <<fileVars, knows, histVars, refused>>

\* Variant: rollback in the place of commit.
CommitRollback(c) ==
  /\ pc[c] = "exclusive"
  /\ ~ExclusiveBusy(c)
  /\ image' = rows
  /\ knows' = knows \cup {c}
  /\ Hold(c, "none")
  /\ open' = open \ {c}
  /\ Goto(c, "idle")
  /\ UNCHANGED <<rows, histVars, refused>>

CommitWrite(c) ==
  /\ pc[c] = "exclusive"
  /\ ~ExclusiveBusy(c)
  /\ rows' = image
  /\ knows' = knows \cup {c}
  /\ Hold(c, "none")
  /\ open' = open \ {c}
  /\ Goto(c, "idle")
  /\ UNCHANGED <<image, histVars, refused>>

\* A COMMIT that meets a reader stays where it is, PENDING and open; a
\* statement of its own is rolled back.
CommitBusy(c) ==
  /\ pc[c] = "exclusive"
  /\ ExclusiveBusy(c)
  /\ Goto(c, "idle")
  /\ refused' = refused \cup {c}
  /\ IF c \in open
     THEN UNCHANGED <<image, lock, lost>>
     ELSE /\ image' = rows
          /\ Hold(c, "none")
          /\ lost' = lost \cup Changed
  /\ UNCHANGED <<rows, knows, open, wanted>>

-----------------------------------------------------------------------------
(* rm: one DELETE, inside the transaction that a failed COMMIT left open   *)
(* if there is one. Its result is not looked at.                           *)

RmCall(w, n) ==
  /\ pc[w] = "idle"
  /\ Call(w, "delete", n)
  /\ UNCHANGED <<fileVars, knows, lock, open, histVars, refused>>

\* The DELETE cannot be parsed and removes nothing; add never added the name.
DeleteUnparsed(w) ==
  /\ pc[w] = "delete" /\ arg[w] \in Quoted
  /\ Goto(w, "idle")
  /\ UNCHANGED <<fileVars, knows, lock, open, histVars, refused>>

DeleteInOpen(w) ==
  /\ pc[w] = "delete" /\ w \in open /\ arg[w] \notin Quoted
  /\ image' = image \ {arg[w]}
  /\ wanted' = wanted \ {arg[w]}
  /\ Goto(w, "idle")
  /\ UNCHANGED <<rows, knows, lock, open, lost, refused>>

DeleteShared(w) ==
  /\ pc[w] = "delete" /\ w \notin open /\ arg[w] \notin Quoted
  /\ IF SharedBusy(w) \/ ~Prepares(w, arg[w])
     THEN /\ Goto(w, "idle")
          /\ wanted' = wanted \ {arg[w]}
          /\ lost' = lost \cup {arg[w]}
          /\ UNCHANGED <<knows, lock>>
     ELSE /\ Hold(w, "shared")
          /\ knows' = knows \cup {w}
          /\ Goto(w, "delete_lock")
          /\ UNCHANGED histVars
  /\ UNCHANGED <<fileVars, open, refused>>

\* Variant: a refused DELETE keeps the SHARED lock it was refused with.
DeleteReservedLeaky(w) ==
  /\ pc[w] = "delete_lock"
  /\ wanted' = wanted \ {arg[w]}
  /\ IF ReservedBusy(w)
     THEN /\ Goto(w, "idle")
          /\ lost' = lost \cup {arg[w]}
          /\ UNCHANGED <<lock, image>>
     ELSE /\ Hold(w, "reserved")
          /\ image' = rows \ {arg[w]}
          /\ Goto(w, "commit")
          /\ UNCHANGED lost
  /\ UNCHANGED <<rows, knows, open, refused>>

DeleteReserved(w) ==
  /\ pc[w] = "delete_lock"
  /\ wanted' = wanted \ {arg[w]}
  /\ IF ReservedBusy(w)
     THEN /\ Hold(w, "none")
          /\ Goto(w, "idle")
          /\ lost' = lost \cup {arg[w]}
          /\ UNCHANGED image
     ELSE /\ Hold(w, "reserved")
          /\ image' = rows \ {arg[w]}
          /\ Goto(w, "commit")
          /\ UNCHANGED lost
  /\ UNCHANGED <<rows, knows, open, refused>>

-----------------------------------------------------------------------------
(* ef --exact and ef --fuzzy: qry_exact or qry_no_exact with print_res. The *)
(* query holds SHARED from its first row to its last, for as long as       *)
(* whoever reads stdout takes, and the process ends.                       *)

\* The query or its iterator throws.
ReadFails(r) ==
  /\ pc[r] = "idle"
  /\ \E n \in Names : SharedBusy(r) \/ ~Prepares(r, n)
  /\ Leave(r, "dead")
  /\ UNCHANGED <<rows, wanted>>

ReadFirst(r) ==
  /\ pc[r] = "idle"
  /\ \E n \in Names : ~SharedBusy(r) /\ Prepares(r, n)
  /\ Hold(r, "shared")
  /\ knows' = knows \cup {r}
  /\ Goto(r, "reading")
  /\ UNCHANGED <<fileVars, open, histVars, refused>>

-----------------------------------------------------------------------------
ConnSteps(c) ==
  \/ CreateShared(c) \/ CreateReserved(c)
  \/ Commit(c) \/ CommitWrite(c) \/ CommitBusy(c)

WriterSteps(w) ==
  \/ Begin(w) \/ InsertShared(w) \/ InsertReserved(w)
  \/ DeleteUnparsed(w) \/ DeleteInOpen(w) \/ DeleteShared(w)
  \/ DeleteReserved(w)

Writer(w) ==
  \/ WriterSteps(w)
  \/ \E n \in Names : AddCall(w, n)
  \/ w \in Daemons /\ \E n \in Names : RmCall(w, n)

Reader(r) == ReadFails(r) \/ ReadFirst(r)

Next ==
  \/ \E c \in Conns : Open(c) \/ ConnSteps(c) \/ End(c)
  \/ \E w \in Writers : Writer(w)
  \/ \E r \in Readers : Reader(r)

Spec == Init /\ [][Next]_vars

\* A process finishes its calls, and among the calls that come to a writer
\* there is an add again and again: a walk is adds only, and the daemon's own
\* transactions create /var/ef.db-journal. Nobody must start or end, and
\* nobody must read to the end.
FairSpec ==
  /\ Spec
  /\ \A w \in Writers :
       /\ WF_vars(WriterSteps(w) \/ ConnSteps(w))
       /\ SF_vars(\E n \in Names : AddCall(w, n))

-----------------------------------------------------------------------------
(* Properties.                                                             *)

TypeOK ==
  /\ {rows, image} \subseteq SUBSET (Names \cup {"files"})
  /\ knows \subseteq Conns /\ refused \subseteq Conns
  /\ lock \in [Conns -> Locks]
  /\ open \subseteq Writers
  /\ pc \in [Conns -> Steps] /\ arg \in [Conns -> Names \cup {"none"}]
  /\ \A c \in Conns :
       pc[c] \in {"begin", "insert", "insert_lock", "delete", "delete_lock"}
         => arg[c] \in Names
  /\ wanted \subseteq Names /\ lost \subseteq Names

\* One connection writes at a time, and only a writer that is in a call or has
\* a transaction left open holds a lock: no other path leaks one.
NoLeakedLock ==
  /\ \A c, o \in Conns : HoldsWrite(c) /\ HoldsWrite(o) => c = o
  /\ \A w \in Writers :
       pc[w] \in {"closed", "idle", "dead"} /\ lock[w] # "none" => w \in open
  /\ \A w \in open : pc[w] \in {"idle", "begin"} => lock[w] = "pending"

\* The calls that could be parsed, were not refused a lock and not rolled back
\* have, all of them and nothing else, made the table what it is.
Accounted == \A n \in Names \ lost : n \in Table <=> n \in wanted

\* A writer that could open the database dies of no exception but over a name
\* that breaks its statement or after a lock it was once refused: its CREATE
\* TABLE when it started, so that an INSERT finds no table, or a COMMIT, so that
\* BEGIN finds a transaction.
DeathExplained ==
  [][\A w \in Writers : pc[w] \notin {"closed", "dead"} /\ pc'[w] = "dead"
       => w \in refused \/ arg[w] \in Quoted]_vars

\* A transaction that a failed COMMIT left open does not keep the others out
\* for ever: the next add of that process ends it, with the process.
LeftoverEnds == []<>(\A w \in Writers : lock[w] # "pending")

\* README_ZH.md:2: files are found in real time, that is, once add has
\* returned 0 the row is there.
AddStores ==
  [][\A w \in Writers :
       pc[w] \notin {"idle", "delete", "delete_lock"} /\ pc'[w] = "idle"
         /\ arg[w] \in wanted
       => arg[w] \in rows']_vars
=============================================================================
