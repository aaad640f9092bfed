----------------------------- MODULE EfDbProofs -----------------------------
(***************************************************************************)
(* Proofs about EfDb, for any number of processes and any names.           *)
(***************************************************************************)
EXTENDS EfDb, TLAPS

\* Which lock a connection holds at each step.
LockAt ==
  \A c \in Conns :
    /\ pc[c] \in {"closed", "dead", "create", "create_lock", "delete_lock",
                  "reading"} => c \notin open
    /\ pc[c] \in {"closed", "dead", "create", "insert"} => lock[c] = "none"
    /\ pc[c] \in {"create_lock", "insert_lock", "delete_lock", "reading"}
         => lock[c] = "shared"
    /\ pc[c] \in {"insert", "insert_lock"} => c \in open
    /\ pc[c] \in {"idle", "begin", "delete"}
         => lock[c] = IF c \in open THEN "pending" ELSE "none"
    /\ pc[c] = "commit" => lock[c] \in {"none", "reserved"}
    /\ pc[c] = "exclusive" => lock[c] = "pending"

OneWriter == \A c, o \in Conns : HoldsWrite(c) /\ HoldsWrite(o) => c = o

\* What a connection that does not know the table, or has a transaction left
\* open, has behind it.
RefusedInv ==
  \A c \in Conns :
    /\ pc[c] \in {"idle", "begin", "delete"} /\ c \notin knows => c \in refused
    /\ pc[c] \in {"idle", "begin", "delete"} /\ c \in open => c \in refused
    /\ pc[c] = "create_lock" => "files" \notin rows
    /\ pc[c] \in {"insert", "insert_lock", "delete_lock"} => c \in knows
    /\ pc[c] \in {"commit", "exclusive"} /\ c \notin knows
         => HoldsWrite(c) /\ image # rows

EfDbInv == TypeOK /\ LockAt /\ OneWriter /\ RefusedInv /\ Accounted

-----------------------------------------------------------------------------
(* The steps.                                                              *)

\* No step leaves the types.
LEMMA TypeStep == TypeOK /\ [Next]_vars => TypeOK'
<1> SUFFICES ASSUME TypeOK, [Next]_vars PROVE TypeOK'
  OBVIOUS
<1> USE ConnsAssumption DEF Conns, Call, Goto, Hold, fileVars, histVars,
        TypeOK, Locks, Steps, Changed
<1>1. ASSUME NEW c \in Conns, Open(c) PROVE TypeOK'
  BY <1>1 DEF Open
<1>2. ASSUME NEW c \in Conns, CreateShared(c) PROVE TypeOK'
  BY <1>2 DEF CreateShared
<1>3. ASSUME NEW c \in Conns, CreateReserved(c) PROVE TypeOK'
  BY <1>3 DEF CreateReserved
<1>4. ASSUME NEW c \in Conns, Commit(c) PROVE TypeOK'
  BY <1>4 DEF Commit
<1>5. ASSUME NEW c \in Conns, CommitWrite(c) PROVE TypeOK'
  BY <1>5 DEF CommitWrite
<1>6. ASSUME NEW c \in Conns, CommitBusy(c) PROVE TypeOK'
  BY <1>6 DEF CommitBusy
<1>7. ASSUME NEW c \in Conns, End(c) PROVE TypeOK'
  BY <1>7 DEF End, Leave
<1>8. ASSUME NEW w \in Writers, Begin(w) PROVE TypeOK'
  BY <1>8 DEF Begin, Leave
<1>9. ASSUME NEW w \in Writers, InsertShared(w) PROVE TypeOK'
  BY <1>9 DEF InsertShared
<1>10. ASSUME NEW w \in Writers, InsertReserved(w) PROVE TypeOK'
  BY <1>10 DEF InsertReserved
<1>11. ASSUME NEW w \in Writers, DeleteInOpen(w) PROVE TypeOK'
  BY <1>11 DEF DeleteInOpen
<1>12. ASSUME NEW w \in Writers, DeleteShared(w) PROVE TypeOK'
  BY <1>12 DEF DeleteShared
<1>13. ASSUME NEW w \in Writers, DeleteReserved(w) PROVE TypeOK'
  BY <1>13 DEF DeleteReserved
<1>14. ASSUME NEW w \in Writers, NEW n \in Names, AddCall(w, n) PROVE TypeOK'
  BY <1>14 DEF AddCall
<1>15. ASSUME NEW w \in Writers, NEW n \in Names, RmCall(w, n) PROVE TypeOK'
  BY <1>15 DEF RmCall
<1>16. ASSUME NEW r \in Readers, ReadFails(r) PROVE TypeOK'
  BY <1>16 DEF ReadFails, Leave
<1>17. ASSUME NEW r \in Readers, ReadFirst(r) PROVE TypeOK'
  BY <1>17 DEF ReadFirst
<1>18. ASSUME NEW w \in Writers, DeleteUnparsed(w) PROVE TypeOK'
  BY <1>18 DEF DeleteUnparsed
<1>19. CASE UNCHANGED vars
  BY <1>19 DEF vars
<1> HIDE DEF Conns, Call, Goto, Hold, fileVars, histVars, TypeOK, Locks, Steps,
         Changed
<1> QED BY <1>1, <1>2, <1>3, <1>4, <1>5, <1>6, <1>7, <1>8, <1>9, <1>10,
           <1>11, <1>12, <1>13, <1>14, <1>15, <1>16, <1>17, <1>18, <1>19
       DEF Next, ConnSteps, Writer, WriterSteps, Reader

\* A connection rises and falls through the locks as its step says.
LEMMA LockAtStep == TypeOK /\ LockAt /\ [Next]_vars => LockAt'
<1> SUFFICES ASSUME TypeOK /\ LockAt, [Next]_vars PROVE LockAt'
  OBVIOUS
<1> USE ConnsAssumption DEF Conns, Call, Goto, Hold, fileVars, histVars,
        HoldsWrite, TypeOK, Locks, Steps, LockAt
<1>1. ASSUME NEW c \in Conns, Open(c) PROVE LockAt'
  BY <1>1 DEF Open
<1>2. ASSUME NEW c \in Conns, CreateShared(c) PROVE LockAt'
  BY <1>2 DEF CreateShared
<1>3. ASSUME NEW c \in Conns, CreateReserved(c) PROVE LockAt'
  BY <1>3 DEF CreateReserved
<1>4. ASSUME NEW c \in Conns, Commit(c) PROVE LockAt'
  BY <1>4 DEF Commit
<1>5. ASSUME NEW c \in Conns, CommitWrite(c) PROVE LockAt'
  BY <1>5 DEF CommitWrite
<1>6. ASSUME NEW c \in Conns, CommitBusy(c) PROVE LockAt'
  BY <1>6 DEF CommitBusy
<1>7. ASSUME NEW c \in Conns, End(c) PROVE LockAt'
  BY <1>7 DEF End, Leave
<1>8. ASSUME NEW w \in Writers, Begin(w) PROVE LockAt'
  BY <1>8 DEF Begin, Leave
<1>9. ASSUME NEW w \in Writers, InsertShared(w) PROVE LockAt'
  BY <1>9 DEF InsertShared
<1>10. ASSUME NEW w \in Writers, InsertReserved(w) PROVE LockAt'
  BY <1>10 DEF InsertReserved
<1>11. ASSUME NEW w \in Writers, DeleteInOpen(w) PROVE LockAt'
  BY <1>11 DEF DeleteInOpen
<1>12. ASSUME NEW w \in Writers, DeleteShared(w) PROVE LockAt'
  BY <1>12 DEF DeleteShared
<1>13. ASSUME NEW w \in Writers, DeleteReserved(w) PROVE LockAt'
  BY <1>13 DEF DeleteReserved
<1>14. ASSUME NEW w \in Writers, NEW n \in Names, AddCall(w, n) PROVE LockAt'
  BY <1>14 DEF AddCall
<1>15. ASSUME NEW w \in Writers, NEW n \in Names, RmCall(w, n) PROVE LockAt'
  BY <1>15 DEF RmCall
<1>16. ASSUME NEW r \in Readers, ReadFails(r) PROVE LockAt'
  BY <1>16 DEF ReadFails, Leave
<1>17. ASSUME NEW r \in Readers, ReadFirst(r) PROVE LockAt'
  BY <1>17 DEF ReadFirst
<1>18. ASSUME NEW w \in Writers, DeleteUnparsed(w) PROVE LockAt'
  BY <1>18 DEF DeleteUnparsed
<1>19. CASE UNCHANGED vars
  BY <1>19 DEF vars
<1> HIDE DEF Conns, Call, Goto, Hold, fileVars, histVars, HoldsWrite, TypeOK,
         Locks, Steps, LockAt
<1> QED BY <1>1, <1>2, <1>3, <1>4, <1>5, <1>6, <1>7, <1>8, <1>9, <1>10,
           <1>11, <1>12, <1>13, <1>14, <1>15, <1>16, <1>17, <1>18, <1>19
       DEF Next, ConnSteps, Writer, WriterSteps, Reader

\* Nobody gets RESERVED while another has it.
LEMMA OneWriterStep == TypeOK /\ LockAt /\ OneWriter /\ [Next]_vars => OneWriter'
<1> SUFFICES ASSUME TypeOK /\ LockAt /\ OneWriter, [Next]_vars PROVE OneWriter'
  OBVIOUS
<1> USE ConnsAssumption DEF Conns, Call, Goto, Hold, fileVars, histVars,
        HoldsWrite, ReservedBusy, TypeOK, Locks, Steps, LockAt, OneWriter
<1>1. ASSUME NEW c \in Conns, Open(c) PROVE OneWriter'
  BY <1>1 DEF Open
<1>2. ASSUME NEW c \in Conns, CreateShared(c) PROVE OneWriter'
  BY <1>2 DEF CreateShared
<1>3. ASSUME NEW c \in Conns, CreateReserved(c) PROVE OneWriter'
  BY <1>3 DEF CreateReserved
<1>4. ASSUME NEW c \in Conns, Commit(c) PROVE OneWriter'
  BY <1>4 DEF Commit
<1>5. ASSUME NEW c \in Conns, CommitWrite(c) PROVE OneWriter'
  BY <1>5 DEF CommitWrite
<1>6. ASSUME NEW c \in Conns, CommitBusy(c) PROVE OneWriter'
  BY <1>6 DEF CommitBusy
<1>7. ASSUME NEW c \in Conns, End(c) PROVE OneWriter'
  BY <1>7 DEF End, Leave
<1>8. ASSUME NEW w \in Writers, Begin(w) PROVE OneWriter'
  BY <1>8 DEF Begin, Leave
<1>9. ASSUME NEW w \in Writers, InsertShared(w) PROVE OneWriter'
  BY <1>9 DEF InsertShared
<1>10. ASSUME NEW w \in Writers, InsertReserved(w) PROVE OneWriter'
  BY <1>10 DEF InsertReserved
<1>11. ASSUME NEW w \in Writers, DeleteInOpen(w) PROVE OneWriter'
  BY <1>11 DEF DeleteInOpen
<1>12. ASSUME NEW w \in Writers, DeleteShared(w) PROVE OneWriter'
  BY <1>12 DEF DeleteShared
<1>13. ASSUME NEW w \in Writers, DeleteReserved(w) PROVE OneWriter'
  BY <1>13 DEF DeleteReserved
<1>14. ASSUME NEW w \in Writers, NEW n \in Names, AddCall(w, n) PROVE OneWriter'
  BY <1>14 DEF AddCall
<1>15. ASSUME NEW w \in Writers, NEW n \in Names, RmCall(w, n) PROVE OneWriter'
  BY <1>15 DEF RmCall
<1>16. ASSUME NEW r \in Readers, ReadFails(r) PROVE OneWriter'
  BY <1>16 DEF ReadFails, Leave
<1>17. ASSUME NEW r \in Readers, ReadFirst(r) PROVE OneWriter'
  BY <1>17 DEF ReadFirst
<1>18. ASSUME NEW w \in Writers, DeleteUnparsed(w) PROVE OneWriter'
  BY <1>18 DEF DeleteUnparsed
<1>19. CASE UNCHANGED vars
  BY <1>19 DEF vars
<1> HIDE DEF Conns, Call, Goto, Hold, fileVars, histVars, HoldsWrite,
         ReservedBusy, TypeOK, Locks, Steps, LockAt, OneWriter
<1> QED BY <1>1, <1>2, <1>3, <1>4, <1>5, <1>6, <1>7, <1>8, <1>9, <1>10,
           <1>11, <1>12, <1>13, <1>14, <1>15, <1>16, <1>17, <1>18, <1>19
       DEF Next, ConnSteps, Writer, WriterSteps, Reader

\* Whoever meets no table or its own transaction was refused before.
LEMMA RefusedStep == TypeOK /\ LockAt /\ OneWriter /\ RefusedInv /\ [Next]_vars => RefusedInv'
<1> SUFFICES ASSUME TypeOK /\ LockAt /\ OneWriter /\ RefusedInv, [Next]_vars PROVE RefusedInv'
  OBVIOUS
<1> USE ConnsAssumption DEF Conns, Call, Goto, Hold, fileVars, histVars,
        HoldsWrite, ReservedBusy, ExclusiveBusy, TypeOK, Locks, Steps, LockAt,
        OneWriter, RefusedInv, Prepares
<1>1. ASSUME NEW c \in Conns, Open(c) PROVE RefusedInv'
  BY <1>1 DEF Open
<1>2. ASSUME NEW c \in Conns, CreateShared(c) PROVE RefusedInv'
  BY <1>2 DEF CreateShared
<1>3. ASSUME NEW c \in Conns, CreateReserved(c) PROVE RefusedInv'
  BY <1>3 DEF CreateReserved
<1>4. ASSUME NEW c \in Conns, Commit(c) PROVE RefusedInv'
  BY <1>4 DEF Commit
<1>5. ASSUME NEW c \in Conns, CommitWrite(c) PROVE RefusedInv'
  BY <1>5 DEF CommitWrite
<1>6. ASSUME NEW c \in Conns, CommitBusy(c) PROVE RefusedInv'
  BY <1>6 DEF CommitBusy
<1>7. ASSUME NEW c \in Conns, End(c) PROVE RefusedInv'
  BY <1>7 DEF End, Leave
<1>8. ASSUME NEW w \in Writers, Begin(w) PROVE RefusedInv'
  BY <1>8 DEF Begin, Leave
<1>9. ASSUME NEW w \in Writers, InsertShared(w) PROVE RefusedInv'
  BY <1>9 DEF InsertShared
<1>10. ASSUME NEW w \in Writers, InsertReserved(w) PROVE RefusedInv'
  BY <1>10 DEF InsertReserved
<1>11. ASSUME NEW w \in Writers, DeleteInOpen(w) PROVE RefusedInv'
  BY <1>11 DEF DeleteInOpen
<1>12. ASSUME NEW w \in Writers, DeleteShared(w) PROVE RefusedInv'
  BY <1>12 DEF DeleteShared
<1>13. ASSUME NEW w \in Writers, DeleteReserved(w) PROVE RefusedInv'
  BY <1>13 DEF DeleteReserved
<1>14. ASSUME NEW w \in Writers, NEW n \in Names, AddCall(w, n) PROVE RefusedInv'
  BY <1>14 DEF AddCall
<1>15. ASSUME NEW w \in Writers, NEW n \in Names, RmCall(w, n) PROVE RefusedInv'
  BY <1>15 DEF RmCall
<1>16. ASSUME NEW r \in Readers, ReadFails(r) PROVE RefusedInv'
  BY <1>16 DEF ReadFails, Leave
<1>17. ASSUME NEW r \in Readers, ReadFirst(r) PROVE RefusedInv'
  BY <1>17 DEF ReadFirst
<1>18. ASSUME NEW w \in Writers, DeleteUnparsed(w) PROVE RefusedInv'
  BY <1>18 DEF DeleteUnparsed
<1>19. CASE UNCHANGED vars
  BY <1>19 DEF vars
<1> HIDE DEF Conns, Call, Goto, Hold, fileVars, histVars, HoldsWrite,
         ReservedBusy, ExclusiveBusy, TypeOK, Locks, Steps, LockAt, OneWriter,
         RefusedInv, Prepares
<1> QED BY <1>1, <1>2, <1>3, <1>4, <1>5, <1>6, <1>7, <1>8, <1>9, <1>10,
           <1>11, <1>12, <1>13, <1>14, <1>15, <1>16, <1>17, <1>18, <1>19
       DEF Next, ConnSteps, Writer, WriterSteps, Reader

\* What is not lost is in the table as wanted.
LEMMA AccountedStep == TypeOK /\ LockAt /\ OneWriter /\ Accounted /\ [Next]_vars => Accounted'
<1> SUFFICES ASSUME TypeOK /\ LockAt /\ OneWriter /\ Accounted, [Next]_vars PROVE Accounted'
  OBVIOUS
<1> USE ConnsAssumption DEF Conns, Call, Goto, Hold, fileVars, histVars,
        HoldsWrite, ReservedBusy, ExclusiveBusy, TypeOK, Locks, Steps, LockAt,
        OneWriter, Accounted, Table, Changed
<1>1. ASSUME NEW c \in Conns, Open(c) PROVE Accounted'
  BY <1>1 DEF Open
<1>2. ASSUME NEW c \in Conns, CreateShared(c) PROVE Accounted'
  BY <1>2 DEF CreateShared
<1>3. ASSUME NEW c \in Conns, CreateReserved(c) PROVE Accounted'
  BY <1>3 DEF CreateReserved
<1>4. ASSUME NEW c \in Conns, Commit(c) PROVE Accounted'
  BY <1>4 DEF Commit
<1>5. ASSUME NEW c \in Conns, CommitWrite(c) PROVE Accounted'
  BY <1>5 DEF CommitWrite
<1>6. ASSUME NEW c \in Conns, CommitBusy(c) PROVE Accounted'
  BY <1>6 DEF CommitBusy
<1>7. ASSUME NEW c \in Conns, End(c) PROVE Accounted'
  BY <1>7 DEF End, Leave
<1>8. ASSUME NEW w \in Writers, Begin(w) PROVE Accounted'
  BY <1>8 DEF Begin, Leave
<1>9. ASSUME NEW w \in Writers, InsertShared(w) PROVE Accounted'
  BY <1>9 DEF InsertShared
<1>10. ASSUME NEW w \in Writers, InsertReserved(w) PROVE Accounted'
  BY <1>10 DEF InsertReserved
<1>11. ASSUME NEW w \in Writers, DeleteInOpen(w) PROVE Accounted'
  BY <1>11 DEF DeleteInOpen
<1>12. ASSUME NEW w \in Writers, DeleteShared(w) PROVE Accounted'
  BY <1>12 DEF DeleteShared
<1>13. ASSUME NEW w \in Writers, DeleteReserved(w) PROVE Accounted'
  BY <1>13 DEF DeleteReserved
<1>14. ASSUME NEW w \in Writers, NEW n \in Names, AddCall(w, n) PROVE Accounted'
  BY <1>14 DEF AddCall
<1>15. ASSUME NEW w \in Writers, NEW n \in Names, RmCall(w, n) PROVE Accounted'
  BY <1>15 DEF RmCall
<1>16. ASSUME NEW r \in Readers, ReadFails(r) PROVE Accounted'
  BY <1>16 DEF ReadFails, Leave
<1>17. ASSUME NEW r \in Readers, ReadFirst(r) PROVE Accounted'
  BY <1>17 DEF ReadFirst
<1>18. ASSUME NEW w \in Writers, DeleteUnparsed(w) PROVE Accounted'
  BY <1>18 DEF DeleteUnparsed
<1>19. CASE UNCHANGED vars
  BY <1>19 DEF vars
<1> HIDE DEF Conns, Call, Goto, Hold, fileVars, histVars, HoldsWrite,
         ReservedBusy, ExclusiveBusy, TypeOK, Locks, Steps, LockAt, OneWriter,
         Accounted, Table, Changed
<1> QED BY <1>1, <1>2, <1>3, <1>4, <1>5, <1>6, <1>7, <1>8, <1>9, <1>10,
           <1>11, <1>12, <1>13, <1>14, <1>15, <1>16, <1>17, <1>18, <1>19
       DEF Next, ConnSteps, Writer, WriterSteps, Reader

-----------------------------------------------------------------------------
(* The invariant and what follows from it.                                 *)

LEMMA InitInv == Init => EfDbInv
<1> SUFFICES ASSUME Init PROVE EfDbInv
  OBVIOUS
<1> USE DEF Init
<1>1. TypeOK
  BY DEF TypeOK, Locks, Steps
<1>2. LockAt /\ OneWriter
  BY DEF LockAt, OneWriter, HoldsWrite
<1>3. RefusedInv
  BY DEF RefusedInv, Conns
<1>4. Accounted
  BY DEF Accounted, Table
<1> QED BY <1>1, <1>2, <1>3, <1>4 DEF EfDbInv

\* The inductive invariant of the processes that have /var/ef.db open.
THEOREM Invariance == Spec => []EfDbInv
<1>1. EfDbInv /\ [Next]_vars => EfDbInv'
  BY TypeStep, LockAtStep, OneWriterStep, RefusedStep, AccountedStep DEF EfDbInv
<1> QED BY InitInv, <1>1, PTL DEF Spec

\* Every variable keeps to its type, and a call always has its name.
THEOREM TypeCorrect == Spec => []TypeOK
<1>1. EfDbInv => TypeOK
  BY DEF EfDbInv
<1> QED BY <1>1, Invariance, PTL

\* However many processes add, remove and query at once: one writes at a time,
\* and ef_db leaves no lock behind but that of a COMMIT that was refused.
THEOREM NoLockLeaks == Spec => []NoLeakedLock
<1>1. EfDbInv => NoLeakedLock
  <2> SUFFICES ASSUME EfDbInv PROVE NoLeakedLock
    OBVIOUS
  <2>1. \A w \in Writers :
          pc[w] \in {"closed", "idle", "dead"} /\ lock[w] # "none" => w \in open
    BY DEF EfDbInv, LockAt, Conns
  <2>2. \A w \in open : pc[w] \in {"idle", "begin"} => lock[w] = "pending"
    BY DEF EfDbInv, TypeOK, LockAt, Conns
  <2> QED BY <2>1, <2>2 DEF EfDbInv, OneWriter, NoLeakedLock
<1> QED BY <1>1, Invariance, PTL

\* Every add and rm that no lock refused and no rollback took back, and nothing
\* else, is in the table: ef_db.cpp's calls do not spoil one another.
THEOREM AllAccounted == Spec => []Accounted
<1>1. EfDbInv => Accounted
  BY DEF EfDbInv
<1> QED BY <1>1, Invariance, PTL

\* ef_db.cpp:8, 62, 69: once it has the database open, an exception ends a
\* writer only over a name that its statement cannot hold, or when its own CREATE
\* TABLE or COMMIT was refused before.
THEOREM DeathsExplained == Spec => DeathExplained
<1> DEFINE Explained == \A w \in Writers :
                          pc[w] \notin {"closed", "dead"} /\ pc'[w] = "dead"
                            => w \in refused \/ arg[w] \in Quoted
<1>1. EfDbInv /\ [Next]_vars => [Explained]_vars
  <2> SUFFICES ASSUME EfDbInv, Next, NEW w \in Writers,
                      pc[w] \notin {"closed", "dead"}, pc'[w] = "dead"
               PROVE  w \in refused \/ arg[w] \in Quoted
    OBVIOUS
  <2>1. pc \in [Conns -> Steps] /\ w \in Conns /\ w \notin Readers
    BY ConnsAssumption DEF EfDbInv, TypeOK, Conns
  <2> USE DEF Call, Goto
  <2>2. Begin(w)
    <3>1. ASSUME NEW c \in Conns, Open(c) PROVE FALSE
      BY <2>1, <3>1 DEF Open
    <3>2. ASSUME NEW c \in Conns, ConnSteps(c) PROVE FALSE
      BY <2>1, <3>2 DEF ConnSteps, CreateShared, CreateReserved, Commit,
                        CommitWrite, CommitBusy
    <3>3. ASSUME NEW c \in Conns, End(c) PROVE FALSE
      BY <2>1, <3>3 DEF End, Leave
    <3>4. ASSUME NEW o \in Writers, WriterSteps(o), ~Begin(o) PROVE FALSE
      BY <2>1, <3>4 DEF WriterSteps, InsertShared, InsertReserved,
                        DeleteUnparsed, DeleteInOpen, DeleteShared, DeleteReserved
    <3>5. ASSUME NEW o \in Writers, NEW n \in Names, AddCall(o, n) \/ RmCall(o, n)
          PROVE  FALSE
      BY <2>1, <3>5 DEF AddCall, RmCall
    <3>6. ASSUME NEW o \in Readers, Reader(o) PROVE FALSE
      BY <2>1, <3>6 DEF Reader, ReadFails, ReadFirst, Leave
    <3>7. ASSUME NEW o \in Writers, Begin(o) PROVE o = w
      BY <2>1, <3>7 DEF Begin, Leave
    <3> QED
      BY <3>1, <3>2, <3>3, <3>4, <3>5, <3>6, <3>7 DEF Next, Writer
  <2>3. w \in open \/ ~Prepares(w, arg[w])
    BY <2>1, <2>2 DEF Begin
  <2>4. w \in open \/ w \notin knows => w \in refused
    BY <2>1, <2>2 DEF Begin, EfDbInv, RefusedInv
  <2> QED
    BY <2>3, <2>4 DEF Prepares
<1>2. [][Explained]_vars <=> DeathExplained
  BY DEF DeathExplained
<1> QED BY <1>1, <1>2, Invariance, PTL DEF Spec
=============================================================================
