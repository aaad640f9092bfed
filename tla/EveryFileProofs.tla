-------------------------- MODULE EveryFileProofs --------------------------
(***************************************************************************)
(* Proofs about EveryFile, for any paths, any limit of the kernel buffer   *)
(* and any number of events.                                               *)
(***************************************************************************)
EXTENDS EveryFile, SequenceTheorems, TLAPS

\* Whether n is in the table once one event has been applied to it.
Apply(n, present, e) == IF e.name = n THEN e.op = "add" ELSE present

-----------------------------------------------------------------------------
(* What a sequence of events comes to.                                     *)

\* Outcome and Apply are truth values.
LEMMA Booleans ==
  /\ \A n, p, es : Outcome(n, p, es) \in BOOLEAN
  /\ \A n, e : \A p \in BOOLEAN : Apply(n, p, e) \in BOOLEAN
<1>1. \A n, p, es : Outcome(n, p, es) \in BOOLEAN
  BY DEF Outcome
<1>2. \A n, e : \A p \in BOOLEAN : Apply(n, p, e) \in BOOLEAN
  BY DEF Apply
<1> QED BY <1>1, <1>2

\* No events change nothing.
LEMMA OutcomeEmpty ==
  ASSUME NEW n, NEW p \in BOOLEAN PROVE Outcome(n, p, <<>>) <=> p
BY DEF Outcome

\* An event is an add or an rm.
LEMMA EventIs ==
  ASSUME NEW e \in Events, NEW n, e.name = n
  PROVE  (e = Add(n) <=> e.op = "add") /\ (e = Rm(n) <=> e.op = "rm")
BY DEF Events, Add, Rm

\* A later part is applied to what an earlier part comes to.
LEMMA OutcomeConcat ==
  ASSUME NEW n, NEW p \in BOOLEAN, NEW s \in Seq(Events), NEW t \in Seq(Events)
  PROVE  Outcome(n, p, s \o t) <=> Outcome(n, Outcome(n, p, s), t)
<1> DEFINE u == s \o t
<1>1. /\ Len(s) \in Nat /\ Len(t) \in Nat /\ Len(u) = Len(s) + Len(t)
      /\ DOMAIN s = 1 .. Len(s) /\ DOMAIN t = 1 .. Len(t)
      /\ DOMAIN u = 1 .. Len(s) + Len(t)
      /\ \A i \in 1 .. Len(s) : u[i] = s[i]
      /\ \A i \in 1 .. Len(t) : u[Len(s) + i] = t[i]
  <2>1. /\ u \in Seq(Events) /\ Len(u) = Len(s) + Len(t)
        /\ \A i \in 1 .. Len(s) + Len(t) :
             u[i] = IF i <= Len(s) THEN s[i] ELSE t[i - Len(s)]
    BY ConcatProperties
  <2>2. Len(s) \in Nat /\ Len(t) \in Nat
    OBVIOUS
  <2>3. \A i \in 1 .. Len(t) : u[Len(s) + i] = t[i]
    <3> TAKE i \in 1 .. Len(t)
    <3>1. /\ Len(s) + i \in 1 .. Len(s) + Len(t) /\ ~(Len(s) + i <= Len(s))
          /\ (Len(s) + i) - Len(s) = i
      BY <2>2
    <3> QED BY <2>1, <3>1
  <2> QED BY <2>1, <2>2, <2>3
<1> HIDE DEF u
<1>2. (\A i \in DOMAIN u : u[i].name # n)
        <=> (\A i \in DOMAIN s : s[i].name # n) /\ (\A i \in DOMAIN t : t[i].name # n)
  <2>1. ASSUME \A i \in DOMAIN s : s[i].name # n, \A i \in DOMAIN t : t[i].name # n,
               NEW i \in DOMAIN u
        PROVE  u[i].name # n
    <3>1. CASE i \in 1 .. Len(s)
      BY <1>1, <2>1, <3>1
    <3>2. CASE i \notin 1 .. Len(s)
      <4>1. i - Len(s) \in 1 .. Len(t) /\ Len(s) + (i - Len(s)) = i
        BY <1>1, <3>2
      <4> QED BY <1>1, <2>1, <4>1
    <3> QED BY <3>1, <3>2
  <2>2. ASSUME \A i \in DOMAIN u : u[i].name # n, NEW i \in DOMAIN s
        PROVE  s[i].name # n
    BY <1>1, <2>2
  <2>3. ASSUME \A i \in DOMAIN u : u[i].name # n, NEW i \in DOMAIN t
        PROVE  t[i].name # n
    <3>1. Len(s) + i \in DOMAIN u
      BY <1>1
    <3> QED BY <1>1, <2>3, <3>1
  <2> QED BY <2>1, <2>2, <2>3
<1> DEFINE LastAdd(es, i) ==
      es[i] = Add(n) /\ \A j \in i + 1 .. Len(es) : es[j].name # n
<1>3. ASSUME NEW i \in DOMAIN t PROVE LastAdd(u, Len(s) + i) <=> LastAdd(t, i)
  <2>1. ASSUME \A j \in (Len(s) + i) + 1 .. Len(u) : u[j].name # n,
               NEW j \in i + 1 .. Len(t)
        PROVE  t[j].name # n
    <3>1. Len(s) + j \in (Len(s) + i) + 1 .. Len(u) /\ j \in 1 .. Len(t)
      BY <1>1
    <3> QED BY <1>1, <2>1, <3>1
  <2>2. ASSUME \A j \in i + 1 .. Len(t) : t[j].name # n,
               NEW j \in (Len(s) + i) + 1 .. Len(u)
        PROVE  u[j].name # n
    <3>1. /\ j - Len(s) \in i + 1 .. Len(t) /\ j - Len(s) \in 1 .. Len(t)
          /\ Len(s) + (j - Len(s)) = j
      BY <1>1
    <3> QED BY <1>1, <2>2, <3>1
  <2> QED BY <1>1, <2>1, <2>2
<1>4. ASSUME NEW i \in DOMAIN s
      PROVE  LastAdd(u, i)
               <=> LastAdd(s, i) /\ \A j \in DOMAIN t : t[j].name # n
  <2>1. ASSUME \A j \in i + 1 .. Len(u) : u[j].name # n, NEW j \in i + 1 .. Len(s)
        PROVE  s[j].name # n
    <3>1. j \in i + 1 .. Len(u) /\ j \in 1 .. Len(s)
      BY <1>1
    <3> QED BY <1>1, <2>1, <3>1
  <2>2. ASSUME \A j \in i + 1 .. Len(u) : u[j].name # n, NEW j \in DOMAIN t
        PROVE  t[j].name # n
    <3>1. Len(s) + j \in i + 1 .. Len(u)
      BY <1>1
    <3> QED BY <1>1, <2>2, <3>1
  <2>3. ASSUME \A j \in i + 1 .. Len(s) : s[j].name # n,
               \A j \in DOMAIN t : t[j].name # n, NEW j \in i + 1 .. Len(u)
        PROVE  u[j].name # n
    <3>1. CASE j <= Len(s)
      <4>1. j \in i + 1 .. Len(s) /\ j \in 1 .. Len(s)
        BY <1>1, <3>1
      <4> QED BY <1>1, <2>3, <4>1
    <3>2. CASE ~(j <= Len(s))
      <4>1. j - Len(s) \in 1 .. Len(t) /\ Len(s) + (j - Len(s)) = j
        BY <1>1, <3>2
      <4> QED BY <1>1, <2>3, <4>1
    <3> QED BY <3>1, <3>2
  <2> QED BY <1>1, <2>1, <2>2, <2>3
<1> HIDE DEF LastAdd
<1>5. \A es : Outcome(n, p, es) <=> \/ p /\ \A i \in DOMAIN es : es[i].name # n
                                    \/ \E i \in DOMAIN es : LastAdd(es, i)
  BY DEF Outcome, LastAdd
<1>6. Outcome(n, Outcome(n, p, s), t)
        <=> \/ Outcome(n, p, s) /\ \A i \in DOMAIN t : t[i].name # n
            \/ \E i \in DOMAIN t : LastAdd(t, i)
  BY DEF Outcome, LastAdd
<1>7. (\E i \in DOMAIN u : LastAdd(u, i))
        <=> \/ (\E i \in DOMAIN s : LastAdd(s, i)) /\ \A j \in DOMAIN t : t[j].name # n
            \/ \E i \in DOMAIN t : LastAdd(t, i)
  <2>1. ASSUME NEW i \in DOMAIN u, LastAdd(u, i)
        PROVE  \/ (\E k \in DOMAIN s : LastAdd(s, k)) /\ \A j \in DOMAIN t : t[j].name # n
               \/ \E k \in DOMAIN t : LastAdd(t, k)
    <3>1. CASE i \in DOMAIN s
      BY <1>4, <2>1, <3>1
    <3>2. CASE i \notin DOMAIN s
      <4>1. i - Len(s) \in DOMAIN t /\ Len(s) + (i - Len(s)) = i
        BY <1>1, <3>2
      <4> QED BY <1>3, <2>1, <4>1
    <3> QED BY <3>1, <3>2
  <2>2. ASSUME NEW i \in DOMAIN s, LastAdd(s, i), \A j \in DOMAIN t : t[j].name # n
        PROVE  \E k \in DOMAIN u : LastAdd(u, k)
    <3>1. i \in DOMAIN u
      BY <1>1
    <3> QED BY <1>4, <2>2, <3>1
  <2>3. ASSUME NEW i \in DOMAIN t, LastAdd(t, i)
        PROVE  \E k \in DOMAIN u : LastAdd(u, k)
    <3>1. Len(s) + i \in DOMAIN u
      BY <1>1
    <3> QED BY <1>3, <2>3, <3>1
  <2> QED BY <2>1, <2>2, <2>3
<1> QED BY <1>2, <1>5, <1>6, <1>7 DEF u

\* One event decides about its name and about no other.
LEMMA OutcomeOne ==
  ASSUME NEW n, NEW p \in BOOLEAN, NEW e \in Events
  PROVE  Outcome(n, p, <<e>>) <=> Apply(n, p, e)
<1>1. DOMAIN <<e>> = {1} /\ Len(<<e>>) = 1 /\ <<e>>[1] = e
  OBVIOUS
<1>2. Outcome(n, p, <<e>>) <=> (p /\ e.name # n) \/ e = Add(n)
  BY <1>1 DEF Outcome
<1>3. e = Add(n) <=> e.name = n /\ e.op = "add"
  BY DEF Events, Add
<1> QED BY <1>2, <1>3 DEF Apply

\* A recorded event is applied last.
LEMMA OutcomeAppend ==
  ASSUME NEW n, NEW p \in BOOLEAN, NEW s \in Seq(Events), NEW e \in Events
  PROVE  Outcome(n, p, Append(s, e)) <=> Apply(n, Outcome(n, p, s), e)
<1>1. Append(s, e) = s \o <<e>> /\ <<e>> \in Seq(Events)
  BY AppendIsConcat
<1>2. Outcome(n, p, s \o <<e>>) <=> Outcome(n, Outcome(n, p, s), <<e>>)
  BY <1>1, OutcomeConcat
<1>3. ASSUME NEW q \in BOOLEAN PROVE Outcome(n, q, <<e>>) <=> Apply(n, q, e)
  BY OutcomeOne
<1>4. Outcome(n, p, s) \in BOOLEAN
  BY DEF Outcome
<1> QED BY <1>1, <1>2, <1>3, <1>4

\* The oldest event is applied first.
LEMMA OutcomeTail ==
  ASSUME NEW n, NEW p \in BOOLEAN, NEW s \in Seq(Events), s # <<>>
  PROVE  /\ Head(s) \in Events /\ Tail(s) \in Seq(Events)
         /\ Outcome(n, p, s) <=> Outcome(n, Apply(n, p, Head(s)), Tail(s))
<1>1. Head(s) \in Events /\ Tail(s) \in Seq(Events) /\ Len(s) \in Nat \ {0}
  BY HeadTailProperties, EmptySeq
<1>2. /\ SubSeq(s, 1, Len(s)) = <<s[1]>> \o SubSeq(s, 1 + 1, Len(s))
      /\ SubSeq(s, 1, Len(s)) = s /\ Tail(s) = SubSeq(s, 2, Len(s))
  BY <1>1, SubSeqRecursiveFirst, SubSeqFull, TailIsSubSeq
<1>3. s = <<Head(s)>> \o Tail(s) /\ <<Head(s)>> \in Seq(Events)
  BY <1>1, <1>2
<1>4. Outcome(n, p, <<Head(s)>>) <=> Apply(n, p, Head(s))
  BY <1>1, OutcomeOne
<1>5. ASSUME NEW a \in Seq(Events), NEW b \in Seq(Events), s = a \o b
      PROVE  Outcome(n, p, s) <=> Outcome(n, Outcome(n, p, a), b)
  BY <1>5, OutcomeConcat
<1>6. Outcome(n, p, <<Head(s)>>) \in BOOLEAN /\ Apply(n, p, Head(s)) \in BOOLEAN
  <2>1. Outcome(n, p, <<Head(s)>>) \in BOOLEAN
    BY DEF Outcome
  <2>2. Apply(n, p, Head(s)) \in BOOLEAN
    BY DEF Apply
  <2> QED BY <2>1, <2>2
<1>7. Outcome(n, p, <<Head(s)>>) = Apply(n, p, Head(s))
  BY <1>4, <1>6
<1>8. Outcome(n, p, s) <=> Outcome(n, Outcome(n, p, <<Head(s)>>), Tail(s))
  BY <1>1, <1>3, <1>5
<1> QED BY <1>1, <1>7, <1>8

\* Events about other names leave a name as it was.
LEMMA OutcomeOthers ==
  ASSUME NEW n, NEW p \in BOOLEAN, NEW s \in Seq(Events),
         \A i \in DOMAIN s : s[i].name # n
  PROVE  Outcome(n, p, s) <=> p
BY EventIs DEF Outcome, Add

\* More in the table before the events is not less after them.
LEMMA OutcomeMonotone ==
  ASSUME NEW n, NEW p \in BOOLEAN, NEW q \in BOOLEAN, p => q, NEW s,
         Outcome(n, p, s)
  PROVE  Outcome(n, q, s)
BY DEF Outcome

-----------------------------------------------------------------------------
(* The invariant.                                                          *)

\* ef --init only adds, and no call is on the journal: SQLite's are not calls
\* of their own in the model.
OnlyAdds == writing["init"] = None \/ writing["init"].op = "add"
JournalIdle == doing[Journal] = "none"

SystemInv == TypeOK /\ OnlyAdds /\ JournalIdle

\* What a step writes into the buffer and the socket are events.
LEMMA BufferTypes ==
  ASSUME TypeOK, NextBuffer \/ UNCHANGED <<buffer, socket>>
  PROVE  buffer' \in Seq(Events) /\ socket' \in Seq(Events)
<1>1. buffer \in Seq(Events) /\ socket \in Seq(Events)
  BY DEF TypeOK
<1>2. CASE \E m \in Events : Record(m)
  BY <1>1, <1>2, AppendProperties DEF Record
<1>3. CASE buffer # <<>> /\ (Deliver \/ Lose \/ Spill)
  <2>1. Head(buffer) \in Events /\ Tail(buffer) \in Seq(Events)
    BY <1>1, <1>3, HeadTailProperties
  <2>2. Append(socket, Head(buffer)) \in Seq(Events)
    BY <1>1, <2>1, AppendProperties
  <2> QED BY <1>1, <1>3, <2>1, <2>2 DEF Deliver, Lose, Spill
<1>4. CASE buffer = <<>> /\ (Deliver \/ Lose \/ Spill)
  <2>1. Len(buffer) = 0 /\ MAX_MSG_BUF_LEN \in Nat
    BY <1>4, SystemAssumption
  <2>2. WithinLimit
    BY <2>1 DEF WithinLimit
  <2> QED BY <1>4, <2>2 DEF Deliver, Lose, Spill
<1>5. CASE UNCHANGED <<buffer, socket>>
  BY <1>1, <1>5
<1> QED BY <1>2, <1>3, <1>4, <1>5 DEF NextBuffer

\* Events and None are told apart.
LEMMA NoneIsNoEvent ==
  None \notin Events /\ \A n \in Paths : Add(n) \in Events /\ Rm(n) \in Events
BY DEF None, Events, Add, Rm

\* Every step keeps the types.
LEMMA TypeStep == ASSUME SystemInv, [Next]_vars PROVE TypeOK'
<1> USE SystemAssumption, NoneIsNoEvent
    DEF SystemInv, fsVars, kernelVars, dbVars, initVars, Count
<1>1. /\ fs \subseteq Names /\ doing \in [Names -> Calls]
      /\ buffer \in Seq(Events) /\ socket \in Seq(Events)
      /\ thread \in {"created", "running", "gone", "stuck"}
      /\ varProbed \in BOOLEAN /\ up \in BOOLEAN
      /\ (~up => socket = <<>> /\ writing["efd"] = None)
      /\ writing \in [Writers -> Events \cup {None}]
      /\ committing \subseteq {w \in Writers : writing[w] # None}
      /\ rows \subseteq Paths /\ todo \subseteq Names /\ found \subseteq Names
      /\ events \in 0 .. MaxEvents
      /\ events < MaxEvents => events + 1 \in 0 .. MaxEvents
  BY DEF TypeOK
<1>2. ASSUME NEW n \in Names,
             CallCreate(n) \/ CallRemove(n) \/ CallMknod(n) \/ Succeed(n) \/ Fail(n)
      PROVE  TypeOK'
  <2>1. buffer' \in Seq(Events) /\ socket' = socket
    <3>1. (\E m \in Events : Record(m)) \/ UNCHANGED kernelVars
      BY <1>2 DEF CallCreate, CallRemove, CallMknod, Succeed, Fail, Probe, Events,
         Paths, Report
    <3> QED BY <3>1, BufferTypes DEF Record, NextBuffer
  <2>2. /\ fs' \subseteq Names /\ doing' \in [Names -> Calls]
        /\ events' \in 0 .. MaxEvents
    BY <1>1, <1>2 DEF CallCreate, CallRemove, CallMknod, Succeed, Fail, Calls
  <2>3. UNCHANGED <<varProbed, thread, up, dbVars, initVars>>
    BY <1>2 DEF CallCreate, CallRemove, CallMknod, Succeed, Fail, Probe, Report
  <2> QED BY <1>1, <2>1, <2>2, <2>3 DEF TypeOK
<1>3. ASSUME NEW n \in Names, NEW m \in Names, Rename(n, m) PROVE TypeOK'
  BY <1>1, <1>3 DEF Rename, TypeOK
<1>4. CASE KStart \/ KernelSteps \/ KDie
  <2>1. buffer' \in Seq(Events) /\ socket' \in Seq(Events)
    BY <1>1, <1>4, BufferTypes DEF KernelSteps, KDeliver, KLose, KSpill, KStart,
       KDie, NextBuffer
  <2>2. /\ ~up' => socket' = <<>>
        /\ UNCHANGED otherVars
    BY <1>1, <1>4 DEF KernelSteps, KDeliver, KLose, KSpill, KStart, KDie, Lose,
       Spill, otherVars
  <2>3. thread' \in {"created", "running", "gone", "stuck"}
    BY <1>1, <1>4 DEF KernelSteps, KDeliver, KLose, KSpill, KStart, KDie
  <2> QED BY <1>1, <2>1, <2>2, <2>3 DEF TypeOK, otherVars
<1>5. ASSUME NEW w \in Writers, WriterSteps(w) PROVE TypeOK'
  <2>1. writing[w] # None /\ writing[w] \in Events
    BY <1>1, <1>5 DEF WriterSteps, Write, WriteJournal, WriteCommit, WriteRefused
  <2>2. After(writing[w]) \subseteq Paths
    BY <1>1, <2>1 DEF After, Events
  <2>3. buffer' \in Seq(Events) /\ socket' = socket
    <3>1. (\E m \in Events : Record(m)) \/ UNCHANGED kernelVars
      BY <1>5 DEF WriterSteps, Write, WriteJournal, WriteCommit, WriteRefused,
         Paths, Report
    <3> QED BY <3>1, BufferTypes DEF Record, NextBuffer
  <2>4. CASE WriteJournal(w)
    BY <1>1, <2>1, <2>3, <2>4 DEF WriteJournal, Report, TypeOK
  <2>5. CASE ~WriteJournal(w)
    <3>1. /\ writing' = [writing EXCEPT ![w] = None]
          /\ committing' = committing \ {w}
          /\ rows' \in {rows, After(writing[w])} /\ fs' \in {fs, fs \ {Journal}}
          /\ UNCHANGED <<doing, varProbed, thread, up, initVars, events>>
      BY <1>5, <2>5 DEF WriterSteps, Write, WriteCommit, WriteRefused, Done, Report
    <3>2. /\ writing' \in [Writers -> Events \cup {None}]
          /\ committing' \subseteq {v \in Writers : writing'[v] # None}
          /\ writing["efd"] = None => writing'["efd"] = None
      BY <1>1, <3>1 DEF Writers
    <3> QED BY <1>1, <2>2, <2>3, <3>1, <3>2 DEF TypeOK
  <2> QED BY <2>4, <2>5
<1>6. CASE DStart
  BY <1>1, <1>6 DEF DStart, TypeOK
<1>7. CASE DRecv
  <2>1. Head(socket) \in Events /\ Tail(socket) \in Seq(Events)
    BY <1>1, <1>7, HeadTailProperties DEF DRecv
  <2>2. /\ writing' \in [Writers -> Events \cup {None}]
        /\ committing' \subseteq {v \in Writers : writing'[v] # None}
    BY <1>1, <1>7, <2>1 DEF DRecv, Writers
  <2> QED BY <1>1, <1>7, <2>1, <2>2 DEF DRecv, TypeOK
<1>8. CASE DDie
  <2>1. /\ writing' \in [Writers -> Events \cup {None}] /\ writing'["efd"] = None
        /\ committing' \subseteq {v \in Writers : writing'[v] # None}
    BY <1>1, <1>8 DEF DDie, Writers
  <2>2. socket' = <<>> /\ socket' \in Seq(Events)
    BY <1>8, EmptySeq DEF DDie
  <2> QED BY <1>1, <1>8, <2>1, <2>2 DEF DDie, TypeOK
<1>9. CASE IStart
  BY <1>1, <1>9 DEF IStart, TypeOK
<1>10. ASSUME NEW n \in Names, IVisit(n) PROVE TypeOK'
  BY <1>1, <1>10 DEF IVisit, TypeOK
<1>11. ASSUME NEW n \in Names, IStore(n) PROVE TypeOK'
  <2>1. Add(Doubled[n]) \in Events
    OBVIOUS
  <2>2. /\ writing' \in [Writers -> Events \cup {None}]
        /\ writing'["efd"] = writing["efd"]
        /\ committing' \subseteq {v \in Writers : writing'[v] # None}
    BY <1>1, <1>11, <2>1 DEF IStore, Writers
  <2> QED BY <1>1, <1>11, <2>2 DEF IStore, TypeOK
<1>12. CASE IDrop
  BY <1>1, <1>12 DEF IDrop, TypeOK
<1>13. CASE IDie
  <2>1. /\ writing' \in [Writers -> Events \cup {None}]
        /\ writing'["efd"] = writing["efd"]
        /\ committing' \subseteq {v \in Writers : writing'[v] # None}
    BY <1>1, <1>13 DEF IDie, Writers
  <2> QED BY <1>1, <1>13, <2>1 DEF IDie, TypeOK
<1>14. CASE UNCHANGED vars
  BY <1>1, <1>14 DEF vars, TypeOK
<1> QED BY <1>2, <1>3, <1>4, <1>5, <1>6, <1>7, <1>8, <1>9, <1>10, <1>11, <1>12,
           <1>13, <1>14
        DEF Next, CallSteps, InitSteps

\* Only IStore gives ef --init something to write.
LEMMA AddsStep == ASSUME SystemInv, [Next]_vars PROVE OnlyAdds'
<1>1. writing \in [Writers -> Events \cup {None}]
  BY DEF SystemInv, TypeOK
<1>2. ASSUME NEW n \in Names, IStore(n) PROVE OnlyAdds'
  BY <1>1, <1>2 DEF IStore, OnlyAdds, Writers, Add
<1>3. CASE writing'["init"] \in {writing["init"], None}
  BY <1>3 DEF SystemInv, OnlyAdds
<1>4. ASSUME NEW w \in Writers, WriterSteps(w) PROVE OnlyAdds'
  BY <1>1, <1>3, <1>4 DEF WriterSteps, Write, WriteJournal, WriteCommit,
     WriteRefused, Done, Writers
<1>5. CASE DRecv \/ DDie \/ IDie
  BY <1>1, <1>3, <1>5 DEF DRecv, DDie, IDie, Writers
<1> QED BY <1>2, <1>3, <1>4, <1>5
        DEF Next, CallCreate, CallRemove, CallSteps, CallMknod, Succeed, Fail,
            Rename, KStart, KernelSteps, KDeliver, KLose, KSpill, KDie, DStart,
            IStart, InitSteps, IVisit, IDrop, otherVars, vars, dbVars

\* No call is made on the journal.
LEMMA JournalStep == ASSUME SystemInv, [Next]_vars PROVE JournalIdle'
<1>1. doing \in [Names -> Calls] /\ JournalIdle
  BY DEF SystemInv, TypeOK
<1>2. ASSUME NEW n \in Names,
             CallCreate(n) \/ CallRemove(n) \/ CallMknod(n) \/ Succeed(n) \/ Fail(n)
      PROVE  JournalIdle'
  <2>1. n # Journal
    BY <1>1, <1>2 DEF CallCreate, CallRemove, CallMknod, Succeed, Fail,
       JournalIdle
  <2> QED BY <1>1, <1>2, <2>1, SystemAssumption
          DEF CallCreate, CallRemove, CallMknod, Succeed, Fail, JournalIdle
<1>3. CASE doing' = doing
  BY <1>1, <1>3 DEF JournalIdle
<1> QED BY <1>2, <1>3
        DEF Next, CallSteps, Rename, KStart, KernelSteps, KDeliver, KLose, KSpill,
            KDie, WriterSteps, Write, WriteJournal, WriteCommit, WriteRefused,
            DStart, DRecv, DDie, IStart, InitSteps, IVisit, IStore, IDrop, IDie,
            otherVars, vars, fsVars

\* The system as it is found satisfies the invariant.
LEMMA InitHolds == Init => SystemInv
<1> SUFFICES ASSUME Init PROVE SystemInv
  OBVIOUS
<1> USE SystemAssumption DEF Init, InitBuffer
<1>1. TypeOK
  <2>1. buffer \in Seq(Events) /\ socket \in Seq(Events)
    BY EmptySeq
  <2>2. /\ doing \in [Names -> Calls]
        /\ writing \in [Writers -> Events \cup {None}] /\ writing["efd"] = None
    BY DEF Calls, Writers
  <2>3. events \in 0 .. MaxEvents
    OBVIOUS
  <2> QED BY <2>1, <2>2, <2>3 DEF TypeOK
<1>2. OnlyAdds /\ JournalIdle
  BY DEF OnlyAdds, JournalIdle, Writers
<1> QED BY <1>1, <1>2 DEF SystemInv

\* The invariant holds throughout: what is in the buffer, in the socket and in
\* a writer's hands are events, and efd has none of them while it is down.
THEOREM Invariance == Spec => []SystemInv
<1>1. SystemInv /\ [Next]_vars => SystemInv'
  BY TypeStep, AddsStep, JournalStep DEF SystemInv
<1> QED BY InitHolds, <1>1, PTL DEF Spec

\* Type correctness, for any paths.
THEOREM SystemTypes == Spec => []TypeOK
<1>1. SystemInv => TypeOK
  BY DEF SystemInv
<1> QED BY Invariance, <1>1, PTL

-----------------------------------------------------------------------------
(* Why a name falls out of step.                                           *)

\* n in the table, once efd's change, its socket and the buffer are applied.
Changed(n)  == IF writing["efd"] = None THEN n \in rows
               ELSE Apply(n, n \in rows, writing["efd"])
Received(n) == Outcome(n, Changed(n), socket)
Final(n)    == Outcome(n, Received(n), buffer)

\* Each stage is a truth value.
LEMMA StageBooleans ==
  ASSUME NEW n
  PROVE  /\ Changed(n) \in BOOLEAN /\ Received(n) \in BOOLEAN
         /\ Final(n) \in BOOLEAN
         /\ Changed(n)' \in BOOLEAN /\ Received(n)' \in BOOLEAN
         /\ Final(n)' \in BOOLEAN
<1>1. (n \in rows) \in BOOLEAN /\ (n \in rows') \in BOOLEAN
  OBVIOUS
<1>2. Changed(n) \in BOOLEAN
  <2>1. CASE writing["efd"] = None
    BY <1>1, <2>1 DEF Changed
  <2>2. CASE writing["efd"] # None
    BY <1>1, <2>2, Booleans DEF Changed
  <2> QED BY <2>1, <2>2
<1>3. Changed(n)' \in BOOLEAN
  <2>1. CASE writing'["efd"] = None
    BY <1>1, <2>1 DEF Changed
  <2>2. CASE writing'["efd"] # None
    BY <1>1, <2>2, Booleans DEF Changed
  <2> QED BY <2>1, <2>2
<1> QED BY <1>2, <1>3, Booleans DEF Received, Final

\* They are applied one after the other.
LEMMA PendingInParts ==
  ASSUME TypeOK, NEW n PROVE Outcome(n, n \in rows, Pending) = Final(n)
<1> DEFINE held == IF writing["efd"] = None THEN <<>> ELSE <<writing["efd"]>>
<1>1. buffer \in Seq(Events) /\ socket \in Seq(Events) /\ held \in Seq(Events)
      /\ writing["efd"] \in Events \cup {None}
  BY EmptySeq DEF TypeOK, Writers
<1>0. (n \in rows) \in BOOLEAN
  OBVIOUS
<1>2. Changed(n) \in BOOLEAN
  BY StageBooleans
<1>3. Outcome(n, n \in rows, held) = Changed(n)
  <2>1. CASE writing["efd"] = None
    <3>1. Outcome(n, n \in rows, <<>>) <=> n \in rows
      BY <1>0, OutcomeEmpty
    <3> QED BY <1>2, <2>1, <3>1, Booleans DEF Changed
  <2>2. CASE writing["efd"] # None
    <3>1. Outcome(n, n \in rows, <<writing["efd"]>>)
            <=> Apply(n, n \in rows, writing["efd"])
      BY <1>0, <1>1, <2>2, OutcomeOne
    <3> QED BY <1>2, <2>2, <3>1, Booleans DEF Changed
  <2> QED BY <2>1, <2>2
<1> HIDE DEF held
<1>4. held \o socket \in Seq(Events)
  BY <1>1, ConcatProperties
<1>5. Outcome(n, n \in rows, held \o socket) = Received(n)
  <2>1. Outcome(n, n \in rows, held \o socket)
          <=> Outcome(n, Outcome(n, n \in rows, held), socket)
    BY <1>0, <1>1, OutcomeConcat
  <2> QED BY <1>3, <2>1, Booleans DEF Received
<1>6. Outcome(n, n \in rows, (held \o socket) \o buffer)
        <=> Outcome(n, Outcome(n, n \in rows, held \o socket), buffer)
  BY <1>0, <1>1, <1>4, OutcomeConcat
<1>7. Outcome(n, n \in rows, (held \o socket) \o buffer) = Final(n)
  BY <1>5, <1>6, Booleans DEF Final
<1> QED BY <1>7 DEF Pending, held

\* A step that leaves table, efd, socket and buffer alone leaves the outcome.
LEMMA Untouched ==
  ASSUME NEW n, UNCHANGED <<rows, socket, buffer>>,
         writing'["efd"] = writing["efd"]
  PROVE  Final(n)' = Final(n)
BY DEF Final, Received, Changed

\* A recorded event has the last word about its name.
LEMMA Recorded ==
  ASSUME TypeOK, NEW n, NEW e \in Events, buffer' = Append(buffer, e)
  PROVE  Final(n)' = Apply(n, Outcome(n, Received(n)', buffer), e)
<1>1. Outcome(n, Received(n)', Append(buffer, e))
        <=> Apply(n, Outcome(n, Received(n)', buffer), e)
  BY OutcomeAppend, StageBooleans DEF TypeOK
<1>2. Final(n)' <=> Apply(n, Outcome(n, Received(n)', buffer), e)
  BY <1>1 DEF Final
<1>3. Apply(n, Outcome(n, Received(n)', buffer), e) \in BOOLEAN
  BY Booleans
<1> QED BY <1>2, <1>3, StageBooleans

\* The first event's leaving the buffer matters to its name alone.
LEMMA Removed ==
  ASSUME TypeOK, NEW n, buffer # <<>>, buffer' = Tail(buffer),
         Received(n)' = Apply(n, Received(n), Head(buffer))
  PROVE  Final(n)' = Final(n)
<1>1. Outcome(n, Received(n), buffer)
        <=> Outcome(n, Apply(n, Received(n), Head(buffer)), Tail(buffer))
  BY OutcomeTail, StageBooleans DEF TypeOK
<1>2. Final(n)' <=> Final(n)
  BY <1>1 DEF Final
<1> QED BY <1>2, StageBooleans

\* What a call that has been recorded is to make of a name.
ExpectedIs ==
  \A n \in Names :
    /\ Expected(n) \in BOOLEAN
    /\ doing[n] = "none" => (Expected(n) <=> n \in fs)
    /\ doing[n] \in {"add", "mknod"} => Expected(n)
    /\ doing[n] = "rm" => ~Expected(n)

\* The four kinds of calls are all there are.
LEMMA ExpectedCases == (TypeOK => ExpectedIs) /\ (TypeOK' => ExpectedIs')
<1>1. TypeOK => ExpectedIs
  <2> SUFFICES ASSUME TypeOK, NEW n \in Names
               PROVE  /\ Expected(n) \in BOOLEAN
                      /\ doing[n] = "none" => (Expected(n) <=> n \in fs)
                      /\ doing[n] \in {"add", "mknod"} => Expected(n)
                      /\ doing[n] = "rm" => ~Expected(n)
    BY DEF ExpectedIs
  <2>1. doing[n] \in {"none", "add", "mknod", "rm"}
    BY DEF TypeOK, Calls
  <2>2. CASE doing[n] = "none"
    BY <2>2 DEF Expected
  <2>3. CASE doing[n] \in {"add", "mknod"}
    BY <2>3 DEF Expected
  <2>4. CASE doing[n] = "rm"
    BY <2>4 DEF Expected
  <2> QED BY <2>1, <2>2, <2>3, <2>4
<1> QED BY <1>1, PTL

\* The same is expected of a name that no call and no change touches.
LEMMA ExpectedSame ==
  ASSUME TypeOK, TypeOK', NEW n \in Names, doing'[n] = doing[n],
         n \in fs' <=> n \in fs
  PROVE  Expected(n)' = Expected(n)
<1>1. doing[n] \in {"none", "add", "mknod", "rm"}
  BY DEF TypeOK, Calls
<1>2. Expected(n)' <=> Expected(n)
  BY <1>1, ExpectedCases DEF ExpectedIs
<1> QED BY <1>2, ExpectedCases DEF ExpectedIs

\* A call that is recorded as it is, or whose name is another, keeps a name in
\* step; so does its success.
LEMMA CallsAgree ==
  ASSUME SystemInv, TypeOK', NEW n \in Names, Final(n) = Expected(n),
         NEW m \in Names,
         CallCreate(m) \/ CallMknod(m) \/ CallRemove(m) \/ Succeed(m),
         ~Misreported(n)
  PROVE  Final(n)' = Expected(n)'
<1> USE DEF fsVars, kernelVars, dbVars, initVars
<1>1. /\ TypeOK /\ doing \in [Names -> Calls]
      /\ UNCHANGED <<writing, rows, socket>>
  BY DEF SystemInv, TypeOK, CallCreate, CallMknod, CallRemove, Succeed, Probe,
     Report, Record
<1>2. Received(n)' = Received(n)
  BY <1>1 DEF Received, Changed
<1>3. CASE Succeed(m)
  <2>1. Final(n)' = Final(n)
    BY <1>1, <1>3, Untouched DEF Succeed
  <2>2. Expected(n)' = Expected(n)
    <3>1. CASE m = n
      BY <1>1, <1>3, <3>1, ExpectedCases DEF ExpectedIs, Succeed
    <3>2. CASE m # n
      BY <1>1, <1>3, <3>2, ExpectedSame DEF Succeed
    <3> QED BY <3>1, <3>2
  <2> QED BY <2>1, <2>2
<1>4. ASSUME NEW op \in {"add", "rm"}, Probe(m, op),
             IF op = "add" THEN CallCreate(m) \/ CallMknod(m) ELSE CallRemove(m)
      PROVE  Final(n)' = Expected(n)'
  <2> DEFINE event == [op |-> op, name |-> n]
  <2>1. event \in Events
    BY SystemAssumption DEF Events, Paths
  <2>2. CASE m = n
    <3>1. buffer' = Append(buffer, event)
      BY <1>4, <2>2 DEF Misreported
    <3>2. Final(n)' = Apply(n, Final(n), event)
      BY <1>1, <1>2, <2>1, <3>1, Recorded DEF Final
    <3>3. Final(n)' <=> op = "add"
      BY <3>2 DEF Apply
    <3>4. doing'[n] \in IF op = "add" THEN {"add", "mknod"} ELSE {"rm"}
      BY <1>1, <1>4, <2>2 DEF CallCreate, CallMknod, CallRemove
    <3>5. Expected(n)' <=> op = "add"
      BY <3>4, ExpectedCases DEF ExpectedIs
    <3> QED BY <3>3, <3>5, ExpectedCases, StageBooleans DEF ExpectedIs
  <2>3. CASE m # n
    <3>1. Expected(n)' = Expected(n)
      BY <1>1, <1>4, <2>3, ExpectedSame DEF CallCreate, CallMknod, CallRemove
    <3>2. buffer' # Append(buffer, event)
      BY <1>4, <2>3 DEF Misreported
    <3>3. ASSUME NEW said \in Names \ {Journal},
                 Report([op |-> op, name |-> said])
          PROVE  Final(n)' = Final(n)
      <4>1. [op |-> op, name |-> said] \in Events /\ said # n
        BY <3>2, <3>3 DEF Report, Record, Events, Paths
      <4>2. Final(n)' = Apply(n, Final(n), [op |-> op, name |-> said])
        BY <1>1, <1>2, <3>3, <4>1, Recorded DEF Report, Record, Final
      <4> QED BY <4>1, <4>2 DEF Apply
    <3>4. CASE UNCHANGED kernelVars
      <4>1. /\ UNCHANGED <<rows, socket, buffer>>
            /\ writing'["efd"] = writing["efd"]
        BY <1>1, <3>4
      <4> QED BY <3>1, <4>1, Untouched
    <3> QED BY <1>4, <3>1, <3>3, <3>4 DEF Probe
  <2> QED BY <2>2, <2>3
<1> QED BY <1>3, <1>4 DEF CallCreate, CallMknod, CallRemove

\* A call that fails, and a rename, touch their own names only.
LEMMA OthersAgree ==
  ASSUME SystemInv, TypeOK', NEW n \in Names, Final(n) = Expected(n),
         (\E m \in Names : Fail(m)) \/ (\E m, l \in Names : Rename(m, l)),
         ~Unreported(n)
  PROVE  Final(n)' = Expected(n)'
<1> USE DEF fsVars, kernelVars, dbVars, initVars
<1>1. TypeOK /\ doing \in [Names -> Calls]
  BY DEF SystemInv, TypeOK
<1>2. Final(n)' = Final(n)
  BY Untouched DEF Fail, Rename
<1>3. ASSUME NEW m \in Names, Fail(m) PROVE Expected(n)' = Expected(n)
  BY <1>1, <1>3, ExpectedSame DEF Fail, Unreported
<1>4. ASSUME NEW m \in Names, NEW l \in Names, Rename(m, l)
      PROVE  Expected(n)' = Expected(n)
  <2>1. m # n /\ l # n
    BY <1>4 DEF Unreported
  <2> QED BY <1>1, <1>4, <2>1, ExpectedSame DEF Rename
<1> QED BY <1>2, <1>3, <1>4

\* What send_func delivers is still under way; what it cannot send, or moves to
\* the file, matters to its name alone.
LEMMA KernelAgrees ==
  ASSUME SystemInv, TypeOK', NEW n \in Names, Final(n) = Expected(n),
         KernelSteps, ~Unsent(n)
  PROVE  Final(n)' = Expected(n)'
<1>1. TypeOK /\ buffer \in Seq(Events) /\ socket \in Seq(Events)
  BY DEF SystemInv, TypeOK
<1>2. UNCHANGED <<fs, doing, rows, writing>>
  BY DEF KernelSteps, KDeliver, KLose, KSpill, otherVars, fsVars, dbVars
<1>3. Expected(n)' = Expected(n)
  BY <1>1, <1>2, ExpectedSame
<1>4. Changed(n)' = Changed(n)
  BY <1>2 DEF Changed
<1>5. buffer # <<>> /\ buffer' = Tail(buffer)
  <2>1. CASE buffer = <<>>
    <3>1. Len(buffer) = 0 /\ MAX_MSG_BUF_LEN \in Nat
      BY <2>1, SystemAssumption
    <3>2. WithinLimit
      BY <3>1 DEF WithinLimit
    <3> QED BY <2>1, <3>2 DEF KernelSteps, KDeliver, KLose, KSpill, Deliver,
               Lose, Spill
  <2>2. CASE buffer # <<>>
    BY <2>2 DEF KernelSteps, KDeliver, KLose, KSpill, Deliver, Lose, Spill
  <2> QED BY <2>1, <2>2
<1>6. Head(buffer) \in Events
  BY <1>1, <1>5, HeadTailProperties
<1>7. CASE KDeliver
  <2>1. socket' = Append(socket, Head(buffer))
    BY <1>7 DEF KDeliver, Deliver
  <2>2. Outcome(n, Changed(n), Append(socket, Head(buffer)))
          <=> Apply(n, Received(n), Head(buffer))
    BY <1>1, <1>6, OutcomeAppend, StageBooleans DEF Received
  <2>3. Received(n)' <=> Apply(n, Received(n), Head(buffer))
    BY <1>4, <2>1, <2>2 DEF Received
  <2>4. Received(n)' = Apply(n, Received(n), Head(buffer))
    BY <2>3, StageBooleans, Booleans
  <2> QED BY <1>1, <1>3, <1>5, <2>4, Removed
<1>8. CASE KLose \/ KSpill
  <2>1. Head(buffer).name # n /\ socket' = socket
    BY <1>8 DEF Unsent, KLose, KSpill, Lose, Spill
  <2>2. Received(n)' = Apply(n, Received(n), Head(buffer))
    BY <1>4, <2>1 DEF Received, Apply
  <2> QED BY <1>1, <1>3, <1>5, <2>2, Removed
<1> QED BY <1>7, <1>8 DEF KernelSteps

\* The journal's events say what becomes of it, and nothing of other names.
LEMMA JournalAgrees ==
  ASSUME SystemInv, TypeOK', NEW n \in Names, doing' = doing,
         n # Journal => Outcome(n, Received(n)', buffer) = Expected(n),
         \/ buffer' = Append(buffer, Add(Journal)) /\ fs' = fs \cup {Journal}
         \/ buffer' = Append(buffer, Rm(Journal)) /\ fs' = fs \ {Journal}
  PROVE  Final(n)' = Expected(n)'
<1>1. /\ TypeOK /\ doing[Journal] = "none" /\ Journal \in Names
      /\ Add(Journal) \in Events /\ Rm(Journal) \in Events
  BY SystemAssumption, NoneIsNoEvent DEF SystemInv, JournalIdle, Paths
<1>2. PICK e \in Events :
        /\ buffer' = Append(buffer, e)
        /\ \/ e = Add(Journal) /\ fs' = fs \cup {Journal}
           \/ e = Rm(Journal) /\ fs' = fs \ {Journal}
  BY <1>1
<1>3. Final(n)' = Apply(n, Outcome(n, Received(n)', buffer), e)
  BY <1>1, <1>2, Recorded
<1>4. CASE n = Journal
  <2>1. Final(n)' <=> e = Add(Journal)
    <3>1. e.name = n /\ (e.op = "add" <=> e = Add(Journal))
      BY <1>2, <1>4 DEF Add, Rm
    <3>2. Final(n)' = (e.op = "add")
      BY <1>3, <3>1 DEF Apply
    <3> QED BY <3>1, <3>2
  <2>2. Expected(n)' <=> n \in fs'
    BY <1>1, <1>4, ExpectedCases DEF ExpectedIs
  <2>3. n \in fs' <=> e = Add(Journal)
    BY <1>2, <1>4 DEF Add, Rm
  <2> QED BY <2>1, <2>2, <2>3, ExpectedCases, StageBooleans DEF ExpectedIs
<1>5. CASE n # Journal
  <2>1. Final(n)' = Expected(n)
    BY <1>2, <1>3, <1>5 DEF Apply, Add, Rm
  <2>2. Expected(n)' = Expected(n)
    BY <1>1, <1>2, <1>5, ExpectedSame
  <2> QED BY <2>1, <2>2
<1> QED BY <1>4, <1>5

\* efd's change of the table, made or refused, is not under way any more.
LEMMA EfdWriteAgrees ==
  ASSUME SystemInv, TypeOK', NEW n \in Names, Final(n) = Expected(n),
         WriterSteps("efd"), ~Refused(n)
  PROVE  Final(n)' = Expected(n)'
<1> USE DEF fsVars, kernelVars, dbVars, initVars, Done
<1>1. /\ TypeOK /\ writing \in [Writers -> Events \cup {None}]
      /\ doing' = doing /\ doing[Journal] = "none" /\ writing["efd"] # None
      /\ writing["efd"] \in Events /\ Journal \in Names
  BY SystemAssumption DEF SystemInv, TypeOK, WriterSteps, Write, WriteJournal,
     WriteCommit, WriteRefused, Writers, JournalIdle
<1>2. After(writing["efd"]) = rows' => (n \in rows' <=> Changed(n))
  BY <1>1, EventIs DEF After, Changed, Apply, Events
<1>3. ASSUME writing'["efd"] = None, rows' = After(writing["efd"])
      PROVE  Changed(n)' = Changed(n)
  <2>1. Changed(n)' <=> Changed(n)
    BY <1>2, <1>3 DEF Changed
  <2> QED BY <2>1, StageBooleans
<1>4. CASE Write("efd")
  <2>1. Changed(n)' = Changed(n)
    BY <1>1, <1>3, <1>4 DEF Write, Writers
  <2>2. Final(n)' = Final(n)
    BY <1>4, <2>1 DEF Final, Received, Write
  <2> QED BY <1>1, <1>4, <2>2, ExpectedSame DEF Write
<1>5. CASE WriteRefused("efd")
  <2>1. writing["efd"].name # n /\ writing'["efd"] = None /\ rows' = rows
    BY <1>1, <1>5 DEF Refused, WriteRefused, Writers
  <2>2. Changed(n)' <=> Changed(n)
    BY <1>1, <2>1 DEF Changed, Apply
  <2>3. Changed(n)' = Changed(n)
    BY <2>2, StageBooleans
  <2>4. Final(n)' = Final(n)
    BY <1>5, <2>3 DEF Final, Received, WriteRefused
  <2> QED BY <1>1, <1>5, <2>4, ExpectedSame DEF WriteRefused
<1>6. CASE WriteJournal("efd")
  <2>1. Outcome(n, Received(n)', buffer) = Final(n)
    BY <1>6 DEF WriteJournal, Report, Record, Final, Received, Changed
  <2> QED BY <1>1, <1>6, <2>1, JournalAgrees DEF WriteJournal, Report, Record
<1>7. CASE WriteCommit("efd")
  <2>1. Changed(n)' = Changed(n)
    BY <1>1, <1>3, <1>7 DEF WriteCommit, Writers
  <2>2. Outcome(n, Received(n)', buffer) = Final(n)
    BY <1>7, <2>1 DEF WriteCommit, Report, Record, Final, Received
  <2> QED BY <1>1, <1>7, <2>2, JournalAgrees DEF WriteCommit, Report, Record
<1> QED BY <1>4, <1>5, <1>6, <1>7 DEF WriterSteps

\* ef --init's change can put a name only out of the step it is in when the
\* name is not there.
LEMMA InitWriteAgrees ==
  ASSUME SystemInv, TypeOK', NEW n \in Names, Final(n) = Expected(n),
         WriterSteps("init"), ~Stale(n)
  PROVE  Final(n)' = Expected(n)'
<1> USE DEF fsVars, kernelVars, dbVars, initVars, Done
<1>1. /\ TypeOK /\ writing \in [Writers -> Events \cup {None}]
      /\ doing' = doing /\ writing["init"] # None /\ writing["init"] \in Events
      /\ writing["init"].op = "add" /\ writing'["efd"] = writing["efd"]
      /\ socket' = socket
  BY DEF SystemInv, TypeOK, WriterSteps, Write, WriteJournal, WriteCommit,
     WriteRefused, Writers, OnlyAdds, Report, Record
<1>2. ASSUME rows' = After(writing["init"]), Write("init") \/ WriteCommit("init")
      PROVE  Outcome(n, Received(n)', buffer) = Expected(n)
  <2>1. rows' = rows \cup {writing["init"].name}
    BY <1>1, <1>2 DEF After
  <2>2. CASE writing["init"].name # n
    <3>1. n \in rows' <=> n \in rows
      BY <2>1, <2>2
    <3>2. Changed(n)' <=> Changed(n)
      BY <1>1, <3>1 DEF Changed, Apply
    <3>3. Changed(n)' = Changed(n)
      BY <3>2, StageBooleans
    <3> QED BY <1>1, <3>3 DEF Final, Received
  <2>3. CASE writing["init"].name = n
    <3>1. writing["init"] = Add(n)
      BY <1>1, <2>3, EventIs
    <3>2. Expected(n)
      BY <1>2, <3>1 DEF Stale
    <3>3. Changed(n) => Changed(n)'
      BY <1>1, <2>1, <2>3 DEF Changed, Apply
    <3>4. Received(n) => Received(n)'
      BY <1>1, <3>3, OutcomeMonotone, StageBooleans DEF Received
    <3>5. Final(n) => Outcome(n, Received(n)', buffer)
      BY <3>4, OutcomeMonotone, StageBooleans DEF Final
    <3>6. Outcome(n, Received(n)', buffer) <=> Expected(n)
      BY <3>2, <3>5
    <3> QED BY <1>1, <3>6, Booleans, ExpectedCases DEF ExpectedIs
  <2> QED BY <2>2, <2>3
<1>3. CASE Write("init")
  <2>1. Final(n)' = Expected(n)
    BY <1>2, <1>3 DEF Write, Final
  <2> QED BY <1>1, <1>3, <2>1, ExpectedSame DEF Write
<1>4. CASE WriteCommit("init")
  BY <1>1, <1>2, <1>4, JournalAgrees DEF WriteCommit, Report, Record
<1>5. CASE WriteJournal("init")
  <2>1. Outcome(n, Received(n)', buffer) = Final(n)
    BY <1>5 DEF WriteJournal, Report, Record, Final, Received, Changed
  <2> QED BY <1>1, <1>5, <2>1, JournalAgrees DEF WriteJournal, Report, Record
<1>6. CASE WriteRefused("init")
  <2>1. Final(n)' = Final(n)
    BY <1>1, <1>6, Untouched DEF WriteRefused
  <2> QED BY <1>1, <1>6, <2>1, ExpectedSame DEF WriteRefused
<1> QED BY <1>3, <1>4, <1>5, <1>6 DEF WriterSteps

\* A datagram that efd reads is under way still.
LEMMA RecvAgrees ==
  ASSUME SystemInv, TypeOK', NEW n \in Names, Final(n) = Expected(n), DRecv
  PROVE  Final(n)' = Expected(n)'
<1>1. /\ TypeOK /\ socket \in Seq(Events) /\ socket # <<>>
      /\ writing["efd"] = None /\ writing'["efd"] = Head(socket)
      /\ socket' = Tail(socket) /\ UNCHANGED <<fs, doing, rows, buffer>>
  BY DEF SystemInv, TypeOK, DRecv, Writers, fsVars
<1>2. Head(socket) \in Events
  BY <1>1, HeadTailProperties
<1>3. Changed(n)' = Apply(n, Changed(n), Head(socket))
  BY <1>1, <1>2, NoneIsNoEvent DEF Changed
<1>4. Outcome(n, Changed(n), socket)
        <=> Outcome(n, Apply(n, Changed(n), Head(socket)), Tail(socket))
  BY <1>1, OutcomeTail, StageBooleans
<1>5. Received(n)' <=> Received(n)
  BY <1>1, <1>3, <1>4 DEF Received
<1>6. Received(n)' = Received(n)
  BY <1>5, StageBooleans
<1>7. Final(n)' = Final(n)
  BY <1>1, <1>6 DEF Final
<1> QED BY <1>1, <1>7, ExpectedSame

\* efd's end takes along only the events it has.
LEMMA DieAgrees ==
  ASSUME SystemInv, TypeOK', NEW n \in Names, Final(n) = Expected(n), DDie,
         ~Died(n)
  PROVE  Final(n)' = Expected(n)'
<1> DEFINE held == IF writing["efd"] = None THEN <<>> ELSE <<writing["efd"]>>
<1>1. /\ TypeOK /\ buffer \in Seq(Events) /\ socket \in Seq(Events)
      /\ held \in Seq(Events)
      /\ writing'["efd"] = None /\ socket' = <<>>
      /\ UNCHANGED <<fs, doing, rows, buffer>> /\ (n \in rows) \in BOOLEAN
  <2>1. held \in Seq(Events)
    BY EmptySeq DEF SystemInv, TypeOK, Writers
  <2> QED BY <2>1 DEF SystemInv, TypeOK, DDie, Writers, fsVars
<1>2. held \o socket \in Seq(Events) /\ (held \o socket) \o buffer \in Seq(Events)
  BY <1>1, ConcatProperties
<1>3. Pending = (held \o socket) \o buffer
  BY DEF Pending
<1> HIDE DEF held
<1>4. \A i \in DOMAIN Pending : Pending[i].name # n
  BY DEF Died
<1>5. Final(n) <=> n \in rows
  <2>1. Outcome(n, n \in rows, Pending) <=> n \in rows
    BY <1>1, <1>2, <1>3, <1>4, OutcomeOthers
  <2> QED BY <1>1, <2>1, PendingInParts
<1>6. \A i \in DOMAIN buffer : buffer[i].name # n
  <2> TAKE i \in DOMAIN buffer
  <2> DEFINE before == held \o socket
  <2>1. /\ Len(before) \in Nat /\ Len(buffer) \in Nat /\ i \in 1 .. Len(buffer)
        /\ Pending = before \o buffer /\ before \in Seq(Events)
    BY <1>1, <1>2, <1>3
  <2> HIDE DEF before
  <2>2. /\ Len(before) + i \in 1 .. Len(before) + Len(buffer)
        /\ ~(Len(before) + i <= Len(before)) /\ (Len(before) + i) - Len(before) = i
    BY <2>1
  <2>3. /\ Len(before) + i \in DOMAIN Pending
        /\ Pending[Len(before) + i] = buffer[i]
    BY <1>1, <2>1, <2>2, ConcatProperties
  <2> QED BY <1>4, <2>3
<1>7. Changed(n)' <=> n \in rows
  BY <1>1 DEF Changed
<1>8. Received(n)' <=> n \in rows
  BY <1>1, <1>7, OutcomeEmpty, StageBooleans DEF Received
<1>9. Final(n)' <=> n \in rows
  BY <1>1, <1>6, <1>8, OutcomeOthers, StageBooleans DEF Final
<1>10. Final(n)' = Final(n)
  BY <1>5, <1>9, StageBooleans
<1> QED BY <1>1, <1>10, ExpectedSame

\* InSync is the agreement of the stages' outcome with what is expected.
LEMMA InSyncIs ==
  /\ SystemInv => \A n \in Names : InSync(n) <=> Final(n) = Expected(n)
  /\ SystemInv' => \A n \in Names : InSync(n)' <=> Final(n)' = Expected(n)'
<1> DEFINE Agree == \A n \in Names : InSync(n) <=> Final(n) = Expected(n)
<1>1. SystemInv => Agree
  BY PendingInParts DEF InSync, SystemInv
<1>2. SystemInv' => Agree'
  BY <1>1, PTL
<1> QED BY <1>1, <1>2

\* A name falls out of step by one of the listed ways only.
LEMMA StepExplained ==
  SystemInv /\ [Next]_vars =>
    [\A n \in Names : InSync(n) /\ ~InSync(n)' =>
        \/ Misreported(n) \/ Unreported(n) \/ Unsent(n)
        \/ Refused(n) \/ Died(n) \/ Stale(n)]_vars
<1> SUFFICES ASSUME SystemInv, Next, NEW n \in Names, InSync(n),
                    ~(\/ Misreported(n) \/ Unreported(n) \/ Unsent(n)
                      \/ Refused(n) \/ Died(n) \/ Stale(n))
             PROVE  InSync(n)'
  OBVIOUS
<1>1. TypeOK /\ TypeOK' /\ SystemInv'
  BY TypeStep, AddsStep, JournalStep DEF SystemInv
<1>2. Final(n) = Expected(n)
  BY InSyncIs
<1> SUFFICES Final(n)' = Expected(n)'
  BY <1>1, InSyncIs
<1>3. ASSUME NEW m \in Names,
             CallCreate(m) \/ CallMknod(m) \/ CallRemove(m) \/ Succeed(m)
      PROVE  Final(n)' = Expected(n)'
  BY <1>1, <1>2, <1>3, CallsAgree
<1>4. CASE (\E m \in Names : Fail(m)) \/ (\E m, l \in Names : Rename(m, l))
  BY <1>1, <1>2, <1>4, OthersAgree
<1>5. CASE KernelSteps
  BY <1>1, <1>2, <1>5, KernelAgrees
<1>6. ASSUME NEW w \in Writers, WriterSteps(w) PROVE Final(n)' = Expected(n)'
  BY <1>1, <1>2, <1>6, EfdWriteAgrees, InitWriteAgrees DEF Writers
<1>7. CASE KStart \/ KDie \/ DStart \/ IStart \/ InitSteps
  <2>1. /\ UNCHANGED <<fs, doing, rows, socket, buffer>>
        /\ writing'["efd"] = writing["efd"]
    BY <1>1, <1>7 DEF KStart, KDie, DStart, IStart, InitSteps, IVisit, IStore,
       IDrop, IDie, TypeOK, Writers, otherVars, fsVars, kernelVars, dbVars
  <2> QED BY <1>1, <1>2, <2>1, Untouched, ExpectedSame
<1>8. CASE DRecv
  BY <1>1, <1>2, <1>8, RecvAgrees
<1>9. CASE DDie
  BY <1>1, <1>2, <1>9, DieAgrees
<1> QED BY <1>3, <1>4, <1>5, <1>6, <1>7, <1>8, <1>9 DEF Next, CallSteps

\* Index and file system part over a name only by a call that is recorded
\* wrongly, fails or has no probe, by an event that is not sent, a change that is
\* refused, an end of efd with the event in its hands, or a stale add of
\* ef --init, for any paths and any number of events.
THEOREM DesyncIsExplained == Spec => DesyncExplained
BY Invariance, StepExplained, PTL DEF Spec, DesyncExplained
=============================================================================
