-------------------------- MODULE InitIndexProofs --------------------------
(***************************************************************************)
(* Proofs about InitIndex, for any file system.                            *)
(***************************************************************************)
EXTENDS InitIndex, SequenceTheorems, FiniteSetTheorems, FunctionTheorems, TLAPS

\* TypeOK, but for how large the values are: that is InOrder's.
Types ==
  /\ out \in {0, 1}
  /\ wpc \in {"none", "start", "walk", "done"}
  /\ cpc \in {"none", "dequeue", "test", "add", "done"}
  /\ mpc \in {"create", "sleep", "join", "exit", "ended", "aborted"}
  /\ stack \in Seq(Seq(Entries))
  /\ visited \in Seq(Entries)
  /\ failed \in BOOLEAN
  /\ queue \in Seq(Nat) /\ got \in Seq(Nat)
  /\ added \in Seq(Nat) /\ dropped \in Seq(Nat)
  /\ info \in Nat

\* What the flag out tells in_db, and in_db main.
FlagInv ==
  /\ wpc = "walk" => out = 1
  /\ mpc = "create" <=> wpc = "none"
  /\ mpc \in {"create", "sleep"} => cpc = "none"
  /\ mpc \notin {"create", "sleep"} => wpc \in {"walk", "done"}
  /\ cpc = "done" => wpc = "done"
  /\ mpc \in {"exit", "ended"} => cpc = "done"

\* in_db has dequeued one value for which add has not returned.
Held == IF cpc = "add" THEN 1 ELSE 0

\* The values are where they were found: added, held, dropped, queued.
InOrder ==
  /\ Len(got) + Len(queue) = Len(visited)
  /\ Len(added) + Held + Len(dropped) = Len(got)
  /\ \A i \in 1 .. Len(got) : got[i] = i
  /\ \A i \in 1 .. Len(queue) : queue[i] = Len(got) + i
  /\ \A i \in 1 .. Len(added) : added[i] = i
  /\ \A i \in 1 .. Len(dropped) : dropped[i] = Len(added) + i
  /\ info <= Len(got)
  /\ cpc = "add" => info = Len(added) + 1
  /\ dropped # <<>> => mpc \in {"exit", "ended"}
  /\ mpc = "ended" => queue = <<>>

\* What the loops open still have in front of them, with all that is below it.
Left(st) ==
  {e \in Entries : \E k \in DOMAIN st : \E j \in DOMAIN st[k] : e \in Below(st[k][j])}

\* Nothing is below two of the entries in front of the loops.
Apart(st) ==
  \A k, l \in DOMAIN st : \A j \in DOMAIN st[k], i \in DOMAIN st[l] :
    k # l \/ j # i => Below(st[k][j]) \cap Below(st[l][i]) = {}

Found == {visited[i] : i \in DOMAIN visited}

\* The files are what was found and what is left; nothing is in both.
WalkInv ==
  /\ wpc \in {"none", "start"} => visited = <<>>
  /\ wpc # "walk" => stack = <<>>
  /\ Left(stack) \subseteq Below(Root) /\ Apart(stack)
  /\ Found \subseteq Files /\ Found \cap Left(stack) = {}
  /\ wpc \in {"walk", "done"} /\ ~failed => Files \subseteq Found \cup Left(stack)
  /\ \A i, j \in DOMAIN visited : visited[i] = visited[j] => i = j

InitInv == Types /\ FlagInv /\ InOrder /\ WalkInv

-----------------------------------------------------------------------------
(* The tree: what is below an entry, without induction. Each lemma gives a *)
(* set that is closed and leaves out what cannot be below.                 *)

\* Children are entries.
LEMMA KidsAreEntries ==
  ASSUME NEW dir \in Dirs
  PROVE  Kids(dir) \subseteq Entries /\ Root \notin Kids(dir)
BY TreeAssumption, LenProperties, ElementOfSeq DEF Kids

\* Below an entry is the least closed set that has it.
LEMMA BelowLeast ==
  ASSUME NEW x \in Entries
  PROVE  /\ x \in Below(x) /\ Below(x) \subseteq Entries /\ Closed(Below(x))
         /\ \A S \in SUBSET Entries : x \in S /\ Closed(S) => Below(x) \subseteq S
<1>1. Closed(Below(x))
  <2> SUFFICES ASSUME NEW dir \in Below(x) \cap Dirs, NEW e \in Kids(dir)
               PROVE  e \in Below(x)
    BY DEF Closed
  <2>1. e \in Entries
    BY KidsAreEntries
  <2>2. ASSUME NEW S \in SUBSET Entries, x \in S, Closed(S) PROVE e \in S
    <3>1. dir \in S
      BY <2>2 DEF Below
    <3> QED
      BY <2>2, <3>1 DEF Closed
  <2> QED
    BY <2>1, <2>2 DEF Below
<1> QED BY <1>1 DEF Below

\* There is nothing below what is not a directory.
LEMMA BelowLeaf ==
  ASSUME NEW x \in Entries, x \notin Dirs
  PROVE  Below(x) = {x}
<1>1. Closed({x})
  BY DEF Closed
<1> QED BY <1>1, BelowLeast

\* What is below a directory is below one of its children.
LEMMA BelowDir ==
  ASSUME NEW x \in Dirs
  PROVE  Below(x) = {x} \cup UNION {Below(c) : c \in Kids(x)}
<1>1. x \in Entries /\ Kids(x) \subseteq Entries
  BY KidsAreEntries DEF Dirs
<1> DEFINE S == {x} \cup UNION {Below(c) : c \in Kids(x)}
<1>2. S \in SUBSET Entries /\ x \in S
  BY <1>1, BelowLeast
<1>3. ASSUME NEW dir \in S \cap Dirs, NEW e \in Kids(dir) PROVE e \in S
  <2>1. CASE dir = x
    BY <1>1, <1>3, <2>1, BelowLeast
  <2>2. ASSUME NEW c \in Kids(x), dir \in Below(c) PROVE e \in S
    <3>1. e \in Below(c)
      BY <1>1, <1>3, <2>2, BelowLeast DEF Closed
    <3> QED
      BY <3>1
  <2> QED
    BY <2>1, <2>2
<1>4. Closed(S)
  BY <1>3 DEF Closed
<1>5. Below(x) \subseteq S
  BY <1>1, <1>2, <1>4, BelowLeast
<1>6. ASSUME NEW c \in Kids(x) PROVE Below(c) \subseteq Below(x)
  <2>1. c \in Below(x) /\ Below(x) \in SUBSET Entries /\ Closed(Below(x))
    BY <1>1, BelowLeast DEF Closed
  <2> QED
    BY <1>1, <2>1, BelowLeast
<1> QED BY <1>1, <1>5, <1>6, BelowLeast

\* What is below x, but for x, is the child of a directory below x.
LEMMA ParentBelow ==
  ASSUME NEW x \in Entries, NEW e \in Below(x), e # x
  PROVE  \E dir \in Below(x) \cap Dirs : e \in Kids(dir)
<1> SUFFICES ASSUME \A dir \in Below(x) \cap Dirs : e \notin Kids(dir)
             PROVE  FALSE
  OBVIOUS
<1> DEFINE S == Below(x) \ {e}
<1>1. S \in SUBSET Entries /\ x \in S
  BY BelowLeast
<1>2. Closed(S)
  BY BelowLeast DEF Closed
<1> QED BY <1>1, <1>2, BelowLeast

\* An entry has one parent: if it is below x and not x, so is its parent.
LEMMA OneParent ==
  ASSUME NEW x \in Entries, NEW dir \in Dirs, NEW e \in Kids(dir),
         e \in Below(x), e # x
  PROVE  dir \in Below(x)
<1>1. PICK d \in Below(x) \cap Dirs : e \in Kids(d)
  BY ParentBelow
<1>2. d = dir
  BY <1>1, TreeAssumption DEF Kids
<1> QED BY <1>1, <1>2

\* What is below the root is not below its own children: no walk comes back.
LEMMA NoCycle ==
  ASSUME NEW x \in Below(Root) \cap Dirs, NEW c \in Kids(x)
  PROVE  x \notin Below(c)
<1>1. Root \in Entries /\ Below(Root) \subseteq Entries
  BY TreeAssumption, BelowLeast
<1> DEFINE S == {e \in Below(Root) : e \in Dirs => \A k \in Kids(e) : e \notin Below(k)}
<1>2. S \in SUBSET Entries
  BY <1>1
<1>3. Root \in S
  <2>1. ASSUME Root \in Dirs, NEW k \in Kids(Root), Root \in Below(k) PROVE FALSE
    <3>1. k \in Entries /\ k # Root
      BY <2>1, KidsAreEntries
    <3>2. PICK d \in Below(k) \cap Dirs : Root \in Kids(d)
      BY <2>1, <3>1, ParentBelow
    <3> QED
      BY <3>2, KidsAreEntries
  <2> QED
    BY <1>1, <2>1, BelowLeast
<1>4. ASSUME NEW dir \in S \cap Dirs, NEW e \in Kids(dir) PROVE e \in S
  <2>1. e \in Below(Root) /\ e \in Entries
    BY <1>1, KidsAreEntries, BelowLeast DEF Closed
  <2>2. ASSUME e \in Dirs, NEW k \in Kids(e), e \in Below(k) PROVE FALSE
    <3>1. k \in Entries
      BY <2>2, KidsAreEntries
    <3>2. CASE e = k
      <4>1. dir = e
        BY <2>2, <3>2, TreeAssumption DEF Kids
      <4> QED
        BY <2>2, <4>1
    <3>3. CASE e # k
      <4>1. dir \in Below(k)
        BY <2>2, <3>1, <3>3, OneParent
      <4>2. Below(k) \subseteq Below(e)
        BY <2>2, BelowDir
      <4> QED
        BY <4>1, <4>2
    <3> QED
      BY <3>2, <3>3
  <2> QED
    BY <2>1, <2>2
<1>5. Closed(S)
  BY <1>4 DEF Closed
<1>6. x \in S
  BY <1>1, <1>2, <1>3, <1>5, BelowLeast
<1> QED BY <1>6

\* Nothing is below two children of one directory.
LEMMA SiblingsApart ==
  ASSUME NEW x \in Below(Root) \cap Dirs, NEW c \in Kids(x), NEW d \in Kids(x), c # d
  PROVE  Below(c) \cap Below(d) = {}
<1>1. /\ c \in Entries /\ d \in Entries
      /\ x \notin Below(c) /\ x \notin Below(d)
  BY KidsAreEntries, NoCycle
<1>2. c \notin Below(d) /\ d \notin Below(c)
  BY <1>1, OneParent
<1> DEFINE S == Below(c) \ Below(d)
<1>3. S \in SUBSET Entries /\ c \in S
  BY <1>1, <1>2, BelowLeast
<1>4. ASSUME NEW dir \in S \cap Dirs, NEW e \in Kids(dir) PROVE e \in S
  <2>1. e \in Below(c)
    BY <1>1, BelowLeast DEF Closed
  <2>2. e # d
    BY <1>2, <2>1
  <2>3. e \notin Below(d)
    BY <1>1, <2>2, OneParent
  <2> QED
    BY <2>1, <2>3
<1>5. Closed(S)
  BY <1>4 DEF Closed
<1>6. Below(c) \subseteq S
  BY <1>1, <1>3, <1>5, BelowLeast
<1> QED BY <1>6

-----------------------------------------------------------------------------
(* The queue.                                                              *)

\* enqueue appends the next number.
LEMMA EnqueueAppends ==
  ASSUME queue \in Seq(Nat), got \in Seq(Nat), Enqueue
  PROVE  /\ queue' \in Seq(Nat) /\ got' = got
         /\ Len(queue') = Len(queue) + 1
         /\ \A i \in 1 .. Len(queue) : queue'[i] = queue[i]
         /\ queue'[Len(queue) + 1] = Len(got) + Len(queue) + 1
<1>1. Len(got) + Len(queue) + 1 \in Nat
  BY LenProperties
<1> QED BY <1>1, AppendProperties DEF Enqueue

\* dequeue moves the first value of the queue to the end of got.
LEMMA DequeueMoves ==
  ASSUME queue \in Seq(Nat), got \in Seq(Nat), Dequeue
  PROVE  /\ Head(queue) \in Nat /\ Head(queue) = queue[1]
         /\ queue' \in Seq(Nat) /\ Len(queue') = Len(queue) - 1
         /\ \A i \in 1 .. Len(queue') : queue'[i] = queue[i + 1]
         /\ Len(queue) >= 1
         /\ got' \in Seq(Nat) /\ Len(got') = Len(got) + 1
         /\ \A i \in 1 .. Len(got) : got'[i] = got[i]
         /\ got'[Len(got) + 1] = Head(queue)
<1>1. /\ Head(queue) \in Nat /\ Tail(queue) \in Seq(Nat)
      /\ Len(Tail(queue)) = Len(queue) - 1
      /\ \A i \in 1 .. Len(Tail(queue)) : Tail(queue)[i] = queue[i + 1]
  BY HeadTailProperties DEF Dequeue
<1>2. Head(queue) = queue[1] /\ Len(queue) >= 1
  BY EmptySeq DEF Dequeue
<1> QED BY <1>1, <1>2, AppendProperties DEF Dequeue

-----------------------------------------------------------------------------
(* The steps.                                                              *)

\* The entry at hand is an entry of the tree, and the loops left are loops
\* over entries.
LEMMA EntryTypes ==
  ASSUME Types, Walking
  PROVE  /\ Entry \in Entries
         /\ Rest \in Seq(Seq(Entries))
         /\ Type(Entry) = "EDIR" => <<Children[Entry]>> \o Rest \in Seq(Seq(Entries))
<1>1. stack[1] \in Seq(Entries) /\ Tail(stack) \in Seq(Seq(Entries))
  BY EmptySeq, ElementOfSeq, HeadTailProperties DEF Types, Walking
<1>2. Entry \in Entries /\ Tail(stack[1]) \in Seq(Entries)
  BY <1>1, EmptySeq, ElementOfSeq, HeadTailProperties DEF Walking, Entry
<1>3. Rest \in Seq(Seq(Entries))
  BY <1>1, <1>2, ConcatProperties DEF Rest
<1>4. ASSUME Type(Entry) = "EDIR"
      PROVE  <<Children[Entry]>> \o Rest \in Seq(Seq(Entries))
  <2>1. Children[Entry] \in Seq(Entries)
    BY <1>2, <1>4, TreeAssumption DEF Dirs
  <2>2. <<Children[Entry]>> \in Seq(Seq(Entries))
    BY <2>1
  <2> QED
    BY <1>3, <2>2, ConcatProperties
<1> QED BY <1>2, <1>3, <1>4

\* No step leaves the types.
LEMMA TypesStep == Types /\ [Next]_vars => Types'
<1> SUFFICES ASSUME Types, [Next]_vars PROVE Types'
  OBVIOUS
<1> USE DEF walkVars, consVars, mainVars, fifoVars
<1>1. CASE WStart
  <2>1. <<<<Root>>>> \in Seq(Seq(Entries))
    BY TreeAssumption
  <2> QED
    BY <1>1, <2>1 DEF WStart, Types
<1>2. CASE WGone
  BY <1>2, EntryTypes DEF WGone, Types
<1>3. CASE WFile
  <2>1. visited' \in Seq(Entries)
    BY <1>3, EntryTypes, AppendProperties DEF WFile, AddFileInfo, Types
  <2>2. queue' \in Seq(Nat) /\ got' = got
    BY <1>3, EnqueueAppends DEF WFile, AddFileInfo, Types
  <2> QED
    BY <1>3, <2>1, <2>2, EntryTypes DEF WFile, Types
<1>4. CASE WDir
  BY <1>4, EntryTypes DEF WDir, Types
<1>5. CASE WOther
  BY <1>5, EntryTypes DEF WOther, Types
<1>6. CASE WClosedir
  BY <1>6, HeadTailProperties DEF WClosedir, Types
<1>7. CASE WEnd
  BY <1>7 DEF WEnd, Types
<1>8. CASE CDequeue
  BY <1>8, DequeueMoves DEF CDequeue, Types
<1>9. CASE CEmpty
  BY <1>9 DEF CEmpty, Types
<1>10. CASE CTestOut
  BY <1>10 DEF CTestOut, Types
<1>11. CASE CAdd
  BY <1>11, AppendProperties DEF CAdd, Types
<1>17. CASE CAddThrows
  BY <1>17 DEF CAddThrows, Types
<1>12. CASE MCreateWalker
  BY <1>12 DEF MCreateWalker, Types
<1>13. CASE MCreateConsumer
  BY <1>13 DEF MCreateConsumer, Types
<1>14. CASE MJoin
  BY <1>14 DEF MJoin, Types
<1>15. CASE MDestroy
  <2>1. CASE Dequeue /\ dropped' = Append(dropped, Head(queue)) /\ UNCHANGED mpc
    <3>1. /\ queue' \in Seq(Nat) /\ got' \in Seq(Nat)
          /\ dropped' \in Seq(Nat)
      BY <2>1, DequeueMoves, AppendProperties DEF Types
    <3> QED
      BY <1>15, <2>1, <3>1 DEF MDestroy, Types
  <2>2. CASE queue = <<>> /\ mpc' = "ended" /\ UNCHANGED <<fifoVars, dropped>>
    BY <1>15, <2>2 DEF MDestroy, Types
  <2> QED
    BY <1>15, <2>1, <2>2 DEF MDestroy
<1>16. CASE UNCHANGED vars
  BY <1>16 DEF vars, Types
<1> QED BY <1>1, <1>2, <1>3, <1>4, <1>5, <1>6, <1>7, <1>8, <1>9, <1>10, <1>11,
           <1>12, <1>13, <1>14, <1>15, <1>16, <1>17 DEF Next, Walker, Consumer, Main

\* The flag out stands in for the join that main does not do.
LEMMA FlagStep == Types /\ FlagInv /\ [Next]_vars => FlagInv'
<1> SUFFICES ASSUME Types, FlagInv, [Next]_vars PROVE FlagInv'
  OBVIOUS
<1> USE DEF walkVars, consVars, mainVars, FlagInv
<1>1. CASE WStart \/ WEnd
  BY <1>1 DEF WStart, WEnd
<1>2. CASE WGone \/ WFile \/ WDir \/ WOther \/ WClosedir
  <2>1. UNCHANGED <<out, wpc, cpc, mpc>>
    BY <1>2 DEF WGone, WFile, WDir, WOther, WClosedir
  <2> QED
    BY <2>1
<1>3. CASE CDequeue \/ CEmpty \/ CAdd
  <2>1. UNCHANGED <<out, wpc, mpc>> /\ cpc \notin {"none", "done"} /\ cpc' # "done"
    BY <1>3 DEF CDequeue, CEmpty, CAdd
  <2> QED
    BY <2>1
<1>4. CASE CTestOut
  BY <1>4 DEF CTestOut, Types
<1>5. CASE MCreateWalker
  BY <1>5 DEF MCreateWalker
<1>6. CASE MCreateConsumer
  BY <1>6 DEF MCreateConsumer, Types
<1>7. CASE MJoin
  BY <1>7 DEF MJoin
<1>8. CASE MDestroy
  <2>1. UNCHANGED <<out, wpc, cpc>> /\ mpc = "exit" /\ mpc' \in {"exit", "ended"}
    BY <1>8 DEF MDestroy
  <2> QED
    BY <2>1
<1>9. CASE CAddThrows
  BY <1>9 DEF CAddThrows
<1>10. CASE UNCHANGED vars
  BY <1>10 DEF vars
<1> QED BY <1>1, <1>2, <1>3, <1>4, <1>5, <1>6, <1>7, <1>8, <1>9, <1>10
           DEF Next, Walker, Consumer, Main

\* Nothing is skipped, repeated or overtaken.
LEMMA OrderStep == Types /\ FlagInv /\ InOrder /\ [Next]_vars => InOrder'
<1> SUFFICES ASSUME Types, FlagInv, InOrder, [Next]_vars PROVE InOrder'
  OBVIOUS
<1> USE DEF walkVars, consVars, mainVars, fifoVars
<1>1. /\ Len(queue) \in Nat /\ Len(got) \in Nat /\ Len(added) \in Nat
      /\ Len(dropped) \in Nat /\ Len(visited) \in Nat /\ info \in Nat
  BY LenProperties DEF Types
<1>2. ASSUME Dequeue
      PROVE  /\ Len(got') = Len(got) + 1 /\ Len(queue') + 1 = Len(queue)
             /\ Len(queue') \in Nat
             /\ Head(queue) = Len(got) + 1 /\ Head(queue) \in Nat
             /\ \A i \in 1 .. Len(queue') : queue'[i] = Len(got') + i
             /\ \A i \in 1 .. Len(got') : got'[i] = i
  <2>1. Len(queue) \in Nat /\ Len(got) \in Nat
    BY LenProperties DEF Types
  <2>2. /\ queue' \in Seq(Nat) /\ Len(queue') = Len(queue) - 1
        /\ got' \in Seq(Nat) /\ Len(got') = Len(got) + 1
        /\ Head(queue) = queue[1] /\ Head(queue) \in Nat /\ Len(queue) >= 1
        /\ \A i \in 1 .. Len(queue') : queue'[i] = queue[i + 1]
        /\ \A i \in 1 .. Len(got) : got'[i] = got[i]
        /\ got'[Len(got) + 1] = Head(queue)
    BY <1>2, DequeueMoves DEF Types
  <2>3. /\ \A i \in 1 .. Len(queue) : queue[i] = Len(got) + i
        /\ \A i \in 1 .. Len(got) : got[i] = i
    BY DEF InOrder
  <2>4. Len(queue') + 1 = Len(queue) /\ Len(queue') \in Nat
    BY <2>1, <2>2, LenProperties
  <2>5. Head(queue) = Len(got) + 1
    BY <2>1, <2>2, <2>3
  <2>6. ASSUME NEW i \in 1 .. Len(queue') PROVE queue'[i] = Len(got') + i
    <3>1. i + 1 \in 1 .. Len(queue)
      BY <2>1, <2>4
    <3>2. queue'[i] = Len(got) + (i + 1)
      BY <2>2, <2>3, <3>1
    <3> QED
      BY <2>1, <2>2, <3>2
  <2>7. ASSUME NEW i \in 1 .. Len(got') PROVE got'[i] = i
    <3>1. i \in 1 .. Len(got) \/ i = Len(got) + 1
      BY <2>1, <2>2
    <3> QED
      BY <2>2, <2>3, <2>5, <3>1
  <2> QED
    BY <2>2, <2>5, <2>6, <2>7, <2>4
<1>3. CASE WFile
  <2>1. Len(visited') = Len(visited) + 1
    BY <1>3, EntryTypes, AppendProperties DEF WFile, AddFileInfo, Types
  <2>2. mpc # "ended"
    BY <1>3 DEF WFile, Walking, FlagInv
  <2>3. /\ got' = got /\ Len(queue') = Len(queue) + 1
        /\ \A i \in 1 .. Len(queue) : queue'[i] = queue[i]
        /\ queue'[Len(queue) + 1] = Len(got) + Len(queue) + 1
    BY <1>3, EnqueueAppends DEF WFile, AddFileInfo, Types
  <2>4. /\ UNCHANGED <<cpc, mpc, info, added, dropped>>
        /\ Len(queue) \in Nat /\ Len(got) \in Nat
    BY <1>3, LenProperties DEF WFile, Types
  <2>5. ASSUME NEW i \in 1 .. Len(queue') PROVE queue'[i] = Len(got') + i
    <3>1. i \in 1 .. Len(queue) \/ i = Len(queue) + 1
      BY <2>3, <2>4
    <3>2. CASE i \in 1 .. Len(queue)
      BY <2>3, <3>2 DEF InOrder
    <3>3. CASE i = Len(queue) + 1
      BY <2>3, <2>4, <3>3
    <3> QED
      BY <3>1, <3>2, <3>3
  <2> QED
    <3>1. /\ Len(got') + Len(queue') = Len(visited')
          /\ Len(added') + Held' + Len(dropped') = Len(got')
          /\ info' <= Len(got')
      <4>1. /\ Len(got) + Len(queue) = Len(visited) /\ info <= Len(got)
            /\ Len(added) + Held + Len(dropped) = Len(got)
        BY DEF InOrder
      <4>2. /\ Len(got') = Len(got) /\ Len(added') = Len(added)
            /\ Len(dropped') = Len(dropped) /\ Held' = Held /\ info' = info
            /\ Len(queue') = Len(queue) + 1
        BY <2>3, <2>4 DEF Held
      <4>3. Held \in Nat
        BY DEF Held
      <4> QED
        BY <1>1, <2>1, <4>1, <4>2, <4>3
    <3>2. \A i \in 1 .. Len(queue') : queue'[i] = Len(got') + i
      BY <2>5
    <3>3. mpc' # "ended"
      BY <2>2, <2>4
    <3> QED
      BY <2>3, <2>4, <3>1, <3>2, <3>3 DEF InOrder
<1>4. CASE CDequeue
  <2>1. dropped = <<>> /\ mpc # "ended"
    BY <1>4 DEF CDequeue, FlagInv, InOrder
  <2>2. /\ UNCHANGED <<visited, mpc, added, dropped>>
        /\ cpc = "dequeue" /\ cpc' = "add" /\ info' = Head(queue)
        /\ Len(queue) \in Nat /\ Len(got) \in Nat /\ Len(added) \in Nat
        /\ Len(dropped) = 0 /\ Len(visited) \in Nat
    BY <1>4, <2>1, LenProperties DEF CDequeue, Types
  <2>3. /\ Len(got') = Len(got) + 1
        /\ Len(queue') + 1 = Len(queue) /\ Len(queue') \in Nat
        /\ info' = Len(got) + 1
        /\ \A i \in 1 .. Len(queue') : queue'[i] = Len(got') + i
        /\ \A i \in 1 .. Len(got') : got'[i] = i
    BY <1>2, <1>4, <2>2 DEF CDequeue
  <2> QED
    <3>1. /\ Len(got') + Len(queue') = Len(visited')
          /\ Len(added') + Held' + Len(dropped') = Len(got')
          /\ info' <= Len(got') /\ info' = Len(added') + 1
      <4>1. /\ Len(got) + Len(queue) = Len(visited)
            /\ Len(added) + 0 + Len(dropped) = Len(got) /\ Held' = 1
        BY <2>2 DEF InOrder, Held
      <4>2. /\ Len(visited') = Len(visited) /\ Len(added') = Len(added)
            /\ Len(dropped') = Len(dropped) /\ info' = Len(got) + 1
            /\ Len(got') = Len(got) + 1
            /\ Len(queue') + 1 = Len(queue) /\ Len(queue') \in Nat
        BY <2>2, <2>3
      <4>3. Len(dropped) = 0
        BY <2>2
      <4> QED
        BY <1>1, <4>1, <4>2, <4>3
    <3> QED
      BY <2>1, <2>2, <2>3, <3>1 DEF InOrder
<1>5. CASE CAdd
  <2>1. dropped = <<>>
    BY <1>5 DEF CAdd, FlagInv, InOrder
  <2> QED
    BY <1>5, <2>1, AppendProperties, LenProperties DEF CAdd, Types, InOrder, Held
<1>6. CASE MDestroy
  <2>1. cpc = "done"
    BY <1>6 DEF MDestroy, FlagInv
  <2>2. CASE Dequeue /\ dropped' = Append(dropped, Head(queue)) /\ UNCHANGED mpc
    <3>1. /\ UNCHANGED <<visited, cpc, info, added>> /\ mpc = "exit" /\ mpc' = mpc
          /\ Len(queue) \in Nat /\ Len(got) \in Nat /\ Len(added) \in Nat
          /\ Len(dropped) \in Nat /\ Len(visited) \in Nat
      BY <1>6, <2>2, LenProperties DEF MDestroy, Types
    <3>2. /\ Len(got') = Len(got) + 1
          /\ Len(queue') + 1 = Len(queue) /\ Len(queue') \in Nat
          /\ Head(queue) = Len(got) + 1 /\ Head(queue) \in Nat
          /\ \A i \in 1 .. Len(queue') : queue'[i] = Len(got') + i
          /\ \A i \in 1 .. Len(got') : got'[i] = i
      BY <1>2, <2>2
    <3>3. /\ Len(dropped') = Len(dropped) + 1
          /\ \A i \in 1 .. Len(dropped) : dropped'[i] = dropped[i]
          /\ dropped'[Len(dropped) + 1] = Len(added) + Len(dropped) + 1
      <4>1. dropped \in Seq(Nat) /\ dropped' = Append(dropped, Head(queue))
        BY <2>2 DEF Types
      <4>2. Head(queue) \in Nat /\ Head(queue) = Len(got) + 1
        BY <3>2
      <4>3. Len(got) = Len(added) + Len(dropped)
        BY <1>1, <2>1 DEF InOrder, Held
      <4>4. Head(queue) = Len(added) + Len(dropped) + 1
        BY <4>2, <4>3
      <4> QED
        BY <4>1, <4>2, <4>4, AppendProperties
    <3>4. ASSUME NEW i \in 1 .. Len(dropped') PROVE dropped'[i] = Len(added') + i
      <4>1. i \in 1 .. Len(dropped) \/ i = Len(dropped) + 1
        BY <3>1, <3>3
      <4>2. CASE i \in 1 .. Len(dropped)
        BY <3>1, <3>3, <4>2 DEF InOrder
      <4>3. CASE i = Len(dropped) + 1
        BY <3>1, <3>3, <4>3
      <4> QED
        BY <4>1, <4>2, <4>3
    <3> QED
      <4>1. /\ Len(got') + Len(queue') = Len(visited')
            /\ Len(added') + Held' + Len(dropped') = Len(got')
            /\ info' <= Len(got')
        <5>1. /\ Len(got) + Len(queue) = Len(visited)
              /\ Len(added) + Len(dropped) = Len(got) /\ info <= Len(got)
              /\ Held' = 0
          BY <1>1, <2>1, <3>1 DEF InOrder, Held
        <5>2. /\ Len(visited') = Len(visited) /\ Len(added') = Len(added)
              /\ info' = info /\ Len(dropped') = Len(dropped) + 1
              /\ Len(got') = Len(got) + 1
              /\ Len(queue') + 1 = Len(queue) /\ Len(queue') \in Nat
          BY <3>1, <3>2, <3>3
        <5>3. Len(got') + Len(queue') = Len(visited')
          <6>1. (Len(got) + 1) + Len(queue') = Len(got) + (Len(queue') + 1)
            BY <1>1, <5>2
          <6> QED
            BY <5>1, <5>2, <6>1
        <5>4. Len(added') + Held' + Len(dropped') = Len(got')
          <6>1. Len(added) + 0 + (Len(dropped) + 1) = (Len(added) + Len(dropped)) + 1
            BY <1>1
          <6> QED
            BY <5>1, <5>2, <6>1
        <5>5. info' <= Len(got')
          BY <1>1, <5>1, <5>2
        <5> QED
          BY <5>3, <5>4, <5>5
      <4>2. \A i \in 1 .. Len(dropped') : dropped'[i] = Len(added') + i
        BY <3>4
      <4> QED
        BY <2>1, <3>1, <3>2, <4>1, <4>2 DEF InOrder
  <2>3. CASE queue = <<>> /\ mpc' = "ended" /\ UNCHANGED <<fifoVars, dropped>>
    BY <1>6, <2>1, <2>3 DEF MDestroy, InOrder, Held
  <2> QED
    BY <1>6, <2>2, <2>3 DEF MDestroy
<1>7. CASE WStart \/ WGone \/ WDir \/ WOther \/ WClosedir \/ WEnd
  <2>1. /\ UNCHANGED <<fifoVars, visited, consVars>>
        /\ UNCHANGED mainVars
    BY <1>7 DEF WStart, WGone, WDir, WOther, WClosedir, WEnd
  <2> QED
    BY <2>1 DEF InOrder, Held
<1>8. CASE CEmpty \/ CTestOut \/ MCreateWalker \/ MCreateConsumer \/ MJoin
  <2>1. /\ UNCHANGED <<fifoVars, visited, info, added, dropped>>
        /\ cpc # "add" /\ cpc' # "add" /\ mpc \notin {"exit", "ended"}
        /\ mpc' # "ended"
    BY <1>8 DEF CEmpty, CTestOut, MCreateWalker, MCreateConsumer, MJoin, FlagInv
  <2> QED
    BY <2>1 DEF InOrder, Held
<1>9. CASE CAddThrows
  <2>1. /\ UNCHANGED <<fifoVars, visited, cpc, info, added, dropped>>
        /\ mpc' = "aborted" /\ mpc \notin {"exit", "ended"}
    BY <1>9 DEF CAddThrows, FlagInv
  <2> QED
    BY <2>1 DEF InOrder, Held
<1>10. CASE UNCHANGED vars
  BY <1>10 DEF vars, InOrder, Held
<1> HIDE DEF walkVars, consVars, mainVars, fifoVars
<1> QED BY <1>3, <1>4, <1>5, <1>6, <1>7, <1>8, <1>9, <1>10
           DEF Next, Walker, Consumer, Main

-----------------------------------------------------------------------------
(* The walk.                                                               *)

\* The places in the tail of a sequence.
LEMMA TailPlaces ==
  ASSUME NEW T, NEW s \in Seq(T), s # <<>>, NEW t, t = Tail(s)
  PROVE  /\ t \in Seq(T) /\ DOMAIN t \subseteq Nat /\ DOMAIN s \subseteq Nat /\ 1 \in DOMAIN s
         /\ Len(s) \in Nat /\ Len(t) = Len(s) - 1 /\ DOMAIN s = 1 .. Len(s)
         /\ \A j \in DOMAIN t : j + 1 \in DOMAIN s /\ j + 1 # 1 /\ t[j] = s[j + 1]
         /\ \A j \in DOMAIN s : j # 1 => j - 1 \in DOMAIN t /\ t[j - 1] = s[j]
<1>1. Len(s) \in Nat /\ Len(s) >= 1 /\ DOMAIN s = 1 .. Len(s)
  BY LenProperties, EmptySeq
<1>2. /\ t \in Seq(T) /\ Len(t) = Len(s) - 1
      /\ \A j \in 1 .. Len(t) : t[j] = s[j + 1]
  BY HeadTailProperties
<1>3. DOMAIN t = 1 .. Len(s) - 1
  BY <1>2, LenProperties
<1>4. ASSUME NEW j \in DOMAIN s, j # 1 PROVE j - 1 \in DOMAIN t /\ t[j - 1] = s[j]
  <2>1. j \in 1 .. Len(s)
    BY <1>1
  <2>2. j - 1 \in 1 .. Len(s) - 1 /\ (j - 1) + 1 = j
    BY ONLY <1>1, <2>1, <1>4
  <2>3. t[j - 1] = s[(j - 1) + 1]
    BY <1>2, <2>2
  <2> QED
    BY <1>3, <2>2, <2>3
<1>5. ASSUME NEW j \in DOMAIN t
      PROVE  j + 1 \in DOMAIN s /\ j + 1 # 1 /\ t[j] = s[j + 1] /\ j \in Nat
  <2>1. j \in 1 .. Len(s) - 1
    BY <1>3
  <2>2. j + 1 \in 1 .. Len(s) /\ j + 1 # 1 /\ j \in Nat
    BY ONLY <1>1, <2>1
  <2>3. t[j] = s[j + 1]
    BY <1>2, <2>1
  <2> QED
    BY <1>1, <2>2, <2>3
<1>6. 1 \in DOMAIN s /\ DOMAIN s \subseteq Nat
  BY <1>1
<1> QED BY <1>1, <1>2, <1>4, <1>5, <1>6

\* The places in a sequence with something put in front.
LEMMA PushPlaces ==
  ASSUME NEW T, NEW u \in T, NEW t \in Seq(T), NEW s, s = <<u>> \o t
  PROVE  /\ s \in Seq(T) /\ s[1] = u /\ DOMAIN s = 1 .. Len(t) + 1
         /\ DOMAIN s \subseteq Nat /\ 1 \in DOMAIN s /\ DOMAIN t \subseteq Nat
         /\ \A k \in DOMAIN t : k + 1 \in DOMAIN s /\ k + 1 # 1 /\ s[k + 1] = t[k]
         /\ \A k \in DOMAIN s : k # 1 => k - 1 \in DOMAIN t /\ s[k] = t[k - 1]
<1>1. <<u>> \in Seq(T) /\ Len(<<u>>) = 1 /\ <<u>>[1] = u
  OBVIOUS
<1>2. Len(t) \in Nat /\ DOMAIN t = 1 .. Len(t)
  BY LenProperties
<1>3. /\ s \in Seq(T) /\ Len(s) = Len(t) + 1
      /\ \A k \in 1 .. Len(t) + 1 : s[k] = IF k <= 1 THEN <<u>>[k] ELSE t[k - 1]
  BY <1>1, <1>2, ConcatProperties
<1>4. DOMAIN s = 1 .. Len(t) + 1
  BY <1>3, LenProperties
<1>5. ASSUME NEW k \in DOMAIN t
      PROVE  k + 1 \in DOMAIN s /\ k + 1 # 1 /\ s[k + 1] = t[k]
  <2>1. k + 1 \in 1 .. Len(t) + 1 /\ ~(k + 1 <= 1) /\ (k + 1) - 1 = k
    BY <1>2
  <2> QED
    BY <1>3, <1>4, <2>1
<1> QED BY <1>1, <1>2, <1>3, <1>4, <1>5

\* The first entry of the first loop of st is gone in rest, and those after it
\* in that loop move up.
MovedUp(rest, st) ==
  /\ DOMAIN rest = DOMAIN st /\ 1 \in DOMAIN st /\ 1 \in DOMAIN st[1]
  /\ \A k \in DOMAIN st : k # 1 => rest[k] = st[k]
  /\ \A j \in DOMAIN rest[1] :
       j + 1 \in DOMAIN st[1] /\ j + 1 # 1 /\ rest[1][j] = st[1][j + 1]
  /\ \A j \in DOMAIN st[1] :
       j # 1 => j - 1 \in DOMAIN rest[1] /\ rest[1][j - 1] = st[1][j]
  /\ \A k \in DOMAIN st : DOMAIN st[k] \subseteq Nat /\ DOMAIN rest[k] \subseteq Nat

\* The places in the loops once an entry is taken.
LEMMA RestPlaces ==
  ASSUME NEW st \in Seq(Seq(Entries)), st # <<>>, st[1] # <<>>,
         NEW rest, rest = <<Tail(st[1])>> \o Tail(st)
  PROVE  rest \in Seq(Seq(Entries)) /\ MovedUp(rest, st)
<1> DEFINE t == Tail(st)
           u == Tail(st[1])
<1>1. /\ t \in Seq(Seq(Entries)) /\ DOMAIN st \subseteq Nat /\ 1 \in DOMAIN st
      /\ Len(st) \in Nat /\ Len(t) = Len(st) - 1 /\ DOMAIN st = 1 .. Len(st)
      /\ \A k \in DOMAIN st : k # 1 => t[k - 1] = st[k]
  BY TailPlaces
<1>2. st[1] \in Seq(Entries)
  BY <1>1, ElementOfSeq
<1>3. /\ u \in Seq(Entries) /\ 1 \in DOMAIN st[1]
      /\ \A j \in DOMAIN u : j + 1 \in DOMAIN st[1] /\ j + 1 # 1 /\ u[j] = st[1][j + 1]
      /\ \A j \in DOMAIN st[1] : j # 1 => j - 1 \in DOMAIN u /\ u[j - 1] = st[1][j]
  <2>1. ASSUME NEW s \in Seq(Entries), s # <<>>, NEW v, v = Tail(s)
        PROVE  /\ v \in Seq(Entries) /\ 1 \in DOMAIN s
               /\ \A j \in DOMAIN v : j + 1 \in DOMAIN s /\ j + 1 # 1 /\ v[j] = s[j + 1]
               /\ \A j \in DOMAIN s : j # 1 => j - 1 \in DOMAIN v /\ v[j - 1] = s[j]
    BY <2>1, TailPlaces
  <2> QED
    BY <1>2, <2>1
<1> HIDE DEF t, u
<1>4. rest = <<u>> \o t
  BY DEF t, u
<1>5. /\ rest \in Seq(Seq(Entries)) /\ rest[1] = u /\ DOMAIN rest = 1 .. Len(t) + 1
      /\ \A k \in DOMAIN rest : k # 1 => rest[k] = t[k - 1]
  <2>1. u \in Seq(Entries) /\ t \in Seq(Seq(Entries))
    BY <1>1, <1>3
  <2> QED
    BY ONLY <1>4, <2>1, PushPlaces
<1>6. DOMAIN rest = DOMAIN st
  BY <1>1, <1>5
<1>7. \A k \in DOMAIN st : k # 1 => rest[k] = st[k]
  BY <1>1, <1>5, <1>6
<1>8. ASSUME NEW k \in DOMAIN st PROVE DOMAIN st[k] \subseteq Nat /\ DOMAIN rest[k] \subseteq Nat
  <2>1. st[k] \in Seq(Entries) /\ rest[k] \in Seq(Entries)
    <3>1. /\ st \in Seq(Seq(Entries)) /\ k \in 1 .. Len(st)
          /\ rest \in Seq(Seq(Entries)) /\ k \in DOMAIN rest
      BY <1>1, <1>5, <1>6
    <3>2. k \in 1 .. Len(rest)
      BY ONLY <3>1, LenProperties
    <3> QED
      BY ONLY <3>1, <3>2, ElementOfSeq
  <2> QED
    BY ONLY <2>1, LenProperties
<1> QED BY <1>1, <1>3, <1>5, <1>6, <1>7, <1>8 DEF MovedUp

\* Taking an entry takes it and what is below it from what is left.
LEMMA RestLeft ==
  ASSUME Types, Walking, Apart(stack)
  PROVE  /\ Entry \in Left(stack) /\ Apart(Rest)
         /\ Left(stack) = Below(Entry) \cup Left(Rest)
         /\ Below(Entry) \cap Left(Rest) = {}
<1> DEFINE rest == Rest
<1>1. MovedUp(rest, stack)
  BY RestPlaces DEF Types, Walking, Rest
<1> HIDE DEF rest
<1> DEFINE Was(k, j) == IF k = 1 THEN j + 1 ELSE j
<1>2. ASSUME NEW k \in DOMAIN rest, NEW j \in DOMAIN rest[k]
      PROVE  /\ Was(k, j) \in DOMAIN stack[k] /\ rest[k][j] = stack[k][Was(k, j)]
             /\ k # 1 \/ Was(k, j) # 1
             /\ j \in Nat /\ k \in DOMAIN stack
  BY <1>1 DEF MovedUp
<1>3. ASSUME NEW k \in DOMAIN stack, NEW j \in DOMAIN stack[k], k # 1 \/ j # 1
      PROVE  \E i \in DOMAIN rest[k] : rest[k][i] = stack[k][j]
  BY <1>1, <1>3 DEF MovedUp
<1>4. Entry = stack[1][1] /\ Entry \in Entries
  BY EntryTypes DEF Entry
<1>5. Apart(rest)
  <2> SUFFICES ASSUME NEW k \in DOMAIN rest, NEW l \in DOMAIN rest,
                      NEW j \in DOMAIN rest[k], NEW i \in DOMAIN rest[l],
                      k # l \/ j # i
               PROVE  Below(rest[k][j]) \cap Below(rest[l][i]) = {}
    BY DEF Apart
  <2>1. k # l \/ Was(k, j) # Was(l, i)
    BY <1>2
  <2> HIDE DEF Was
  <2> QED
    BY <1>2, <2>1 DEF Apart
<1> HIDE DEF Was
<1>6. Left(stack) \subseteq Below(Entry) \cup Left(rest)
  <2> SUFFICES ASSUME NEW k \in DOMAIN stack, NEW j \in DOMAIN stack[k],
                      NEW e \in Entries, e \in Below(stack[k][j])
               PROVE  e \in Below(Entry) \cup Left(rest)
    BY DEF Left
  <2>1. CASE k = 1 /\ j = 1
    BY <1>4, <2>1
  <2>2. CASE k # 1 \/ j # 1
    BY <1>1, <1>3, <2>2 DEF Left, MovedUp
  <2> QED
    BY <2>1, <2>2
<1>7. Left(rest) \subseteq Left(stack)
  BY <1>2 DEF Left
<1>8. Below(Entry) \subseteq Left(stack) /\ Entry \in Left(stack)
  BY <1>1, <1>4, BelowLeast DEF Left, MovedUp
<1>9. Below(Entry) \cap Left(rest) = {}
  <2> SUFFICES ASSUME NEW k \in DOMAIN rest, NEW j \in DOMAIN rest[k],
                      NEW e \in Below(Entry), e \in Below(rest[k][j])
               PROVE  FALSE
    BY DEF Left
  <2>1. /\ k \in DOMAIN stack /\ Was(k, j) \in DOMAIN stack[k]
        /\ (k # 1 \/ Was(k, j) # 1)
        /\ rest[k][j] = stack[k][Was(k, j)]
    BY <1>2
  <2> QED
    BY <1>1, <1>4, <2>1 DEF Apart, MovedUp
<1> QED BY <1>5, <1>6, <1>7, <1>8, <1>9 DEF rest

\* Opening a directory puts what is below it, but for itself, back in front of
\* the loops.
LEMMA OpenLeft ==
  ASSUME NEW rest \in Seq(Seq(Entries)), NEW x \in Below(Root) \cap Dirs,
         Apart(rest), Below(x) \cap Left(rest) = {},
         NEW new, new = <<Children[x]>> \o rest
  PROVE  Apart(new) /\ Left(new) = (Below(x) \ {x}) \cup Left(rest)
<1>1. /\ Children[x] \in Seq(Entries) /\ Kids(x) \subseteq Entries /\ x \in Entries
      /\ Below(x) \subseteq Entries
  BY TreeAssumption, KidsAreEntries, BelowLeast DEF Dirs
<1>2. /\ new[1] = Children[x] /\ 1 \in DOMAIN new
      /\ DOMAIN new \subseteq Nat
      /\ \A k \in DOMAIN new : k # 1 => k - 1 \in DOMAIN rest /\ new[k] = rest[k - 1]
      /\ \A k \in DOMAIN rest : k + 1 \in DOMAIN new /\ k + 1 # 1 /\ new[k + 1] = rest[k]
  BY <1>1, PushPlaces
<1>3. \A j \in DOMAIN new[1] : new[1][j] \in Kids(x)
  BY <1>2 DEF Kids
<1>4. \A c \in Kids(x) : Below(c) \subseteq Below(x) \ {x}
  BY BelowDir, NoCycle
<1>5. Left(new) = (Below(x) \ {x}) \cup Left(rest)
  <2>1. ASSUME NEW e \in Below(x), e # x PROVE e \in Left(new)
    <3>1. PICK c \in Kids(x) : e \in Below(c)
      BY <2>1, BelowDir
    <3>2. PICK j \in DOMAIN new[1] : new[1][j] = c
      BY <1>2 DEF Kids
    <3>3. 1 \in DOMAIN new /\ e \in Entries
      BY <1>1, <1>2
    <3> QED
      BY <3>1, <3>2, <3>3 DEF Left
  <2>2. ASSUME NEW e \in Left(rest) PROVE e \in Left(new)
    <3>1. PICK k \in DOMAIN rest : \E j \in DOMAIN rest[k] : e \in Below(rest[k][j])
      BY <2>2 DEF Left
    <3>2. k + 1 \in DOMAIN new /\ new[k + 1] = rest[k] /\ e \in Entries
      BY <1>2, <2>2 DEF Left
    <3> QED
      BY <3>1, <3>2 DEF Left
  <2>3. ASSUME NEW k \in DOMAIN new, NEW j \in DOMAIN new[k],
               NEW e \in Entries, e \in Below(new[k][j])
        PROVE  e \in (Below(x) \ {x}) \cup Left(rest)
    <3>1. CASE k = 1
      BY <1>3, <1>4, <2>3, <3>1
    <3>2. CASE k # 1
      BY <1>2, <2>3, <3>2 DEF Left
    <3> QED
      BY <3>1, <3>2
  <2> QED
    BY <2>1, <2>2, <2>3 DEF Left
<1>6. Apart(new)
  <2> SUFFICES ASSUME NEW k \in DOMAIN new, NEW l \in DOMAIN new,
                      NEW j \in DOMAIN new[k], NEW i \in DOMAIN new[l],
                      k # l \/ j # i
               PROVE  Below(new[k][j]) \cap Below(new[l][i]) = {}
    BY DEF Apart
  <2>1. ASSUME NEW m \in DOMAIN new, m # 1, NEW n \in DOMAIN new[m]
        PROVE  Below(x) \cap Below(new[m][n]) = {}
    BY <1>1, <1>2, <2>1 DEF Left
  <2>2. CASE k = 1 /\ l = 1
    <3>1. new[1][j] # new[1][i]
      BY <1>2, <2>2, TreeAssumption
    <3> QED
      BY <1>3, <2>2, <3>1, SiblingsApart
  <2>3. CASE k = 1 /\ l # 1
    BY <1>3, <1>4, <2>1, <2>3
  <2>4. CASE k # 1 /\ l = 1
    BY <1>3, <1>4, <2>1, <2>4
  <2>5. CASE k # 1 /\ l # 1
    <3> DEFINE m == k - 1
               n == l - 1
    <3>1. m # n \/ j # i
      BY <1>2
    <3>2. m \in DOMAIN rest /\ n \in DOMAIN rest /\ new[k] = rest[m] /\ new[l] = rest[n]
      BY <1>2, <2>5
    <3> HIDE DEF m, n
    <3> QED
      BY <3>1, <3>2 DEF Apart
  <2> QED
    BY <2>2, <2>3, <2>4, <2>5
<1> QED BY <1>5, <1>6

\* Closing a loop that is at its end leaves what was left.
LEMMA CloseLeft ==
  ASSUME NEW st \in Seq(Seq(Entries)), st # <<>>, st[1] = <<>>, Apart(st)
  PROVE  Apart(Tail(st)) /\ Left(Tail(st)) = Left(st)
<1> DEFINE t == Tail(st)
<1>1. /\ DOMAIN t \subseteq Nat /\ DOMAIN st \subseteq Nat /\ DOMAIN st[1] = {}
      /\ \A k \in DOMAIN t : k + 1 \in DOMAIN st /\ t[k] = st[k + 1]
      /\ \A k \in DOMAIN st : k # 1 => k - 1 \in DOMAIN t /\ t[k - 1] = st[k]
  BY TailPlaces, EmptySeq
<1> HIDE DEF t
<1>2. Left(t) = Left(st)
  <2>1. Left(t) \subseteq Left(st)
    BY <1>1 DEF Left
  <2>2. Left(st) \subseteq Left(t)
    BY <1>1 DEF Left
  <2> QED
    BY <2>1, <2>2
<1>3. Apart(t)
  <2> SUFFICES ASSUME NEW k \in DOMAIN t, NEW l \in DOMAIN t,
                      NEW j \in DOMAIN t[k], NEW i \in DOMAIN t[l],
                      k # l \/ j # i
               PROVE  Below(t[k][j]) \cap Below(t[l][i]) = {}
    BY DEF Apart
  <2>1. k + 1 # l + 1 \/ j # i
    BY <1>1
  <2> QED
    BY <1>1, <2>1 DEF Apart
<1> QED BY <1>2, <1>3 DEF t

\* Every file is found or still below something in front of a loop.
LEMMA WalkStep == Types /\ FlagInv /\ WalkInv /\ [Next]_vars => WalkInv'
<1> SUFFICES ASSUME Types, FlagInv, WalkInv, [Next]_vars PROVE WalkInv'
  OBVIOUS
<1> USE DEF walkVars, consVars, mainVars, fifoVars
<1>1. CASE WStart
  <2>1. visited = <<>> /\ Root \in Entries /\ DOMAIN visited = {}
    BY <1>1, TreeAssumption DEF WStart, WalkInv
  <2>2. /\ DOMAIN <<<<Root>>>> = {1} /\ <<<<Root>>>>[1] = <<Root>>
        /\ DOMAIN <<Root>> = {1} /\ <<Root>>[1] = Root
    OBVIOUS
  <2> DEFINE st == <<<<Root>>>>
  <2>3. DOMAIN st = {1} /\ DOMAIN st[1] = {1} /\ st[1][1] = Root
    BY <2>2
  <2> HIDE DEF st
  <2>4. Left(st) = Below(Root) /\ Apart(st)
    BY <2>1, <2>3, BelowLeast DEF Left, Apart
  <2>5. stack' = st /\ UNCHANGED <<visited, failed>> /\ wpc' = "walk"
    BY <1>1 DEF WStart, st
  <2>6. Found = {} /\ Found' = {} /\ Files \subseteq Below(Root)
    BY <2>1, <2>5 DEF Found, Files
  <2> QED
    BY <2>1, <2>4, <2>5, <2>6 DEF WalkInv
<1>2. ASSUME Walking, stack' = Rest, UNCHANGED <<wpc, visited>>,
             failed' = TRUE \/ (failed' = failed /\ Type(Entry) \notin {"EREG", "EDIR"})
      PROVE  WalkInv'
  <2>1. /\ Entry \in Left(stack) /\ Apart(Rest)
        /\ Left(stack) = Below(Entry) \cup Left(Rest)
    BY <1>2, RestLeft DEF WalkInv
  <2>2. failed' = failed => Below(Entry) \cap Files = {} \/ failed'
    BY <1>2, BelowLeaf, EntryTypes DEF Files, Dirs
  <2>3. Found' = Found
    BY <1>2 DEF Found
  <2> QED
    BY <1>2, <2>1, <2>2, <2>3 DEF WalkInv, Walking
<1>3. CASE WGone \/ WOther
  BY <1>2, <1>3 DEF WGone, WOther
<1>4. CASE WFile
  <2>1. /\ Entry \in Left(stack) /\ Apart(Rest)
        /\ Left(stack) = Below(Entry) \cup Left(Rest)
        /\ Below(Entry) \cap Left(Rest) = {}
    BY <1>4, RestLeft DEF WFile, WalkInv
  <2>2. /\ stack' = Rest /\ visited' = Append(visited, Entry) /\ UNCHANGED <<wpc, failed>>
        /\ Type(Entry) = "EREG" /\ wpc = "walk"
    BY <1>4 DEF WFile, AddFileInfo, Walking
  <2>3. Below(Entry) = {Entry} /\ Entry \in Files
    <3>1. Entry \in Entries /\ Entry \notin Dirs
      BY <1>4, <2>2, EntryTypes DEF WFile, Dirs
    <3> QED
      BY <2>1, <2>2, <3>1, BelowLeaf DEF WalkInv, Files
  <2>4. /\ Len(visited) \in Nat /\ DOMAIN visited = 1 .. Len(visited)
        /\ DOMAIN visited' = 1 .. Len(visited) + 1
        /\ \A i \in DOMAIN visited : visited'[i] = visited[i]
        /\ visited'[Len(visited) + 1] = Entry
    <3>1. visited \in Seq(Entries) /\ Entry \in Entries
      BY <1>4, EntryTypes DEF Types, WFile
    <3> QED
      BY <2>2, <3>1, AppendProperties, LenProperties
  <2>5. \A i \in DOMAIN visited' : i \in DOMAIN visited \/ i = Len(visited) + 1
    BY <2>4
  <2>6. Found' = Found \cup {Entry}
    BY <2>4, <2>5 DEF Found
  <2>7. Entry \notin Found
    BY <2>1 DEF WalkInv
  <2>8. \A i, j \in DOMAIN visited' : visited'[i] = visited'[j] => i = j
    BY <2>4, <2>5, <2>7 DEF WalkInv, Found
  <2> QED
    BY <2>1, <2>2, <2>3, <2>6, <2>7, <2>8 DEF WalkInv
<1>5. CASE WDir
  <2>1. CASE stack' = Rest /\ failed' = TRUE
    BY <1>2, <1>5, <2>1 DEF WDir
  <2>2. CASE stack' = <<Children[Entry]>> \o Rest /\ UNCHANGED failed
    <3>1. /\ Entry \in Left(stack) /\ Apart(Rest)
          /\ Left(stack) = Below(Entry) \cup Left(Rest)
          /\ Below(Entry) \cap Left(Rest) = {}
      BY <1>5, RestLeft DEF WDir, WalkInv
    <3>2. Entry \in Below(Root) \cap Dirs /\ Rest \in Seq(Seq(Entries))
      BY <1>5, <3>1, EntryTypes DEF WDir, Dirs, WalkInv
    <3>3. Apart(stack') /\ Left(stack') = (Below(Entry) \ {Entry}) \cup Left(Rest)
      BY <2>2, <3>1, <3>2, OpenLeft
    <3>4. UNCHANGED <<wpc, visited, failed>> /\ Found' = Found /\ wpc = "walk"
      BY <1>5, <2>2 DEF WDir, Found, Walking
    <3>5. Entry \notin Files
      BY <3>2 DEF Files, Dirs
    <3> QED
      BY <3>1, <3>3, <3>4, <3>5 DEF WalkInv
  <2> QED
    BY <1>5, <2>1, <2>2 DEF WDir
<1>6. CASE WClosedir
  <2>1. Apart(stack') /\ Left(stack') = Left(stack)
    BY <1>6, CloseLeft DEF WClosedir, Types, WalkInv
  <2>2. UNCHANGED <<wpc, visited, failed>> /\ Found' = Found /\ wpc = "walk"
    BY <1>6 DEF WClosedir, Found
  <2> QED
    BY <2>1, <2>2 DEF WalkInv
<1>7. CASE WEnd
  <2>1. UNCHANGED <<stack, visited, failed>> /\ Found' = Found
    BY <1>7 DEF WEnd, Found
  <2>2. wpc = "walk" /\ wpc' = "done" /\ stack = <<>>
    BY <1>7 DEF WEnd
  <2>3. Left(stack') = Left(stack) /\ Apart(stack')
    BY <2>1 DEF WalkInv
  <2> QED
    BY <2>1, <2>2, <2>3 DEF WalkInv
<1>8. CASE MCreateWalker
  <2>1. UNCHANGED <<stack, visited, failed>> /\ Found' = Found /\ wpc' = "start"
    BY <1>8 DEF MCreateWalker, Found
  <2>2. wpc = "none"
    BY <1>8 DEF MCreateWalker, FlagInv
  <2>3. Left(stack') = Left(stack) /\ Apart(stack')
    BY <2>1 DEF WalkInv
  <2> QED
    BY <2>1, <2>2, <2>3 DEF WalkInv
<1>9. CASE Consumer \/ MCreateConsumer \/ MJoin \/ MDestroy \/ UNCHANGED vars
  <2>1. UNCHANGED <<wpc, stack, visited, failed>> /\ Found' = Found
    BY <1>9 DEF Consumer, CDequeue, CEmpty, CTestOut, CAdd,
                CAddThrows, MCreateConsumer, MJoin,
                MDestroy, vars, Found
  <2> QED
    BY <2>1 DEF WalkInv, Left, Apart
<1> HIDE DEF walkVars, consVars, mainVars, fifoVars
<1> QED BY <1>1, <1>3, <1>4, <1>5, <1>6, <1>7, <1>8, <1>9
           DEF Next, Walker, Main

-----------------------------------------------------------------------------
(* The invariant and what follows from it.                                 *)

LEMMA InitialInv == Init => InitInv
<1> SUFFICES ASSUME Init PROVE InitInv
  OBVIOUS
<1>1. Len(<<>>) = 0 /\ \A S : <<>> \in Seq(S)
  BY EmptySeq
<1>2. Types
  BY <1>1 DEF Init, InitFifo, Types
<1>3. FlagInv
  BY DEF Init, FlagInv
<1>4. InOrder
  BY <1>1 DEF Init, InitFifo, InOrder, Held
<1>5. WalkInv
  <2>1. stack = <<>> /\ visited = <<>> /\ DOMAIN stack = {} /\ DOMAIN visited = {}
    BY DEF Init
  <2>2. Found = {} /\ Left(stack) = {} /\ Apart(stack)
    BY <2>1 DEF Found, Left, Apart
  <2> QED
    BY <2>1, <2>2 DEF WalkInv, Init
<1> QED BY <1>2, <1>3, <1>4, <1>5 DEF InitInv

\* The inductive invariant of ef --init.
THEOREM Invariance == Spec => []InitInv
<1>1. InitInv /\ [Next]_vars => InitInv'
  BY TypesStep, FlagStep, OrderStep, WalkStep DEF InitInv
<1> QED BY InitialInv, <1>1, PTL DEF Spec

\* Values whose numbers are all in T are a sequence over T.
LEMMA SeqWithin ==
  ASSUME NEW T, NEW s \in Seq(Nat), \A i \in 1 .. Len(s) : s[i] \in T
  PROVE  s \in Seq(T)
BY LenProperties

\* Every variable keeps to its type; in particular no value turns up that the
\* walk has not enqueued.
THEOREM TypesKept == Spec => []TypeOK
<1>1. InitInv => TypeOK
  <2> SUFFICES ASSUME InitInv PROVE TypeOK
    OBVIOUS
  <2> DEFINE T == 1 .. Len(visited)
  <2>1. /\ Len(visited) \in Nat /\ Len(queue) \in Nat /\ Len(got) \in Nat
        /\ Len(added) \in Nat /\ Len(dropped) \in Nat
    BY LenProperties DEF InitInv, Types
  <2>2. queue \in Seq(T) /\ got \in Seq(T) /\ added \in Seq(T) /\ dropped \in Seq(T)
    <3>1. /\ \A i \in 1 .. Len(queue) : queue[i] \in T
          /\ \A i \in 1 .. Len(got) : got[i] \in T
          /\ \A i \in 1 .. Len(added) : added[i] \in T
          /\ \A i \in 1 .. Len(dropped) : dropped[i] \in T
      <4>1. /\ Len(got) + Len(queue) = Len(visited) /\ Held \in Nat
            /\ Len(added) + Held + Len(dropped) = Len(got)
        BY DEF InitInv, InOrder, Held
      <4>2. \A i \in 1 .. Len(queue) : queue[i] = Len(got) + i
        BY DEF InitInv, InOrder
      <4>3. /\ \A i \in 1 .. Len(got) : got[i] = i
            /\ \A i \in 1 .. Len(added) : added[i] = i
        BY DEF InitInv, InOrder
      <4>4. \A i \in 1 .. Len(dropped) : dropped[i] = Len(added) + i
        BY DEF InitInv, InOrder
      <4>5. \A i \in 1 .. Len(queue) : queue[i] \in T
        BY <2>1, <4>1, <4>2
      <4>6. /\ \A i \in 1 .. Len(got) : got[i] \in T
            /\ \A i \in 1 .. Len(added) : added[i] \in T
        BY <2>1, <4>1, <4>3
      <4>7. \A i \in 1 .. Len(dropped) : dropped[i] \in T
        BY <2>1, <4>1, <4>4
      <4> QED
        BY <4>5, <4>6, <4>7
    <3> QED
      BY <3>1, SeqWithin DEF InitInv, Types
  <2> QED
    BY <2>1, <2>2 DEF InitInv, Types, InOrder, TypeOK
<1> QED BY <1>1, Invariance, PTL

\* main.cpp:86, 84: main does not exit under the walk, although it never joins
\* the walker; only an exception of add ends the process then.
THEOREM WalkEndsFirst == Spec => []ExitAfterWalk
<1>1. InitInv => ExitAfterWalk
  BY DEF InitInv, FlagInv, ExitAfterWalk
<1> QED BY <1>1, Invariance, PTL

\* _file.cpp:35-74: the walk finds every regular file that is to be found, once,
\* in whatever tree, and lstat and opendir failing only take away from it.
THEOREM WalkFindsAll == Spec => []WalkCovers
<1>1. InitInv => WalkCovers
  <2> SUFFICES ASSUME InitInv, wpc = "done"
               PROVE  /\ Cardinality(Found) = Len(visited)
                      /\ Found \subseteq Files /\ (~failed => Found = Files)
    BY DEF WalkCovers, Found
  <2>1. Left(stack) = {}
    BY DEF InitInv, WalkInv, Left
  <2>2. Found \subseteq Files /\ (~failed => Found = Files)
    BY <2>1 DEF InitInv, WalkInv
  <2>3. Len(visited) \in Nat /\ DOMAIN visited = 1 .. Len(visited)
    BY LenProperties DEF InitInv, Types
  <2>4. visited \in Bijection(1 .. Len(visited), Found)
    <3>1. visited \in [1 .. Len(visited) -> Found]
      BY <2>3, LenProperties DEF InitInv, Types, Found
    <3>2. \A i, j \in 1 .. Len(visited) : visited[i] = visited[j] => i = j
      BY <2>3 DEF InitInv, WalkInv
    <3>3. \A e \in Found : \E i \in 1 .. Len(visited) : visited[i] = e
      BY <2>3 DEF Found
    <3> QED
      BY <3>1, <3>2, <3>3, Fun_IsBij
  <2>5. Cardinality(Found) = Len(visited)
    BY <2>3, <2>4, FS_CountingElements DEF ExistsBijection
  <2> QED
    BY <2>2, <2>5
<1> QED BY <1>1, Invariance, PTL

\* A sequence of n numbers, each its place, is the sequence of the first n.
LEMMA Numbered ==
  ASSUME NEW s \in Seq(Nat), NEW n \in Nat, Len(s) = n, \A i \in 1 .. n : s[i] = i
  PROVE  s = Values(n)
<1> DEFINE t == Values(n)
<1>1. t \in Seq(Nat) /\ Len(t) = n /\ \A i \in 1 .. n : t[i] = i
  BY DEF Values
<1> HIDE DEF t
<1>2. s = t
  BY <1>1, SeqEqual
<1> QED BY <1>2 DEF t

\* main.cpp:37, 42: in_db calls ef_db::add for the files in the order of the
\* walk, leaving none out and none twice, whether it ends or is terminated; what
\* its early end costs is a tail of the walk.
THEOREM OnlyTailLost == Spec => []LostIsTail
<1>1. InitInv => LostIsTail
  <2> SUFFICES ASSUME InitInv
               PROVE  /\ added = Values(Len(added))
                      /\ mpc = "ended" => added \o dropped = Values(Len(visited))
    BY DEF LostIsTail
  <2>1. /\ added \in Seq(Nat) /\ dropped \in Seq(Nat)
        /\ Len(visited) \in Nat /\ Len(added) \in Nat /\ Len(dropped) \in Nat
    BY LenProperties DEF InitInv, Types
  <2>2. \A i \in 1 .. Len(added) : added[i] = i
    BY DEF InitInv, InOrder
  <2>3. added = Values(Len(added))
    BY <2>1, <2>2, Numbered
  <2>4. ASSUME mpc = "ended" PROVE added \o dropped = Values(Len(visited))
    <3>1. Len(added) + Len(dropped) = Len(visited)
      <4>1. queue = <<>> /\ Len(queue) = 0 /\ Held = 0
        BY <2>4, EmptySeq DEF InitInv, InOrder, FlagInv, Held
      <4> QED
        BY <2>1, <4>1, LenProperties DEF InitInv, Types, InOrder
    <3>2. \A i \in 1 .. Len(visited) : (added \o dropped)[i] = i
      BY <2>1, <3>1, ConcatProperties DEF InitInv, InOrder
    <3>3. added \o dropped \in Seq(Nat) /\ Len(added \o dropped) = Len(visited)
      BY <2>1, <3>1, ConcatProperties
    <3> QED
      BY <2>1, <3>2, <3>3, Numbered
  <2> QED
    BY <2>3, <2>4
<1> QED BY <1>1, Invariance, PTL
=============================================================================
