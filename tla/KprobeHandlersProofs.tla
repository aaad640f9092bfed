------------------------ MODULE KprobeHandlersProofs ------------------------
(***************************************************************************)
(* Proofs about KprobeHandlers, for any number of CPUs, probes and hits    *)
(* and any mount table.                                                    *)
(***************************************************************************)
EXTENDS KprobeHandlers, SequenceTheorems, TLAPS

\* TypeOK without the roots, which RootInv is about.
HandlerTypes ==
  /\ data \in [Probes -> Hits \cup {"null"}]
  /\ dev \in [Hits -> Hits \cup {"uninit"}]
  /\ path \in [Hits -> Hits \cup {"uninit", "null"}]
  /\ text \in [Hits -> Hits \cup {"uninit"}]
  /\ pc \in [Cpus -> Steps]
  /\ hit \in [Cpus -> Hits \cup {Nobody}]
  /\ at \in [Cpus -> Probes \cup {Nobody}]
  /\ args \in [Cpus -> Hits \cup {"null"}]
  /\ DOMAIN root = Cpus
  /\ probeOf \in [Hits -> Probes \cup {Nobody}]
  /\ clashed \subseteq Hits

\* A CPU that is not idle or astray is in a hit, the hit in its probe; and
\* two CPUs in one probe have both clashed.
HitInv ==
  \A c \in Cpus :
    /\ pc[c] \in {"idle", "astray"} <=> at[c] = Nobody
    /\ at[c] # Nobody => hit[c] \in Hits /\ probeOf[hit[c]] = at[c]
    /\ \A o \in Cpus \ {c} :
         at[c] # Nobody /\ at[o] = at[c] => hit[c] \in clashed
    /\ pc[c] \in {"fill", "set", "copy"} => args[c] # "null"

\* Whatever is reached from entry->data belongs to the entry's probe.
ProbeInv ==
  /\ \A p \in Probes : data[p] \in Hits => probeOf[data[p]] = p
  /\ \A c \in Cpus :
       args[c] \in Hits => at[c] # Nobody /\ probeOf[args[c]] = at[c]
  /\ \A h \in Hits :
       /\ path[h] \in Hits => probeOf[h] # Nobody /\ probeOf[path[h]] = probeOf[h]
       /\ text[h] \in Hits => probeOf[h] # Nobody /\ probeOf[text[h]] = probeOf[h]
  /\ \A r \in recorded : r.by \in Hits /\ r.path \in Hits /\ probeOf[r.by] # Nobody
  /\ KindKept

\* What a hit that is alone in its probe has found and written so far.
AloneInv ==
  /\ \A c \in Cpus : at[c] # Nobody /\ hit[c] \notin clashed =>
       LET h == hit[c] IN
         /\ pc[c] = "check" => data[at[c]] \in {h, "null"}
         /\ pc[c] \in {"args", "reset", "fill", "set", "post", "post_args"}
              => data[at[c]] = h
         /\ pc[c] \in {"reset", "fill", "set", "get_root", "copy"} => args[c] = h
         /\ pc[c] \in {"fill", "set", "post", "post_args", "get_root", "copy"}
              => dev[h] = h
         /\ pc[c] \in {"set", "post", "post_args", "get_root", "copy"} => text[h] = h
         /\ pc[c] \in {"post", "post_args", "get_root", "copy"} => path[h] = h
         /\ pc[c] = "copy" => root[c].by = h
  /\ AloneIsExact

\* x is a root that get_root can give for the device x.by has written.
Rooted(x) ==
  /\ x.mp \in MountPoints /\ ~IsSpecialMp(x.mp)
  /\ x.by \in Hits =>
       \E i \in DOMAIN Lines : Low(Lines[i].dev) = Low(DevOf[x.by]) /\ Lines[i].mp = x.mp

\* The table holds lines of mountinfo, and each root was found in it.
RootInv ==
  /\ DOMAIN partitions \subseteq DOMAIN Lines
  /\ \A k \in DOMAIN partitions :
       partitions[k].dev = Low(Lines[k].dev) /\ partitions[k].root = Lines[k].mp
  /\ root \in [Cpus -> [by : Hits \cup {Nobody, "uninit"}, mp : MountPoints]]
  /\ \A c \in Cpus : pc[c] = "copy" => root[c].by # Nobody /\ Rooted(root[c])
  /\ recorded \subseteq [by : Hits,
                         root : [by : Hits \cup {"uninit"}, mp : MountPoints],
                         path : Hits, text : Hits \cup {"uninit"}]
  /\ \A r \in recorded : Rooted(r.root)

HandlerInv == HandlerTypes /\ HitInv /\ ProbeInv /\ AloneInv /\ RootInv

-----------------------------------------------------------------------------
(* The steps.                                                              *)

\* No step leaves the types.
LEMMA TypesStep == HandlerTypes /\ HitInv /\ [Next]_vars => HandlerTypes'
<1> SUFFICES ASSUME HandlerTypes /\ HitInv, [Next]_vars PROVE HandlerTypes'
  OBVIOUS
<1> USE NamesAssumption DEF Goto, In, Local, argsVars, histVars, Nobody,
        NoRoot, Steps, HandlerTypes, HitInv
<1>1. ASSUME NEW c \in Cpus, NEW p \in Probes, NEW h \in Hits, Fire(c, p, h)
      PROVE  HandlerTypes'
  BY <1>1 DEF Fire, Sharing
<1>2. ASSUME NEW c \in Cpus, PreAlloc(c) PROVE HandlerTypes'
  BY <1>2 DEF PreAlloc
<1>3. ASSUME NEW c \in Cpus, PreCheck(c) PROVE HandlerTypes'
  BY <1>3 DEF PreCheck, PreFails, Leave, LeaveTo
<1>4. ASSUME NEW c \in Cpus, PreArgs(c) PROVE HandlerTypes'
  BY <1>4 DEF PreArgs
<1>5. ASSUME NEW c \in Cpus, PreReset(c) PROVE HandlerTypes'
  BY <1>5 DEF PreReset
<1>6. ASSUME NEW c \in Cpus, PreFill(c) PROVE HandlerTypes'
  <2>1. /\ UNCHANGED <<data, dev, path, probeOf, clashed>>
        /\ \E step \in {"set", "idle", "astray"} : pc' = [pc EXCEPT ![c] = step]
    BY <1>6 DEF PreFill, PreFails, Leave, LeaveTo
  <2>2. text' = text \/ text' = [text EXCEPT ![args[c]] = hit[c]]
    BY <1>6 DEF PreFill
  <2>3. /\ UNCHANGED Local
        \/ /\ hit' = [hit EXCEPT ![c] = Nobody] /\ at' = [at EXCEPT ![c] = Nobody]
           /\ args' = [args EXCEPT ![c] = "null"] /\ root' = [root EXCEPT ![c] = NoRoot]
    BY <1>6 DEF PreFill, PreFails, Leave, LeaveTo
  <2>4. hit[c] \in Hits
    BY <1>6 DEF PreFill
  <2> QED
    BY <2>1, <2>2, <2>3, <2>4
<1>7. ASSUME NEW c \in Cpus, PreSet(c) PROVE HandlerTypes'
  BY <1>7 DEF PreSet
<1>8. ASSUME NEW c \in Cpus, Post(c) PROVE HandlerTypes'
  BY <1>8 DEF Post, Leave, LeaveTo
<1>9. ASSUME NEW c \in Cpus, PostArgs(c) PROVE HandlerTypes'
  BY <1>9 DEF PostArgs
<1>10. ASSUME NEW c \in Cpus, PostGetRoot(c) PROVE HandlerTypes'
  BY <1>10 DEF PostGetRoot, Leave, LeaveTo
<1>11. ASSUME NEW c \in Cpus, PostCopy(c) PROVE HandlerTypes'
  BY <1>11 DEF PostCopy, Leave, LeaveTo
<1>12. CASE UNCHANGED vars
  BY <1>12 DEF vars
<1> HIDE DEF Goto, In, Local, argsVars, histVars, Nobody, NoRoot, Steps,
         HandlerTypes, HitInv
<1> QED BY <1>1, <1>2, <1>3, <1>4, <1>5, <1>6, <1>7, <1>8, <1>9, <1>10, <1>11,
           <1>12 DEF Next, Cpu

\* Whoever enters a probe clashes with whoever is in it.
LEMMA HitStep == HandlerTypes /\ HitInv /\ [Next]_vars => HitInv'
<1> SUFFICES ASSUME HandlerTypes /\ HitInv, [Next]_vars PROVE HitInv'
  OBVIOUS
<1> USE NamesAssumption DEF Goto, In, Local, argsVars, histVars, Nobody,
        NoRoot, Steps, HandlerTypes, HitInv
<1>1. ASSUME NEW c \in Cpus, NEW p \in Probes, NEW h \in Hits, Fire(c, p, h)
      PROVE  HitInv'
  BY <1>1 DEF Fire, Sharing
<1>2. ASSUME NEW c \in Cpus, PreAlloc(c) PROVE HitInv'
  BY <1>2 DEF PreAlloc
<1>3. ASSUME NEW c \in Cpus, PreCheck(c) PROVE HitInv'
  BY <1>3 DEF PreCheck, PreFails, Leave, LeaveTo
<1>4. ASSUME NEW c \in Cpus, PreArgs(c) PROVE HitInv'
  BY <1>4 DEF PreArgs
<1>5. ASSUME NEW c \in Cpus, PreReset(c) PROVE HitInv'
  BY <1>5 DEF PreReset
<1>6. ASSUME NEW c \in Cpus, PreFill(c) PROVE HitInv'
  BY <1>6 DEF PreFill, PreFails, Leave, LeaveTo
<1>7. ASSUME NEW c \in Cpus, PreSet(c) PROVE HitInv'
  BY <1>7 DEF PreSet
<1>8. ASSUME NEW c \in Cpus, Post(c) PROVE HitInv'
  BY <1>8 DEF Post, Leave, LeaveTo
<1>9. ASSUME NEW c \in Cpus, PostArgs(c) PROVE HitInv'
  BY <1>9 DEF PostArgs
<1>10. ASSUME NEW c \in Cpus, PostGetRoot(c) PROVE HitInv'
  BY <1>10 DEF PostGetRoot, Leave, LeaveTo
<1>11. ASSUME NEW c \in Cpus, PostCopy(c) PROVE HitInv'
  BY <1>11 DEF PostCopy, Leave, LeaveTo
<1>12. CASE UNCHANGED vars
  BY <1>12 DEF vars
<1> HIDE DEF Goto, In, Local, argsVars, histVars, Nobody, NoRoot, Steps,
         HandlerTypes, HitInv
<1> QED BY <1>1, <1>2, <1>3, <1>4, <1>5, <1>6, <1>7, <1>8, <1>9, <1>10, <1>11,
           <1>12 DEF Next, Cpu

\* Nothing crosses from one probe to another.
LEMMA ProbeStep == HandlerTypes /\ HitInv /\ ProbeInv /\ [Next]_vars => ProbeInv'
<1> SUFFICES ASSUME HandlerTypes /\ HitInv /\ ProbeInv, [Next]_vars PROVE ProbeInv'
  OBVIOUS
<1> USE NamesAssumption DEF Goto, In, Local, argsVars, histVars, Nobody,
        NoRoot, Steps, HandlerTypes, HitInv, ProbeInv, KindKept
<1>1. ASSUME NEW c \in Cpus, NEW p \in Probes, NEW h \in Hits, Fire(c, p, h)
      PROVE  ProbeInv'
  <2>1. UNCHANGED <<data, args, path, text, recorded>> /\ at[c] = Nobody
    BY <1>1 DEF Fire
  <2>2. /\ \A x \in Hits : probeOf[x] # Nobody => probeOf'[x] = probeOf[x]
        /\ \A o \in Cpus : at[o] # Nobody => at'[o] = at[o]
    BY <1>1, <2>1 DEF Fire
  <2>3. QED
    BY <2>1, <2>2
<1>2. ASSUME NEW c \in Cpus, PreAlloc(c) PROVE ProbeInv'
  BY <1>2 DEF PreAlloc
<1>3. ASSUME NEW c \in Cpus, PreCheck(c) PROVE ProbeInv'
  BY <1>3 DEF PreCheck, PreFails, Leave, LeaveTo
<1>4. ASSUME NEW c \in Cpus, PreArgs(c) PROVE ProbeInv'
  BY <1>4 DEF PreArgs
<1>5. ASSUME NEW c \in Cpus, PreReset(c) PROVE ProbeInv'
  BY <1>5 DEF PreReset
<1>6. ASSUME NEW c \in Cpus, PreFill(c) PROVE ProbeInv'
  BY <1>6 DEF PreFill, PreFails, Leave, LeaveTo
<1>7. ASSUME NEW c \in Cpus, PreSet(c) PROVE ProbeInv'
  BY <1>7 DEF PreSet
<1>8. ASSUME NEW c \in Cpus, Post(c) PROVE ProbeInv'
  BY <1>8 DEF Post, Leave, LeaveTo
<1>9. ASSUME NEW c \in Cpus, PostArgs(c) PROVE ProbeInv'
  BY <1>9 DEF PostArgs
<1>10. ASSUME NEW c \in Cpus, PostGetRoot(c) PROVE ProbeInv'
  BY <1>10 DEF PostGetRoot, Leave, LeaveTo
<1>11. ASSUME NEW c \in Cpus, PostCopy(c) PROVE ProbeInv'
  BY <1>11 DEF PostCopy, Leave, LeaveTo
<1>12. CASE UNCHANGED vars
  BY <1>12 DEF vars
<1> HIDE DEF Goto, In, Local, argsVars, histVars, Nobody, NoRoot, Steps,
         HandlerTypes, HitInv, ProbeInv, KindKept
<1> QED BY <1>1, <1>2, <1>3, <1>4, <1>5, <1>6, <1>7, <1>8, <1>9, <1>10, <1>11,
           <1>12 DEF Next, Cpu

\* Nobody touches what belongs to a hit that is alone.
LEMMA AloneStep == HandlerTypes /\ HitInv /\ ProbeInv /\ AloneInv /\ [Next]_vars => AloneInv'
<1> SUFFICES ASSUME HandlerTypes /\ HitInv /\ ProbeInv /\ AloneInv, [Next]_vars PROVE AloneInv'
  OBVIOUS
<1> USE NamesAssumption DEF Goto, In, Local, argsVars, histVars, Nobody,
        NoRoot, Steps, HandlerTypes, HitInv, ProbeInv, AloneInv, AloneIsExact,
        Own
<1>1. ASSUME NEW c \in Cpus, NEW p \in Probes, NEW h \in Hits, Fire(c, p, h)
      PROVE  AloneInv'
  BY <1>1 DEF Fire, Sharing
<1>2. ASSUME NEW c \in Cpus, PreAlloc(c) PROVE AloneInv'
  BY <1>2 DEF PreAlloc
<1>3. ASSUME NEW c \in Cpus, PreCheck(c) PROVE AloneInv'
  <2>1. /\ pc[c] = "check" /\ UNCHANGED <<data, argsVars, histVars>>
        /\ \E step \in {"idle", "astray", "args"} : pc' = [pc EXCEPT ![c] = step]
        /\ \A o \in Cpus \ {c} : UNCHANGED <<hit[o], at[o], args[o], root[o]>>
    BY <1>3 DEF PreCheck, PreFails, Leave, LeaveTo
  <2>2. pc'[c] = "args" => data[at[c]] # "null" /\ UNCHANGED Local
    BY <1>3 DEF PreCheck, PreFails, Leave, LeaveTo
  <2>3. AloneIsExact'
    BY <2>1, <2>2
  <2> QED
    BY <2>1, <2>2, <2>3
<1>4. ASSUME NEW c \in Cpus, PreArgs(c) PROVE AloneInv'
  BY <1>4 DEF PreArgs
<1>5. ASSUME NEW c \in Cpus, PreReset(c) PROVE AloneInv'
  BY <1>5 DEF PreReset
<1>6. ASSUME NEW c \in Cpus, PreFill(c) PROVE AloneInv'
  <2>1. /\ pc[c] = "fill" /\ UNCHANGED <<data, dev, path, histVars>>
        /\ \A o \in Cpus \ {c} : UNCHANGED <<hit[o], at[o], args[o], root[o]>>
    BY <1>6 DEF PreFill, PreFails, Leave, LeaveTo
  <2>2. CASE text' = [text EXCEPT ![args[c]] = hit[c]] /\ UNCHANGED Local
             /\ pc' = [pc EXCEPT ![c] = "set"]
    BY <2>1, <2>2
  <2>3. CASE UNCHANGED text /\ PreFails(c)
    <3>1. /\ at'[c] = Nobody
          /\ \E step \in {"idle", "astray"} : pc' = [pc EXCEPT ![c] = step]
      BY <2>3 DEF PreFails, Leave, LeaveTo
    <3>2. AloneIsExact'
      BY <2>1, <3>1
    <3>3. /\ \A o \in Cpus : at'[o] # Nobody =>
               o # c /\ pc'[o] = pc[o] /\ UNCHANGED <<hit[o], at[o], args[o], root[o]>>
          /\ UNCHANGED <<data, dev, path, text, clashed>>
      BY <2>1, <2>3, <3>1
    <3> HIDE DEF Steps, AloneIsExact, Own, KindKept, ProbeInv, HitInv, HandlerTypes
    <3> QED
      BY ONLY AloneInv, <3>2, <3>3 DEF AloneInv
  <2> QED
    BY <1>6, <2>2, <2>3 DEF PreFill
<1>7. ASSUME NEW c \in Cpus, PreSet(c) PROVE AloneInv'
  BY <1>7 DEF PreSet
<1>8. ASSUME NEW c \in Cpus, Post(c) PROVE AloneInv'
  BY <1>8 DEF Post, Leave, LeaveTo
<1>9. ASSUME NEW c \in Cpus, PostArgs(c) PROVE AloneInv'
  BY <1>9 DEF PostArgs
<1>10. ASSUME NEW c \in Cpus, PostGetRoot(c) PROVE AloneInv'
  BY <1>10 DEF PostGetRoot, Leave, LeaveTo
<1>11. ASSUME NEW c \in Cpus, PostCopy(c) PROVE AloneInv'
  <2>1. /\ pc[c] = "copy" /\ UNCHANGED <<data, argsVars, clashed>>
        /\ \A o \in Cpus \ {c} : UNCHANGED <<pc[o], hit[o], at[o], args[o], root[o]>>
    BY <1>11 DEF PostCopy, Leave, LeaveTo
  <2>2. /\ pc'[c] = "oops" => UNCHANGED hit /\ path[args[c]] \in {"null", "uninit"}
        /\ pc'[c] = "idle" => at'[c] = Nobody
        /\ pc'[c] \in {"oops", "idle"}
    BY <1>11 DEF PostCopy, Leave, LeaveTo
  <2>3. AloneIsExact'
    BY <1>11, <2>1, <2>2 DEF PostCopy
  <2> QED
    BY <2>1, <2>2, <2>3
<1>12. CASE UNCHANGED vars
  BY <1>12 DEF vars
<1> HIDE DEF Goto, In, Local, argsVars, histVars, Nobody, NoRoot, Steps,
         HandlerTypes, HitInv, ProbeInv, AloneInv, AloneIsExact, Own
<1> QED BY <1>1, <1>2, <1>3, <1>4, <1>5, <1>6, <1>7, <1>8, <1>9, <1>10, <1>11,
           <1>12 DEF Next, Cpu

-----------------------------------------------------------------------------
(* The mount table.                                                        *)

\* What parse_mounts_info keeps of a line is its own, and not special.
LEMMA TableOfLines ==
  ASSUME NEW missing, NEW k \in DOMAIN ParseMountsInfo(Lines, missing)
  PROVE  /\ k \in DOMAIN Lines
         /\ ParseMountsInfo(Lines, missing)[k].dev = Low(Lines[k].dev)
         /\ ParseMountsInfo(Lines, missing)[k].root = Lines[k].mp
BY DEF ParseMountsInfo

\* What get_root finds is the mount point of a line whose device has the same
\* low bytes.
LEMMA GetRootFinds ==
  ASSUME RootInv, NEW d, NEW mp \in GetRoot(partitions, d)
  PROVE  \E i \in DOMAIN Lines : Low(Lines[i].dev) = d /\ Lines[i].mp = mp
BY DEF GetRoot, RootInv

\* A sequence cut off after its first element.
LEMMA FirstOnly ==
  ASSUME NEW T, NEW s \in Seq(T), Len(s) >= 1
  PROVE  SubSeq(s, 1, 1) = <<s[1]>>
<1>1. ASSUME NEW m \in Int, m = 1 PROVE SubSeq(s, m, m) = <<s[m]>>
  <2>1. \A i \in m .. m : s[i] \in T
    <3>1. s[1] \in T
      BY ElementOfSeq, LenProperties
    <3> QED
      BY <1>1, <3>1
  <2>2. /\ SubSeq(s, m, m) \in Seq(T)
        /\ Len(SubSeq(s, m, m)) = IF m <= m THEN m - m + 1 ELSE 0
        /\ \A i \in 1 .. m - m + 1 : SubSeq(s, m, m)[i] = s[m + i - 1]
    BY ONLY <2>1, m \in Int, SubSeqProperties
  <2> DEFINE t == SubSeq(s, m, m)
  <2>3. t \in Seq(T) /\ Len(t) = 1 /\ t[1] = s[m]
    BY <1>1, <2>2
  <2>4. <<s[m]>> \in Seq(T) /\ Len(<<s[m]>>) = 1 /\ <<s[m]>>[1] = s[m]
    BY <1>1, <2>1
  <2> HIDE DEF t
  <2>5. t = <<s[m]>>
    BY <2>3, <2>4, SeqEqual
  <2> QED
    BY <2>5 DEF t
<1> QED BY <1>1

\* Below none of the directories that are left out is what is_special_mp lets
\* pass: it compares whole components, not the beginning of one.
LEMMA NotSpecial ==
  ASSUME NEW Names, NEW mp \in Seq(Names), ~IsSpecialMp(mp), mp # <<>>
  PROVE  mp[1] \notin {"sys", "proc", "run", "dev", "var", "tmp"}
<1>1. Len(mp) \in Nat /\ Len(mp) >= 1 /\ mp[1] \in Names
  BY EmptySeq, LenProperties, ElementOfSeq
<1>2. ASSUME NEW dir \in Names, mp[1] = dir PROVE MountedAt(mp, <<dir>>)
  <2>1. <<dir>> \in Seq(Names) /\ Len(<<dir>>) = 1 /\ <<dir>>[1] = dir
    OBVIOUS
  <2>2. CASE Len(mp) = 1
    <3>1. mp = <<dir>>
      BY <1>2, <2>1, <2>2, SeqEqual
    <3> QED
      BY <3>1 DEF MountedAt
  <2>3. CASE Len(mp) > 1
    <3>1. SubSeq(mp, 1, 1) = <<dir>>
      BY <1>1, <1>2, FirstOnly
    <3> QED
      BY <2>1, <2>3, <3>1 DEF MountedAt
  <2> QED
    BY <1>1, <2>2, <2>3
<1>3. <<mp[1]>> \notin SpecialDirs
  BY <1>1, <1>2 DEF IsSpecialMp
<1> QED BY <1>3 DEF SpecialDirs

\* The mount point of a line is a path.
LEMMA MpOfLine == \A i \in DOMAIN Lines : Lines[i].mp \in Seq(STRING)
<1> DEFINE P == Seq(STRING)
<1>1. Lines \in Seq([dev : Nat \X Nat, mp : P])
  BY LinesAssumption
<1> HIDE DEF P
<1>2. \A i \in DOMAIN Lines : Lines[i] \in [dev : Nat \X Nat, mp : P]
  BY <1>1, LenProperties, ElementOfSeq
<1>3. \A i \in DOMAIN Lines : Lines[i].mp \in P
  BY <1>2
<1> QED BY <1>3 DEF P

\* A step that neither finds a root nor records.
LEMMA RootKept ==
  ASSUME RootInv, NEW c \in Cpus, UNCHANGED <<partitions, recorded>>,
         DOMAIN root = Cpus, pc \in [Cpus -> Steps],
         root' = root \/ root' = [root EXCEPT ![c] = NoRoot],
         NEW step, pc' = [pc EXCEPT ![c] = step], step # "copy"
  PROVE  RootInv'
<1>1. NoRoot \in [by : Hits \cup {Nobody, "uninit"}, mp : MountPoints]
  BY DEF NoRoot, MountPoints
<1>2. root' \in [Cpus -> [by : Hits \cup {Nobody, "uninit"}, mp : MountPoints]]
  BY <1>1 DEF RootInv
<1>3. \A o \in Cpus : pc'[o] = "copy" => root'[o].by # Nobody /\ Rooted(root'[o])
  BY DEF RootInv
<1> QED BY <1>2, <1>3 DEF RootInv, Rooted

\* Every root comes out of the table.
LEMMA RootStep == HandlerTypes /\ HitInv /\ RootInv /\ [Next]_vars => RootInv'
<1> SUFFICES ASSUME HandlerTypes /\ HitInv /\ RootInv, [Next]_vars PROVE RootInv'
  OBVIOUS
<1> USE DEF Goto, In, Local, argsVars, histVars
<1>1. DOMAIN root = Cpus /\ pc \in [Cpus -> Steps]
  BY DEF HandlerTypes
<1>2. ASSUME NEW c \in Cpus, NEW p \in Probes, NEW h \in Hits, Fire(c, p, h)
      PROVE  RootInv'
  BY <1>1, <1>2, RootKept DEF Fire
<1>3. ASSUME NEW c \in Cpus, PreAlloc(c) PROVE RootInv'
  BY <1>1, <1>3, RootKept DEF PreAlloc
<1>4. ASSUME NEW c \in Cpus, PreCheck(c) PROVE RootInv'
  BY <1>1, <1>4, RootKept DEF PreCheck, PreFails, Leave, LeaveTo
<1>5. ASSUME NEW c \in Cpus, PreArgs(c) PROVE RootInv'
  BY <1>1, <1>5, RootKept DEF PreArgs
<1>6. ASSUME NEW c \in Cpus, PreReset(c) PROVE RootInv'
  BY <1>1, <1>6, RootKept DEF PreReset
<1>7. ASSUME NEW c \in Cpus, PreFill(c) PROVE RootInv'
  BY <1>1, <1>7, RootKept DEF PreFill, PreFails, Leave, LeaveTo
<1>8. ASSUME NEW c \in Cpus, PreSet(c) PROVE RootInv'
  BY <1>1, <1>8, RootKept DEF PreSet
<1>9. ASSUME NEW c \in Cpus, Post(c) PROVE RootInv'
  BY <1>1, <1>9, RootKept DEF Post, Leave, LeaveTo
<1>10. ASSUME NEW c \in Cpus, PostArgs(c) PROVE RootInv'
  BY <1>1, <1>10, RootKept DEF PostArgs
<1>11. ASSUME NEW c \in Cpus, PostGetRoot(c) PROVE RootInv'
  <2> DEFINE by == dev[args[c]]
             found == IF by = "uninit"
                      THEN {partitions[k].root : k \in DOMAIN partitions}
                      ELSE GetRoot(partitions, Low(DevOf[by]))
             good == {mp \in found : ~IsSpecialMp(mp)}
  <2>1. CASE args[c] = "null" \/ Leave(c)
    BY <1>1, <1>11, <2>1, RootKept DEF PostGetRoot, Leave, LeaveTo
  <2>2. ASSUME args[c] # "null", NEW mp \in good,
               root' = [root EXCEPT ![c] = [by |-> by, mp |-> mp]],
               pc' = [pc EXCEPT ![c] = "copy"]
        PROVE  RootInv'
    <3>1. args[c] \in Hits /\ by \in Hits \cup {"uninit"} /\ by # Nobody
      BY <2>2, NamesAssumption DEF HandlerTypes, Nobody
    <3>2. /\ \E i \in DOMAIN Lines : Lines[i].mp = mp
          /\ by \in Hits => \E i \in DOMAIN Lines :
                              Low(Lines[i].dev) = Low(DevOf[by]) /\ Lines[i].mp = mp
      <4>1. CASE by = "uninit"
        BY <2>2, <4>1, NamesAssumption DEF RootInv
      <4>2. CASE by # "uninit"
        BY <2>2, <4>2, GetRootFinds
      <4> QED
        BY <4>1, <4>2
    <3> DEFINE new == [by |-> by, mp |-> mp]
    <3>3. new \in [by : Hits \cup {Nobody, "uninit"}, mp : MountPoints]
      BY <3>1, <3>2 DEF MountPoints
    <3>4. new.by # Nobody /\ Rooted(new)
      BY <2>2, <3>1, <3>2, <3>3 DEF Rooted
    <3> HIDE DEF new, by, good
    <3>5. UNCHANGED <<partitions, recorded>> /\ root' = [root EXCEPT ![c] = new]
      BY <1>11, <2>2 DEF PostGetRoot, new
    <3>6. /\ root' \in [Cpus -> [by : Hits \cup {Nobody, "uninit"}, mp : MountPoints]]
          /\ \A o \in Cpus : pc'[o] = "copy" => root'[o].by # Nobody /\ Rooted(root'[o])
      BY <1>1, <2>2, <3>3, <3>4, <3>5 DEF RootInv
    <3> QED
      BY <3>5, <3>6 DEF RootInv, Rooted
  <2> QED
    BY <1>11, <2>1, <2>2 DEF PostGetRoot
<1>12. ASSUME NEW c \in Cpus, PostCopy(c) PROVE RootInv'
  <2> DEFINE r == [by |-> hit[c], root |-> root[c],
                   path |-> path[args[c]], text |-> text[args[c]]]
  <2>1. /\ UNCHANGED partitions /\ pc[c] = "copy"
        /\ recorded' \in {recorded, recorded \cup {r}}
        /\ pc' = [pc EXCEPT ![c] = "oops"] \/ pc' = [pc EXCEPT ![c] = "idle"]
        /\ root' = root \/ root' = [root EXCEPT ![c] = NoRoot]
    BY <1>12 DEF PostCopy, Leave, LeaveTo
  <2>2. CASE recorded' = recorded
    BY <1>1, <2>1, <2>2, RootKept
  <2>3. CASE recorded' # recorded
    <3>1. /\ hit[c] \in Hits /\ args[c] \in Hits
          /\ path[args[c]] \in Hits /\ text[args[c]] \in Hits \cup {"uninit"}
      BY <1>12, <2>1, <2>3 DEF PostCopy, HandlerTypes, HitInv
    <3>2. root[c] \in [by : Hits \cup {"uninit"}, mp : MountPoints] /\ Rooted(root[c])
      BY <2>1 DEF RootInv
    <3>3. /\ r \in [by : Hits, root : [by : Hits \cup {"uninit"}, mp : MountPoints],
                    path : Hits, text : Hits \cup {"uninit"}]
          /\ Rooted(r.root)
      BY <3>1, <3>2
    <3> HIDE DEF r
    <3>4. /\ recorded' \subseteq [by : Hits,
                         root : [by : Hits \cup {"uninit"}, mp : MountPoints],
                         path : Hits, text : Hits \cup {"uninit"}]
          /\ \A x \in recorded' : Rooted(x.root)
      BY <2>1, <3>3 DEF RootInv
    <3>5. NoRoot \in [by : Hits \cup {Nobody, "uninit"}, mp : MountPoints]
      BY DEF NoRoot, MountPoints
    <3>6. /\ root' \in [Cpus -> [by : Hits \cup {Nobody, "uninit"}, mp : MountPoints]]
          /\ \A o \in Cpus : pc'[o] = "copy" => root'[o].by # Nobody /\ Rooted(root'[o])
      BY <1>1, <2>1, <3>5 DEF RootInv
    <3> QED
      BY <2>1, <3>4, <3>6 DEF RootInv, Rooted
  <2> QED
    BY <2>2, <2>3
<1>13. CASE UNCHANGED vars
  BY <1>13 DEF vars, RootInv, Rooted
<1> HIDE DEF Goto, In, Local, argsVars, histVars
<1> QED BY <1>2, <1>3, <1>4, <1>5, <1>6, <1>7, <1>8, <1>9, <1>10, <1>11,
           <1>12, <1>13 DEF Next, Cpu

-----------------------------------------------------------------------------
(* The invariant and what follows from it.                                 *)

\* Nothing is written and nobody is in a handler; the table is as loaded.
LEMMA InitHandlers == Init => HandlerInv
<1> SUFFICES ASSUME Init PROVE HandlerInv
  OBVIOUS
<1>1. HandlerTypes /\ HitInv /\ ProbeInv /\ AloneInv
  BY NamesAssumption
     DEF Init, HandlerTypes, HitInv, ProbeInv, AloneInv, AloneIsExact,
         KindKept, Nobody, Steps, In
<1>2. RootInv
  <2>1. PICK missing \in SUBSET DOMAIN Lines :
               partitions = ParseMountsInfo(Lines, missing)
    BY DEF Init
  <2>2. \A k \in DOMAIN partitions :
          /\ k \in DOMAIN Lines
          /\ partitions[k].dev = Low(Lines[k].dev) /\ partitions[k].root = Lines[k].mp
    BY <2>1, TableOfLines
  <2>3. NoRoot \in [by : Hits \cup {Nobody, "uninit"}, mp : MountPoints]
    BY DEF NoRoot, MountPoints
  <2>4. /\ root \in [Cpus -> [by : Hits \cup {Nobody, "uninit"}, mp : MountPoints]]
        /\ \A c \in Cpus : pc[c] # "copy"
        /\ recorded = {}
    BY <2>3 DEF Init
  <2> QED
    BY <2>2, <2>4 DEF RootInv
<1> QED BY <1>1, <1>2 DEF HandlerInv

\* The inductive invariant of the handlers.
THEOREM Invariance == Spec => []HandlerInv
<1>1. HandlerInv /\ [Next]_vars => HandlerInv'
  BY TypesStep, HitStep, ProbeStep, AloneStep, RootStep DEF HandlerInv
<1> QED BY InitHandlers, <1>1, PTL DEF Spec

\* Every variable keeps to its type; in particular whatever is recorded has a
\* mount point of mountinfo and a path that somebody wrote.
THEOREM TypesKept == Spec => []TypeOK
<1>1. HandlerInv => TypeOK
  BY DEF HandlerInv, HandlerTypes, RootInv, TypeOK
<1> QED BY <1>1, Invariance, PTL

\* vfs_kprobe.c:293, 411-417: nothing is recorded under a mount point that
\* is_special_mp leaves out, however the handlers of a probe mix up their data;
\* and a hit that was alone is recorded under a mount point of its own device,
\* unless the table has another device with the same low bytes.
THEOREM RootsRight == Spec => []RootOfDevice
<1>1. HandlerInv => RootOfDevice
  <2> SUFFICES ASSUME HandlerInv, NEW r \in recorded
               PROVE  LET d == DevOf[r.by]
                          Of(i) == Low(Lines[i].dev) = Low(d)
                      IN  /\ r.root.mp # <<>> => r.root.mp[1] \notin
                                {"sys", "proc", "run", "dev", "var", "tmp"}
                          /\ r.by \notin clashed
                             /\ (\A i \in DOMAIN Lines : Of(i) => Lines[i].dev = d)
                             => \E i \in DOMAIN Lines :
                                  Lines[i].dev = d /\ Lines[i].mp = r.root.mp
    BY DEF RootOfDevice
  <2>1. Rooted(r.root) /\ r.by \in Hits /\ (r.by \notin clashed => r.root.by = r.by)
    BY DEF HandlerInv, RootInv, AloneInv, AloneIsExact, Own, ProbeInv
  <2>2. r.root.mp \in Seq(STRING) /\ ~IsSpecialMp(r.root.mp)
    BY <2>1, MpOfLine, EmptySeq DEF Rooted, MountPoints
  <2> QED
    BY <2>1, <2>2, NotSpecial DEF Rooted
<1> QED BY <1>1, Invariance, PTL

\* vfs_kprobe.c:305, 334: a hit that no other CPU joined in its probe records
\* its own path with its own device and does not oops, whatever memory failed
\* and whatever earlier hits left behind.
THEOREM AloneExact == Spec => []AloneIsExact
<1>1. HandlerInv => AloneIsExact
  BY DEF HandlerInv, AloneInv
<1> QED BY <1>1, Invariance, PTL

\* However many CPUs clash, no path is reported under another operation than
\* the one it was taken at.
THEOREM KindsKept == Spec => []KindKept
<1>1. HandlerInv => KindKept
  BY DEF HandlerInv, ProbeInv
<1> QED BY <1>1, Invariance, PTL
=============================================================================
