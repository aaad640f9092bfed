--------------------------- MODULE KprobeHandlers ---------------------------
(***************************************************************************)
(* pre_handler_common and post_handler_common of kernelmod/vfs_kprobe.c.   *)
(*                                                                         *)
(* A hit is one CPU's passage through a probed function. The two handlers  *)
(* of a hit hand over what they found through entry->data, and there is    *)
(* one entry per probe, not per hit: CPUs that run the handlers of one     *)
(* probe at the same time read and write it together. (Handlers run with   *)
(* preemption off, so a CPU is in one hit at a time.)                      *)
(*                                                                         *)
(* A vfs_op_args is named by the hit that allocated it; it is never freed. *)
(* It holds the device, the pointer path and the text path points into;    *)
(* each is told by the hit that wrote it. Reading path when nobody has     *)
(* written it, or following null, is an oops: what happens then is         *)
(* undefined and that CPU goes no further ("oops"). The same holds after a  *)
(* pre handler that has failed: it returns 1 and leaves the instruction     *)
(* pointer where it is, so the probed instruction is not stepped over and   *)
(* the CPU resumes behind the breakpoint's first byte. That may do no harm, *)
(* or lead anywhere ("astray").                                            *)
(*                                                                         *)
(* The mount table is module Mounts; it is read once, when the module is   *)
(* loaded, so DevOf may have devices that Lines has not.                   *)
(***************************************************************************)
EXTENDS Mounts

CONSTANTS
  Cpus,
  Probes,  \* the probed functions: vfs_create, vfs_unlink, vfs_mkdir, ...
  Hits,    \* bound: the hits of a behaviour
  DevOf,   \* hit |-> the device of the file system it is on
  Lines    \* /proc/self/mountinfo at load time

ASSUME NamesAssumption ==
  /\ {"null", "uninit", "none"} \cap Hits = {}
  /\ "none" \notin Probes

ASSUME LinesAssumption == Lines \in Seq([dev : Nat \X Nat, mp : Seq(STRING)])

VARIABLES
  partitions, \* the mount table
  data,      \* probe |-> entry->data
  dev, path, text,  \* the fields of each vfs_op_args
  pc,        \* each CPU's step
  hit, at,   \* the hit it is in, and its probe
  args,      \* its local args
  root,      \* its local root, and the hit whose device chose it
  probeOf,   \* history: the hits that have happened |-> probe
  recorded,  \* what add_vfs_changed was called with, and by which hit
  clashed    \* history: the hits that were not alone in their probe

argsVars == <<dev, path, text>>
histVars == <<probeOf, recorded, clashed>>
vars == <<partitions, data, argsVars, pc, hit, at, args, root, histVars>>

Steps == {"idle", "alloc", "check", "args", "reset", "fill", "set",
          "post", "post_args", "get_root", "copy", "oops", "astray"}

Nobody == "none"
NoRoot == [by |-> Nobody, mp |-> <<>>]

Init ==
  /\ \E missing \in SUBSET DOMAIN Lines :
       partitions = ParseMountsInfo(Lines, missing)
  /\ data = [p \in Probes |-> "null"]
  /\ dev = [h \in Hits |-> "uninit"]
  /\ path = [h \in Hits |-> "uninit"]
  /\ text = [h \in Hits |-> "uninit"]
  /\ pc = [c \in Cpus |-> "idle"]
  /\ hit = [c \in Cpus |-> Nobody] /\ at = [c \in Cpus |-> Nobody]
  /\ args = [c \in Cpus |-> "null"] /\ root = [c \in Cpus |-> NoRoot]
  /\ probeOf = [h \in Hits |-> Nobody]
  /\ recorded = {} /\ clashed = {}

Goto(c, step) == pc' = [pc EXCEPT ![c] = step]
In(c, step)   == pc[c] = step

Sharing(c, p) == {o \in Cpus \ {c} : at[o] = p}

\* The hit is over, and with it the handlers' locals.
LeaveTo(c, step) ==
  /\ Goto(c, step)
  /\ hit' = [hit EXCEPT ![c] = Nobody]
  /\ at' = [at EXCEPT ![c] = Nobody]
  /\ args' = [args EXCEPT ![c] = "null"]
  /\ root' = [root EXCEPT ![c] = NoRoot]

Leave(c) == LeaveTo(c, "idle")

\* The pre handler returns 1 and there is no post handler.
PreFails(c) == Leave(c) \/ LeaveTo(c, "astray")

Local == <<hit, at, args, root>>

-----------------------------------------------------------------------------
(* pre_handler_common.                                                     *)

Fire(c, p, h) ==
  /\ In(c, "idle")
  /\ probeOf[h] = Nobody
  /\ probeOf' = [probeOf EXCEPT ![h] = p]
  /\ hit' = [hit EXCEPT ![c] = h]
  /\ at' = [at EXCEPT ![c] = p]
  /\ clashed' = clashed \cup {hit[o] : o \in Sharing(c, p)}
                  \cup (IF Sharing(c, p) = {} THEN {} ELSE {h})
  /\ Goto(c, "alloc")
  /\ UNCHANGED <<partitions, data, argsVars, args, root, recorded>>

\* entry->data=kmalloc(...)
PreAlloc(c) ==
  /\ In(c, "alloc")
  /\ \E got \in {hit[c], "null"} : data' = [data EXCEPT ![at[c]] = got]
  /\ Goto(c, "check")
  /\ UNCHANGED <<partitions, argsVars, Local, histVars>>

\* entry->data==0.
PreCheck(c) ==
  /\ In(c, "check")
  /\ IF data[at[c]] = "null"
     THEN PreFails(c)
     ELSE Goto(c, "args") /\ UNCHANGED Local
  /\ UNCHANGED <<partitions, data, argsVars, histVars>>

\* args=entry->data, read again.
PreArgs(c) ==
  /\ In(c, "args")
  /\ args' = [args EXCEPT ![c] = data[at[c]]]
  /\ Goto(c, "reset")
  /\ UNCHANGED <<partitions, data, argsVars, hit, at, root, histVars>>

\* args->path=0 and the device.
PreReset(c) ==
  /\ In(c, "reset")
  /\ IF args[c] = "null"
     THEN Goto(c, "oops") /\ UNCHANGED <<path, dev>>
     ELSE /\ path' = [path EXCEPT ![args[c]] = "null"]
          /\ dev' = [dev EXCEPT ![args[c]] = hit[c]]
          /\ Goto(c, "fill")
  /\ UNCHANGED <<partitions, data, text, Local, histVars>>

\* Variant: IS_ERR(path) is not looked at.
PreFillUnchecked(c) ==
  /\ In(c, "fill")
  /\ \/ /\ text' = [text EXCEPT ![args[c]] = hit[c]]
        /\ Goto(c, "set")
     \/ /\ Goto(c, "post")
        /\ UNCHANGED text
  /\ UNCHANGED <<partitions, data, dev, path, Local, histVars>>

\* dentry_path_raw writes the text, or fails for a path that is too long.
PreFill(c) ==
  /\ In(c, "fill")
  /\ \/ /\ text' = [text EXCEPT ![args[c]] = hit[c]]
        /\ Goto(c, "set")
        /\ UNCHANGED Local
     \/ /\ PreFails(c)
        /\ UNCHANGED text
  /\ UNCHANGED <<partitions, data, dev, path, histVars>>

PreSet(c) ==
  /\ In(c, "set")
  /\ path' = [path EXCEPT ![args[c]] = hit[c]]
  /\ Goto(c, "post")
  /\ UNCHANGED <<partitions, data, dev, text, Local, histVars>>

-----------------------------------------------------------------------------
(* post_handler_common. The register it takes for the call's return value  *)
(* holds anything: the call has not run.                                   *)

Post(c) ==
  /\ In(c, "post")
  /\ \/ Leave(c)
     \/ Goto(c, "post_args") /\ UNCHANGED Local
  /\ UNCHANGED <<partitions, data, argsVars, histVars>>

\* Variant: one entry serves all probes.
PostArgsShared(c) ==
  /\ In(c, "post_args")
  /\ \E p \in Probes : args' = [args EXCEPT ![c] = data[p]]
  /\ Goto(c, "get_root")
  /\ UNCHANGED <<partitions, data, argsVars, hit, at, root, histVars>>

\* args=entry->data. A null args or args->path is logged, and used.
PostArgs(c) ==
  /\ In(c, "post_args")
  /\ args' = [args EXCEPT ![c] = data[at[c]]]
  /\ Goto(c, "get_root")
  /\ UNCHANGED <<partitions, data, argsVars, hit, at, root, histVars>>

\* The root of args' device; none, or a special one, ends the handler. A device
\* that nobody has written may be any.
PostGetRoot(c) ==
  /\ In(c, "get_root")
  /\ IF args[c] = "null"
     THEN Goto(c, "oops") /\ UNCHANGED Local
     ELSE LET by    == dev[args[c]]
              found == IF by = "uninit"
                       THEN {partitions[k].root : k \in DOMAIN partitions}
                       ELSE GetRoot(partitions, Low(DevOf[by]))
              good  == {mp \in found : ~IsSpecialMp(mp)}
          IN  \/ /\ good = {} \/ by = "uninit"
                 /\ Leave(c)
              \/ /\ \E mp \in good : root' = [root EXCEPT ![c] = [by |-> by, mp |-> mp]]
                 /\ Goto(c, "copy")
                 /\ UNCHANGED <<hit, at, args>>
  /\ UNCHANGED <<partitions, data, argsVars, histVars>>

\* Variant: a null path is taken for an empty one.
PostCopyEmpty(c) ==
  /\ In(c, "copy")
  /\ recorded' = recorded \cup {[by |-> hit[c], root |-> root[c],
                                path |-> path[args[c]],
                                text |-> text[args[c]]]}
  /\ Leave(c)
  /\ UNCHANGED <<partitions, data, argsVars, probeOf, clashed>>

\* strlen and memcpy of args->path, then add_vfs_changed; the copy's kmalloc
\* can fail.
PostCopy(c) ==
  /\ In(c, "copy")
  /\ IF path[args[c]] \in {"null", "uninit"}
     THEN Goto(c, "oops") /\ UNCHANGED <<recorded, Local>>
     ELSE /\ recorded' \in
               {recorded,
                recorded \cup {[by |-> hit[c], root |-> root[c],
                                path |-> path[args[c]],
                                text |-> text[args[c]]]}}
          /\ Leave(c)
  /\ UNCHANGED <<partitions, data, argsVars, probeOf, clashed>>

-----------------------------------------------------------------------------
Cpu(c) ==
  \/ \E p \in Probes, h \in Hits : Fire(c, p, h)
  \/ PreAlloc(c) \/ PreCheck(c) \/ PreArgs(c) \/ PreReset(c) \/ PreFill(c)
  \/ PreSet(c)
  \/ Post(c) \/ PostArgs(c) \/ PostGetRoot(c) \/ PostCopy(c)

Next == \E c \in Cpus : Cpu(c)

Spec == Init /\ [][Next]_vars

-----------------------------------------------------------------------------
(* Properties.                                                             *)

MountPoints == {<<>>} \cup {Lines[i].mp : i \in DOMAIN Lines}

TypeOK ==
  /\ data \in [Probes -> Hits \cup {"null"}]
  /\ dev \in [Hits -> Hits \cup {"uninit"}]
  /\ path \in [Hits -> Hits \cup {"uninit", "null"}]
  /\ text \in [Hits -> Hits \cup {"uninit"}]
  /\ pc \in [Cpus -> Steps]
  /\ hit \in [Cpus -> Hits \cup {Nobody}]
  /\ at \in [Cpus -> Probes \cup {Nobody}]
  /\ args \in [Cpus -> Hits \cup {"null"}]
  /\ root \in [Cpus -> [by : Hits \cup {Nobody, "uninit"}, mp : MountPoints]]
  /\ probeOf \in [Hits -> Probes \cup {Nobody}]
  /\ recorded \subseteq [by : Hits,
                         root : [by : Hits \cup {"uninit"}, mp : MountPoints],
                         path : Hits, text : Hits \cup {"uninit"}]
  /\ clashed \subseteq Hits

Own(r) == r.root.by = r.by /\ r.path = r.by /\ r.text = r.by

\* A hit that no other CPU joined in its probe's handlers records its own path
\* under its own mount point, and never oopses, whatever earlier hits, failed
\* allocations and failed paths have left in entry->data.
AloneIsExact ==
  /\ \A r \in recorded : r.by \notin clashed => Own(r)
  /\ \A c \in Cpus : In(c, "oops") => hit[c] \in clashed

\* Whatever the CPUs do to one another, a path is recorded under the operation
\* of a probe it went through: a created name is not reported as removed.
KindKept ==
  \A r \in recorded :
    /\ probeOf[r.path] = probeOf[r.by]
    /\ r.text \in Hits => probeOf[r.text] = probeOf[r.by]

\* The root is right. Nothing is recorded under a mount point that
\* vfs_kprobe.c:411-417 leaves out, or below one, not even when the device it is
\* looked up by was never written. And a hit that was alone is recorded under a
\* mount point of its own device, whatever the table lacks, unless another
\* device in the table agrees with it in the low bytes of both numbers.
RootOfDevice ==
  \A r \in recorded :
    LET d == DevOf[r.by]
        Of(i) == Low(Lines[i].dev) = Low(d)
    IN  /\ r.root.mp # <<>> =>
             r.root.mp[1] \notin {"sys", "proc", "run", "dev", "var", "tmp"}
        /\ r.by \notin clashed /\ (\A i \in DOMAIN Lines : Of(i) => Lines[i].dev = d)
             => \E i \in DOMAIN Lines : Lines[i].dev = d /\ Lines[i].mp = r.root.mp
=============================================================================
