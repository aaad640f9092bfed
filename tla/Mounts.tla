------------------------------- MODULE Mounts -------------------------------
(***************************************************************************)
(* The mount table of kernelmod/vfs_kprobe.c: what parse_mounts_info keeps *)
(* of /proc/self/mountinfo when the module is loaded, and how get_root     *)
(* looks a device up in it.                                                *)
(*                                                                         *)
(* A path is the sequence of its components, "/" being <<>>; a device is   *)
(* the pair of its major and minor number. A line of mountinfo is a record *)
(* [dev, mp]. A result that is an empty string in C is an empty set here.  *)
(***************************************************************************)
EXTENDS Integers, Sequences

\* What is left of a number in an unsigned char, and of a device in the two
\* of krp_partition and vfs_op_args.
Byte(n) == n % 256
Low(dev) == <<Byte(dev[1]), Byte(dev[2])>>

\* mp is root or, after a "/", below it; only "/" itself is mounted at "/".
MountedAt(mp, root) ==
  \/ mp = root
  \/ /\ root # <<>> /\ Len(mp) > Len(root)
     /\ SubSeq(mp, 1, Len(root)) = root

SpecialDirs ==
  {<<"sys">>, <<"proc">>, <<"run">>, <<"dev">>, <<"var">>, <<"tmp">>}

IsSpecialMp(mp) == \E dir \in SpecialDirs : MountedAt(mp, dir)

\* The list of what is kept, each item under the number of its line: the lines
\* that are not special, without those that had no memory or are not in the
\* buffer: read_file_content, whose reads and endless loop are steps of
\* KprobeModule, may hold only the file's beginning. The order of the list is
\* that of the lines.
ParseMountsInfo(lines, missing) ==
  [i \in {k \in DOMAIN lines \ missing : ~IsSpecialMp(lines[k].mp)} |->
     [dev |-> Low(lines[i].dev), root |-> lines[i].mp]]

\* Variant: of the device only the minor number is compared.
GetRootMinor(partitions, dev) ==
  LET at == {k \in DOMAIN partitions : partitions[k].dev[2] = dev[2]}
  IN  {partitions[k].root : k \in {i \in at : \A j \in at : i <= j}}

\* The root of the first partition with that device.
GetRoot(partitions, dev) ==
  LET at == {k \in DOMAIN partitions : partitions[k].dev = dev}
  IN  {partitions[k].root : k \in {i \in at : \A j \in at : i <= j}}
=============================================================================
