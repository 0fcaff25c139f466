------------------------------ MODULE FileStore ------------------------------
(***************************************************************************)
(* Saving a file as config_save and cache_save do: write <path>.tmp, sync, *)
(* rename it over <path>.  Savers are processes (the daemon, a command);   *)
(* all use the same <path>.tmp.  The file system is what the code assumes  *)
(* of one: a directory with these two names, files that stay open over a   *)
(* rename (POSIX) or forbid it (Windows), and a disk that keeps what was   *)
(* synced and may keep more, in any order.                                 *)
(***************************************************************************)
EXTENDS JsonScan

CONSTANTS
  Savers, Values, Absent, Torn,   \* as in AtomicFile
  Characters,  \* those the strings of a value may contain
  Inodes,      \* files the file system can hold
  BlockLen,    \* characters a stdio buffer writes at once
  MaxSaves,    \* bound: saves begun
  MaxFaults    \* bound: failing calls, kills and power cuts

Nul == "nul"

VARIABLES
  windows,   \* the platform
  dir,       \* the directory: <path> and <path>.tmp
  durDir,    \* the directory a power cut would leave
  data,      \* content of each file
  disk,      \* content a power cut would leave
  saver,     \* each process: where it is in its save
  reader,    \* the file a reader has open
  last,      \* what each process's last save reported
  clash,     \* savers overlap, or the disk has not settled since
  litter,    \* history: the .tmp in place is one nobody sees to any more
  saves, faults

vars == <<windows, dir, durDir, data, disk, saver, reader, last, clash, litter, saves, faults>>

NoInode == 0
Names == {"path", "tmp"}
Idle == [pc |-> "idle", val |-> Absent, ino |-> NoInode, off |-> 0, err |-> FALSE]

TextOf(v) == CacheText(v)
Text == [v \in Values |-> TextOf(v)]

\* The tags are no values and no inodes.
ASSUME StoreAssumption ==
  /\ Absent \notin Values /\ Torn \notin Values /\ Absent # Torn
  /\ Inodes \subseteq Nat \ {NoInode}
  /\ BlockLen \in Nat \ {0} /\ MaxSaves \in Nat /\ MaxFaults \in Nat

\* A value is a date and a list of strings that a loader has room for.
ASSUME ValuesAssumption ==
  /\ Values \subseteq [date : Seq(Characters), triggers : Seq(Seq(Characters))]
  /\ \A v \in Values : Len(v.triggers) <= MaxItems

\* A C string ends at the first NUL.
Readable(t) ==
  LET nuls == {n \in DOMAIN t : t[n] = Nul}
  IN IF nuls = {} THEN t ELSE SubSeq(t, 1, Min(nuls) - 1)

Overlay(t, off, block) ==
  LET len == Len(t)
      end == off + Len(block)
  IN [n \in 1..(IF len > end THEN len ELSE end) |->
        IF n \in (off + 1)..end THEN block[n - off]
        ELSE IF n <= len THEN t[n] ELSE Nul]

Block(v, off) == SubSeq(Text[v], off + 1, IF off + BlockLen < Len(Text[v]) THEN off + BlockLen ELSE Len(Text[v]))

Busy(p) == saver[p].pc # "idle"
HasOpen(p) == saver[p].pc \in {"write", "sync"}

\* Somebody but p has file i open: on Windows it cannot be renamed or deleted.
OpenElsewhere(p, i) ==
  \/ reader = i
  \/ \E q \in Savers \ {p} : HasOpen(q) /\ saver[q].ino = i

Held(p, i) == windows /\ OpenElsewhere(p, i)

Fault == faults < MaxFaults /\ faults' = faults + 1

Reachable(d, dd, s, r) ==
  {d[n] : n \in Names} \cup {dd[n] : n \in Names} \cup {s[p].ino : p \in Savers} \cup {r}

Settled(d, dd, s, text, kept) ==
  /\ \A p \in Savers : s[p].pc = "idle"
  /\ \A i \in {d.path, dd.path} \ {NoInode} : text[i] = kept[i]

\* The files after a step: those nobody can reach any more are gone.
Files(text, kept) ==
  LET live == Reachable(dir', durDir', saver', reader') IN
  /\ data' = [i \in Inodes |-> IF i \in live THEN text[i] ELSE <<>>]
  /\ disk' = [i \in Inodes |-> IF i \in live THEN kept[i] ELSE <<>>]

Overlap(p) == \E q \in Savers \ {p} : Busy(q)

ClashAfter(began) ==
  clash' = ((clash \/ began) /\ ~Settled(dir', durDir', saver', data', disk'))

Goto(p, at) == saver' = [saver EXCEPT ![p].pc = at]

Report(p, r) ==
  /\ saver' = [saver EXCEPT ![p] = Idle]
  /\ last' = [last EXCEPT ![p] = r]

-----------------------------------------------------------------------------
BeginInPlace(p, v) ==
  /\ ~Busy(p) /\ saves < MaxSaves
  /\ LET i == IF dir.path # NoInode THEN dir.path ELSE Min(Inodes \ {dir.tmp})
     IN /\ dir' = [dir EXCEPT !.tmp = i]
        /\ saver' = [saver EXCEPT ![p] = [Idle EXCEPT !.pc = "write", !.val = v, !.ino = i]]
        /\ UNCHANGED <<durDir, reader>>
        /\ Files([data EXCEPT ![i] = <<>>], disk)
  /\ ClashAfter(Overlap(p))
  /\ saves' = saves + 1
  /\ UNCHANGED <<windows, last, litter, faults>>

\* platform_file_create_private: a leftover or foreign .tmp is truncated.
Begin(p, v) ==
  /\ ~Busy(p) /\ saves < MaxSaves
  /\ LET fresh == Inodes \ Reachable(dir, durDir, saver, reader)
         i == IF dir.tmp # NoInode THEN dir.tmp ELSE Min(fresh)
     IN /\ dir.tmp # NoInode \/ fresh # {}
        /\ dir' = [dir EXCEPT !.tmp = i]
        /\ saver' = [saver EXCEPT ![p] = [Idle EXCEPT !.pc = "write", !.val = v, !.ino = i]]
        /\ UNCHANGED <<durDir, reader>>
        /\ Files([data EXCEPT ![i] = <<>>], disk)
  /\ ClashAfter(Overlap(p))
  /\ saves' = saves + 1
  /\ UNCHANGED <<windows, last, litter, faults>>

\* open has made or truncated the .tmp, but fdopen fails: it is left as it is.
StreamFails(p) ==
  /\ ~windows /\ ~Busy(p) /\ saves < MaxSaves /\ Fault
  /\ LET fresh == Inodes \ Reachable(dir, durDir, saver, reader)
         i == IF dir.tmp # NoInode THEN dir.tmp ELSE Min(fresh)
     IN /\ dir.tmp # NoInode \/ fresh # {}
        /\ dir' = [dir EXCEPT !.tmp = i]
        /\ UNCHANGED <<durDir, saver, reader>>
        /\ Files([data EXCEPT ![i] = <<>>], disk)
  /\ ClashAfter(Overlap(p))
  /\ last' = [last EXCEPT ![p] = "failed"]
  /\ litter' = TRUE
  /\ saves' = saves + 1
  /\ UNCHANGED windows

\* The directory cannot be made or the file not opened.
BeginFails(p) ==
  /\ ~Busy(p) /\ saves < MaxSaves /\ Fault
  /\ last' = [last EXCEPT ![p] = "failed"]
  /\ saves' = saves + 1
  /\ UNCHANGED <<windows, dir, durDir, data, disk, saver, reader, clash, litter>>

Advance(p, failed) ==
  LET off == saver[p].off + BlockLen IN
  saver' = [saver EXCEPT ![p].off = off, ![p].err = @ \/ failed,
                         ![p].pc = IF off >= Len(Text[saver[p].val]) THEN "sync" ELSE "write"]

\* One stdio buffer; the last one by the fflush of platform_file_sync.
WriteBlock(p) ==
  /\ saver[p].pc = "write"
  /\ Advance(p, FALSE)
  /\ UNCHANGED <<dir, durDir, reader>>
  /\ LET i == saver[p].ino
     IN Files([data EXCEPT ![i] = Overlay(@, saver[p].off, Block(saver[p].val, saver[p].off))], disk)
  /\ ClashAfter(FALSE)
  /\ UNCHANGED <<windows, last, litter, saves, faults>>

\* The buffer is lost, the stream remembers the error, writing goes on.
WriteFails(p) ==
  /\ saver[p].pc = "write" /\ Fault
  /\ Advance(p, TRUE)
  /\ UNCHANGED <<windows, dir, durDir, data, disk, reader, last, clash, litter, saves>>

SyncUnchecked(p) ==
  /\ saver[p].pc = "sync"
  /\ Goto(p, "rename")
  /\ UNCHANGED <<dir, durDir, reader>>
  /\ Files(data, [disk EXCEPT ![saver[p].ino] = data[saver[p].ino]])
  /\ ClashAfter(FALSE)
  /\ UNCHANGED <<windows, last, litter, saves, faults>>

SyncCloseOnly(p) ==
  /\ saver[p].pc = "sync" /\ ~saver[p].err
  /\ Goto(p, "rename")
  /\ UNCHANGED <<windows, dir, durDir, data, disk, reader, last, clash, litter, saves, faults>>

\* ferror, fsync and fclose all succeed.
Sync(p) ==
  /\ saver[p].pc = "sync" /\ ~saver[p].err
  /\ Goto(p, "rename")
  /\ UNCHANGED <<dir, durDir, reader>>
  /\ Files(data, [disk EXCEPT ![saver[p].ino] = data[saver[p].ino]])
  /\ ClashAfter(FALSE)
  /\ UNCHANGED <<windows, last, litter, saves, faults>>

\* An earlier write failed, or fsync or fclose does; the file is closed.
SyncFails(p) ==
  /\ saver[p].pc = "sync"
  /\ IF saver[p].err THEN UNCHANGED faults ELSE Fault
  /\ Goto(p, "cleanup")
  /\ UNCHANGED <<windows, dir, durDir, data, disk, reader, last, clash, litter, saves>>

\* Whatever file bears the name .tmp by now is the one renamed.
CanRename(p) ==
  dir.tmp # NoInode /\ ~Held(p, dir.tmp) /\ ~Held(p, dir.path)

RenameByLink(p) ==
  /\ saver[p].pc = "rename" /\ CanRename(p)
  /\ dir' = [dir EXCEPT !.path = dir.tmp]
  /\ Report(p, "ok")
  /\ litter' = (litter /\ dir'.tmp # NoInode)
  /\ UNCHANGED <<durDir, reader>>
  /\ Files(data, disk)
  /\ ClashAfter(FALSE)
  /\ UNCHANGED <<windows, saves, faults>>

Rename(p) ==
  /\ saver[p].pc = "rename" /\ CanRename(p)
  /\ dir' = [path |-> dir.tmp, tmp |-> NoInode]
  /\ Report(p, "ok")
  /\ litter' = (litter /\ dir'.tmp # NoInode)
  /\ UNCHANGED <<durDir, reader>>
  /\ Files(data, disk)
  /\ ClashAfter(FALSE)
  /\ UNCHANGED <<windows, saves, faults>>

RenameFails(p) ==
  /\ saver[p].pc = "rename"
  /\ IF CanRename(p) THEN Fault ELSE UNCHANGED faults
  /\ Goto(p, "cleanup")
  /\ UNCHANGED <<windows, dir, durDir, data, disk, reader, last, clash, litter, saves>>

CleanupNothing(p) ==
  /\ saver[p].pc = "cleanup"
  /\ UNCHANGED <<dir, durDir, reader>>
  /\ Report(p, "failed")
  /\ Files(data, disk)
  /\ ClashAfter(FALSE)
  /\ UNCHANGED <<windows, litter, saves, faults>>

\* platform_file_delete on .tmp, whoever's it is; its result is ignored, so a
\* deletion that fails leaves the .tmp.
Cleanup(p) ==
  /\ saver[p].pc = "cleanup"
  /\ \/ /\ dir' = IF Held(p, dir.tmp) THEN dir ELSE [dir EXCEPT !.tmp = NoInode]
        /\ litter' = (litter /\ dir'.tmp # NoInode)
        /\ UNCHANGED faults
     \/ /\ dir.tmp # NoInode /\ Fault
        /\ dir' = dir /\ litter' = TRUE
  /\ Report(p, "failed")
  /\ UNCHANGED <<durDir, reader>>
  /\ Files(data, disk)
  /\ ClashAfter(FALSE)
  /\ UNCHANGED <<windows, saves>>

\* cache_invalidate.
Invalidate ==
  /\ dir.path # NoInode /\ ~(windows /\ reader = dir.path)
  /\ dir' = [dir EXCEPT !.path = NoInode]
  /\ UNCHANGED <<durDir, saver, reader>>
  /\ Files(data, disk)
  /\ ClashAfter(FALSE)
  /\ UNCHANGED <<windows, last, litter, saves, faults>>

\* read_file: open, size and content are taken from the file once opened.
ReadOpen ==
  /\ reader = NoInode /\ dir.path # NoInode
  /\ reader' = dir.path
  /\ UNCHANGED <<windows, dir, durDir, data, disk, saver, last, clash, litter, saves, faults>>

ReadClose ==
  /\ reader # NoInode
  /\ reader' = NoInode
  /\ UNCHANGED <<dir, durDir, saver>>
  /\ Files(data, disk)
  /\ UNCHANGED <<windows, last, clash, litter, saves, faults>>

-----------------------------------------------------------------------------
\* The disk catches up with a file or with the directory.
FlushData(i) ==
  /\ disk[i] # data[i]
  /\ UNCHANGED <<dir, durDir, saver, reader>>
  /\ Files(data, [disk EXCEPT ![i] = data[i]])
  /\ ClashAfter(FALSE)
  /\ UNCHANGED <<windows, last, litter, saves, faults>>

FlushDir ==
  /\ durDir # dir
  /\ durDir' = dir
  /\ UNCHANGED <<dir, saver, reader>>
  /\ Files(data, disk)
  /\ ClashAfter(FALSE)
  /\ UNCHANGED <<windows, last, litter, saves, faults>>

Kill(p) ==
  /\ Busy(p) /\ Fault
  /\ Report(p, "none")
  /\ litter' = (dir.tmp # NoInode)
  /\ UNCHANGED <<dir, durDir, reader>>
  /\ Files(data, disk)
  /\ ClashAfter(FALSE)
  /\ UNCHANGED <<windows, saves>>

PowerCut ==
  /\ Fault
  /\ dir' = durDir
  /\ saver' = [p \in Savers |-> Idle]
  /\ last' = [p \in Savers |-> "none"]
  /\ reader' = NoInode
  /\ litter' = (durDir.tmp # NoInode)
  /\ UNCHANGED durDir
  /\ Files(disk, disk)
  /\ ClashAfter(FALSE)
  /\ UNCHANGED <<windows, saves>>

-----------------------------------------------------------------------------
Init ==
  /\ windows \in BOOLEAN
  /\ dir = [n \in Names |-> NoInode] /\ durDir = dir
  /\ data = [i \in Inodes |-> <<>>] /\ disk = data
  /\ saver = [p \in Savers |-> Idle]
  /\ reader = NoInode
  /\ last = [p \in Savers |-> "none"]
  /\ clash = FALSE /\ litter = FALSE
  /\ saves = 0 /\ faults = 0

SaverStep(p) ==
  \/ \E v \in Values : Begin(p, v)
  \/ StreamFails(p) \/ BeginFails(p) \/ WriteBlock(p) \/ WriteFails(p) \/ Sync(p) \/ SyncFails(p)
  \/ Rename(p) \/ RenameFails(p) \/ Cleanup(p) \/ Kill(p)

Next ==
  \/ \E p \in Savers : SaverStep(p)
  \/ Invalidate \/ ReadOpen \/ ReadClose
  \/ \E i \in Inodes : FlushData(i)
  \/ FlushDir \/ PowerCut

Spec == Init /\ [][Next]_vars

-----------------------------------------------------------------------------
SaverTypes ==
  [pc : {"idle", "write", "sync", "rename", "cleanup"}, val : Values \cup {Absent},
   ino : Inodes \cup {NoInode}, off : Nat, err : BOOLEAN]

\* Types, and that no file bears both names.
TypeOK ==
  /\ windows \in BOOLEAN /\ clash \in BOOLEAN /\ litter \in BOOLEAN
  /\ dir \in [Names -> Inodes \cup {NoInode}]
  /\ durDir \in [Names -> Inodes \cup {NoInode}]
  /\ dir.path # NoInode => dir.path # dir.tmp
  /\ DOMAIN data = Inodes /\ DOMAIN disk = Inodes
  /\ \A p \in Savers : saver[p] \in SaverTypes
  /\ reader \in Inodes \cup {NoInode}
  /\ last \in [Savers -> {"none", "ok", "failed"}]
  /\ saves \in 0..MaxSaves /\ faults \in 0..MaxFaults

\* The saved value whose text a file holds.
Meaning(i, content) ==
  IF i = NoInode THEN Absent
  ELSE IF \E v \in Values : content[i] = Text[v]
       THEN CHOOSE v \in Values : content[i] = Text[v]
  ELSE Torn

(***************************************************************************)
(* The temporary file, the sync and the rename make a save atomic, against *)
(* failing calls, kills, power cuts and readers: the protocol implements   *)
(* AtomicFile.                                                             *)
(***************************************************************************)
Promise == INSTANCE AtomicFile WITH
  file   <- Meaning(dir.path, data),
  safe   <- Meaning(durDir.path, disk),
  saving <- [p \in Savers |-> saver[p].val]

Implements == Promise!Spec

(***************************************************************************)
(* A reader that has the file open reads one file to the end: a save, a    *)
(* failed save or a deletion meanwhile does not change what it reads,      *)
(* unless two savers share a .tmp.                                         *)
(***************************************************************************)
ReadUndisturbed ==
  [][reader # NoInode /\ reader' = reader /\ ~clash => data'[reader] = data[reader]]_vars

(***************************************************************************)
(* Saves clean up, even when savers overlap: when nobody is saving a .tmp  *)
(* is there only because a process was killed, the power failed, fdopen    *)
(* failed on it or its own deletion failed, and no later save has renamed  *)
(* or deleted it since.  Every other failure takes its .tmp away.          *)
(***************************************************************************)
NoLitter ==
  ~litter /\ (\A p \in Savers : ~Busy(p)) => dir.tmp = NoInode

\* What the loaders make of every beginning of a saved text.
Beginnings == UNION {{SubSeq(Text[v], 1, n) : n \in 0..Len(Text[v])} : v \in Values}
Loaded == [t \in Beginnings |-> CacheLoad(t)]
Accepted == {t \in Beginnings : ConfigAccepts(t)}

(***************************************************************************)
(* A file that is cut short, which overlapping savers can leave, is never  *)
(* taken for a shorter list: cache_load refuses it or finds the whole      *)
(* value in it, and config_load refuses all but the whole text.            *)
(***************************************************************************)
CutsRefused ==
  dir.path # NoInode =>
    LET t == Readable(data[dir.path]) IN
    t \in Beginnings =>
      /\ Loaded[t].ok =>
           \E v \in Values : IsPrefix(t, Text[v]) /\ v = [date |-> Loaded[t].date,
                                                          triggers |-> Loaded[t].triggers]
      /\ t \in Accepted <=> \E v \in Values : t = Text[v]

(***************************************************************************)
(* What was saved is what is loaded, whatever quotes, escapes and brackets *)
(* its strings contain.                                                    *)
(***************************************************************************)
ReadBack ==
  LET v == Meaning(dir.path, data) IN
  v \in Values => Loaded[Text[v]] = [ok |-> TRUE, date |-> v.date, triggers |-> v.triggers]
=============================================================================
