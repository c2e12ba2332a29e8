----------------------------- MODULE AtomicWrite -----------------------------
(***************************************************************************)
(* atomic_write_bytes and _fsync_directory of src/my_jev/locking.py:       *)
(* concurrent calls that replace one destination file, over a file system  *)
(* with a page cache.  A call may fail at any of its steps, its process    *)
(* may be killed between two of them, and the machine may lose power.      *)
(*                                                                         *)
(* An inode is named after the call that creates it; Old is the one the    *)
(* destination has at first, or the absence of a file.  The cache and the  *)
(* disk each have contents for every inode; the destination's directory    *)
(* entry is kept as the history of the inodes it has named, of which the   *)
(* first `flushed` have reached the disk.                                  *)
(***************************************************************************)
EXTENDS Integers, Sequences, SequencesExt

CONSTANTS
  Writers,    \* calls of atomic_write_bytes for the destination
  Old,        \* what the destination holds before them
  None        \* no directory entry

ASSUME WritersAssumption == Old \notin Writers /\ None \notin Writers \cup {Old}

Inodes == Writers \cup {Old}

\* The payload of a call, whole, is named after the call too.
Contents == Inodes \cup {"empty", "part"}

VARIABLES
  pc,          \* where each call is
  fd,          \* the inode it writes to
  failed,      \* whether a step of it raised
  synced,      \* whether the directory fsync was accepted
  temp,        \* the directory entry of each temporary name
  cache,       \* contents of the inodes as readers see them
  disk,        \* contents of the inodes on disk
  history,     \* the inodes the destination has named
  flushed,     \* how many of them the directory on disk has seen
  parent,      \* the destination's directory exists
  parentDisk,  \* ... and its own entry is on disk
  made         \* a call had to create it

calls == <<pc, fd, failed, synced>>
files == <<temp, cache, disk>>
directory == <<history, flushed, parent, parentDisk, made>>
vars == <<calls, files, directory>>

------------------------------------------------------------------------------
\* mutant: a name made of the process id only
PidName(p) == CHOOSE q \in Writers : TRUE

\* The temporary name has a uuid in it.
TempName(p) == p

\* What a power loss would leave of the history.
Survives == IF parentDisk THEN flushed ELSE 1

Moves(p, from, to) == pc[p] = from /\ pc' = [pc EXCEPT ![p] = to]

Init ==
  /\ pc = [p \in Writers |-> "idle"]
  /\ fd = [p \in Writers |-> None]
  /\ failed = [p \in Writers |-> FALSE]
  /\ synced = [p \in Writers |-> FALSE]
  /\ temp = [p \in Writers |-> None]
  /\ cache = [i \in Inodes |-> IF i = Old THEN Old ELSE "empty"]
  /\ disk = [i \in Inodes |-> IF i = Old THEN Old ELSE "empty"]
  /\ history = <<Old>>
  /\ flushed = 1
  /\ parent \in BOOLEAN
  /\ parentDisk = parent
  /\ made = FALSE

\* destination.parent.mkdir(parents=True, exist_ok=True)
Mkdir(p) ==
  /\ Moves(p, "idle", "opening")
  /\ parent' = TRUE
  /\ made' = (made \/ ~ parent)
  /\ UNCHANGED <<fd, failed, synced, files, history, flushed, parentDisk>>

\* mutant: the destination itself is opened
OpenInPlace(p) ==
  /\ parent
  /\ Moves(p, "opening", "writing")
  /\ fd' = [fd EXCEPT ![p] = history[Len(history)]]
  /\ cache' = [cache EXCEPT ![history[Len(history)]] = "empty"]
  /\ UNCHANGED <<failed, synced, temp, disk, directory>>

\* temporary.open("wb"): creates the file, or truncates the one of that name.
Open(p) ==
  /\ parent
  /\ Moves(p, "opening", "writing")
  /\ LET i == IF temp[TempName(p)] = None THEN p ELSE temp[TempName(p)]
     IN /\ fd' = [fd EXCEPT ![p] = i]
        /\ temp' = [temp EXCEPT ![TempName(p)] = i]
        /\ cache' = [cache EXCEPT ![i] = "empty"]
  /\ UNCHANGED <<failed, synced, disk, directory>>

\* handle.write() got some of the payload into the file.
WritePart(p) ==
  /\ pc[p] = "writing"
  /\ cache' = [cache EXCEPT ![fd[p]] = "part"]
  /\ UNCHANGED <<calls, temp, disk, directory>>

\* mutant: the data is left to the page cache
WriteUnsynced(p) ==
  /\ Moves(p, "writing", "renaming")
  /\ cache' = [cache EXCEPT ![fd[p]] = p]
  /\ UNCHANGED <<fd, failed, synced, temp, disk, directory>>

\* handle.write() and handle.flush() are done.
Write(p) ==
  /\ Moves(p, "writing", "syncing")
  /\ cache' = [cache EXCEPT ![fd[p]] = p]
  /\ UNCHANGED <<fd, failed, synced, temp, disk, directory>>

\* os.fsync(handle.fileno()), and the file is closed.
Fsync(p) ==
  /\ Moves(p, "syncing", "renaming")
  /\ disk' = [disk EXCEPT ![fd[p]] = cache[fd[p]]]
  /\ UNCHANGED <<fd, failed, synced, temp, cache, directory>>

\* os.replace(temporary, destination)
Replace(p) ==
  /\ Moves(p, "renaming", "syncing directory")
  /\ temp[TempName(p)] # None
  /\ history' = Append(history, temp[TempName(p)])
  /\ temp' = [temp EXCEPT ![TempName(p)] = None]
  /\ UNCHANGED <<fd, failed, synced, cache, disk, flushed, parent, parentDisk, made>>

\* mutant: the cleanup is not in a finally clause
FailUncleaned(p) ==
  /\ pc[p] \in {"opening", "writing", "syncing", "renaming"}
  /\ pc' = [pc EXCEPT ![p] = "raised"]
  /\ failed' = [failed EXCEPT ![p] = TRUE]
  /\ UNCHANGED <<fd, synced, files, directory>>

\* One of these steps raises: no space, an I/O error, a missing temporary file.
Fail(p) ==
  /\ pc[p] \in {"opening", "writing", "syncing", "renaming"}
  /\ pc' = [pc EXCEPT ![p] = "cleaning"]
  /\ failed' = [failed EXCEPT ![p] = TRUE]
  /\ UNCHANGED <<fd, synced, files, directory>>

\* mutant: the directory is not fsynced
SkipDirectory(p) ==
  /\ Moves(p, "syncing directory", "cleaning")
  /\ synced' = [synced EXCEPT ![p] = TRUE]
  /\ UNCHANGED <<fd, failed, files, directory>>

\* _fsync_directory(destination.parent): the entries, not the parent's own one.
SyncDirectory(p) ==
  /\ Moves(p, "syncing directory", "cleaning")
  /\ synced' = [synced EXCEPT ![p] = TRUE]
  /\ flushed' = Len(history)
  /\ UNCHANGED <<fd, failed, files, history, parent, parentDisk, made>>

\* _fsync_directory is refused, and the write goes on.
DirectoryRefused(p) ==
  /\ Moves(p, "syncing directory", "cleaning")
  /\ UNCHANGED <<fd, failed, synced, files, directory>>

\* finally: temporary.unlink(), a missing file being no error.
Clean(p) ==
  /\ Moves(p, "cleaning", IF failed[p] THEN "raised" ELSE "returned")
  /\ temp' = [temp EXCEPT ![TempName(p)] = None]
  /\ UNCHANGED <<fd, failed, synced, cache, disk, directory>>

------------------------------------------------------------------------------
(* What happens around the calls. *)

\* The process is killed: the page cache survives it, the temporary file too.
Kill(p) ==
  /\ pc[p] \notin {"idle", "returned", "raised", "dead"}
  /\ pc' = [pc EXCEPT ![p] = "dead"]
  /\ UNCHANGED <<fd, failed, synced, files, directory>>

\* The kernel writes back when it likes, in any order.
WriteBack ==
  \/ /\ \E i \in Inodes : disk' = [disk EXCEPT ![i] = cache[i]]
     /\ UNCHANGED <<calls, temp, cache, directory>>
  \/ /\ flushed' = Len(history)
     /\ UNCHANGED <<calls, files, history, parent, parentDisk, made>>
  \/ /\ parentDisk' = parent
     /\ UNCHANGED <<calls, files, history, flushed, parent, made>>

\* Power is lost and comes back: caches hold what the disk has, every process
\* is gone, and any temporary file whose removal was not flushed may be back.
PowerLoss ==
  /\ pc' = [p \in Writers |-> IF pc[p] \in {"idle", "returned"} THEN pc[p] ELSE "dead"]
  /\ cache' = disk
  /\ history' = SubSeq(history, 1, Survives)
  /\ flushed' = Survives
  /\ parent' = parentDisk
  /\ \E back \in SUBSET {p \in Writers : fd[p] # None} :
       temp' = [p \in Writers |-> IF parentDisk /\ p \in back THEN fd[p] ELSE None]
  /\ UNCHANGED <<fd, failed, synced, disk, parentDisk, made>>

Call(p) ==
  \/ Mkdir(p) \/ Open(p) \/ WritePart(p) \/ Write(p) \/ Fsync(p) \/ Replace(p)
  \/ Fail(p) \/ SyncDirectory(p) \/ DirectoryRefused(p) \/ Clean(p) \/ Kill(p)

Next == (\E p \in Writers : Call(p)) \/ WriteBack \/ PowerLoss

Spec == Init /\ [][Next]_vars

------------------------------------------------------------------------------
(* Type invariant. *)
TypeOK ==
  /\ pc \in [Writers -> {"idle", "opening", "writing", "syncing", "renaming",
                         "syncing directory", "cleaning", "returned", "raised", "dead"}]
  /\ fd \in [Writers -> Writers \cup {None}]
  /\ failed \in [Writers -> BOOLEAN]
  /\ synced \in [Writers -> BOOLEAN]
  /\ temp \in [Writers -> Writers \cup {None}]
  /\ cache \in [Inodes -> Contents]
  /\ disk \in [Inodes -> Contents]
  /\ history \in Seq(Inodes) /\ history # <<>>
  /\ flushed \in 1 .. Len(history)
  /\ parent \in BOOLEAN
  /\ parentDisk \in BOOLEAN
  /\ made \in BOOLEAN

(* "A reader never observes a partial file": whatever inode the destination    *)
(* names, or would name after a power loss at this moment, is whole and is the *)
(* payload of one call, however the calls interleave, fail and die.            *)
NeverTorn ==
  \A i \in DOMAIN history :
    cache[history[i]] = history[i] /\ disk[history[i]] = history[i]

Stays(p) == \E i \in 1 .. Survives : history[i] = p

(* A call that returned survives a power loss: its payload, or that of a call  *)
(* that replaced it later, is in the destination afterwards.  This needs a     *)
(* file system that accepts to fsync the directory, and a directory that no    *)
(* call had to create.                                                         *)
ReturnedSurvives ==
  \A p \in Writers : pc[p] = "returned" /\ synced[p] /\ ~ made => Stays(p)

(* "A failed write leaves the previous contents untouched": a call that raised *)
(* never was the destination, and its temporary file is gone.                  *)
RaisedLeftNothing ==
  \A p \in Writers :
    pc[p] = "raised" => p \notin Range(history) /\ temp[TempName(p)] = None

------------------------------------------------------------------------------
Abstract == INSTANCE DurableFile WITH
  Payloads <- Inodes,
  log <- [i \in 1 .. Len(history) |-> cache[history[i]]],
  stable <- Survives

(* The open, write, fsync, rename and fsync of a call behave as one write of a *)
(* whole payload, and what is on disk is always a prefix of those writes.      *)
ImplementsDurableFile == Abstract!Spec
==============================================================================
