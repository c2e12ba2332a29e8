-------------------------- MODULE AtomicWriteProofs --------------------------
(***************************************************************************)
(* Proofs about module AtomicWrite, for any number of calls.  WriteInv     *)
(* follows the one inode of a call: it is whole, in the cache and then on  *)
(* disk, before the destination names it.                                  *)
(***************************************************************************)
EXTENDS AtomicWrite, TLAPS

InHistory(p) == \E i \in DOMAIN history : history[i] = p

AtWork == {"writing", "syncing", "renaming"}
BeforeReplace == {"idle", "opening"} \cup AtWork

(* What a call has done so far to its own inode and temporary name. *)
CallOK(p) ==
  /\ fd[p] \in {None, p} /\ temp[p] \in {None, fd[p]}
  /\ pc[p] \in {"idle", "opening"} => fd[p] = None
  /\ pc[p] \in AtWork => fd[p] = p /\ temp[p] = p
  /\ pc[p] \in {"syncing", "renaming"} => cache[p] = p
  /\ pc[p] = "renaming" => disk[p] = p
  /\ pc[p] \in BeforeReplace \cup {"syncing directory"} => ~ failed[p] /\ ~ synced[p]

(* A call that did not replace the destination never was the destination. *)
NamedWhenReplaced(p) ==
  /\ pc[p] \in BeforeReplace => ~ InHistory(p)
  /\ pc[p] \in {"cleaning", "raised"} /\ failed[p] => ~ InHistory(p)
  /\ pc[p] = "syncing directory" => InHistory(p)
  /\ pc[p] = "raised" => failed[p] /\ temp[p] = None

(* Unless a call had to create it, the directory is there and on disk. *)
DirectoryOK ==
  /\ parentDisk => parent
  /\ ~ made => (parent => parentDisk)
  /\ \A p \in Writers : ~ made /\ pc[p] # "idle" => parent

(* What the directory fsync was accepted for is on disk. *)
SyncedStays ==
  \A p \in Writers : pc[p] \in {"cleaning", "returned"} /\ synced[p] /\ ~ made => Stays(p)

WriteInv ==
  /\ TypeOK
  /\ \A p \in Writers : CallOK(p)
  /\ \A p \in Writers : NamedWhenReplaced(p)
  /\ NeverTorn
  /\ DirectoryOK
  /\ SyncedStays

Calling == {"idle", "opening", "writing", "syncing", "renaming", "syncing directory",
            "cleaning", "returned", "raised", "dead"}

LEMMA HistoryOfInodes == TypeOK => \A i \in DOMAIN history : history[i] \in Inodes
<1>1. TypeOK => history \in Seq(Inodes)
  BY DEF TypeOK
<1>2. history \in Seq(Inodes) => \A i \in DOMAIN history : history[i] \in Inodes
  OBVIOUS
<1> QED
  BY <1>1, <1>2

LEMMA InitialWrite == Init => WriteInv
<1> SUFFICES ASSUME Init PROVE WriteInv
  OBVIOUS
<1> USE WritersAssumption
<1>1. TypeOK
  <2>1. history \in Seq(Inodes) /\ history # <<>> /\ flushed \in 1 .. Len(history)
    BY DEF Init, Inodes
  <2>2. cache \in [Inodes -> Contents] /\ disk \in [Inodes -> Contents]
    BY DEF Init, Inodes, Contents
  <2>3. /\ fd \in [Writers -> Writers \cup {None}] /\ temp \in [Writers -> Writers \cup {None}]
        /\ failed \in [Writers -> BOOLEAN] /\ synced \in [Writers -> BOOLEAN]
        /\ pc \in [Writers -> {"idle"}]
    BY DEF Init
  <2> QED
    BY <2>1, <2>2, <2>3 DEF Init, TypeOK
<1>2. ASSUME NEW p \in Writers PROVE CallOK(p) /\ NamedWhenReplaced(p)
  BY DEF Init, CallOK, NamedWhenReplaced, AtWork, BeforeReplace, InHistory
<1>3. NeverTorn
  BY DEF Init, NeverTorn, Inodes
<1>4. DirectoryOK /\ SyncedStays
  BY DEF Init, DirectoryOK, SyncedStays
<1> QED
  BY <1>1, <1>2, <1>3, <1>4 DEF WriteInv

(* A step of call p that leaves the directory alone.  Only its own inode and *)
(* temporary name may change, and its inode only while it is at work.        *)
OwnStep(p) ==
  /\ UNCHANGED directory
  /\ \A q \in Writers \ {p} : /\ pc'[q] = pc[q] /\ fd'[q] = fd[q] /\ failed'[q] = failed[q]
                              /\ synced'[q] = synced[q] /\ temp'[q] = temp[q]
  /\ \A i \in Inodes \ {p} : cache'[i] = cache[i] /\ disk'[i] = disk[i]
  /\ cache'[p] # cache[p] \/ disk'[p] # disk[p] => pc[p] \in BeforeReplace

LEMMA OwnStepKeepsOthers ==
  ASSUME WriteInv, NEW p \in Writers, OwnStep(p), TypeOK', CallOK(p)', NamedWhenReplaced(p)',
         pc[p] # "idle",
         pc'[p] \in {"cleaning", "returned"} /\ synced'[p] =>
           pc[p] \in {"cleaning", "returned"} /\ synced[p]
  PROVE  WriteInv'
<1>1. \A q \in Writers : CallOK(q)'
  <2> SUFFICES ASSUME NEW q \in Writers \ {p} PROVE CallOK(q)'
    OBVIOUS
  <2>1. q \in Inodes \ {p} /\ CallOK(q)
    BY DEF Inodes, WriteInv
  <2>2. /\ pc'[q] = pc[q] /\ fd'[q] = fd[q] /\ failed'[q] = failed[q]
        /\ synced'[q] = synced[q] /\ temp'[q] = temp[q]
        /\ cache'[q] = cache[q] /\ disk'[q] = disk[q]
    BY <2>1 DEF OwnStep
  <2> QED
    BY <2>1, <2>2 DEF CallOK, AtWork, BeforeReplace
<1>2. \A q \in Writers : NamedWhenReplaced(q)'
  <2> SUFFICES ASSUME NEW q \in Writers \ {p} PROVE NamedWhenReplaced(q)'
    OBVIOUS
  <2>1. /\ NamedWhenReplaced(q) /\ InHistory(q)' = InHistory(q)
        /\ pc'[q] = pc[q] /\ failed'[q] = failed[q] /\ temp'[q] = temp[q]
    BY DEF WriteInv, OwnStep, InHistory, directory
  <2> QED
    BY <2>1 DEF NamedWhenReplaced, AtWork, BeforeReplace
<1>3. NeverTorn'
  <2> SUFFICES ASSUME NEW i \in DOMAIN history
               PROVE  cache'[history[i]] = history[i] /\ disk'[history[i]] = history[i]
    BY DEF NeverTorn, OwnStep, directory
  <2>1. history[i] \in Inodes /\ cache[history[i]] = history[i] /\ disk[history[i]] = history[i]
    <3>1. history[i] \in Inodes
      BY HistoryOfInodes DEF WriteInv
    <3> QED
      BY <3>1 DEF WriteInv, NeverTorn
  <2>2. CASE history[i] = p
    BY <2>1, <2>2 DEF WriteInv, OwnStep, NamedWhenReplaced, InHistory
  <2>3. CASE history[i] # p
    BY <2>1, <2>3 DEF OwnStep
  <2> QED
    BY <2>2, <2>3
<1>4. DirectoryOK'
  BY DEF WriteInv, OwnStep, DirectoryOK, directory
<1>5. SyncedStays'
  BY DEF WriteInv, OwnStep, SyncedStays, Stays, Survives, directory
<1> QED
  BY <1>1, <1>2, <1>3, <1>4, <1>5 DEF WriteInv

LEMMA WritersAreInodes == \A p \in Writers : p \in Inodes /\ p # Old /\ p # None
BY WritersAssumption DEF Inodes

(* Every step inside a call but the three that touch the directory. *)
LEMMA OpenStep ==
  ASSUME WriteInv, NEW p \in Writers, Open(p)
  PROVE  WriteInv'
<1> USE WritersAreInodes
<1>1. CallOK(p) /\ NamedWhenReplaced(p) /\ pc[p] = "opening" /\ TypeOK
  BY DEF WriteInv, Open, Moves
<1>2. temp[p] = None
  BY <1>1 DEF CallOK
<1>3. /\ pc' = [pc EXCEPT ![p] = "writing"] /\ fd' = [fd EXCEPT ![p] = p]
      /\ temp' = [temp EXCEPT ![p] = p] /\ cache' = [cache EXCEPT ![p] = "empty"]
      /\ UNCHANGED <<failed, synced, disk, directory>>
  BY <1>2 DEF Open, Moves, TempName
<1>4. TypeOK'
  BY <1>1, <1>3 DEF TypeOK, directory, Contents
<1>5. CallOK(p)' /\ NamedWhenReplaced(p)'
  BY <1>1, <1>3 DEF TypeOK, CallOK, NamedWhenReplaced, InHistory, AtWork, BeforeReplace, directory
<1>6. OwnStep(p)
  BY <1>1, <1>3 DEF OwnStep, TypeOK, BeforeReplace
<1> QED
  BY <1>1, <1>3, <1>4, <1>5, <1>6, OwnStepKeepsOthers DEF TypeOK

LEMMA WritingStep ==
  ASSUME WriteInv, NEW p \in Writers, WritePart(p) \/ Write(p) \/ Fsync(p)
  PROVE  WriteInv'
<1> USE WritersAreInodes
<1>1. CallOK(p) /\ NamedWhenReplaced(p) /\ pc[p] \in {"writing", "syncing"} /\ TypeOK
  BY DEF WriteInv, WritePart, Write, Fsync, Moves
<1>2. fd[p] = p
  BY <1>1 DEF CallOK, AtWork
<1>3. /\ \/ pc' = pc /\ pc[p] = "writing" /\ cache' = [cache EXCEPT ![p] = "part"] /\ disk' = disk
         \/ /\ pc[p] = "writing" /\ pc' = [pc EXCEPT ![p] = "syncing"]
            /\ cache' = [cache EXCEPT ![p] = p] /\ disk' = disk
         \/ /\ pc[p] = "syncing" /\ pc' = [pc EXCEPT ![p] = "renaming"]
            /\ disk' = [disk EXCEPT ![p] = cache[p]] /\ cache' = cache
      /\ UNCHANGED <<fd, failed, synced, temp, directory>>
  BY <1>2 DEF WritePart, Write, Fsync, Moves, calls
<1>4. TypeOK'
  <2>1. cache \in [Inodes -> Contents] /\ disk \in [Inodes -> Contents] /\ p \in Contents
    BY <1>1 DEF TypeOK, Contents
  <2>2. cache' \in [Inodes -> Contents] /\ disk' \in [Inodes -> Contents]
    BY <1>3, <2>1 DEF Contents
  <2>3. pc' \in [Writers -> Calling]
    BY <1>1, <1>3 DEF TypeOK, Calling
  <2> QED
    BY <1>1, <1>3, <2>2, <2>3 DEF TypeOK, Calling, directory
<1>5. CallOK(p)' /\ NamedWhenReplaced(p)'
  BY <1>1, <1>3 DEF TypeOK, CallOK, NamedWhenReplaced, InHistory, AtWork, BeforeReplace, directory
<1>6. OwnStep(p)
  BY <1>1, <1>3 DEF OwnStep, TypeOK, BeforeReplace, AtWork
<1>7. pc'[p] \in {"writing", "syncing", "renaming"}
  BY <1>1, <1>3 DEF TypeOK
<1> QED
  BY <1>1, <1>4, <1>5, <1>6, <1>7, OwnStepKeepsOthers

LEMMA EndingStep ==
  ASSUME WriteInv, NEW p \in Writers, Fail(p) \/ DirectoryRefused(p) \/ Clean(p) \/ Kill(p)
  PROVE  WriteInv'
<1> USE WritersAreInodes
<1>1. CallOK(p) /\ NamedWhenReplaced(p) /\ pc[p] # "idle" /\ TypeOK
  BY DEF WriteInv, Fail, DirectoryRefused, Clean, Kill, Moves
<1>2. /\ \/ /\ pc[p] \in {"opening", "writing", "syncing", "renaming"}
            /\ pc' = [pc EXCEPT ![p] = "cleaning"] /\ failed' = [failed EXCEPT ![p] = TRUE]
            /\ temp' = temp
         \/ /\ pc[p] = "syncing directory" /\ pc' = [pc EXCEPT ![p] = "cleaning"]
            /\ UNCHANGED <<failed, temp>>
         \/ /\ pc[p] = "cleaning" /\ failed' = failed
            /\ pc' = [pc EXCEPT ![p] = IF failed[p] THEN "raised" ELSE "returned"]
            /\ temp' = [temp EXCEPT ![p] = None]
         \/ pc' = [pc EXCEPT ![p] = "dead"] /\ UNCHANGED <<failed, temp>>
      /\ UNCHANGED <<fd, synced, cache, disk, directory>>
  BY DEF Fail, DirectoryRefused, Clean, Kill, Moves, TempName, files
<1>3. TypeOK'
  BY <1>1, <1>2 DEF TypeOK, directory
<1>4. CallOK(p)' /\ NamedWhenReplaced(p)'
  BY <1>1, <1>2 DEF TypeOK, CallOK, NamedWhenReplaced, InHistory, AtWork, BeforeReplace, directory
<1>5. OwnStep(p)
  BY <1>1, <1>2 DEF OwnStep, TypeOK
<1>6. pc'[p] \in {"cleaning", "returned"} /\ synced'[p] =>
        pc[p] \in {"cleaning", "returned"} /\ synced[p]
  <2>1. pc[p] \in BeforeReplace \cup {"syncing directory"} => ~ synced[p]
    BY <1>1 DEF CallOK
  <2>2. synced' = synced /\ p \in DOMAIN pc
    BY <1>1, <1>2 DEF TypeOK
  <2> QED
    BY <1>2, <2>1, <2>2 DEF BeforeReplace, AtWork
<1> QED
  BY <1>1, <1>3, <1>4, <1>5, <1>6, OwnStepKeepsOthers

LEMMA MkdirStep ==
  ASSUME WriteInv, NEW p \in Writers, Mkdir(p)
  PROVE  WriteInv'
<1>1. /\ TypeOK /\ pc[p] = "idle" /\ pc' = [pc EXCEPT ![p] = "opening"]
      /\ parent' = TRUE /\ made' = (made \/ ~ parent)
      /\ UNCHANGED <<fd, failed, synced, temp, cache, disk, history, flushed, parentDisk>>
  BY DEF WriteInv, Mkdir, Moves, files
<1>2. TypeOK'
  BY <1>1 DEF TypeOK
<1>3. ASSUME NEW q \in Writers PROVE CallOK(q)' /\ NamedWhenReplaced(q)'
  <2>1. CallOK(q) /\ NamedWhenReplaced(q) /\ InHistory(q)' = InHistory(q)
    BY <1>1 DEF WriteInv, InHistory
  <2>2. pc'[q] = pc[q] \/ (pc[q] = "idle" /\ pc'[q] = "opening")
    BY <1>1 DEF TypeOK
  <2>3. CallOK(q)'
    BY <1>1, <2>1, <2>2 DEF CallOK, AtWork, BeforeReplace
  <2>4. NamedWhenReplaced(q)'
    BY <1>1, <2>1, <2>2 DEF NamedWhenReplaced, AtWork, BeforeReplace
  <2> QED
    BY <2>3, <2>4
<1>4. NeverTorn'
  BY <1>1 DEF WriteInv, NeverTorn
<1>5. DirectoryOK'
  BY <1>1 DEF WriteInv, TypeOK, DirectoryOK
<1>6. SyncedStays'
  BY <1>1 DEF WriteInv, TypeOK, SyncedStays, Stays, Survives
<1> QED
  BY <1>2, <1>3, <1>4, <1>5, <1>6 DEF WriteInv

LEMMA HistoryTypes ==
  ASSUME TypeOK
  PROVE  /\ history \in Seq(Inodes) /\ DOMAIN history = 1 .. Len(history)
         /\ Len(history) \in Nat /\ Len(history) >= 1
         /\ flushed \in 1 .. Len(history) /\ Survives \in 1 .. Len(history)
<1>1. history \in Seq(Inodes) /\ flushed \in 1 .. Len(history)
  BY DEF TypeOK
<1>2. Len(history) \in Nat /\ DOMAIN history = 1 .. Len(history)
  BY <1>1
<1>3. Len(history) >= 1
  BY <1>1, <1>2
<1>4. 1 \in 1 .. Len(history)
  BY <1>2, <1>3
<1> QED
  BY <1>1, <1>2, <1>3, <1>4 DEF Survives

LEMMA Appended ==
  ASSUME NEW h \in Seq(Inodes), NEW v \in Inodes, NEW a, a = Append(h, v)
  PROVE  /\ a \in Seq(Inodes) /\ Len(a) = Len(h) + 1 /\ DOMAIN a = 1 .. Len(h) + 1
         /\ \A i \in 1 .. Len(h) : a[i] = h[i]
         /\ a[Len(h) + 1] = v
OBVIOUS

(* Replace appends an inode that is whole and on disk. *)
LEMMA ReplaceStep ==
  ASSUME WriteInv, NEW p \in Writers, Replace(p)
  PROVE  WriteInv'
<1> USE WritersAreInodes
<1>1. CallOK(p) /\ NamedWhenReplaced(p) /\ pc[p] = "renaming" /\ TypeOK
  BY DEF WriteInv, Replace, Moves
<1>2. temp[p] = p /\ cache[p] = p /\ disk[p] = p
  BY <1>1 DEF CallOK, AtWork
<1>3. /\ pc' = [pc EXCEPT ![p] = "syncing directory"] /\ history' = Append(history, p)
      /\ temp' = [temp EXCEPT ![p] = None]
      /\ UNCHANGED <<fd, failed, synced, cache, disk, flushed, parent, parentDisk, made>>
  BY <1>2 DEF Replace, Moves, TempName
<1>4. /\ history \in Seq(Inodes) /\ DOMAIN history = 1 .. Len(history)
      /\ Len(history) \in Nat /\ flushed \in 1 .. Len(history)
      /\ Survives \in 1 .. Len(history)
  BY <1>1, HistoryTypes
<1>5. /\ history' \in Seq(Inodes) /\ Len(history') = Len(history) + 1
      /\ \A i \in DOMAIN history : i \in DOMAIN history' /\ history'[i] = history[i]
      /\ \A i \in DOMAIN history' : i \in DOMAIN history \/ history'[i] = p
      /\ history'[Len(history) + 1] = p /\ Len(history) + 1 \in DOMAIN history'
  <2>1. /\ history' \in Seq(Inodes) /\ Len(history') = Len(history) + 1
        /\ DOMAIN history' = 1 .. Len(history) + 1
        /\ \A i \in 1 .. Len(history) : history'[i] = history[i]
        /\ history'[Len(history) + 1] = p
    <3>1. history' = Append(history, p) /\ p \in Inodes
      BY <1>3
    <3> QED
      BY <1>4, <3>1, Appended
  <2>2. \A i \in 1 .. Len(history) + 1 : i \in 1 .. Len(history) \/ i = Len(history) + 1
    BY <1>4
  <2> QED
    BY <1>4, <2>1, <2>2
<1>6. TypeOK'
  <2>1. history' # <<>> /\ flushed' \in 1 .. Len(history')
    <3>1. flushed' \in 1 .. Len(history')
      <4>1. flushed' = flushed
        BY <1>3
      <4> QED
        BY <1>4, <1>5, <4>1
    <3>2. Len(history') # 0
      BY <1>4, <1>5
    <3> QED
      BY <3>1, <3>2
  <2> QED
    BY <1>1, <1>3, <1>5, <2>1 DEF TypeOK
<1>7. ASSUME NEW q \in Writers PROVE CallOK(q)'
  BY <1>1, <1>3 DEF WriteInv, TypeOK, CallOK, AtWork, BeforeReplace
<1>8. ASSUME NEW q \in Writers PROVE NamedWhenReplaced(q)'
  <2>1. CASE q = p
    <3>1. InHistory(q)' /\ pc'[q] = "syncing directory"
      BY <1>1, <1>3, <1>5, <2>1 DEF InHistory, TypeOK
    <3> QED
      BY <3>1 DEF NamedWhenReplaced, AtWork, BeforeReplace
  <2>2. CASE q # p
    <3>1. InHistory(q)' = InHistory(q)
      BY <1>5, <2>2 DEF InHistory
    <3>2. NamedWhenReplaced(q) /\ pc'[q] = pc[q] /\ temp'[q] = temp[q] /\ failed' = failed
      BY <1>1, <1>3, <2>2 DEF WriteInv, TypeOK
    <3> QED
      BY <3>1, <3>2 DEF NamedWhenReplaced, AtWork, BeforeReplace
  <2> QED
    BY <2>1, <2>2
<1>9. NeverTorn'
  BY <1>2, <1>3, <1>5 DEF WriteInv, NeverTorn
<1>10. DirectoryOK'
  BY <1>1, <1>3 DEF WriteInv, TypeOK, DirectoryOK
<1>11. SyncedStays'
  <2> SUFFICES ASSUME NEW q \in Writers, pc'[q] \in {"cleaning", "returned"}, synced'[q], ~ made'
               PROVE  Stays(q)'
    BY DEF SyncedStays
  <2>1. pc[q] \in {"cleaning", "returned"} /\ synced[q] /\ ~ made
    BY <1>1, <1>3 DEF TypeOK
  <2>2. Stays(q)
    BY <2>1 DEF WriteInv, SyncedStays
  <2>3. Survives' = Survives
    BY <1>3 DEF Survives
  <2> QED
    BY <1>4, <1>5, <2>2, <2>3 DEF Stays
<1> QED
  BY <1>6, <1>7, <1>8, <1>9, <1>10, <1>11 DEF WriteInv

LEMMA SyncDirectoryStep ==
  ASSUME WriteInv, NEW p \in Writers, SyncDirectory(p)
  PROVE  WriteInv'
<1>1. /\ TypeOK /\ CallOK(p) /\ NamedWhenReplaced(p)
      /\ pc[p] = "syncing directory" /\ pc' = [pc EXCEPT ![p] = "cleaning"]
      /\ synced' = [synced EXCEPT ![p] = TRUE] /\ flushed' = Len(history)
      /\ UNCHANGED <<fd, failed, temp, cache, disk, history, parent, parentDisk, made>>
  BY DEF WriteInv, SyncDirectory, Moves, files
<1>2. /\ history \in Seq(Inodes) /\ DOMAIN history = 1 .. Len(history)
      /\ Len(history) \in Nat /\ Len(history) >= 1 /\ Survives \in 1 .. Len(history)
  BY <1>1, HistoryTypes
<1>3. TypeOK'
  <2>1. flushed' \in 1 .. Len(history)
    <3>1. flushed' = Len(history)
      BY <1>1
    <3> QED
      BY <1>2, <3>1
  <2>2. pc' \in [Writers -> Calling] /\ synced' \in [Writers -> BOOLEAN]
    BY <1>1 DEF TypeOK, Calling
  <2> QED
    BY <1>1, <2>1, <2>2 DEF TypeOK, Calling
<1>4. ASSUME NEW q \in Writers PROVE CallOK(q)'
  BY <1>1 DEF WriteInv, TypeOK, CallOK, AtWork, BeforeReplace
<1>5. ASSUME NEW q \in Writers PROVE NamedWhenReplaced(q)'
  <2>1. NamedWhenReplaced(q) /\ InHistory(q)' = InHistory(q)
    BY <1>1 DEF WriteInv, InHistory
  <2>2. pc'[q] = pc[q] \/ (q = p /\ pc'[q] = "cleaning" /\ ~ failed'[q])
    BY <1>1 DEF TypeOK, CallOK
  <2> QED
    BY <1>1, <2>1, <2>2 DEF NamedWhenReplaced, AtWork, BeforeReplace
<1>6. NeverTorn'
  BY <1>1 DEF WriteInv, NeverTorn
<1>7. DirectoryOK'
  BY <1>1 DEF WriteInv, TypeOK, DirectoryOK
<1>8. SyncedStays'
  <2> SUFFICES ASSUME NEW q \in Writers, pc'[q] \in {"cleaning", "returned"}, synced'[q], ~ made
               PROVE  Stays(q)'
    BY <1>1 DEF SyncedStays
  <2>1. parentDisk /\ Survives' = Len(history)
    BY <1>1 DEF WriteInv, DirectoryOK, Survives
  <2>2. InHistory(q)
    <3>1. CASE q = p
      BY <1>1, <3>1 DEF NamedWhenReplaced
    <3>2. CASE q # p
      <4>1. Stays(q)
        BY <1>1, <3>2 DEF WriteInv, TypeOK, SyncedStays
      <4> QED
        BY <1>2, <4>1 DEF Stays, InHistory
    <3> QED
      BY <3>1, <3>2
  <2>3. Stays(q)' <=> \E i \in 1 .. Len(history) : history[i] = q
    BY <1>1, <2>1 DEF Stays
  <2> QED
    BY <1>2, <2>2, <2>3 DEF InHistory
<1> QED
  BY <1>3, <1>4, <1>5, <1>6, <1>7, <1>8 DEF WriteInv

LEMMA WriteBackStep ==
  ASSUME WriteInv, WriteBack
  PROVE  WriteInv'
<1>1. /\ TypeOK /\ history \in Seq(Inodes) /\ DOMAIN history = 1 .. Len(history)
      /\ Len(history) \in Nat /\ Len(history) >= 1
      /\ flushed \in 1 .. Len(history) /\ Survives \in 1 .. Len(history)
  BY HistoryTypes DEF WriteInv
<1>2. ASSUME NEW i \in Inodes, disk' = [disk EXCEPT ![i] = cache[i]],
             UNCHANGED <<calls, temp, cache, directory>>
      PROVE  WriteInv'
  <2>1. TypeOK'
    BY <1>1, <1>2 DEF TypeOK, calls, directory
  <2>2. ASSUME NEW q \in Writers PROVE CallOK(q)' /\ NamedWhenReplaced(q)'
    <3>1. CallOK(q) /\ NamedWhenReplaced(q) /\ InHistory(q)' = InHistory(q)
      BY <1>2 DEF WriteInv, InHistory, directory
    <3>2. disk'[q] \in {disk[q], cache[q]}
      BY <1>1, <1>2, WritersAreInodes DEF TypeOK
    <3>3. CallOK(q)'
      BY <1>2, <3>1, <3>2 DEF CallOK, AtWork, BeforeReplace, calls
    <3>4. NamedWhenReplaced(q)'
      BY <1>2, <3>1 DEF NamedWhenReplaced, AtWork, BeforeReplace, calls
    <3> QED
      BY <3>3, <3>4
  <2>3. NeverTorn'
    <3>1. \A k \in DOMAIN history : disk'[history[k]] \in {disk[history[k]], cache[history[k]]}
      BY <1>1, <1>2, HistoryOfInodes DEF TypeOK
    <3> QED
      BY <1>2, <3>1 DEF WriteInv, NeverTorn, directory
  <2>4. DirectoryOK' /\ SyncedStays'
    BY <1>2 DEF WriteInv, DirectoryOK, SyncedStays, Stays, Survives, directory, calls
  <2> QED
    BY <2>1, <2>2, <2>3, <2>4 DEF WriteInv
<1>3. ASSUME flushed' \in {flushed, Len(history)}, parentDisk' = parentDisk \/ parentDisk' = parent,
             UNCHANGED <<calls, files, history, parent, made>>
      PROVE  WriteInv'
  <2>1. flushed' \in 1 .. Len(history) /\ flushed' >= flushed
    BY <1>1, <1>3
  <2>2. TypeOK'
    BY <1>1, <1>3, <2>1 DEF TypeOK, calls, files
  <2>3. ASSUME NEW q \in Writers PROVE CallOK(q)' /\ NamedWhenReplaced(q)'
    <3>1. CallOK(q) /\ NamedWhenReplaced(q) /\ InHistory(q)' = InHistory(q)
      BY <1>3 DEF WriteInv, InHistory
    <3>2. CallOK(q)'
      BY <1>3, <3>1 DEF CallOK, AtWork, BeforeReplace, calls, files
    <3>3. NamedWhenReplaced(q)'
      BY <1>3, <3>1 DEF NamedWhenReplaced, AtWork, BeforeReplace, calls, files
    <3> QED
      BY <3>2, <3>3
  <2>4. NeverTorn'
    BY <1>3 DEF WriteInv, NeverTorn, files
  <2>5. DirectoryOK'
    <3>1. pc' = pc /\ parent' = parent /\ made' = made
      BY <1>3 DEF calls
    <3> QED
      BY <1>3, <3>1 DEF WriteInv, DirectoryOK
  <2>6. Survives' >= Survives /\ Survives' \in 1 .. Len(history)
    <3>1. parentDisk => parentDisk'
      <4>1. (parentDisk => parent) /\ parent \in BOOLEAN /\ parentDisk \in BOOLEAN
        BY <1>1 DEF WriteInv, TypeOK, DirectoryOK
      <4> QED
        BY <1>3, <4>1
    <3> QED
      BY <1>1, <2>1, <3>1 DEF Survives
  <2>7. SyncedStays'
    BY <1>1, <1>3, <2>6 DEF WriteInv, SyncedStays, Stays, calls
  <2> QED
    BY <2>2, <2>3, <2>4, <2>5, <2>7 DEF WriteInv
<1> QED
  BY <1>2, <1>3 DEF WriteBack, directory

(* What a power loss leaves is a prefix of the history, and it is on disk. *)
LEMMA PowerLossStep ==
  ASSUME WriteInv, PowerLoss
  PROVE  WriteInv'
<1> USE WritersAreInodes
<1>1. /\ TypeOK /\ history \in Seq(Inodes) /\ DOMAIN history = 1 .. Len(history)
      /\ Len(history) \in Nat /\ Len(history) >= 1
      /\ flushed \in 1 .. Len(history) /\ Survives \in 1 .. Len(history)
  BY HistoryTypes DEF WriteInv
<1>3. /\ history' \in Seq(Inodes) /\ Len(history') = Survives
      /\ DOMAIN history' = 1 .. Survives
      /\ \A i \in 1 .. Survives : history'[i] = history[i] /\ i \in DOMAIN history
  BY <1>1 DEF PowerLoss
<1>4. /\ cache' = disk /\ flushed' = Survives /\ parent' = parentDisk
      /\ UNCHANGED <<fd, failed, synced, disk, parentDisk, made>>
      /\ pc' = [p \in Writers |-> IF pc[p] \in {"idle", "returned"} THEN pc[p] ELSE "dead"]
  BY DEF PowerLoss
<1>5. \A p \in Writers : temp'[p] \in {None, fd[p]} /\ pc'[p] \in {"idle", "returned", "dead"}
                         /\ (pc'[p] # "dead" => pc[p] = pc'[p])
  BY <1>4 DEF PowerLoss
<1>6. TypeOK'
  <2>1. temp' \in [Writers -> Writers \cup {None}]
    <3>1. PICK back \in SUBSET {p \in Writers : fd[p] # None} :
            temp' = [p \in Writers |-> IF parentDisk /\ p \in back THEN fd[p] ELSE None]
      BY DEF PowerLoss
    <3> QED
      BY <1>1, <3>1 DEF TypeOK
  <2>2. history' # <<>> /\ flushed' \in 1 .. Len(history')
    BY <1>1, <1>3, <1>4
  <2>3. pc' \in [Writers -> Calling]
    BY <1>1, <1>4 DEF TypeOK, Calling
  <2> QED
    BY <1>1, <1>3, <1>4, <2>1, <2>2, <2>3 DEF TypeOK, Calling
<1>7. \A p \in Writers : InHistory(p)' => InHistory(p)
  BY <1>3 DEF InHistory
<1>8. ASSUME NEW p \in Writers PROVE CallOK(p)' /\ NamedWhenReplaced(p)'
  <2>1. CallOK(p) /\ NamedWhenReplaced(p)
    BY DEF WriteInv
  <2>2. CallOK(p)'
    BY <1>4, <1>5, <2>1 DEF CallOK, AtWork, BeforeReplace
  <2>3. NamedWhenReplaced(p)'
    BY <1>5, <1>7, <2>1 DEF NamedWhenReplaced, AtWork, BeforeReplace
  <2> QED
    BY <2>2, <2>3
<1>9. NeverTorn'
  BY <1>3, <1>4 DEF WriteInv, NeverTorn
<1>10. DirectoryOK'
  BY <1>1, <1>4, <1>5 DEF WriteInv, TypeOK, DirectoryOK
<1>11. SyncedStays'
  <2> SUFFICES ASSUME NEW p \in Writers, pc'[p] \in {"cleaning", "returned"}, synced'[p], ~ made'
               PROVE  Stays(p)'
    BY DEF SyncedStays
  <2>1. Stays(p)
    BY <1>4, <1>5 DEF WriteInv, SyncedStays
  <2>2. Survives' = Survives
    BY <1>4 DEF Survives
  <2> QED
    BY <1>3, <2>1, <2>2 DEF Stays
<1> QED
  BY <1>6, <1>8, <1>9, <1>10, <1>11 DEF WriteInv

LEMMA WriteStep == WriteInv /\ [Next]_vars => WriteInv'
<1> SUFFICES ASSUME WriteInv, [Next]_vars PROVE WriteInv'
  OBVIOUS
<1>1. ASSUME NEW p \in Writers, Call(p) PROVE WriteInv'
  BY <1>1, OpenStep, WritingStep, EndingStep, MkdirStep, ReplaceStep, SyncDirectoryStep DEF Call
<1>2. CASE WriteBack
  BY <1>2, WriteBackStep
<1>3. CASE PowerLoss
  BY <1>3, PowerLossStep
<1>4. CASE UNCHANGED vars
  <2> USE <1>4 DEF vars, calls, files, directory
  <2>1. TypeOK' /\ NeverTorn' /\ DirectoryOK' /\ SyncedStays'
    BY DEF WriteInv, TypeOK, NeverTorn, DirectoryOK, SyncedStays, Stays, Survives
  <2>2. ASSUME NEW p \in Writers PROVE CallOK(p)' /\ NamedWhenReplaced(p)'
    <3>1. CallOK(p) /\ NamedWhenReplaced(p) /\ InHistory(p)' = InHistory(p)
      BY DEF WriteInv, InHistory
    <3>2. CallOK(p)'
      BY <3>1 DEF CallOK, AtWork, BeforeReplace
    <3>3. NamedWhenReplaced(p)'
      BY <3>1 DEF NamedWhenReplaced, AtWork, BeforeReplace
    <3> QED
      BY <3>2, <3>3
  <2> QED
    BY <2>1, <2>2 DEF WriteInv
<1> QED
  BY <1>1, <1>2, <1>3, <1>4 DEF Next

LEMMA WriteInvariance == Spec => []WriteInv
BY InitialWrite, WriteStep, PTL DEF Spec

(* The inodes, descriptors and flags keep to their values, for any number   *)
(* of calls.                                                                *)
THEOREM WriteTypes == Spec => []TypeOK
<1>1. WriteInv => TypeOK
  BY DEF WriteInv
<1> QED
  BY <1>1, WriteInvariance, PTL

(* No reader, before or after a power loss, finds a partial file: for any   *)
(* number of calls of atomic_write_bytes, failing and dying at any step.    *)
THEOREM ReadersSeeWholeFiles == Spec => []NeverTorn
<1>1. WriteInv => NeverTorn
  BY DEF WriteInv
<1> QED
  BY <1>1, WriteInvariance, PTL

(* A write that returned, in a directory that was there and can be fsynced, *)
(* is still in the destination, or replaced by a later one, after a power   *)
(* loss at any moment.                                                      *)
THEOREM ReturnedIsDurable == Spec => []ReturnedSurvives
<1>1. WriteInv => ReturnedSurvives
  BY DEF WriteInv, SyncedStays, ReturnedSurvives
<1> QED
  BY <1>1, WriteInvariance, PTL

(* A write that raised never showed, and its temporary file is gone.        *)
THEOREM RaisedIsUndone == Spec => []RaisedLeftNothing
<1>1. WriteInv => RaisedLeftNothing
  BY DEF WriteInv, NamedWhenReplaced, InHistory, RaisedLeftNothing, Range, TempName
<1> QED
  BY <1>1, WriteInvariance, PTL

------------------------------------------------------------------------------
(* What a reader sees is the history itself, as every inode of it is whole. *)
SeenLog == [i \in 1 .. Len(history) |-> cache[history[i]]]

LEMMA LogIsHistory == TypeOK /\ NeverTorn => SeenLog = history
<1> SUFFICES ASSUME TypeOK, NeverTorn PROVE SeenLog = history
  OBVIOUS
<1>1. history \in Seq(Inodes)
  BY DEF TypeOK
<1>2. history = [i \in 1 .. Len(history) |-> history[i]] /\ DOMAIN history = 1 .. Len(history)
  BY <1>1
<1>3. \A i \in 1 .. Len(history) : cache[history[i]] = history[i]
  BY <1>2 DEF NeverTorn
<1> QED
  BY <1>2, <1>3 DEF SeenLog

(* A step in terms of the history: a write, a flush, a power loss or none. *)
LEMMA HistoryStep ==
  ASSUME WriteInv, WriteInv', [Next]_vars
  PROVE  \/ UNCHANGED <<history, Survives>>
         \/ /\ \E v \in Inodes : history' = Append(history, v)
            /\ Survives' = Survives
         \/ /\ \E n \in Survives + 1 .. Len(history) : Survives' = n
            /\ history' = history
         \/ history' = SubSeq(history, 1, Survives) /\ Survives' = Survives
<1>1. /\ TypeOK /\ history \in Seq(Inodes) /\ DOMAIN history = 1 .. Len(history)
      /\ Len(history) \in Nat /\ Len(history) >= 1
      /\ flushed \in 1 .. Len(history) /\ Survives \in 1 .. Len(history)
  BY HistoryTypes DEF WriteInv
<1>2. ASSUME NEW p \in Writers, Replace(p)
      PROVE  (\E v \in Inodes : history' = Append(history, v)) /\ Survives' = Survives
  <2>1. temp[TempName(p)] \in Inodes
    BY <1>1, <1>2 DEF Replace, TempName, TypeOK, Inodes
  <2> QED
    BY <1>2, <2>1 DEF Replace, Survives
<1>3. ASSUME flushed' \in {flushed, Len(history)}, parentDisk' = parentDisk \/ parentDisk' = parent,
             history' = history
      PROVE  \/ Survives' = Survives
             \/ \E n \in Survives + 1 .. Len(history) : Survives' = n
  <2>1. parentDisk => parentDisk'
    <3>1. (parentDisk => parent) /\ parent \in BOOLEAN /\ parentDisk \in BOOLEAN
      BY <1>1 DEF WriteInv, TypeOK, DirectoryOK
    <3> QED
      BY <1>3, <3>1
  <2> QED
    BY <1>1, <1>3, <2>1 DEF Survives
<1>4. ASSUME PowerLoss PROVE history' = SubSeq(history, 1, Survives) /\ Survives' = Survives
  BY <1>4 DEF PowerLoss, Survives
<1>5. ASSUME NEW p \in Writers, Call(p), ~ Replace(p), ~ SyncDirectory(p)
      PROVE  UNCHANGED <<history, Survives>>
  <2>1. history' = history /\ flushed' = flushed /\ parentDisk' = parentDisk
    <3>1. CASE Mkdir(p) \/ Open(p) \/ WritePart(p)
      BY <3>1 DEF Mkdir, Open, WritePart, directory
    <3>2. CASE Write(p) \/ Fsync(p) \/ Fail(p)
      BY <3>2 DEF Write, Fsync, Fail, directory
    <3>3. CASE DirectoryRefused(p) \/ Clean(p) \/ Kill(p)
      BY <3>3 DEF DirectoryRefused, Clean, Kill, directory
    <3> QED
      BY <1>5, <3>1, <3>2, <3>3 DEF Call
  <2> QED
    BY <2>1 DEF Survives
<1>6. ASSUME NEW p \in Writers, SyncDirectory(p)
      PROVE  flushed' = Len(history) /\ parentDisk' = parentDisk /\ history' = history
  BY <1>6 DEF SyncDirectory
<1>7. ASSUME WriteBack
      PROVE  /\ flushed' \in {flushed, Len(history)}
             /\ parentDisk' = parentDisk \/ parentDisk' = parent
             /\ history' = history
  BY <1>7 DEF WriteBack, directory
<1>8. CASE UNCHANGED vars
  BY <1>8 DEF vars, directory, Survives
<1> QED
  BY <1>2, <1>3, <1>4, <1>5, <1>6, <1>7, <1>8 DEF Next

(* atomic_write_bytes implements DurableFile: its open, write, fsync, rename *)
(* and fsync are one write of a whole payload, and the disk has a prefix of  *)
(* those writes.                                                             *)
THEOREM WritesAreAtomic == Spec => ImplementsDurableFile
<1>1. WriteInv /\ Init => Abstract!Init
  <2> SUFFICES ASSUME WriteInv, Init PROVE Abstract!Init
    OBVIOUS
  <2>1. SeenLog = <<Old>> /\ Old \in Inodes /\ Survives = 1
    BY LogIsHistory DEF WriteInv, Init, Inodes, Survives
  <2> QED
    BY <2>1 DEF Abstract!Init, SeenLog
<1>2. WriteInv /\ WriteInv' /\ [Next]_vars => [Abstract!Next]_(Abstract!cell)
  <2> SUFFICES ASSUME WriteInv, WriteInv', [Next]_vars PROVE [Abstract!Next]_(Abstract!cell)
    OBVIOUS
  <2>1. SeenLog = history
    BY LogIsHistory DEF WriteInv
  <2>3. SeenLog' = history'
    <3>1. TypeOK' /\ NeverTorn'
      BY DEF WriteInv
    <3>2. (TypeOK /\ NeverTorn => SeenLog = history)'
      BY LogIsHistory, PTL
    <3> QED
      BY <3>1, <3>2
  <2>2. [Abstract!Next]_(Abstract!cell) <=>
          \/ UNCHANGED <<SeenLog, Survives>>
          \/ (\E v \in Inodes : SeenLog' = Append(SeenLog, v)) /\ UNCHANGED Survives
          \/ (\E n \in Survives + 1 .. Len(SeenLog) : Survives' = n) /\ UNCHANGED SeenLog
          \/ SeenLog' = SubSeq(SeenLog, 1, Survives) /\ UNCHANGED Survives
    BY DEF Abstract!Next, Abstract!Write, Abstract!Persist, Abstract!PowerLoss, Abstract!cell, SeenLog
  <2> QED
    BY <2>1, <2>2, <2>3, HistoryStep
<1> QED
  BY <1>1, <1>2, InitialWrite, WriteInvariance, PTL DEF Spec, ImplementsDurableFile, Abstract!Spec
==============================================================================
