------------------------------ MODULE ResultStore ------------------------------
(***************************************************************************)
(* The two directories in which results are kept: the review cache         *)
(* (storage/cache.ts) and the stored runs (storage/runs.ts).  A file is    *)
(* written beside its place and renamed into it, under a maintenance lock  *)
(* that is also taken to make room and to discard what cannot be read;     *)
(* readers take no lock.  The lock is that of HostLock: a process that     *)
(* lives keeps it, and it may always seem busy.                            *)
(*                                                                         *)
(* A behaviour is about one of the directories; every process makes one    *)
(* call, and one step is one call of the file system.                      *)
(***************************************************************************)
EXTENDS Integers, FiniteSets

CONSTANTS
  Proc,
  Item,         \* cache keys, or run ids
  Leftover,     \* other file names: temporaries of processes that died earlier
  Foreign,      \* a file that is none of the store's
  None,
  MaxEntries,   \* maxEntries, MAX_STORED_RUNS
  MaxBytes,     \* maxBytes (of the cache)
  MaxCleanup,   \* maxCleanupEntries, MAX_RUN_CLEANUP_PER_WRITE
  MaxFaults     \* bound: file operations that fail, and crashes

VARIABLES
  store,   \* "cache" or "runs"
  file,    \* file[n]: what is at the name n, or None
  clock,   \* the last modification time that was given
  maint,   \* the process that has the maintenance lock, or None
  pc,
  item,    \* item[p]: what p writes or reads
  new,     \* new[p]: the file that p writes
  todo,    \* todo[p]: the names that its scan found and that are still candidates
  room,    \* room[p]: entries and bytes once p has written, removals left, overflow
  seen,    \* seen[p]: what p observed, or has opened
  faults

vars == <<store, file, clock, maint, pc, item, new, todo, room, seen, faults>>
readVars == <<store, clock, new, todo, room>>

\* A temporary, or a quarantine, is named after the process that made it.
Name == Item \cup Proc \cup Leftover \cup {Foreign}
Artifact == Proc \cup Leftover

\* defect: what isStoredRunRecord finds wrong with the record, or with the file.
Defect == {"none", "torn", "shape", "metadata", "findings", "key", "expired"}
File == [time : Nat, size : 1 .. 2, defect : Defect]
Room == [entries : Int, bytes : Int, left : 0 .. MaxCleanup, overflow : BOOLEAN]
NoRoom == [entries |-> 0, bytes |-> 0, left |-> 0, overflow |-> FALSE]

Ended == {"stored", "failed", "hit", "missed", "crashed"}

TypeOK ==
  /\ store \in {"cache", "runs"}
  /\ file \in [Name -> File \cup {None}]
  /\ clock \in Nat
  /\ maint \in Proc \cup {None}
  /\ pc \in [Proc -> Ended \cup {"idle", "lock", "scan", "evict", "write", "rename",
                "unlock", "content", "verify", "discard", "check", "quarantine",
                "remove", "forget"}]
  /\ item \in [Proc -> Item \cup {None}]
  /\ new \in [Proc -> File \cup {None}]
  /\ todo \in [Proc -> SUBSET Name]
  /\ room \in [Proc -> Room]
  /\ seen \in [Proc -> File \cup {None}]
  /\ faults \in 0 .. MaxFaults

Present(S) == {n \in S : file[n] # None}

\* The bytes of the names S: there are files of two sizes.
Bytes(S) ==
  Cardinality(Present(S)) + Cardinality({n \in Present(S) : file[n].size = 2})

Goto(p, label) == pc' = [pc EXCEPT ![p] = label]
Fault == faults < MaxFaults /\ faults' = faults + 1
Write(n, f) == file' = [file EXCEPT ![n] = f]

-----------------------------------------------------------------------------
(* Records and files                                                       *)

\* readBoundedUtf8File and JSON.parse.
IsWhole(f) == f.defect # "torn"

HasRunDocument(f) == f.defect # "shape"

\* Every field of the record repeats one of its run document.
HasValidMetadata(f) == f.defect # "metadata"

\* A record of the cache names its key.
HasCacheKey(f) == store = "cache" => f.defect # "key"

\* The findings lie in the bucket of their lifecycle, with the ids of the run document.
MatchesStoredRun(f) ==
  HasValidMetadata(f) /\ HasCacheKey(f) /\ f.defect # "findings"

IsStoredRunRecord(f) == IsWhole(f) /\ HasRunDocument(f) /\ MatchesStoredRun(f)

\* The age of an entry; no file in the directory is larger than an entry may be.
IsUsableCacheFile(f) == store = "cache" => f.defect # "expired"

-----------------------------------------------------------------------------
(* publishCacheEntry and storeRun                                          *)

\* What is written is a valid record, and fits into the directory.  A run keeps the time
\* at which its review started, and its id is new; an entry may replace one.
StartWrite(p) ==
  /\ pc[p] = "idle"
  /\ \E i \in Item, size \in 1 .. 2 :
       /\ size <= MaxBytes
       /\ item' = [item EXCEPT ![p] = i]
       /\ \/ /\ store = "cache"
             /\ new' = [new EXCEPT ![p] = [time |-> 0, size |-> size, defect |-> "none"]]
          \/ /\ store = "runs"
             /\ size = 1
             /\ file[i] = None
             /\ \A q \in Proc : pc[q] \notin {"idle"} => item[q] # i
             /\ \E started \in 0 .. clock :
                  new' = [new EXCEPT ![p] =
                            [time |-> started, size |-> 1, defect |-> "none"]]
  /\ Goto(p, "lock")
  /\ UNCHANGED <<store, file, clock, maint, todo, room, seen, faults>>

\* acquireLock succeeds if nobody who lives has the lock.
TakeLock(p) ==
  /\ maint \in {None} \cup {q \in Proc : pc[q] = "crashed"}
  /\ maint' = p

AcquireMaintenance(p) ==
  /\ pc[p] = "lock"
  /\ TakeLock(p)
  /\ Goto(p, "scan")
  /\ UNCHANGED <<store, file, clock, item, new, todo, room, seen, faults>>

\* The lock seems busy until the wait is over.
MaintenanceBusy(p) ==
  /\ pc[p] = "lock"
  /\ Goto(p, "failed")
  /\ UNCHANGED <<store, file, clock, maint, item, new, todo, room, seen, faults>>

ScanLimit == MaxEntries + MaxCleanup + 1

\* The directory is listed in any order, up to the limit.
Scan(p) ==
  /\ pc[p] = "scan"
  /\ \E S \in SUBSET Present(Name) :
       /\ \/ Cardinality(Present(Name)) <= ScanLimit /\ S = Present(Name)
          \/ Cardinality(Present(Name)) > ScanLimit /\ Cardinality(S) = ScanLimit
       /\ todo' = [todo EXCEPT ![p] = S \ {item[p]}]
       /\ room' = [room EXCEPT ![p] =
            [entries |-> Cardinality(S \ {item[p]}) + 1,
             bytes |-> Bytes(S \ {item[p]}) + new[p].size,
             left |-> MaxCleanup,
             overflow |-> S # Present(Name)]]
  /\ Goto(p, "evict")
  /\ UNCHANGED <<store, file, clock, maint, item, new, seen, faults>>

\* Mutated: the bytes are left out of account.
OverCapacityByCount(r) == r.overflow \/ r.entries > MaxEntries

OverCapacity(r) ==
  \/ r.overflow
  \/ r.entries > MaxEntries
  \/ store = "cache" /\ r.bytes > MaxBytes

\* makeCapacity goes once through the files, the oldest first, and takes temporaries, what
\* has expired, and entries as long as there are too many.
CacheVictim(p, n) ==
  LET Removable == {m \in todo[p] : \/ m \in Artifact
                                    \/ m \in Item /\ ~IsUsableCacheFile(file[m])
                                    \/ m \in Item /\ OverCapacity(room[p])}
  IN /\ n \in Removable
     /\ \A m \in Removable : file[n].time <= file[m].time

\* makeRunCapacity takes the temporaries first, and then runs that are older than the
\* new one, or any if the directory is beyond the limit of the scan.
RunVictim(p, n) ==
  \/ n \in todo[p] \cap Artifact
  \/ /\ todo[p] \cap Artifact = {}
     /\ OverCapacity(room[p])
     /\ n \in todo[p] \cap Item
     /\ \A m \in todo[p] \cap Item : file[n].time <= file[m].time
     /\ room[p].overflow \/ file[n].time < new[p].time

Victim(p, n) ==
  /\ room[p].left > 0
  /\ \/ store = "cache" /\ CacheVictim(p, n)
     \/ store = "runs" /\ RunVictim(p, n)

Evict(p) ==
  /\ pc[p] = "evict"
  /\ \E n \in todo[p] :
       /\ Victim(p, n)
       /\ Write(n, None)
       \* A pass does not come back to the files that it has left behind.
       /\ todo' = [todo EXCEPT ![p] = IF store = "cache"
                     THEN {m \in @ \ {n} : file[m].time >= file[n].time}
                     ELSE @ \ {n}]
       /\ room' = [room EXCEPT ![p].entries = @ - 1,
                               ![p].bytes = @ - file[n].size,
                               ![p].left = @ - 1]
  /\ UNCHANGED <<store, clock, maint, pc, item, new, seen, faults>>

\* The result of makeCapacity; without room the call throws.
Decide(p) ==
  /\ pc[p] = "evict"
  /\ \A n \in todo[p] : ~Victim(p, n)
  /\ \/ ~OverCapacity(room[p]) /\ Goto(p, "write") /\ UNCHANGED new
     \/ OverCapacity(room[p]) /\ Goto(p, "unlock") /\ new' = [new EXCEPT ![p] = None]
  /\ UNCHANGED <<store, file, clock, maint, item, todo, room, seen, faults>>

\* writeFile of atomicWrite.
WriteTemporary(p) ==
  /\ pc[p] = "write"
  /\ clock' = IF store = "cache" THEN clock + 1 ELSE clock
  /\ new' = [new EXCEPT ![p].time = IF store = "cache" THEN clock + 1 ELSE @]
  /\ Write(p, new'[p])
  /\ Goto(p, "rename")
  /\ UNCHANGED <<store, maint, item, todo, room, seen, faults>>

\* rename of atomicWrite, or its failure, or that of the write: rm removes the temporary.
RenameTemporary(p) ==
  /\ pc[p] = "rename"
  /\ \/ /\ file' = [file EXCEPT ![item[p]] = file[p], ![p] = None]
        /\ UNCHANGED <<new, faults>>
     \/ /\ Fault
        /\ Write(p, None)
        /\ new' = [new EXCEPT ![p] = None]
  /\ Goto(p, "unlock")
  /\ UNCHANGED <<store, clock, maint, item, todo, room, seen>>

\* releaseLock in the finally block; when it throws the process keeps the lock, and the
\* caller is not told that the result was written.
Unlock(p) ==
  /\ pc[p] = "unlock"
  /\ \/ /\ maint' = None
        /\ Goto(p, IF new[p] = None THEN "failed" ELSE "stored")
        /\ UNCHANGED faults
     \/ /\ Fault
        /\ Goto(p, "failed")
        /\ UNCHANGED maint
  /\ UNCHANGED <<store, file, clock, item, new, todo, room, seen>>

-----------------------------------------------------------------------------
(* readCacheEntry and loadRun                                              *)

StartRead(p) ==
  /\ pc[p] = "idle"
  /\ \E i \in Item :
       /\ item' = [item EXCEPT ![p] = i]
       /\ seen' = [seen EXCEPT ![p] = file[i]]
       /\ \/ file[i] = None /\ Goto(p, "missed")
          \/ file[i] # None /\ Goto(p, IF IsUsableCacheFile(file[i])
                                       THEN "content" ELSE "discard")
  /\ UNCHANGED <<readVars, file, maint, faults>>

\* A read that fails: the cache discards the generation that was observed first, and
\* loadRun throws.
Unread(p) == Goto(p, IF store = "cache" THEN "discard" ELSE "missed")

\* readBoundedUtf8File looks at the identity of the file, reads it, and looks again.
\* new[p] is the file that it has opened.
OpenContent(p) ==
  /\ pc[p] = "content"
  /\ new' = [new EXCEPT ![p] = file[item[p]]]
  /\ \/ file[item[p]] = None /\ Unread(p)
     \/ file[item[p]] # None /\ Goto(p, "verify")
  /\ UNCHANGED <<store, file, clock, maint, item, todo, room, seen, faults>>

\* Mutated: the file is not looked at again.
ReadOnce(p) ==
  /\ pc[p] = "verify"
  /\ \/ IsStoredRunRecord(new[p]) /\ Goto(p, "hit")
     \/ ~IsStoredRunRecord(new[p]) /\ Unread(p)
  /\ UNCHANGED <<readVars, file, maint, item, seen, faults>>

VerifyContent(p) ==
  /\ pc[p] = "verify"
  /\ \/ file[item[p]] = new[p] /\ IsStoredRunRecord(new[p]) /\ Goto(p, "hit")
     \/ ~(file[item[p]] = new[p] /\ IsStoredRunRecord(new[p])) /\ Unread(p)
  /\ UNCHANGED <<readVars, file, maint, item, seen, faults>>

\* discardCacheGeneration tries the lock once.
DiscardOrNot(p) ==
  /\ pc[p] = "discard"
  /\ \/ TakeLock(p) /\ Goto(p, "check")
     \/ Goto(p, "missed") /\ UNCHANGED maint
  /\ UNCHANGED <<readVars, file, item, seen, faults>>

\* Mutated: the file is not compared with the one that was observed, nor read again.
StillUseless(p) == file[item[p]] # None

\* Under the lock, only the generation that was observed is discarded, and only if it is
\* still found useless.
Discardable(p) ==
  /\ file[item[p]] # None
  /\ file[item[p]] = seen[p]
  /\ ~IsUsableCacheFile(seen[p]) \/ ~IsStoredRunRecord(seen[p])

CheckAgain(p) ==
  /\ pc[p] = "check"
  /\ \/ Discardable(p) /\ Goto(p, "quarantine")
     \/ ~Discardable(p) /\ Goto(p, "forget")
  /\ UNCHANGED <<readVars, file, maint, item, seen, faults>>

Quarantine(p) ==
  /\ pc[p] = "quarantine"
  /\ file' = [file EXCEPT ![item[p]] = None, ![p] = file[item[p]]]
  /\ Goto(p, "remove")
  /\ UNCHANGED <<readVars, maint, item, seen, faults>>

\* A failure to remove the quarantine is ignored.
RemoveQuarantine(p) ==
  /\ pc[p] = "remove"
  /\ \/ Write(p, None) /\ UNCHANGED faults
     \/ Fault /\ UNCHANGED file
  /\ Goto(p, "forget")
  /\ UNCHANGED <<readVars, maint, item, seen>>

\* A release that fails is ignored as well.
ReleaseDiscard(p) ==
  /\ pc[p] = "forget"
  /\ \/ maint' = None /\ UNCHANGED faults
     \/ Fault /\ UNCHANGED maint
  /\ Goto(p, "missed")
  /\ UNCHANGED <<readVars, file, item, seen>>

Crash(p) ==
  /\ pc[p] \notin {"idle", "crashed"}
  /\ Fault
  /\ Goto(p, "crashed")
  /\ UNCHANGED <<store, file, clock, maint, item, new, todo, room, seen>>
-----------------------------------------------------------------------------

\* The directory that is found: within its limits, but with temporaries of dead processes,
\* a foreign file, and records that are old or of another version.
Init ==
  /\ store \in {"cache", "runs"}
  /\ \E there \in SUBSET (Item \cup Leftover \cup {Foreign}), age \in [Item -> 1 .. Cardinality(Item)],
        defect \in Defect :
       /\ \A i, j \in Item : age[i] = age[j] => i = j
       /\ Cardinality(there \cap Item) <= MaxEntries
       /\ there \cap Item = {} => defect = "none"
       /\ file = [n \in Name |->
            IF n \notin there THEN None
            ELSE IF n \in Item
            THEN [time |-> age[n], size |-> 1,
                  defect |-> IF age[n] = 1 THEN defect ELSE "none"]
            ELSE [time |-> 0, size |-> 1, defect |-> "torn"]]
  /\ Bytes(Item) <= MaxBytes
  /\ clock = Cardinality(Item)
  /\ maint = None
  /\ pc = [p \in Proc |-> "idle"]
  /\ item = [p \in Proc |-> None]
  /\ new = [p \in Proc |-> None]
  /\ todo = [p \in Proc |-> {}]
  /\ room = [p \in Proc |-> NoRoom]
  /\ seen = [p \in Proc |-> None]
  /\ faults = 0

WriteStep(p) ==
  \/ AcquireMaintenance(p) \/ MaintenanceBusy(p) \/ Scan(p) \/ Evict(p) \/ Decide(p)
  \/ WriteTemporary(p) \/ RenameTemporary(p) \/ Unlock(p)

ReadStep(p) ==
  \/ OpenContent(p) \/ VerifyContent(p) \/ DiscardOrNot(p) \/ CheckAgain(p)
  \/ Quarantine(p) \/ RemoveQuarantine(p) \/ ReleaseDiscard(p)

Next ==
  \E p \in Proc : StartWrite(p) \/ StartRead(p) \/ WriteStep(p) \/ ReadStep(p) \/ Crash(p)

Spec == Init /\ [][Next]_vars
-----------------------------------------------------------------------------
(* Properties                                                              *)

\* However writers, discards and crashes interleave, the directory never holds more
\* entries, nor more bytes of them, than its limits allow.  (makeCapacity, cache.ts:215,
\* and makeRunCapacity, runs.ts:230, whose counts are made before the write.)
LimitsKept ==
  /\ Cardinality(Present(Item)) <= MaxEntries
  /\ store = "cache" => Bytes(Item) <= MaxBytes

\* A reader discards no record that another reader could use, even if it was published
\* between the look of the first and its discard.  (discardCacheGeneration, cache.ts:319.)
OnlyTheUselessIsDiscarded ==
  [][\A p \in Proc : Quarantine(p) =>
       ~IsUsableCacheFile(file[item[p]]) \/ ~IsStoredRunRecord(file[item[p]])]_vars

\* Who reads without a lock sees records that come and go in one step: what a read gives is
\* good and in its place, and a read that gives nothing has met no good record, or one that
\* went meanwhile.  (readCacheEntry, cache.ts:115, readBoundedUtf8File and loadRun.)
Record == [file : File, good : BOOLEAN]
View(f) ==
  IF f = None THEN None
  ELSE [file |-> f, good |-> IsUsableCacheFile(f) /\ IsStoredRunRecord(f)]
Asking == {"content", "verify"}
Missing == {"discard", "check", "quarantine", "remove", "forget", "missed"}
Reading(stage, i, r) == [stage |-> stage, item |-> i, record |-> r]
CallOf(p) ==
  IF pc[p] = "crashed" THEN Reading("lost", None, None)
  ELSE IF pc[p] \in Asking THEN Reading("asked", item[p], View(seen[p]))
  ELSE IF pc[p] \in Missing THEN Reading("missed", item[p], View(seen[p]))
  ELSE IF pc[p] = "hit" THEN Reading("hit", item[p], View(new[p]))
  ELSE Reading("none", None, None)
Kept == INSTANCE EntryStore
  WITH entry <- [i \in Item |-> View(file[i])], call <- [p \in Proc |-> CallOf(p)]
KeepsEntries == Kept!StoreSpec

=============================================================================
