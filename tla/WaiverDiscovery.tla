---------------------------- MODULE WaiverDiscovery ----------------------------
(***************************************************************************)
(* How the waivers of a policy are found and read (core/waiver-            *)
(* discovery.ts, waiver-directory-snapshot.ts, waivers.ts,                 *)
(* loadStructuredFile of core/config.ts) while others write, remove and    *)
(* rename files of the waiver directory.  The directory is listed twice,   *)
(* entry by entry, between checks of its identity (inode and times); a     *)
(* file is read in parts, of which there are two, the identifier and the   *)
(* rest of the waiver, between checks of the file's identity.              *)
(***************************************************************************)
EXTENDS Naturals, FiniteSets

CONSTANTS
  File,        \* names of waiver files
  Document,    \* what is ever written: [id, good]; not good: expired, or invalid
  None,
  MaxEdits     \* bound: edits of the directory

VARIABLES
  disk,        \* disk[f]: the waiver of file f, or None
  pc,
  moved,       \* entries have changed since the directory's identity was taken
  since,       \* history: the sets of entries that there have been since then
  left,        \* the entries that are still to be listed, or read
  first,       \* what the first listing found
  second,      \* what the second one has found
  reading,     \* the file that is open, with what has been read of it, or None
  rewritten,   \* it has changed since its identity was taken
  waivers,     \* what has been read: [file, id, good]
  edits

vars == <<disk, pc, moved, since, left, first, second, reading, rewritten, waivers, edits>>
listing == <<moved, since, first, second>>
loading == <<reading, rewritten, waivers>>

Present == {f \in File : disk[f] # None}

TypeOK ==
  /\ disk \in [File -> Document \cup {None}]
  /\ pc \in {"locate", "first", "second", "load", "valid", "invalid", "changed"}
  /\ moved \in BOOLEAN /\ rewritten \in BOOLEAN
  /\ since \subseteq SUBSET File
  /\ left \subseteq File /\ first \subseteq File /\ second \subseteq File
  /\ reading = None \/ reading.file \in File
  /\ \A w \in waivers : w.file \in File
  /\ edits \in 0 .. MaxEdits

Init ==
  /\ disk \in [File -> Document \cup {None}]
  /\ pc = "locate"
  /\ moved = FALSE
  /\ since = {}
  /\ left = {}
  /\ first = {}
  /\ second = {}
  /\ reading = None
  /\ rewritten = FALSE
  /\ waivers = {}
  /\ edits = 0

(* The directory.                                                          *)

\* resolveLocation: a directory that is not there has no waivers.
NoDirectory ==
  /\ pc = "locate"
  /\ Present = {}
  /\ pc' = "load"
  /\ since' = {{}}
  /\ UNCHANGED <<disk, moved, left, first, second, loading, edits>>

Identify ==
  /\ pc = "locate"
  /\ pc' = "first"
  /\ moved' = FALSE
  /\ since' = {Present}
  /\ left' = File
  /\ UNCHANGED <<disk, first, second, loading, edits>>

\* readSnapshot: where f comes up, it is listed if it is there.
ListEntry(f) ==
  /\ pc \in {"first", "second"}
  /\ f \in left
  /\ left' = left \ {f}
  /\ first' = IF pc = "first" THEN first \cup ({f} \cap Present) ELSE first
  /\ second' = IF pc = "second" THEN second \cup ({f} \cap Present) ELSE second
  /\ UNCHANGED <<disk, pc, moved, since, loading, edits>>

\* Mutated: the two listings are compared, and the identities are not.
StableIfListingsAgree == pc = "second" => first = second

\* verifyDirectory after each listing, and the comparison of the two.
Stable == ~moved /\ (pc = "second" => first = second)

EndListing ==
  /\ pc \in {"first", "second"}
  /\ left = {}
  /\ pc' = CASE ~Stable -> "changed"
             [] Stable /\ pc = "first" -> "second"
             [] Stable /\ pc = "second" -> "load"
  /\ left' = CASE ~Stable -> {}
               [] Stable /\ pc = "first" -> File
               [] Stable /\ pc = "second" -> first
  /\ UNCHANGED <<disk, moved, since, first, second, loading, edits>>

(* The files.                                                              *)

\* loadStructuredFile: the file is opened, and its identity taken.
OpenFile(f) ==
  /\ pc = "load"
  /\ reading = None
  /\ f \in left
  /\ left' = left \ {f}
  /\ IF disk[f] = None
     THEN pc' = "changed" /\ UNCHANGED <<reading, rewritten>>
     ELSE reading' = [file |-> f, id |-> None] /\ rewritten' = FALSE /\ UNCHANGED pc
  /\ UNCHANGED <<disk, listing, waivers, edits>>

\* readCompleteFile.  The descriptor stays that of a file that was removed or
\* renamed, which the check of its path will notice.
ReadIdentifier ==
  /\ reading # None
  /\ reading.id = None
  /\ disk[reading.file] # None
  /\ reading' = [reading EXCEPT !.id = disk[reading.file].id]
  /\ UNCHANGED <<disk, pc, listing, left, rewritten, waivers, edits>>

\* verifyStructuredIdentity.
SameFile == ~rewritten

ReadRest ==
  /\ reading # None
  /\ reading.id # None \/ disk[reading.file] = None
  /\ reading' = None
  /\ rewritten' = FALSE
  /\ IF SameFile
     THEN /\ waivers' = waivers \cup {[file |-> reading.file, id |-> reading.id,
                                       good |-> disk[reading.file].good]}
          /\ UNCHANGED pc
     ELSE pc' = "changed" /\ UNCHANGED waivers
  /\ UNCHANGED <<disk, listing, left, edits>>

\* validateWaiverInputs, and no identifier twice.
Valid == /\ \A w \in waivers : w.good
         /\ \A v, w \in waivers : v.id = w.id => v = w

Validate ==
  /\ pc = "load"
  /\ left = {}
  /\ reading = None
  /\ pc' = IF Valid THEN "valid" ELSE "invalid"
  /\ UNCHANGED <<disk, listing, left, loading, edits>>

(* Others.                                                                 *)

Edit(d) ==
  /\ edits < MaxEdits
  /\ edits' = edits + 1
  /\ d # disk
  /\ pc \notin {"valid", "invalid", "changed"}
  /\ disk' = d
  /\ LET entries == {f \in File : d[f] # None}
     IN IF pc \in {"first", "second"}
        THEN moved' = (moved \/ entries # Present) /\ since' = since \cup {entries}
        ELSE UNCHANGED <<moved, since>>
  /\ rewritten' = (rewritten \/ (reading # None /\ d[reading.file] # disk[reading.file]))
  /\ UNCHANGED <<pc, left, first, second, reading, waivers>>

WriteFile(f, doc) == Edit([disk EXCEPT ![f] = doc])
RemoveFile(f) == Edit([disk EXCEPT ![f] = None])
RenameFile(f, g) ==
  /\ f # g
  /\ disk[f] # None
  /\ Edit([disk EXCEPT ![f] = None, ![g] = disk[f]])

Next ==
  \/ NoDirectory
  \/ Identify
  \/ \E f \in File : ListEntry(f)
  \/ EndListing
  \/ \E f \in File : OpenFile(f)
  \/ ReadIdentifier
  \/ ReadRest
  \/ Validate
  \/ \E f \in File, doc \in Document : WriteFile(f, doc)
  \/ \E f \in File : RemoveFile(f)
  \/ \E f, g \in File : RenameFile(f, g)

Spec == Init /\ [][Next]_vars

-----------------------------------------------------------------------------

(* The waivers of a policy are those of one instant: their files are all   *)
(* that were in the directory at some time since it was first looked at,   *)
(* though no listing of it is atomic, and each of them is one that         *)
(* somebody wrote, never the identifier of one document with the scope or  *)
(* the expiry of another that replaced it while it was read.               *)
(* (readStableDirectoryEntries, waiver-directory-snapshot.ts:282, and      *)
(* CONFIG_CHANGED_DURING_READ, config.ts:136.)                             *)
WaiversAreOfOneInstant ==
  /\ pc = "valid" => {w.file : w \in waivers} \in since
  /\ \A w \in waivers : [id |-> w.id, good |-> w.good] \in Document

===============================================================================
