------------------------------- MODULE MCStores -------------------------------
(* Who reviews a key, and what is kept of it: the single flight of a key and   *)
(* the directory of the cache, or of the stored runs.  A behaviour is one of   *)
(* the single flight, for which the cache is a file that is there or not, or   *)
(* one of a directory; the other one stays as it is at first.                  *)
EXTENDS SingleFlight, TLC

CONSTANTS
  Writer, Item, Leftover, Foreign, MaxEntries, MaxBytes, MaxCleanup, MaxFaults

VARIABLES
  subject,
  store, file, clock, maint, at, item, new, todo, room, seen, faults

directory == <<store, file, clock, maint, at, item, new, todo, room, seen, faults>>
all == <<vars, subject, directory>>

Store == INSTANCE ResultStore WITH Proc <- Writer, pc <- at

\* Of ResultStore: the names of entries, processes, leftovers and the foreign file are
\* distinct, and a limit is a number.
NamesAreDistinct ==
  /\ IsFiniteSet(Item) /\ IsFiniteSet(Writer) /\ IsFiniteSet(Leftover)
  /\ Item \cap (Store!Artifact \cup {Foreign}) = {}
  /\ None \notin Writer
  /\ None \notin Store!File \cup Store!Record
  /\ MaxEntries \in Nat
  /\ MaxBytes \in Nat
  /\ MaxCleanup \in Nat
  /\ MaxFaults \in Nat

ASSUME StoresAssumption == NamesAreDistinct

\* The directory of a behaviour of the single flight is one of the many.
Unused ==
  store = "cache" /\ \A n \in Store!Name : file[n] = None

MCInit ==
  /\ subject \in {"flight", "directory"}
  /\ Init
  /\ Store!Init
  /\ subject = "flight" => Unused

MCNext ==
  \/ subject = "flight" /\ Next /\ UNCHANGED <<subject, directory>>
  \/ subject = "directory" /\ Store!Next /\ UNCHANGED <<subject, vars>>

MCSpec == MCInit /\ [][MCNext]_all

\* Writers, items and contenders are interchangeable.  Contenders and items, which are
\* never in one behaviour, have their names in common.
Symmetry == Permutations(Proc) \cup Permutations(Writer)

\* The properties of SingleFlight go by their names.  Those of ResultStore:

\* The directory never holds more entries, nor more bytes, than its limits allow.
LimitsKept == Store!LimitsKept

\* A reader discards no record that another reader could use.
OnlyTheUselessIsDiscarded == Store!OnlyTheUselessIsDiscarded

\* Reads without a lock are what EntryStore promises.
KeepsEntries == Store!KeepsEntries
===============================================================================
