------------------------------ MODULE EntryStore ------------------------------
(***************************************************************************)
(* What the directories of results (storage/cache.ts, storage/runs.ts)     *)
(* promise those who read them without a lock, and what SingleFlight takes *)
(* them for: records come and go whole, each in one step.  Who is given a  *)
(* record is given one that is good, and in its place at that moment; who  *)
(* is told that there is none has looked while there was no good one, or   *)
(* while the one that was there went.                                      *)
(***************************************************************************)
CONSTANTS Proc, Item, Record, None

VARIABLES
  entry,   \* entry[i]: the record at i, or None
  call     \* call[p]: how far the read of p is, of which item, and the record that it
           \* has seen first, or is given

Call(stage, i, r) == [stage |-> stage, item |-> i, record |-> r]
NoCall == Call("none", None, None)

Good(r) == r # None /\ r.good

StoreInit ==
  /\ entry \in [Item -> Record \cup {None}]
  /\ call = [p \in Proc |-> NoCall]

Asked(p) == call[p].stage = "asked"
Answer(p, stage, r) == call' = [call EXCEPT ![p] = Call(stage, call[p].item, r)]

Look(p, i) ==
  /\ call[p] = NoCall
  /\ \E stage \in {"asked"} \cup (IF Good(entry[i]) THEN {} ELSE {"missed"}) :
       call' = [call EXCEPT ![p] = Call(stage, i, entry[i])]
  /\ UNCHANGED entry

Hit(p) ==
  /\ Asked(p)
  /\ Good(entry[call[p].item])
  /\ Answer(p, "hit", entry[call[p].item])
  /\ UNCHANGED entry

Miss(p) ==
  /\ Asked(p)
  /\ ~Good(call[p].record) \/ entry[call[p].item] # call[p].record
  /\ Answer(p, "missed", call[p].record)
  /\ UNCHANGED entry

Die(p) ==
  /\ call' = [call EXCEPT ![p] = Call("lost", None, None)]
  /\ UNCHANGED entry

Publish(i) ==
  /\ Good(entry'[i])
  /\ entry' = [entry EXCEPT ![i] = entry'[i]]
  /\ UNCHANGED call

\* To make room, or because it is of no use.
Vanish(i) ==
  /\ entry[i] # None
  /\ entry' = [entry EXCEPT ![i] = None]
  /\ UNCHANGED call

\* A step is one of a read, or one of an entry.
Reads(p) == Hit(p) \/ Miss(p) \/ Die(p) \/ \E i \in Item : Look(p, i)
Changes(i) == Publish(i) \/ Vanish(i)

StoreNext ==
  \/ \E p \in Proc : call'[p] # call[p] /\ Reads(p)
  \/ \E i \in Item : entry'[i] # entry[i] /\ Changes(i)

StoreSpec == StoreInit /\ [][StoreNext]_<<entry, call>>
===============================================================================
