----------------------------- MODULE ReviewFlight -----------------------------
(***************************************************************************)
(* What runWithSingleFlight (review/single-flight.ts) promises the calls   *)
(* that ask for one review key: a review begins only while nobody works on *)
(* the key and there is no entry for it, whoever is told of the entry, or  *)
(* of its absence, is told the truth, and only a review that has come to   *)
(* its end makes an entry.  That a call fails, is sent away or dies is     *)
(* always allowed.                                                         *)
(***************************************************************************)
CONSTANT Proc

VARIABLES
  reviewing,   \* the processes at work on the key, from the review to its publication
  entry,       \* whether there is a result that others may take
  answer       \* what the call of each process has come to

flight == <<reviewing, entry, answer>>

Answers == {"none", "given", "missed", "reviewed", "failed"}

FlightInit ==
  /\ reviewing = {}
  /\ entry = FALSE
  /\ answer = [p \in Proc |-> "none"]

Answer(p, a) == answer' = [answer EXCEPT ![p] = a]

Begin(p) ==
  /\ reviewing = {} /\ ~entry /\ answer[p] = "none"
  /\ reviewing' = {p}
  /\ UNCHANGED <<entry, answer>>

\* The review is over; it makes an entry if others can use it.  An error may still come
\* after that: then the call fails, and its entry stays.
Finish(p) ==
  /\ p \in reviewing
  /\ reviewing' = reviewing \ {p}
  /\ entry' \in {entry, TRUE}
  /\ Answer(p, "reviewed") \/ Answer(p, "failed")

\* The review fails, or its process dies.
GiveUp(p) ==
  /\ p \in reviewing
  /\ reviewing' = reviewing \ {p}
  /\ Answer(p, "failed") \/ UNCHANGED answer
  /\ UNCHANGED entry

Take(p) ==
  /\ p \notin reviewing /\ entry /\ answer[p] = "none"
  /\ Answer(p, "given")
  /\ UNCHANGED <<reviewing, entry>>

Miss(p) ==
  /\ p \notin reviewing /\ ~entry /\ answer[p] = "none"
  /\ Answer(p, "missed")
  /\ UNCHANGED <<reviewing, entry>>

\* Busy, too late, or an error, also after the answer was known.
Fail(p) ==
  /\ p \notin reviewing
  /\ Answer(p, "failed")
  /\ UNCHANGED <<reviewing, entry>>

Forget ==
  /\ entry /\ entry' = FALSE
  /\ UNCHANGED <<reviewing, answer>>

FlightNext ==
  \/ Forget
  \/ \E p \in Proc : Begin(p) \/ Finish(p) \/ GiveUp(p) \/ Take(p) \/ Miss(p) \/ Fail(p)

FlightSpec == FlightInit /\ [][FlightNext]_flight
===============================================================================
