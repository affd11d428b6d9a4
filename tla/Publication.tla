------------------------------ MODULE Publication ------------------------------
(***************************************************************************)
(* Publishing a review as one comment of a change: forges/publish.ts, its  *)
(* comment client (forges/publication-comments.ts) and the lane in which   *)
(* the publications of one process take turns (forges/publication-lane.ts).*)
(* The processes, which may run on separate machines, share nothing but    *)
(* the forge.  All publications are of one change, and a comment is what   *)
(* its marker line says.  A request that is answered is one step; one that *)
(* is not may be handled by the forge at any later time, or never.         *)
(***************************************************************************)
EXTENDS Naturals, Sequences, FiniteSets

CONSTANTS
  Publisher,    \* calls of publishReviewComment
  Host,         \* the processes that make them
  HostOf,       \* HostOf[p]: the process of p
  Marker,       \* publication identities: head SHA and report hash
  MarkerOf,     \* MarkerOf[p]: the identity that p publishes
  OldMarker,    \* that of an earlier publication, or none
  MaxWaiters,   \* MAX_WAITERS_PER_LANE
  MaxFaults     \* bound: requests that fail and processes that die

VARIABLES
  comments,  \* the scoped comments of the change
  flying,    \* the requests that were given up, and are not handled yet
  nextId,    \* the id of the next comment
  lane,      \* lane[h]: the publishers in the lane of h; its head has the turn
  pc,        \* pc[p]: where p stands
  attempt,   \* attempt[p]: of the create or update loop
  mine,      \* mine[p]: the id that p created, or is to update; 0 before
  target,    \* target[p]: targetId of its result, 0 if there is none
  faults

vars == <<comments, flying, nextId, lane, pc, attempt, mine, target, faults>>

\* Of a comment: who created it, and whether its creator missed it: had looked for it in vain,
\* or did not wait for it any more when it came.
Comment == [id : Nat, mark : Marker \cup {OldMarker}, by : Publisher \cup {OldMarker},
            missed : BOOLEAN]

Request == [kind : {"create", "update", "delete"}, by : Publisher, attempt : 1 .. 2]

Working == {"create", "check", "recheck", "delete", "update", "reupdate"}
Finished == {"created", "updated", "reused", "failed", "refused", "crashed", "never"}
Succeeded == {"created", "updated", "reused"}

TypeOK ==
  /\ comments \subseteq Comment
  /\ flying \subseteq Request
  /\ nextId \in Nat \ {0}
  /\ lane \in [Host -> Seq(Publisher)]
  /\ pc \in [Publisher -> {"idle", "queued"} \cup Working \cup Finished]
  /\ attempt \in [Publisher -> 1 .. 2]
  /\ mine \in [Publisher -> Nat]
  /\ target \in [Publisher -> Nat]
  /\ faults \in 0 .. MaxFaults

Init ==
  /\ comments \in { {}, {[id |-> 1, mark |-> OldMarker, by |-> OldMarker, missed |-> FALSE]} }
  /\ flying = {}
  /\ nextId = 2
  /\ lane = [h \in Host |-> <<>>]
  /\ pc = [p \in Publisher |-> "idle"]
  /\ attempt = [p \in Publisher |-> 1]
  /\ mine = [p \in Publisher |-> 0]
  /\ target = [p \in Publisher |-> 0]
  /\ faults = 0

Exact(p) == {c \in comments : c.mark = MarkerOf[p]}

\* The first of a list that is sorted by id.
Oldest(S) == CHOOSE c \in S : \A d \in S : c.id <= d.id

Goto(p, label) == pc' = [pc EXCEPT ![p] = label]

Fault == faults < MaxFaults /\ faults' = faults + 1

\* What p asks of the forge where it stands.
RequestOf(p) == [kind |-> pc[p], by |-> p, attempt |-> attempt[p]]

\* No answer comes, or an error does: the request may have been handled, may yet be, or not.
Unanswered(p) == Fault /\ flying' = flying \cup {RequestOf(p)}

(* withPublicationLane                                                     *)

\* Mutated: a publication that fails keeps the lane.
FinishInLane(p, outcome, id) ==
  /\ Goto(p, outcome)
  /\ target' = [target EXCEPT ![p] = id]
  /\ lane' = IF outcome = "failed" THEN lane
             ELSE [lane EXCEPT ![HostOf[p]] = Tail(@)]

\* The operation returns or throws, and the next one of the lane has its turn.
Finish(p, outcome, id) ==
  /\ Goto(p, outcome)
  /\ target' = [target EXCEPT ![p] = id]
  /\ lane' = [lane EXCEPT ![HostOf[p]] = Tail(@)]

\* A stale head, no token and too long a body are refused, and so are one more lane and one
\* more waiter than the limits (publishReviewComment, withPublicationLane).
Enter(p) ==
  /\ pc[p] = "idle"
  /\ \/ /\ Goto(p, "refused")
        /\ UNCHANGED lane
     \/ /\ Len(lane[HostOf[p]]) < MaxWaiters
        /\ Goto(p, "queued")
        /\ lane' = [lane EXCEPT ![HostOf[p]] = Append(@, p)]
  /\ UNCHANGED <<comments, flying, nextId, attempt, mine, target, faults>>

\* Mutated: nobody waits for the lane.
HasTurnAnyhow(p) == pc[p] = "queued"

HasTurn(p) == pc[p] = "queued" /\ Head(lane[HostOf[p]]) = p

(* publishOnce                                                             *)

\* A listing that fails, or has too many pages, fails the publication.
ListFails(p) ==
  /\ HasTurn(p) \/ pc[p] \in {"check", "recheck", "reupdate"}
  /\ Fault
  /\ Finish(p, "failed", 0)
  /\ UNCHANGED <<comments, flying, nextId, attempt, mine>>

PublishOnce(p) ==
  /\ HasTurn(p)
  /\ \/ /\ Exact(p) # {}
        /\ Finish(p, "reused", Oldest(Exact(p)).id)
        /\ UNCHANGED mine
     \/ /\ Exact(p) = {} /\ comments # {}
        /\ Goto(p, "update")
        /\ mine' = [mine EXCEPT ![p] = Oldest(comments).id]
        /\ UNCHANGED <<lane, target>>
     \/ /\ comments = {}
        /\ Goto(p, "create")
        /\ UNCHANGED <<lane, target, mine>>
  /\ UNCHANGED <<comments, flying, nextId, attempt, faults>>

(* createWithReconciliation                                                *)

AddComment(p, missed) ==
  /\ comments' = comments
       \cup {[id |-> nextId, mark |-> MarkerOf[p], by |-> p, missed |-> missed]}
  /\ nextId' = nextId + 1

Create(p) ==
  /\ pc[p] = "create"
  /\ \/ /\ AddComment(p, FALSE)
        /\ mine' = [mine EXCEPT ![p] = nextId]
        /\ Goto(p, "check")
        /\ UNCHANGED <<flying, faults>>
     \/ /\ Unanswered(p)
        /\ Goto(p, "recheck")
        /\ UNCHANGED <<comments, nextId, mine>>
  /\ UNCHANGED <<lane, attempt, target>>

\* The comment that p created has another marker by now.
MissOwn(p) ==
  comments' = {IF c.by = p THEN [c EXCEPT !.missed = TRUE] ELSE c : c \in comments}

AfterCreateError(p) ==
  /\ pc[p] = "recheck"
  /\ \/ /\ Exact(p) # {}
        /\ Finish(p, "reused", Oldest(Exact(p)).id)
        /\ UNCHANGED <<comments, attempt>>
     \/ /\ Exact(p) = {} /\ attempt[p] < 2
        /\ MissOwn(p)
        /\ attempt' = [attempt EXCEPT ![p] = 2]
        /\ Goto(p, "create")
        /\ UNCHANGED <<lane, target>>
     \/ /\ Exact(p) = {} /\ attempt[p] = 2
        /\ MissOwn(p)
        /\ Finish(p, "failed", 0)
        /\ UNCHANGED attempt
  /\ UNCHANGED <<flying, nextId, mine, faults>>

\* Mutated: the publisher does not look for an earlier comment.
CheckWinnerNever(p) ==
  /\ pc[p] = "check"
  /\ Finish(p, "created", mine[p])
  /\ UNCHANGED <<comments, flying, nextId, attempt, mine, faults>>

\* The oldest comment with the marker wins.
CheckWinner(p) ==
  /\ pc[p] = "check"
  /\ IF Exact(p) # {} /\ Oldest(Exact(p)).id # mine[p]
     THEN /\ Goto(p, "delete")
          /\ target' = [target EXCEPT ![p] = Oldest(Exact(p)).id]
          /\ UNCHANGED lane
     ELSE Finish(p, "created", mine[p])
  /\ UNCHANGED <<comments, flying, nextId, attempt, mine, faults>>

Remove(id) == comments' = {c \in comments : c.id # id}

\* Mutated: the comment that wins is the one that is deleted.
DeleteWinner(p) ==
  /\ pc[p] = "delete"
  /\ Remove(target[p])
  /\ Finish(p, "reused", mine[p])
  /\ UNCHANGED <<flying, nextId, attempt, mine, faults>>

DeleteDuplicate(p) ==
  /\ pc[p] = "delete"
  /\ \/ /\ Remove(mine[p])
        /\ Finish(p, "reused", target[p])
        /\ UNCHANGED <<flying, faults>>
     \/ /\ Unanswered(p)
        /\ Finish(p, "failed", 0)
        /\ UNCHANGED comments
  /\ UNCHANGED <<nextId, attempt, mine>>

(* updateWithReconciliation                                                *)

Present(p) == \E c \in comments : c.id = mine[p]

SetMarker(p) ==
  comments' = {IF c.id = mine[p] THEN [c EXCEPT !.mark = MarkerOf[p]] ELSE c : c \in comments}

Update(p) ==
  /\ pc[p] = "update"
  /\ \/ /\ Present(p)
        /\ SetMarker(p)
        /\ Finish(p, "updated", mine[p])
        /\ UNCHANGED <<flying, faults>>
     \/ /\ ~Present(p)
        /\ Goto(p, "reupdate")
        /\ UNCHANGED <<comments, flying, lane, target, faults>>
     \/ /\ Unanswered(p)
        /\ Goto(p, "reupdate")
        /\ UNCHANGED <<comments, lane, target>>
  /\ UNCHANGED <<nextId, attempt, mine>>

AfterUpdateError(p) ==
  /\ pc[p] = "reupdate"
  /\ \/ /\ Exact(p) # {}
        /\ Finish(p, "updated", Oldest(Exact(p)).id)
        /\ UNCHANGED attempt
     \/ /\ Exact(p) = {} /\ attempt[p] < 2
        /\ attempt' = [attempt EXCEPT ![p] = 2]
        /\ Goto(p, "update")
        /\ UNCHANGED <<lane, target>>
     \/ /\ Exact(p) = {} /\ attempt[p] = 2
        /\ Finish(p, "failed", 0)
        /\ UNCHANGED attempt
  /\ UNCHANGED <<comments, flying, nextId, mine, faults>>

\* The forge handles a request whose answer nobody waits for.
Arrive(r) ==
  /\ r \in flying
  /\ flying' = flying \ {r}
  /\ LET p == r.by IN
     \/ /\ r.kind = "create"
        /\ AddComment(p, pc[p] # "recheck" \/ attempt[p] # r.attempt)
     \/ r.kind = "update" /\ SetMarker(p) /\ UNCHANGED nextId
     \/ r.kind = "delete" /\ Remove(mine[p]) /\ UNCHANGED nextId
  /\ UNCHANGED <<lane, pc, attempt, mine, target, faults>>

\* A process dies, with all its publications and its lane; its last request may be sent.
Crash(h) ==
  /\ lane[h] # <<>>
  /\ Fault
  /\ lane' = [lane EXCEPT ![h] = <<>>]
  /\ pc' = [p \in Publisher |->
              IF HostOf[p] # h \/ pc[p] \in Finished THEN pc[p]
              ELSE IF pc[p] = "idle" THEN "never" ELSE "crashed"]
  /\ \/ UNCHANGED flying
     \/ flying' = flying \cup {RequestOf(p) : p \in
            {q \in Publisher : HostOf[q] = h /\ pc[q] \in {"create", "update", "delete"}}}
  /\ UNCHANGED <<comments, nextId, attempt, mine, target>>

-----------------------------------------------------------------------------

Step(p) ==
  \/ ListFails(p) \/ PublishOnce(p)
  \/ Create(p) \/ AfterCreateError(p) \/ CheckWinner(p) \/ DeleteDuplicate(p)
  \/ Update(p) \/ AfterUpdateError(p)

Next ==
  \/ \E p \in Publisher : Enter(p) \/ Step(p)
  \/ \E r \in flying : Arrive(r)
  \/ \E h \in Host : Crash(h)

Spec == Init /\ [][Next]_vars

\* Every request is answered, or fails by the timeout of fetch.
FairSpec == Spec /\ \A p \in Publisher : WF_vars(Step(p))
-----------------------------------------------------------------------------
(* Properties                                                              *)

\* The publications that have begun.
Begun == {p \in Publisher : pc[p] \notin {"idle", "refused", "never"}}
OneReport == \A p, q \in Begun : MarkerOf[p] = MarkerOf[q]

\* A process has one comment on the change, whatever it publishes, whichever requests fail,
\* are handled after all, or late, and whatever other processes do: it makes a second one
\* only where the publication that made the first missed it.
\* (withPublicationLane, publication-lane.ts:18; createWithReconciliation, publish.ts:117.)
OneCommentPerProcess ==
  \A c, d \in {e \in comments : e.by # OldMarker /\ ~e.missed} :
    HostOf[c.by] = HostOf[d.by] => c = d

\* Publications of one report that all run through leave one comment, however many
\* processes publish at once.  (createWithReconciliation, publish.ts:143.)
OneCommentIfAllGoesWell ==
  OneReport /\ faults = 0 /\ (\A p \in Publisher : pc[p] \in Finished) =>
    \A c, d \in comments : c.mark = d.mark => c = d

\* The comment that a publication has returned stands, and has its marker: while all that
\* is published is one report, nobody deletes it as a duplicate, however late.
\* (publishOnce, publish.ts:198.)
PublishedCommentStands ==
  OneReport =>
    \A p \in Publisher : pc[p] \in Succeeded => \E c \in Exact(p) : c.id = target[p]

\* A publication that waits for its turn, or has it, comes to an end: no failure of another
\* one keeps the lane.  (Each is one call, and so those that go on come to be none.)
\* (withPublicationLane, publication-lane.ts:43.)
EveryPublicationEnds == []<>(\A p \in Publisher : pc[p] \in {"idle"} \cup Finished)

\* Where every publication has succeeded there is one comment for each report.
\* (The design's residual risk: separate machines "must not create duplicate external
\* comments because publication is idempotent".)
NoDuplicateComments ==
  (\A p \in Publisher : pc[p] \in Succeeded) =>
    \A c, d \in comments : c.mark = d.mark => c = d
================================================================================
