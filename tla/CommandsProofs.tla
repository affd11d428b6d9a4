------------------------------ MODULE CommandsProofs ------------------------------
(* Proofs about what MCCommands composes that the two modules it extends leave: the    *)
(* review command and what it reports, the layers of the policy with the origin of     *)
(* every field, the discovery of waivers, and the types of all five subjects.          *)
EXTENDS HookManagerProofs, SourceCaptureProofs

\* What an option record may hold.
LEMMA OptionFields ==
  ASSUME NEW o \in Options
  PROVE  /\ o.selector \in Selector
         /\ o.checks \in {"no", "preview", "run"}
         /\ o.publish \in {"no", "asked", "confirmed"}
         /\ o.alone \in BOOLEAN /\ o.preflight \in BOOLEAN
  BY DEF Options, Selector

\* What there is to review is always a version.
LEMMA NowIsVersion ==
  ASSUME TypeOK, NEW p \in Proc
  PROVE  Now(p) \in Version /\ PolicyNow(p) \in Policy \cup {"invalid"}
  BY DEF TypeOK, Now, PolicyNow, SiteOf, Site
-----------------------------------------------------------------------------
(* Types                                                                   *)

LEMMA TypeStep == TypeOK /\ [Next]_vars => TypeOK'
<1> SUFFICES ASSUME TypeOK, [Next]_vars
             PROVE  TypeOK'
  OBVIOUS
<1>1. ASSUME NEW p \in Proc, Step(p)
      PROVE  TypeOK'
  <2>a. Now(p) \in Version /\ PolicyNow(p) \in Policy \cup {"invalid"}
    BY NowIsVersion
  <2>b. opts[p].selector \in Selector
    BY OptionFields DEF TypeOK
  <2> USE <1>1, <2>a, <2>b, CommandAssumption DEF TypeOK, Goto, Fault, world, history
  <2>1. CASE BindLocalPolicy(p)
    BY <2>1 DEF BindLocalPolicy, Finish
  <2>2. CASE BindRepositoryPolicy(p)
    BY <2>2 DEF BindRepositoryPolicy, Finish
  <2>3. CASE MaterializeChange(p)
    BY <2>3 DEF MaterializeChange, BindBasePolicy
  <2>4. CASE MaterializeFails(p)
    BY <2>4 DEF MaterializeFails, Finish
  <2>5. CASE CaptureLocal(p)
    BY <2>5 DEF CaptureLocal
  <2>6. CASE CaptureFails(p)
    BY <2>6 DEF CaptureFails, Finish
  <2>7. CASE Preflight(p)
    BY <2>7 DEF Preflight, Finish
  <2>8. CASE Reconfirm(p)
    BY <2>8 DEF Reconfirm, Finish
  <2>9. CASE CheckOut(p)
    BY <2>9 DEF CheckOut
  <2>27. CASE Verify(p)
    BY <2>27 DEF Verify, Finish
  <2>28. CASE WorkspaceFails(p)
    BY <2>28 DEF WorkspaceFails, Finish
  <2>10. CASE PreviewChecks(p)
    BY <2>10 DEF PreviewChecks, Finish
  <2>11. CASE RunChecks(p)
    BY <2>11 DEF RunChecks
  <2>12. CASE ChecksFail(p)
    BY <2>12 DEF ChecksFail, Finish
  <2>13. CASE ProviderRefused(p)
    BY <2>13 DEF ProviderRefused, Finish
  <2>14. CASE EgressDenied(p)
    BY <2>14 DEF EgressDenied, Finish
  <2>15. CASE TakeCached(p)
    BY <2>15 DEF TakeCached, Gate, Key
  <2>16. CASE StartReview(p)
    BY <2>16 DEF StartReview
  <2>17. CASE FlightUnavailable(p)
    BY <2>17 DEF FlightUnavailable, Gate
  <2>18. CASE EndReview(p)
    BY <2>18 DEF EndReview, Gate, Key
  <2>19. CASE EndReviewUnstored(p)
    BY <2>19 DEF EndReviewUnstored, Gate
  <2>20. CASE Render(p)
    BY <2>20 DEF Render, Finish, GateExitCode, Gate
  <2>21. CASE RenderFails(p)
    BY <2>21 DEF RenderFails, Finish
  <2>22. CASE FreshRead(p)
    BY <2>22 DEF FreshRead, Finish
  <2>23. CASE FreshReadFails(p)
    BY <2>23 DEF FreshReadFails, Finish
  <2>24. CASE Post(p)
    BY <2>24 DEF Post, Finish, GateExitCode
  <2>25. CASE Leave(p)
    BY <2>25 DEF Leave
  <2>26. CASE Crash(p)
    BY <2>26 DEF Crash
  <2> QED
    BY <1>1, <2>1, <2>2, <2>3, <2>4, <2>5, <2>6, <2>7, <2>8, <2>9, <2>10, <2>11, <2>12,
       <2>13, <2>14, <2>15, <2>16, <2>17, <2>18, <2>19, <2>20, <2>21, <2>22, <2>23,
       <2>24, <2>25, <2>26, <2>27, <2>28
       DEF Step, LocalStep, RepositoryStep, ForgeStep
<1>2. CASE ContentMoves
  BY <1>2, CommandAssumption DEF ContentMoves, TypeOK, history
<1>3. CASE PolicyMoves
  BY <1>3, CommandAssumption DEF PolicyMoves, TypeOK, history
<1>4. CASE UNCHANGED vars
  BY <1>4 DEF vars, TypeOK, world, history
<1> QED
  BY <1>1, <1>2, <1>3, <1>4 DEF Next

\* Type correctness of a command, whatever is edited meanwhile.
THEOREM CommandTypes == Spec => []TypeOK
<1>1. Init => TypeOK
  BY CommandAssumption DEF Init, TypeOK
<1> QED
  BY <1>1, TypeStep, PTL DEF Spec

-----------------------------------------------------------------------------
(* Results                                                                 *)

Early == {"bind", "capture", "workspace", "verify", "check", "execute", "review"}

\* A result of the cache is one of a review of its key; a command has none until it has
\* reviewed, or taken one.
ResultInv ==
  /\ \A c \in cache :
       [version |-> c.key.version, policy |-> c.key.policy, gate |-> c.gate] \in reviewed
  /\ \A p \in Proc : pc[p] \in Early => result[p] = None
  /\ \A p \in Proc : pc[p] \in {"render", "publish", "post"} => result[p] \in Gate
  /\ ResultIsOfThisInput

LEMMA ResultInvStep == TypeOK /\ ResultInv /\ [Next]_vars => ResultInv'
<1> SUFFICES ASSUME TypeOK, ResultInv, [Next]_vars
             PROVE  ResultInv'
  OBVIOUS
<1>1. ASSUME NEW p \in Proc, Step(p)
      PROVE  ResultInv'
  <2>a. opts[p] \in Options /\ opts[p].selector \in Selector
    BY OptionFields DEF TypeOK
  <2> USE <1>1, <2>a, CommandAssumption
          DEF TypeOK, ResultInv, ResultIsOfThisInput, Early, Goto, Fault, world, history
  <2>1. CASE BindLocalPolicy(p)
    BY <2>1 DEF BindLocalPolicy, Finish
  <2>2. CASE BindRepositoryPolicy(p)
    BY <2>2 DEF BindRepositoryPolicy, Finish
  <2>3. CASE MaterializeChange(p)
    BY <2>3 DEF MaterializeChange, BindBasePolicy
  <2>4. CASE MaterializeFails(p)
    BY <2>4 DEF MaterializeFails, Finish
  <2>5. CASE CaptureLocal(p)
    BY <2>5 DEF CaptureLocal
  <2>6. CASE CaptureFails(p)
    BY <2>6 DEF CaptureFails, Finish
  <2>7. CASE Preflight(p)
    BY <2>7 DEF Preflight, Finish
  <2>8. CASE Reconfirm(p)
    BY <2>8 DEF Reconfirm, Finish
  <2>9. CASE CheckOut(p)
    BY <2>9 DEF CheckOut
  <2>27. CASE Verify(p)
    BY <2>27 DEF Verify, Finish
  <2>28. CASE WorkspaceFails(p)
    BY <2>28 DEF WorkspaceFails, Finish
  <2>10. CASE PreviewChecks(p)
    BY <2>10 DEF PreviewChecks, Finish
  <2>11. CASE RunChecks(p)
    BY <2>11 DEF RunChecks
  <2>12. CASE ChecksFail(p)
    BY <2>12 DEF ChecksFail, Finish
  <2>13. CASE ProviderRefused(p)
    BY <2>13 DEF ProviderRefused, Finish
  <2>14. CASE EgressDenied(p)
    BY <2>14 DEF EgressDenied, Finish
  <2>15. CASE TakeCached(p)
    BY <2>15 DEF TakeCached, Gate, Key
  <2>16. CASE StartReview(p)
    BY <2>16 DEF StartReview
  <2>17. CASE FlightUnavailable(p)
    BY <2>17 DEF FlightUnavailable, Gate
  <2>18. CASE EndReview(p)
    BY <2>18 DEF EndReview, Gate, Key
  <2>19. CASE EndReviewUnstored(p)
    BY <2>19 DEF EndReviewUnstored, Gate
  <2>20. CASE Render(p)
    BY <2>20 DEF Render, Finish, GateExitCode, Gate
  <2>21. CASE RenderFails(p)
    BY <2>21 DEF RenderFails, Finish
  <2>22. CASE FreshRead(p)
    BY <2>22 DEF FreshRead, Finish
  <2>23. CASE FreshReadFails(p)
    BY <2>23 DEF FreshReadFails, Finish
  <2>24. CASE Post(p)
    BY <2>24 DEF Post, Finish, GateExitCode
  <2>25. CASE Leave(p)
    BY <2>25 DEF Leave
  <2>26. CASE Crash(p)
    BY <2>26 DEF Crash
  <2> QED
    BY <1>1, <2>1, <2>2, <2>3, <2>4, <2>5, <2>6, <2>7, <2>8, <2>9, <2>10, <2>11, <2>12,
       <2>13, <2>14, <2>15, <2>16, <2>17, <2>18, <2>19, <2>20, <2>21, <2>22, <2>23,
       <2>24, <2>25, <2>26, <2>27, <2>28
       DEF Step, LocalStep, RepositoryStep, ForgeStep
<1>2. CASE ContentMoves
  BY <1>2 DEF ContentMoves, ResultInv, ResultIsOfThisInput, Early, history
<1>3. CASE PolicyMoves
  BY <1>3 DEF PolicyMoves, ResultInv, ResultIsOfThisInput, Early, history
<1>4. CASE UNCHANGED vars
  BY <1>4 DEF vars, ResultInv, ResultIsOfThisInput, Early, world, history
<1> QED
  BY <1>1, <1>2, <1>3, <1>4 DEF Next


\* What a command shows is a review of what it captured, under the policy it bound.
THEOREM ResultsAreOfTheirInput == Spec => []ResultIsOfThisInput
<1>1. Init => ResultInv
  BY CommandAssumption DEF Init, ResultInv, ResultIsOfThisInput, Gate
<1>2. ResultInv => ResultIsOfThisInput
  BY DEF ResultInv
<1> QED
  BY <1>1, <1>2, CommandTypes, ResultInvStep, PTL DEF Spec

-----------------------------------------------------------------------------
(* Full repositories                                                       *)

\* A repository comes to its review only with the hash that was confirmed.
ConfirmInv ==
  /\ \A p \in Proc : opts[p].selector = "repository" /\ pc[p] \in {"execute", "review"} =>
       opts[p].confirm = <<input[p], bound[p]>>
  /\ \A p \in Proc : opts[p].selector = "repository" =>
       pc[p] \notin {"workspace", "verify", "check"}
  /\ OnlyConfirmedIsSent

LEMMA ConfirmInvStep == TypeOK /\ ConfirmInv /\ [Next]_vars => ConfirmInv'
<1> SUFFICES ASSUME TypeOK, ConfirmInv, [Next]_vars
             PROVE  ConfirmInv'
  OBVIOUS
<1>1. ASSUME NEW p \in Proc, Step(p)
      PROVE  ConfirmInv'
  <2>a. opts[p] \in Options /\ opts[p].selector \in Selector
    BY OptionFields DEF TypeOK
  <2> USE <1>1, <2>a, CommandAssumption
          DEF TypeOK, ConfirmInv, OnlyConfirmedIsSent, Goto, Fault, world, history
  <2>1. CASE BindLocalPolicy(p)
    BY <2>1 DEF BindLocalPolicy, Finish
  <2>2. CASE BindRepositoryPolicy(p)
    BY <2>2 DEF BindRepositoryPolicy, Finish
  <2>3. CASE MaterializeChange(p)
    BY <2>3 DEF MaterializeChange, BindBasePolicy
  <2>4. CASE MaterializeFails(p)
    BY <2>4 DEF MaterializeFails, Finish
  <2>5. CASE CaptureLocal(p)
    BY <2>5 DEF CaptureLocal
  <2>6. CASE CaptureFails(p)
    BY <2>6 DEF CaptureFails, Finish
  <2>7. CASE Preflight(p)
    BY <2>7 DEF Preflight, Finish
  <2>8. CASE Reconfirm(p)
    BY <2>8 DEF Reconfirm, Finish
  <2>9. CASE CheckOut(p)
    BY <2>9 DEF CheckOut
  <2>27. CASE Verify(p)
    BY <2>27 DEF Verify, Finish
  <2>28. CASE WorkspaceFails(p)
    BY <2>28 DEF WorkspaceFails, Finish
  <2>10. CASE PreviewChecks(p)
    BY <2>10 DEF PreviewChecks, Finish
  <2>11. CASE RunChecks(p)
    BY <2>11 DEF RunChecks
  <2>12. CASE ChecksFail(p)
    BY <2>12 DEF ChecksFail, Finish
  <2>13. CASE ProviderRefused(p)
    BY <2>13 DEF ProviderRefused, Finish
  <2>14. CASE EgressDenied(p)
    BY <2>14 DEF EgressDenied, Finish
  <2>15. CASE TakeCached(p)
    BY <2>15 DEF TakeCached, Gate, Key
  <2>16. CASE StartReview(p)
    BY <2>16 DEF StartReview
  <2>17. CASE FlightUnavailable(p)
    BY <2>17 DEF FlightUnavailable, Gate
  <2>18. CASE EndReview(p)
    BY <2>18 DEF EndReview, Gate, Key
  <2>19. CASE EndReviewUnstored(p)
    BY <2>19 DEF EndReviewUnstored, Gate
  <2>20. CASE Render(p)
    BY <2>20 DEF Render, Finish, GateExitCode, Gate
  <2>21. CASE RenderFails(p)
    BY <2>21 DEF RenderFails, Finish
  <2>22. CASE FreshRead(p)
    BY <2>22 DEF FreshRead, Finish
  <2>23. CASE FreshReadFails(p)
    BY <2>23 DEF FreshReadFails, Finish
  <2>24. CASE Post(p)
    BY <2>24 DEF Post, Finish, GateExitCode
  <2>25. CASE Leave(p)
    BY <2>25 DEF Leave
  <2>26. CASE Crash(p)
    BY <2>26 DEF Crash
  <2> QED
    BY <1>1, <2>1, <2>2, <2>3, <2>4, <2>5, <2>6, <2>7, <2>8, <2>9, <2>10, <2>11, <2>12,
       <2>13, <2>14, <2>15, <2>16, <2>17, <2>18, <2>19, <2>20, <2>21, <2>22, <2>23,
       <2>24, <2>25, <2>26, <2>27, <2>28
       DEF Step, LocalStep, RepositoryStep, ForgeStep
<1>2. CASE ContentMoves
  BY <1>2 DEF ContentMoves, ConfirmInv, OnlyConfirmedIsSent, history
<1>3. CASE PolicyMoves
  BY <1>3 DEF PolicyMoves, ConfirmInv, OnlyConfirmedIsSent, history
<1>4. CASE UNCHANGED vars
  BY <1>4 DEF vars, ConfirmInv, OnlyConfirmedIsSent, world, history
<1> QED
  BY <1>1, <1>2, <1>3, <1>4 DEF Next


\* Of a full repository the provider is sent what was confirmed, and nothing else.
THEOREM ConfirmedIsSent == Spec => []OnlyConfirmedIsSent
<1>1. Init => ConfirmInv
  BY DEF Init, ConfirmInv, OnlyConfirmedIsSent
<1>2. ConfirmInv => OnlyConfirmedIsSent
  BY DEF ConfirmInv
<1> QED
  BY <1>1, <1>2, CommandTypes, ConfirmInvStep, PTL DEF Spec

-----------------------------------------------------------------------------
(* Publication                                                             *)

\* Who publishes has a complete result, and has confirmed; a comment's command goes on to
\* its end without another result.
PublishInv ==
  /\ \A p \in Proc : pc[p] = "publish" =>
       opts[p].publish = "confirmed" /\ result[p] \in {"PASS", "BLOCK"}
  /\ \A x \in published : pc[x.proc] \in {"post", "leave", "ended"}
  /\ PublishedIsReviewed

LEMMA PublishInvStep == TypeOK /\ ResultInv /\ PublishInv /\ [Next]_vars => PublishInv'
<1> SUFFICES ASSUME TypeOK, ResultInv, PublishInv, [Next]_vars
             PROVE  PublishInv'
  OBVIOUS
<1>1. ASSUME NEW p \in Proc, Step(p)
      PROVE  PublishInv'
  <2>a. opts[p] \in Options /\ opts[p].selector \in Selector
    BY OptionFields DEF TypeOK
  <2> USE <1>1, <2>a, CommandAssumption
          DEF TypeOK, PublishInv, PublishedIsReviewed, ResultInv, ResultIsOfThisInput,
              Goto, Fault, world, history
  <2>1. CASE BindLocalPolicy(p)
    BY <2>1 DEF BindLocalPolicy, Finish
  <2>2. CASE BindRepositoryPolicy(p)
    BY <2>2 DEF BindRepositoryPolicy, Finish
  <2>3. CASE MaterializeChange(p)
    BY <2>3 DEF MaterializeChange, BindBasePolicy
  <2>4. CASE MaterializeFails(p)
    BY <2>4 DEF MaterializeFails, Finish
  <2>5. CASE CaptureLocal(p)
    BY <2>5 DEF CaptureLocal
  <2>6. CASE CaptureFails(p)
    BY <2>6 DEF CaptureFails, Finish
  <2>7. CASE Preflight(p)
    BY <2>7 DEF Preflight, Finish
  <2>8. CASE Reconfirm(p)
    BY <2>8 DEF Reconfirm, Finish
  <2>9. CASE CheckOut(p)
    BY <2>9 DEF CheckOut
  <2>27. CASE Verify(p)
    BY <2>27 DEF Verify, Finish
  <2>28. CASE WorkspaceFails(p)
    BY <2>28 DEF WorkspaceFails, Finish
  <2>10. CASE PreviewChecks(p)
    BY <2>10 DEF PreviewChecks, Finish
  <2>11. CASE RunChecks(p)
    BY <2>11 DEF RunChecks
  <2>12. CASE ChecksFail(p)
    BY <2>12 DEF ChecksFail, Finish
  <2>13. CASE ProviderRefused(p)
    BY <2>13 DEF ProviderRefused, Finish
  <2>14. CASE EgressDenied(p)
    BY <2>14 DEF EgressDenied, Finish
  <2>15. CASE TakeCached(p)
    BY <2>15 DEF TakeCached, Gate, Key
  <2>16. CASE StartReview(p)
    BY <2>16 DEF StartReview
  <2>17. CASE FlightUnavailable(p)
    BY <2>17 DEF FlightUnavailable, Gate
  <2>18. CASE EndReview(p)
    BY <2>18 DEF EndReview, Gate, Key
  <2>19. CASE EndReviewUnstored(p)
    BY <2>19 DEF EndReviewUnstored, Gate
  <2>20. CASE Render(p)
    BY <2>20 DEF Render, Finish, GateExitCode, Gate
  <2>21. CASE RenderFails(p)
    BY <2>21 DEF RenderFails, Finish
  <2>22. CASE FreshRead(p)
    <3>1. CASE Now(p) # input[p]
      BY <2>22, <3>1 DEF FreshRead, Finish
    <3>2. CASE Now(p) = input[p]
      <4>1. [version |-> Now(p), policy |-> bound[p], gate |-> result[p]] \in reviewed
        BY <2>22, <3>2 DEF FreshRead
      <4>2. published' = published \cup {[proc |-> p, head |-> Now(p)]}
        BY <2>22, <3>2 DEF FreshRead
      <4>3. ASSUME NEW x \in published'
            PROVE  /\ opts'[x.proc].publish = "confirmed"
                   /\ \E r \in reviewed' :
                        r = [version |-> x.head, policy |-> bound'[x.proc],
                             gate |-> result'[x.proc]]
                   /\ pc'[x.proc] \in {"post", "leave", "ended"}
        <5>1. CASE x \in published
          BY <2>22, <3>2, <5>1 DEF FreshRead
        <5>2. CASE x = [proc |-> p, head |-> Now(p)]
          BY <2>22, <3>2, <4>1, <5>2 DEF FreshRead
        <5> QED
          BY <4>2, <4>3, <5>1, <5>2
      <4> QED
        BY <2>22, <3>2, <4>3 DEF FreshRead
    <3> QED
      BY <3>1, <3>2
  <2>23. CASE FreshReadFails(p)
    BY <2>23 DEF FreshReadFails, Finish
  <2>24. CASE Post(p)
    BY <2>24 DEF Post, Finish, GateExitCode
  <2>25. CASE Leave(p)
    BY <2>25 DEF Leave
  <2>26. CASE Crash(p)
    BY <2>26 DEF Crash
  <2> QED
    BY <1>1, <2>1, <2>2, <2>3, <2>4, <2>5, <2>6, <2>7, <2>8, <2>9, <2>10, <2>11, <2>12,
       <2>13, <2>14, <2>15, <2>16, <2>17, <2>18, <2>19, <2>20, <2>21, <2>22, <2>23,
       <2>24, <2>25, <2>26, <2>27, <2>28
       DEF Step, LocalStep, RepositoryStep, ForgeStep
<1>2. CASE ContentMoves
  BY <1>2
     DEF ContentMoves, PublishInv, PublishedIsReviewed, ResultInv, ResultIsOfThisInput,
         history
<1>3. CASE PolicyMoves
  BY <1>3
     DEF PolicyMoves, PublishInv, PublishedIsReviewed, ResultInv, ResultIsOfThisInput,
         history
<1>4. CASE UNCHANGED vars
  BY <1>4
     DEF vars, PublishInv, PublishedIsReviewed, ResultInv, ResultIsOfThisInput, world,
         history
<1> QED
  BY <1>1, <1>2, <1>3, <1>4 DEF Next


\* A comment is the complete review of the head as it was read after the review.
THEOREM PublicationIsReviewed == Spec => []PublishedIsReviewed
<1>1. Init => ResultInv /\ PublishInv
  BY CommandAssumption
     DEF Init, ResultInv, ResultIsOfThisInput, Gate, PublishInv, PublishedIsReviewed
<1>2. PublishInv => PublishedIsReviewed
  BY DEF PublishInv
<1> QED
  BY <1>1, <1>2, CommandTypes, ResultInvStep, PublishInvStep, PTL DEF Spec

-----------------------------------------------------------------------------
(* Checks                                                                  *)

\* No checks before the input is captured; the workspace of staged checks is there from its
\* checkout to the end of the checks, the work trees of a change until it is left.
LeftInv ==
  /\ \A p \in Proc : opts[p].selector = "repository" =>
       pc[p] \notin {"workspace", "verify", "check"}
  /\ \A p \in Proc : "workspace" \in left[p] =>
       \/ /\ pc[p] \in {"verify", "check"}
          /\ opts[p].checks = "run" /\ opts[p].selector = "staged"
       \/ pc[p] = "ended" /\ exit[p] \in {"2", "thrown"}
  /\ \A p \in Proc : pc[p] \in {"bind", "capture", "workspace"} => left[p] = {}
  /\ \A p \in Proc : "worktrees" \in left[p] =>
       opts[p].selector = "forge" /\ (pc[p] = "ended" => exit[p] = "thrown")
  /\ \A p \in Proc : pc[p] \in {"workspace", "verify"} =>
       opts[p].selector = "staged" /\ opts[p].checks = "run"

\* While the index is checked out and compared, it is what was captured if it has not
\* changed, and is not if it has changed once; what was checked out before the first change
\* is what was captured.
TurnsInv ==
  /\ \A p \in Proc : pc[p] \in {"bind", "capture"} => turns[p] = 0
  /\ \A p \in Proc : pc[p] \in {"bind", "capture", "workspace"} => checked[p] = None
  /\ \A p \in Proc : pc[p] \in {"workspace", "verify"} =>
       /\ turns[p] = 0 => Now(p) = input[p]
       /\ turns[p] = 1 => Now(p) # input[p]
  /\ \A p \in Proc : pc[p] = "verify" /\ turns[p] = 0 => checked[p] = input[p]
  /\ \A p \in Proc : checked[p] \notin {None, input[p]} /\ pc[p] # "verify" =>
       opts[p].selector = "worktree" \/ turns[p] >= 2

CheckInv == LeftInv /\ TurnsInv

LEMMA StepKeepsWorld ==
  ASSUME NEW p \in Proc, Step(p)
  PROVE  content' = content /\ turns' = turns /\ opts' = opts
<1> USE DEF world
<1>1. CASE LocalStep(p)
  BY <1>1 DEF LocalStep, BindLocalPolicy, CaptureLocal, CaptureFails, CheckOut, Verify,
     WorkspaceFails, PreviewChecks, RunChecks, ChecksFail
<1>2. CASE RepositoryStep(p) \/ ForgeStep(p)
  BY <1>2 DEF RepositoryStep, ForgeStep, BindRepositoryPolicy, Preflight, Reconfirm,
     MaterializeChange, MaterializeFails, FreshRead, FreshReadFails, Post, Leave
<1>3. CASE ~LocalStep(p) /\ ~RepositoryStep(p) /\ ~ForgeStep(p)
  BY <1>3 DEF Step, ProviderRefused, EgressDenied, TakeCached, StartReview, FlightUnavailable,
     EndReview, EndReviewUnstored, Render, RenderFails, Crash
<1> QED
  BY <1>1, <1>2, <1>3

LEMMA LeftInvStep == TypeOK /\ LeftInv /\ [Next]_vars => LeftInv'
<1> SUFFICES ASSUME TypeOK, LeftInv, [Next]_vars
             PROVE  LeftInv'
  OBVIOUS
<1>1. ASSUME NEW p \in Proc, Step(p)
      PROVE  LeftInv'
  <2>a. opts[p] \in Options /\ opts[p].selector \in Selector
    BY OptionFields DEF TypeOK
  <2>b. left[p] \ {"workspace"} = IF "worktrees" \in left[p] THEN {"worktrees"} ELSE {}
    BY DEF TypeOK
  <2> USE <1>1, <2>a, <2>b, CommandAssumption
          DEF TypeOK, LeftInv, Goto, Fault, world, history
  <2>1. CASE BindLocalPolicy(p)
    BY <2>1 DEF BindLocalPolicy, Finish
  <2>2. CASE BindRepositoryPolicy(p)
    BY <2>2 DEF BindRepositoryPolicy, Finish
  <2>3. CASE MaterializeChange(p)
    BY <2>3 DEF MaterializeChange, BindBasePolicy
  <2>4. CASE MaterializeFails(p)
    BY <2>4 DEF MaterializeFails, Finish
  <2>5. CASE CaptureLocal(p)
    BY <2>5 DEF CaptureLocal
  <2>6. CASE CaptureFails(p)
    BY <2>6 DEF CaptureFails, Finish
  <2>7. CASE Preflight(p)
    BY <2>7 DEF Preflight, Finish
  <2>8. CASE Reconfirm(p)
    BY <2>8 DEF Reconfirm, Finish
  <2>9. CASE CheckOut(p)
    BY <2>9 DEF CheckOut
  <2>27. CASE Verify(p)
    BY <2>27 DEF Verify, Finish
  <2>28. CASE WorkspaceFails(p)
    BY <2>28 DEF WorkspaceFails, Finish
  <2>10. CASE PreviewChecks(p)
    BY <2>10 DEF PreviewChecks, Finish
  <2>11. CASE RunChecks(p)
    BY <2>11 DEF RunChecks
  <2>12. CASE ChecksFail(p)
    BY <2>12 DEF ChecksFail, Finish
  <2>13. CASE ProviderRefused(p)
    BY <2>13 DEF ProviderRefused, Finish
  <2>14. CASE EgressDenied(p)
    BY <2>14 DEF EgressDenied, Finish
  <2>15. CASE TakeCached(p)
    BY <2>15 DEF TakeCached, Gate, Key
  <2>16. CASE StartReview(p)
    BY <2>16 DEF StartReview
  <2>17. CASE FlightUnavailable(p)
    BY <2>17 DEF FlightUnavailable, Gate
  <2>18. CASE EndReview(p)
    BY <2>18 DEF EndReview, Gate, Key
  <2>19. CASE EndReviewUnstored(p)
    BY <2>19 DEF EndReviewUnstored, Gate
  <2>20. CASE Render(p)
    BY <2>20 DEF Render, Finish, GateExitCode, Gate
  <2>21. CASE RenderFails(p)
    BY <2>21 DEF RenderFails, Finish
  <2>22. CASE FreshRead(p)
    BY <2>22 DEF FreshRead, Finish
  <2>23. CASE FreshReadFails(p)
    BY <2>23 DEF FreshReadFails, Finish
  <2>24. CASE Post(p)
    BY <2>24 DEF Post, Finish, GateExitCode
  <2>25. CASE Leave(p)
    BY <2>25 DEF Leave
  <2>26. CASE Crash(p)
    BY <2>26 DEF Crash
  <2> QED
    BY <1>1, <2>1, <2>2, <2>3, <2>4, <2>5, <2>6, <2>7, <2>8, <2>9, <2>10, <2>11, <2>12,
       <2>13, <2>14, <2>15, <2>16, <2>17, <2>18, <2>19, <2>20, <2>21, <2>22, <2>23,
       <2>24, <2>25, <2>26, <2>27, <2>28
       DEF Step, LocalStep, RepositoryStep, ForgeStep
<1>2. CASE ContentMoves
  BY <1>2 DEF ContentMoves, LeftInv
<1>3. CASE PolicyMoves
  BY <1>3 DEF PolicyMoves, LeftInv
<1>4. CASE UNCHANGED vars
  BY <1>4 DEF vars, LeftInv
<1> QED
  BY <1>1, <1>2, <1>3, <1>4 DEF Next

LEMMA NoneOneOrMore ==
  ASSUME NEW n \in Nat
  PROVE  n = 0 \/ n = 1 \/ n >= 2
  OBVIOUS

LEMMA TurnsInvStep == TypeOK /\ LeftInv /\ TurnsInv /\ [Next]_vars => TurnsInv'
<1> SUFFICES ASSUME TypeOK, LeftInv, TurnsInv, [Next]_vars
             PROVE  TurnsInv'
  OBVIOUS
<1>1. ASSUME NEW p \in Proc, Step(p)
      PROVE  TurnsInv'
  <2>a. opts[p] \in Options /\ opts[p].selector \in Selector
    BY OptionFields DEF TypeOK
  <2>b. content' = content /\ turns' = turns /\ opts' = opts
    BY <1>1, StepKeepsWorld
  <2> USE <1>1, <2>a, <2>b, CommandAssumption
          DEF TypeOK, LeftInv, TurnsInv, Now, Goto, Fault, history
  <2>1. CASE BindLocalPolicy(p)
    BY <2>1 DEF BindLocalPolicy, Finish
  <2>2. CASE BindRepositoryPolicy(p)
    BY <2>2 DEF BindRepositoryPolicy, Finish
  <2>3. CASE MaterializeChange(p)
    BY <2>3 DEF MaterializeChange, BindBasePolicy
  <2>4. CASE MaterializeFails(p)
    BY <2>4 DEF MaterializeFails, Finish
  <2>5. CASE CaptureLocal(p)
    BY <2>5 DEF CaptureLocal
  <2>6. CASE CaptureFails(p)
    BY <2>6 DEF CaptureFails, Finish
  <2>7. CASE Preflight(p)
    BY <2>7 DEF Preflight, Finish
  <2>8. CASE Reconfirm(p)
    BY <2>8 DEF Reconfirm, Finish
  <2>9. CASE CheckOut(p)
    BY <2>9 DEF CheckOut
  <2>27. CASE Verify(p)
    <3>1. \A q \in Proc \ {p} : pc'[q] = pc[q] /\ checked'[q] = checked[q]
      BY <2>27 DEF Verify, Finish
    <3>2. pc[p] = "verify" /\ input' = input
      BY <2>27 DEF Verify
    <3>3. pc'[p] \in {"check", "leave", "ended"}
      BY <2>27 DEF Verify, Finish
    <3>4. turns[p] \in Nat
      OBVIOUS
    <3>5. checked'[p] = None \/ (checked'[p] = checked[p] /\ Now(p) = input[p])
      BY <2>27 DEF Verify
    <3>6. checked'[p] \in {None, input[p]} \/ turns[p] >= 2
      <4>1. turns[p] = 0 => checked[p] = input[p]
        BY <3>2
      <4>2. Now(p) = input[p] => turns[p] # 1
        BY <3>2
      <4>3. turns[p] = 0 \/ turns[p] = 1 \/ turns[p] >= 2
        BY <3>4, NoneOneOrMore
      <4> QED
        BY <3>5, <4>1, <4>2, <4>3
    <3> QED
      BY <3>1, <3>2, <3>3, <3>6
  <2>28. CASE WorkspaceFails(p)
    BY <2>28 DEF WorkspaceFails, Finish
  <2>10. CASE PreviewChecks(p)
    BY <2>10 DEF PreviewChecks, Finish
  <2>11. CASE RunChecks(p)
    <3>1. \A q \in Proc \ {p} : pc'[q] = pc[q] /\ checked'[q] = checked[q]
      BY <2>11 DEF RunChecks
    <3>2. pc'[p] = "execute" /\ pc[p] = "check" /\ input' = input
      BY <2>11 DEF RunChecks
    <3>3. \/ opts[p].selector = "worktree" \/ checked'[p] \in {checked[p], input[p]}
      BY <2>11 DEF RunChecks, Selector
    <3> QED
      BY <3>1, <3>2, <3>3
  <2>12. CASE ChecksFail(p)
    BY <2>12 DEF ChecksFail, Finish
  <2>13. CASE ProviderRefused(p)
    BY <2>13 DEF ProviderRefused, Finish
  <2>14. CASE EgressDenied(p)
    BY <2>14 DEF EgressDenied, Finish
  <2>15. CASE TakeCached(p)
    BY <2>15 DEF TakeCached, Gate, Key
  <2>16. CASE StartReview(p)
    BY <2>16 DEF StartReview
  <2>17. CASE FlightUnavailable(p)
    BY <2>17 DEF FlightUnavailable, Gate
  <2>18. CASE EndReview(p)
    BY <2>18 DEF EndReview, Gate, Key
  <2>19. CASE EndReviewUnstored(p)
    BY <2>19 DEF EndReviewUnstored, Gate
  <2>20. CASE Render(p)
    BY <2>20 DEF Render, Finish, GateExitCode, Gate
  <2>21. CASE RenderFails(p)
    BY <2>21 DEF RenderFails, Finish
  <2>22. CASE FreshRead(p)
    BY <2>22 DEF FreshRead, Finish
  <2>23. CASE FreshReadFails(p)
    BY <2>23 DEF FreshReadFails, Finish
  <2>24. CASE Post(p)
    BY <2>24 DEF Post, Finish, GateExitCode
  <2>25. CASE Leave(p)
    BY <2>25 DEF Leave
  <2>26. CASE Crash(p)
    BY <2>26 DEF Crash
  <2> QED
    BY <1>1, <2>1, <2>2, <2>3, <2>4, <2>5, <2>6, <2>7, <2>8, <2>9, <2>10, <2>11, <2>12,
       <2>13, <2>14, <2>15, <2>16, <2>17, <2>18, <2>19, <2>20, <2>21, <2>22, <2>23,
       <2>24, <2>25, <2>26, <2>27, <2>28
       DEF Step, LocalStep, RepositoryStep, ForgeStep
<1>2. CASE ContentMoves
  <2>1. ASSUME NEW s \in Site, NEW v \in Version, content[s] # v,
               content' = [content EXCEPT ![s] = v],
               turns' = [q \in Proc |->
                           IF SiteOf(opts[q]) = s /\ pc[q] \in {"workspace", "verify"}
                           THEN turns[q] + 1 ELSE turns[q]]
        PROVE  TurnsInv'
    <3>1. opts' = opts /\ pc' = pc /\ input' = input /\ checked' = checked
      BY <1>2 DEF ContentMoves
    <3>2. turns \in [Proc -> Nat] /\ DOMAIN content = Site
      BY CommandAssumption DEF TypeOK
    <3>3. ASSUME NEW p \in Proc, SiteOf(opts[p]) = s, pc[p] \in {"workspace", "verify"}
          PROVE  turns'[p] = turns[p] + 1 /\ turns'[p] # 0 /\ content'[SiteOf(opts'[p])] = v
      BY <2>1, <3>1, <3>2, <3>3
    <3>4. ASSUME NEW p \in Proc, SiteOf(opts[p]) # s \/ pc[p] \notin {"workspace", "verify"}
          PROVE  turns'[p] = turns[p]
      BY <2>1, <3>4
    <3>5. ASSUME NEW p \in Proc, SiteOf(opts[p]) # s
          PROVE  content'[SiteOf(opts'[p])] = content[SiteOf(opts[p])]
      BY <2>1, <3>1, <3>2, <3>5 DEF SiteOf, Site
    <3>6. ASSUME NEW p \in Proc, pc'[p] \in {"workspace", "verify"}
          PROVE  /\ turns'[p] = 0 => content'[SiteOf(opts'[p])] = input'[p]
                 /\ turns'[p] = 1 => content'[SiteOf(opts'[p])] # input'[p]
                 /\ pc'[p] = "verify" /\ turns'[p] = 0 => checked'[p] = input'[p]
      <4>1. CASE SiteOf(opts[p]) = s
        <5>1. turns'[p] = turns[p] + 1 /\ turns'[p] # 0 /\ content'[SiteOf(opts'[p])] = v
          BY <3>1, <3>3, <3>6, <4>1
        <5>2. turns'[p] = 1 => turns[p] = 0
          BY <3>2, <5>1
        <5>3. turns[p] = 0 => input[p] = content[s]
          BY <3>1, <3>6, <4>1 DEF TurnsInv, Now
        <5> QED
          BY <2>1, <3>1, <5>1, <5>2, <5>3
      <4>2. CASE SiteOf(opts[p]) # s
        BY <3>1, <3>4, <3>5, <3>6, <4>2 DEF TurnsInv, Now
      <4> QED
        BY <4>1, <4>2
    <3>7. ASSUME NEW p \in Proc, checked'[p] \notin {None, input'[p]}, pc'[p] # "verify"
          PROVE  opts'[p].selector = "worktree" \/ turns'[p] >= 2
      <4>1. opts[p].selector = "worktree" \/ turns[p] >= 2
        BY <3>1, <3>7 DEF TurnsInv
      <4>2. turns'[p] = turns[p] \/ turns'[p] = turns[p] + 1
        BY <3>1, <3>3, <3>4
      <4> QED
        BY <3>1, <3>2, <4>1, <4>2
    <3>8. \A p \in Proc : pc'[p] \in {"bind", "capture"} => turns'[p] = 0
      BY <3>1, <3>4 DEF TurnsInv
    <3>9. \A p \in Proc : pc'[p] \in {"bind", "capture", "workspace"} => checked'[p] = None
      BY <3>1 DEF TurnsInv
    <3> QED
      BY <3>6, <3>7, <3>8, <3>9 DEF TurnsInv, Now
  <2> QED
    BY <1>2, <2>1 DEF ContentMoves
<1>3. CASE PolicyMoves
  BY <1>3 DEF PolicyMoves, TurnsInv, Now
<1>4. CASE UNCHANGED vars
  BY <1>4 DEF vars, world, TurnsInv, Now
<1> QED
  BY <1>1, <1>2, <1>3, <1>4 DEF Next

\* The checks of the index and of a change see what is reviewed, unless the index has changed
\* twice while it was checked out and compared, and only a refusal leaves anything behind.
THEOREM ChecksAreOfTheReview == Spec => []ChecksSeeWhatIsReviewed
<1>1. Init => CheckInv
  BY DEF Init, CheckInv, LeftInv, TurnsInv
<1>2. TypeOK /\ CheckInv => ChecksSeeWhatIsReviewed
  BY DEF TypeOK, CheckInv, LeftInv, TurnsInv, ChecksSeeWhatIsReviewed
<1>3. TypeOK /\ CheckInv /\ [Next]_vars => CheckInv'
  BY LeftInvStep, TurnsInvStep DEF CheckInv
<1> QED
  BY <1>1, <1>2, <1>3, CommandTypes, PTL DEF Spec

-----------------------------------------------------------------------------
(* The layers of a policy                                                  *)

\* The layers before n explain the field f.
Explained(f, n) ==
  \/ /\ origins[f] = None /\ merged[f] = None
     /\ \A k \in 1 .. 4 : k < n => Layers!SetBy(Layers!Order[k], f) = None
  \/ \E m \in 1 .. 4 :
       /\ m < n
       /\ Layers!SetBy(Layers!Order[m], f) # None
       /\ \A k \in 1 .. 4 : m < k /\ k < n => Layers!SetBy(Layers!Order[k], f) = None
       /\ origins[f] = Layers!Order[m] /\ merged[f] = Layers!SetBy(Layers!Order[m], f)

\* What is explained when all layers are merged and bounded.
Accounted(f) ==
  \/ /\ origins[f] = None
     /\ ~Layers!SetAfter(0, f)
     /\ merged[f] = IF f = "concurrency" THEN 2 ELSE None
  \/ \E n \in 1 .. 4 : /\ Layers!SetBy(Layers!Order[n], f) # None
                       /\ ~Layers!SetAfter(n, f)
                       /\ \/ origins[f] = Layers!Order[n] /\ merged[f] = Layers!SetBy(Layers!Order[n], f)
                          \/ /\ origins[f] = "safety-invariants"
                             /\ Layers!SetBy(Layers!Order[n], f) > merged[f]

LayersInv ==
  /\ Layers!TypeOK
  /\ merged["packs"] \in (SUBSET DOMAIN Pack) \cup {None}
  /\ layersPc = "layers" /\ ~diagnosed => \A f \in Layers!Field : Explained(f, layersNext)
  /\ layersPc \in {"packs", "effective"} => \A f \in Layers!Field : Accounted(f)

LEMMA OrderIsASource ==
  \A n \in 1 .. 4 : Layers!Order[n] \in Layers!Source
  BY DEF Layers!Order, Layers!Source

LEMMA LayerIsMerged ==
  ASSUME LayerConstants, LayersInv, Layers!MergeLayer
  PROVE  LayersInv'
<1> DEFINE s == Layers!Order[layersNext]
           l == layer[s]
<1>1. /\ layersNext \in 1 .. 4 /\ layersNext' = layersNext + 1 /\ layersPc = "layers"
      /\ layersPc' = layersPc /\ layer' = layer
      /\ pending' = pending /\ rules' = rules
  BY DEF Layers!MergeLayer, LayersInv, Layers!TypeOK
<1>2. s \in Layers!Source
  BY <1>1, OrderIsASource
<1>3. CASE /\ l # None /\ merged' = Layers!Merge(merged, l.sets)
           /\ origins' = Layers!RecordOrigins(l.sets, s)
           /\ diagnosed' = diagnosed
  <2>1. l \in PolicyLayer \cup {Builtin}
    BY <1>2, <1>3 DEF LayersInv, Layers!TypeOK
  <2>2. \A f \in Layers!Field :
          /\ merged'[f] = IF l.sets[f] = None THEN merged[f] ELSE l.sets[f]
          /\ origins'[f] = IF l.sets[f] = None THEN origins[f] ELSE s
    BY <1>3 DEF Layers!Merge, Layers!RecordOrigins
  <2>3. Layers!TypeOK'
    <3>1. DOMAIN merged' = Layers!Field
      BY <1>3 DEF Layers!Merge
    <3>2. origins' \in [Layers!Field -> Layers!Source \cup {"safety-invariants", None}]
      BY <1>2, <1>3 DEF Layers!RecordOrigins, LayersInv, Layers!TypeOK
    <3>3. layersNext' \in 1 .. 5
      BY <1>1
    <3>4. QED
      BY <1>1, <1>3, <3>1, <3>2, <3>3 DEF LayersInv, Layers!TypeOK
  <2>4. merged'["packs"] \in (SUBSET DOMAIN Pack) \cup {None}
    <3>1. "packs" \in Layers!Field
      BY DEF Layers!Field
    <3>2. QED
      BY <2>1, <2>2, <3>1 DEF LayerConstants, LayersInv
  <2>5. ASSUME NEW f \in Layers!Field, Explained(f, layersNext)
        PROVE  Explained(f, layersNext)'
    <3>1. l.sets[f] = Layers!SetBy(Layers!Order[layersNext], f)
      BY <1>3 DEF Layers!SetBy
    <3>2. \A k \in 1 .. 4 : Layers!SetBy(Layers!Order[k], f)' = Layers!SetBy(Layers!Order[k], f)
      BY <1>1 DEF Layers!SetBy
    <3>3. \A k \in 1 .. 4 : k < layersNext + 1 <=> k < layersNext \/ k = layersNext
      BY <1>1
    <3>4. CASE l.sets[f] = None
      <4>1. merged'[f] = merged[f] /\ origins'[f] = origins[f]
        BY <2>2, <3>4
      <4>2. \A k \in 1 .. 4 : k < layersNext + 1 =>
              k < layersNext \/ Layers!SetBy(Layers!Order[k], f) = None
        BY <3>1, <3>3, <3>4
      <4>3. \A k \in 1 .. 4 : k < layersNext => k < layersNext + 1
        BY <3>3
      <4>4. QED
        BY <1>1, <2>5, <3>2, <4>1, <4>2, <4>3 DEF Explained
    <3>5. CASE l.sets[f] # None
      <4>1. merged'[f] = Layers!SetBy(Layers!Order[layersNext], f) /\ origins'[f] = Layers!Order[layersNext]
        BY <2>2, <3>1, <3>5
      <4>2. \A k \in 1 .. 4 : ~(layersNext < k /\ k < layersNext + 1)
        BY <1>1
      <4>3. layersNext < layersNext + 1
        BY <1>1
      <4>4. QED
        BY <1>1, <3>1, <3>2, <3>5, <4>1, <4>2, <4>3 DEF Explained
    <3>6. QED
      BY <3>4, <3>5
  <2>6. QED
    BY <1>1, <1>3, <2>3, <2>4, <2>5 DEF LayersInv
<1>4. CASE /\ merged' = merged /\ origins' = origins /\ diagnosed' = (diagnosed \/ l # None)
  <2>1. Layers!TypeOK'
    <3>1. layersNext' \in 1 .. 5
      BY <1>1
    <3>2. QED
      BY <1>1, <1>4, <3>1 DEF LayersInv, Layers!TypeOK
  <2>2. ASSUME NEW f \in Layers!Field, ~diagnosed', Explained(f, layersNext)
        PROVE  Explained(f, layersNext)'
    <3>1. Layers!SetBy(Layers!Order[layersNext], f) = None
      BY <1>4, <2>2 DEF Layers!SetBy
    <3>2. \A k \in 1 .. 4 : Layers!SetBy(Layers!Order[k], f)' = Layers!SetBy(Layers!Order[k], f)
      BY <1>1 DEF Layers!SetBy
    <3>3. \A k \in 1 .. 4 : k < layersNext + 1 <=> k < layersNext \/ k = layersNext
      BY <1>1
    <3>4. QED
      BY <1>1, <1>4, <2>2, <3>1, <3>2, <3>3 DEF Explained
  <2>3. QED
    BY <1>1, <1>4, <2>1, <2>2 DEF LayersInv
<1>5. QED
  BY <1>3, <1>4 DEF Layers!MergeLayer

\* A bound that a layer exceeds is named as the origin of the bounded value.
LEMMA SafetyIsApplied ==
  ASSUME LayerConstants, LayersInv, Layers!ApplySafetyInvariants
  PROVE  LayersInv'
<1>1. layersPc = "layers" /\ layersNext = 5 /\ UNCHANGED <<layer, layersNext, rules, diagnosed>>
  BY DEF Layers!ApplySafetyInvariants
<1>2. CASE layersPc' = "invalid" /\ UNCHANGED <<merged, origins, pending>>
  BY <1>1, <1>2 DEF LayersInv, Layers!TypeOK
<1>3. CASE /\ ~diagnosed /\ layersPc' = "packs" /\ merged' = Layers!Bounded
           /\ origins' = Layers!BoundedOrigins
           /\ pending' = IF merged["packs"] = None THEN {} ELSE merged["packs"]
  <2>1. /\ DOMAIN merged = Layers!Field /\ DOMAIN origins = Layers!Field
        /\ "concurrency" \in Layers!Field /\ "packs" \in Layers!Field
    BY DEF LayersInv, Layers!TypeOK, Layers!Field
  <2>2. \A f \in Layers!Field : f # "concurrency" => merged'[f] = merged[f] /\ origins'[f] = origins[f]
    BY <1>3, <2>1 DEF Layers!Bounded, Layers!BoundedOrigins
  <2>3. Layers!TypeOK'
    <3>1. origins' \in [Layers!Field -> Layers!Source \cup {"safety-invariants", None}]
      BY <1>3 DEF Layers!BoundedOrigins, LayersInv, Layers!TypeOK
    <3>2. DOMAIN merged' = Layers!Field
      BY <1>3, <2>1 DEF Layers!Bounded
    <3>3. pending' \subseteq DOMAIN Pack
      BY <1>3 DEF LayersInv
    <3>4. QED
      BY <1>1, <1>3, <3>1, <3>2, <3>3 DEF LayersInv, Layers!TypeOK
  <2>4. \A f \in Layers!Field : Explained(f, 5)
    BY <1>1, <1>3 DEF LayersInv
  <2>a. \A f \in Layers!Field, n \in 0 .. 4 :
          Layers!SetAfter(n, f) <=> \E k \in 1 .. 4 : n < k /\ Layers!SetBy(Layers!Order[k], f) # None
    BY DEF Layers!SetAfter
  <2>b. \A f \in Layers!Field : \A k \in 1 .. 4 : Layers!SetBy(Layers!Order[k], f)' = Layers!SetBy(Layers!Order[k], f)
    BY <1>1 DEF Layers!SetBy
  <2>c. \A f \in Layers!Field, n \in 0 .. 4 : Layers!SetAfter(n, f)' <=> Layers!SetAfter(n, f)
    BY <1>1 DEF Layers!SetAfter, Layers!SetBy
  <2>5. \A k \in 1 .. 4 : k < 5
    OBVIOUS
  <2>6. ASSUME NEW f \in Layers!Field
        PROVE  \/ origins[f] = None /\ merged[f] = None /\ ~Layers!SetAfter(0, f)
               \/ \E n \in 1 .. 4 :
                    /\ Layers!SetBy(Layers!Order[n], f) # None /\ ~Layers!SetAfter(n, f)
                    /\ origins[f] = Layers!Order[n] /\ merged[f] = Layers!SetBy(Layers!Order[n], f)
    BY <2>4, <2>5, <2>a DEF Explained
  <2>7. ASSUME NEW f \in Layers!Field, f # "concurrency"
        PROVE  Accounted(f)'
    BY <2>2, <2>6, <2>7, <2>b, <2>c DEF Accounted
  <2>8. Accounted("concurrency")'
    <3> DEFINE c == "concurrency"
    <3>1. /\ merged'[c] = IF Layers!Asked > 2 THEN 2 ELSE Layers!Asked
          /\ origins'[c] = IF Layers!Asked > 2 THEN "safety-invariants" ELSE origins[c]
      BY <1>3, <2>1 DEF Layers!Bounded, Layers!BoundedOrigins
    <3>2. CASE origins[c] = None /\ merged[c] = None /\ ~Layers!SetAfter(0, c)
      <4>1. Layers!Asked = 2
        BY <3>2 DEF Layers!Asked
      <4>2. merged'[c] = 2 /\ origins'[c] = None
        BY <3>1, <3>2, <4>1
      <4>3. QED
        BY <2>1, <2>c, <3>2, <4>2 DEF Accounted
    <3>3. CASE \E n \in 1 .. 4 :
                 /\ Layers!SetBy(Layers!Order[n], c) # None /\ ~Layers!SetAfter(n, c)
                 /\ origins[c] = Layers!Order[n] /\ merged[c] = Layers!SetBy(Layers!Order[n], c)
      <4>1. PICK n \in 1 .. 4 :
                 /\ Layers!SetBy(Layers!Order[n], c) # None /\ ~Layers!SetAfter(n, c)
                 /\ origins[c] = Layers!Order[n] /\ merged[c] = Layers!SetBy(Layers!Order[n], c)
        BY <3>3
      <4>2. merged[c] \in Nat /\ merged[c] # None
        <5>1. Layers!Order[n] \in Layers!Source /\ layer[Layers!Order[n]] # None
          BY <4>1, OrderIsASource DEF Layers!SetBy
        <5>2. layer[Layers!Order[n]] \in PolicyLayer \cup {Builtin}
          BY <5>1 DEF LayersInv, Layers!TypeOK
        <5>3. Layers!SetBy(Layers!Order[n], c) = layer[Layers!Order[n]].sets[c]
          BY <5>1 DEF Layers!SetBy
        <5>4. QED
          BY <4>1, <5>2, <5>3 DEF LayerConstants
      <4>3. Layers!Asked = merged[c]
        BY <4>2 DEF Layers!Asked
      <4>4. \/ origins'[c] = Layers!Order[n] /\ merged'[c] = Layers!SetBy(Layers!Order[n], c)
            \/ origins'[c] = "safety-invariants" /\ Layers!SetBy(Layers!Order[n], c) > merged'[c]
        BY <3>1, <4>1, <4>2, <4>3
      <4>5. QED
        BY <2>1, <2>b, <2>c, <4>1, <4>4 DEF Accounted
    <3>4. QED
      BY <2>1, <2>6, <3>2, <3>3
  <2>9. merged'["packs"] \in (SUBSET DOMAIN Pack) \cup {None}
    BY <2>1, <2>2 DEF LayersInv
  <2>10. QED
    BY <1>3, <2>3, <2>7, <2>8, <2>9 DEF LayersInv
<1>4. QED
  BY <1>2, <1>3 DEF Layers!ApplySafetyInvariants

LEMMA LayersInvStep ==
  ASSUME LayerConstants, LayersInv, [Layers!Next]_Layers!vars
  PROVE  LayersInv'
<1>1. ASSUME NEW p \in DOMAIN Pack, Layers!LoadRulePack(p)
      PROVE  LayersInv'
  <2>1. /\ layersPc = "packs" /\ UNCHANGED <<layer, layersPc, layersNext, merged, origins>>
        /\ pending' \subseteq pending /\ diagnosed' \in BOOLEAN
        /\ rules' = rules \/ (Pack[p] # None /\ rules' = rules \cup Pack[p])
    BY <1>1 DEF Layers!LoadRulePack
  <2>2. rules' \subseteq UNION {Pack[q] : q \in {r \in DOMAIN Pack : Pack[r] # None}}
    BY <2>1 DEF LayersInv, Layers!TypeOK
  <2>3. Layers!TypeOK'
    BY <2>1, <2>2 DEF LayersInv, Layers!TypeOK
  <2>4. \A f \in Layers!Field : Accounted(f)' <=> Accounted(f)
    BY <2>1 DEF Accounted, Layers!SetAfter, Layers!SetBy
  <2>5. QED
    BY <2>1, <2>3, <2>4 DEF LayersInv
<1>2. CASE Layers!BuildEffectivePolicy
  <2>1. /\ layersPc = "packs" /\ layersPc' \in {"invalid", "effective"}
        /\ UNCHANGED <<layer, layersNext, merged, origins, pending, rules, diagnosed>>
    BY <1>2 DEF Layers!BuildEffectivePolicy
  <2>2. Layers!TypeOK'
    BY <2>1 DEF LayersInv, Layers!TypeOK
  <2>3. \A f \in Layers!Field : Accounted(f)' <=> Accounted(f)
    BY <2>1 DEF Accounted, Layers!SetAfter, Layers!SetBy
  <2>4. QED
    BY <2>1, <2>2, <2>3 DEF LayersInv
<1>3. CASE UNCHANGED Layers!vars
  <2>1. \A f \in Layers!Field : (Accounted(f)' <=> Accounted(f)) /\ (Explained(f, layersNext)' <=> Explained(f, layersNext))
    BY <1>3 DEF Layers!vars, Accounted, Explained, Layers!SetAfter, Layers!SetBy
  <2>2. QED
    BY <1>3, <2>1 DEF Layers!vars, LayersInv, Layers!TypeOK
<1>4. QED
  BY <1>1, <1>2, <1>3, LayerIsMerged, SafetyIsApplied DEF Layers!Next

LEMMA LayersInvInit ==
  ASSUME LayerConstants, Layers!Init
  PROVE  LayersInv
<1>1. SUFFICES ASSUME Layers!Init PROVE LayersInv
  OBVIOUS
<1>2. Layers!TypeOK
  <2>1. layer \in [Layers!Source -> PolicyLayer \cup {Builtin, None}]
    BY <1>1 DEF Layers!Init
  <2>2. merged = Layers!Nothing /\ origins = Layers!Nothing /\ DOMAIN Layers!Nothing = Layers!Field
    BY <1>1 DEF Layers!Init, Layers!Nothing
  <2>3. Layers!Nothing \in [Layers!Field -> Layers!Source \cup {"safety-invariants", None}]
    BY DEF Layers!Nothing
  <2>4. layersPc = "layers" /\ layersNext = 1 /\ pending = {} /\ rules = {} /\ diagnosed = FALSE
    BY <1>1 DEF Layers!Init
  <2>5. /\ pending \subseteq DOMAIN Pack
        /\ rules \subseteq UNION {Pack[p] : p \in {q \in DOMAIN Pack : Pack[q] # None}}
    BY <2>4, Zenon
  <2>6. layersNext \in 1 .. 5
    BY <2>4
  <2>7. diagnosed \in BOOLEAN
    BY <2>4
  <2>8. layersPc \in {"layers", "packs", "effective", "invalid"}
    BY <2>4
  <2>9. DOMAIN merged = Layers!Field /\ origins \in [Layers!Field -> Layers!Source \cup {"safety-invariants", None}]
    BY <2>2, <2>3
  <2>10. QED
    BY <2>1, <2>5, <2>6, <2>7, <2>8, <2>9 DEF Layers!TypeOK
<1>3. "packs" \in Layers!Field
  BY DEF Layers!Field
<1>4. \A f \in Layers!Field : Explained(f, 1)
  BY <1>1 DEF Layers!Init, Explained, Layers!Nothing
<1>5. QED
  <2>1. /\ layersPc = "layers" /\ layersNext = 1 /\ merged["packs"] = None
    BY <1>1, <1>3 DEF Layers!Init, Layers!Nothing
  <2>2. \A f \in Layers!Field : Explained(f, layersNext)
    BY <1>4, <2>1
  <2>3. QED
    BY <1>2, <2>1, <2>2 DEF LayersInv

\* The inductive invariant holds throughout the behaviours of this module.
LEMMA LayersInvariant == MCSpec => [](subject = "policy" => LayersInv)
<1> DEFINE Inv == subject = "policy" => LayersInv
<1>1. MCInit => Inv
  BY CommandsAssumption, LayersInvInit DEF MCInit
<1>2. Inv /\ [MCNext]_all => Inv'
  <2>1. SUFFICES ASSUME Inv, [MCNext]_all, subject' = "policy"
                 PROVE  LayersInv'
    OBVIOUS
  <2>2. subject = "policy" /\ [Layers!Next]_Layers!vars
    BY <2>1 DEF MCNext, all, layersVars, Layers!vars
  <2>3. QED
    BY <2>1, <2>2, CommandsAssumption, LayersInvStep
<1>3. QED
  BY <1>1, <1>2, PTL DEF MCSpec

\* Each field of a policy has the value of the layer that is named as its origin.
THEOREM OriginsExplain == MCSpec => []OriginsExplainThePolicy
<1>1. (subject = "policy" => LayersInv) => OriginsExplainThePolicy
  BY DEF LayersInv, OriginsExplainThePolicy, Layers!OriginsExplainThePolicy, Accounted
<1>2. QED
  BY <1>1, LayersInvariant, PTL

-----------------------------------------------------------------------------
(* The waivers                                                             *)

WaiverId == {None} \cup {d.id : d \in Document}

\* A listing has what is present, of the entries that have come up.
ListingInv ==
  /\ waiverPc = "locate" => waiverFirst = {} /\ second = {} /\ waiverLeft = {}
  /\ waiverPc \in {"first", "second"} /\ ~moved =>
       /\ since = {Waivers!Present}
       /\ waiverPc = "first" => waiverFirst = Waivers!Present \ waiverLeft /\ second = {}
       /\ waiverPc = "second" => waiverFirst = Waivers!Present /\ second = Waivers!Present \ waiverLeft
  /\ waiverPc = "first" => second = {}

\* The files that are read, open, or still to be read.
Found ==
  {w.file : w \in waivers} \cup waiverLeft \cup (IF reading = None THEN {} ELSE {reading.file})

FoundInv ==
  /\ waiverPc \in {"locate", "first", "second"} => waivers = {}
  /\ waiverPc # "load" => reading = None
  /\ waiverPc = "load" => Found \in since
  /\ waiverPc = "valid" => {w.file : w \in waivers} \in since

\* What is open is of one document, unless it was rewritten.
OpenInv ==
  reading # None =>
    /\ reading \in [file : WaiverFile, id : WaiverId]
    /\ ~rewritten => /\ disk[reading.file] # None
                     /\ reading.id \in {None, disk[reading.file].id}

ReadInv == \A w \in waivers : [id |-> w.id, good |-> w.good] \in Document

WaiverInv == Waivers!TypeOK /\ ListingInv /\ FoundInv /\ OpenInv /\ ReadInv

LEMMA WaiverTypeStep ==
  ASSUME WaiverConstants, WaiverInv, [Waivers!Next]_Waivers!vars
  PROVE  Waivers!TypeOK'
<1> USE DEF WaiverInv, Waivers!TypeOK, Waivers!listing, Waivers!loading
<1>1. CASE Waivers!NoDirectory \/ Waivers!Identify
  BY <1>1 DEF Waivers!NoDirectory, Waivers!Identify, Waivers!Present
<1>2. CASE \E f \in WaiverFile : Waivers!ListEntry(f)
  BY <1>2 DEF Waivers!ListEntry, Waivers!Present
<1>3. CASE Waivers!EndListing
  BY <1>3 DEF Waivers!EndListing
<1>4. CASE \E f \in WaiverFile : Waivers!OpenFile(f)
  <2>1. PICK f \in WaiverFile : Waivers!OpenFile(f)
    BY <1>4
  <2>2. /\ waiverLeft' \subseteq WaiverFile
        /\ UNCHANGED <<disk, moved, since, waiverFirst, second, waivers, waiverEdits>>
    BY <2>1 DEF Waivers!OpenFile
  <2>3. CASE waiverPc' = "changed" /\ UNCHANGED <<reading, rewritten>>
    BY <2>2, <2>3
  <2>4. CASE /\ reading' = [file |-> f, id |-> None] /\ rewritten' = FALSE /\ waiverPc' = waiverPc
    <3>1. reading'.file = f
      BY <2>4
    <3>2. QED
      BY <2>2, <2>4, <3>1
  <2>5. QED
    BY <2>1, <2>3, <2>4 DEF Waivers!OpenFile
<1>5. CASE Waivers!ReadIdentifier
  <2>1. reading'.file = reading.file
    BY <1>5 DEF Waivers!ReadIdentifier, OpenInv
  <2>2. QED
    BY <1>5, <2>1 DEF Waivers!ReadIdentifier
<1>6. CASE Waivers!ReadRest
  <2>1. reading # None /\ reading.file \in WaiverFile
    BY <1>6 DEF Waivers!ReadRest
  <2>2. \A w \in waivers' : w \in waivers \/ w.file = reading.file
    BY <1>6 DEF Waivers!ReadRest
  <2>3. /\ reading' = None /\ rewritten' = FALSE /\ waiverPc' \in {waiverPc, "changed"}
        /\ UNCHANGED <<disk, moved, since, waiverFirst, second, waiverLeft, waiverEdits>>
    BY <1>6 DEF Waivers!ReadRest
  <2>4. QED
    BY <2>1, <2>2, <2>3
<1>7. CASE Waivers!Validate
  BY <1>7 DEF Waivers!Validate
<1>8. ASSUME NEW d \in [WaiverFile -> Document \cup {None}], Waivers!Edit(d) PROVE Waivers!TypeOK'
  <2>1. waiverEdits' \in 0 .. MaxWaiverEdits
    BY <1>8 DEF Waivers!Edit, WaiverConstants
  <2>2. {f \in WaiverFile : d[f] # None} \in SUBSET WaiverFile
    OBVIOUS
  <2>3. moved' \in BOOLEAN /\ since' \subseteq SUBSET WaiverFile /\ rewritten' \in BOOLEAN
    BY <1>8, <2>2 DEF Waivers!Edit
  <2>4. disk' = d /\ UNCHANGED <<waiverPc, waiverLeft, waiverFirst, second, reading, waivers>>
    BY <1>8 DEF Waivers!Edit
  <2>5. QED
    BY <2>1, <2>3, <2>4
<1>9. ASSUME NEW f \in WaiverFile, \/ \E doc \in Document : Waivers!WriteFile(f, doc)
                             \/ Waivers!RemoveFile(f) \/ \E g \in WaiverFile : Waivers!RenameFile(f, g)
      PROVE  \E d \in [WaiverFile -> Document \cup {None}] : Waivers!Edit(d)
  BY <1>9 DEF Waivers!WriteFile, Waivers!RemoveFile, Waivers!RenameFile
<1>10. CASE UNCHANGED Waivers!vars
  BY <1>10 DEF Waivers!vars
<1>11. QED
  BY <1>1, <1>2, <1>3, <1>4, <1>5, <1>6, <1>7, <1>8, <1>9, <1>10 DEF Waivers!Next

LEMMA EditKeepsWaivers ==
  ASSUME WaiverConstants, WaiverInv, NEW d \in [WaiverFile -> Document \cup {None}], Waivers!Edit(d)
  PROVE  ListingInv' /\ FoundInv' /\ OpenInv' /\ ReadInv'
<1> USE DEF WaiverInv
<1>1. /\ waiverPc' = waiverPc /\ waiverLeft' = waiverLeft /\ waiverFirst' = waiverFirst
      /\ second' = second
      /\ reading' = reading /\ waivers' = waivers /\ disk' = d
  BY DEF Waivers!Edit
<1>2. ListingInv'
  BY <1>1 DEF Waivers!Edit, ListingInv, Waivers!Present
<1>3. FoundInv'
  BY <1>1 DEF Waivers!Edit, FoundInv, Found
<1>4. OpenInv'
  BY <1>1 DEF Waivers!Edit, OpenInv, WaiverId
<1>5. ReadInv'
  BY <1>1 DEF ReadInv
<1>6. QED
  BY <1>2, <1>3, <1>4, <1>5

LEMMA WaiverInvStep ==
  ASSUME WaiverConstants, WaiverInv, [Waivers!Next]_Waivers!vars
  PROVE  WaiverInv'
<1>0. Waivers!TypeOK'
  BY WaiverTypeStep
<1> SUFFICES ListingInv' /\ FoundInv' /\ OpenInv' /\ ReadInv'
  BY <1>0 DEF WaiverInv
<1>a. Waivers!TypeOK /\ ListingInv /\ FoundInv /\ OpenInv /\ ReadInv
  BY DEF WaiverInv
<1> USE <1>a DEF Waivers!listing, Waivers!loading
<1>1. CASE Waivers!NoDirectory \/ Waivers!Identify
  <2>1. ListingInv'
    BY <1>1 DEF Waivers!NoDirectory, Waivers!Identify, ListingInv, Waivers!Present
  <2>2. FoundInv'
    BY <1>1 DEF Waivers!NoDirectory, Waivers!Identify, FoundInv, Found, ListingInv
  <2>3. OpenInv' /\ ReadInv'
    BY <1>1 DEF Waivers!NoDirectory, Waivers!Identify, OpenInv, ReadInv
  <2>4. QED
    BY <2>1, <2>2, <2>3
<1>2. ASSUME NEW f \in WaiverFile, Waivers!ListEntry(f)
      PROVE  ListingInv' /\ FoundInv' /\ OpenInv' /\ ReadInv'
  <2>1. ListingInv'
    BY <1>2 DEF Waivers!ListEntry, ListingInv, Waivers!Present
  <2>2. FoundInv' /\ OpenInv' /\ ReadInv'
    BY <1>2 DEF Waivers!ListEntry, FoundInv, OpenInv, ReadInv
  <2>3. QED
    BY <2>1, <2>2
<1>3. CASE Waivers!EndListing
  <2>1. ListingInv'
    BY <1>3 DEF Waivers!EndListing, ListingInv, Waivers!Present, Waivers!Stable, Waivers!TypeOK
  <2>2. FoundInv'
    <3>1. waiverPc \in {"first", "second"} /\ waivers = {} /\ waivers' = waivers /\ reading = None
          /\ reading' = reading /\ since' = since /\ waiverPc' \in {"changed", "second", "load"}
      BY <1>3 DEF Waivers!EndListing, FoundInv
    <3>2. waiverPc' = "load" => waiverLeft' = Waivers!Present /\ since = {Waivers!Present}
      BY <1>3 DEF Waivers!EndListing, Waivers!Stable, ListingInv
    <3>3. QED
      BY <3>1, <3>2 DEF FoundInv, Found
  <2>3. OpenInv' /\ ReadInv'
    BY <1>3 DEF Waivers!EndListing, OpenInv, ReadInv
  <2>4. QED
    BY <2>1, <2>2, <2>3
<1>4. ASSUME NEW f \in WaiverFile, Waivers!OpenFile(f)
      PROVE  ListingInv' /\ FoundInv' /\ OpenInv' /\ ReadInv'
  <2>1. /\ waiverPc = "load" /\ reading = None /\ f \in waiverLeft /\ waiverLeft' = waiverLeft \ {f}
        /\ waivers' = waivers /\ since' = since /\ disk' = disk
        /\ \/ waiverPc' = "changed" /\ reading' = reading
           \/ /\ waiverPc' = waiverPc /\ disk[f] # None
              /\ reading' = [file |-> f, id |-> None] /\ rewritten' = FALSE
    BY <1>4 DEF Waivers!OpenFile
  <2>2. [file |-> f, id |-> None] \in [file : WaiverFile, id : WaiverId]
    BY DEF WaiverId
  <2>3. reading' # None => reading'.file = f
    BY <2>1
  <2>4. waiverPc' = "load" => reading' # None
    BY <2>1, <2>2 DEF WaiverConstants
  <2>5. FoundInv'
    BY <2>1, <2>3, <2>4 DEF FoundInv, Found
  <2>6. OpenInv'
    BY <2>1, <2>2 DEF OpenInv, WaiverId
  <2>7. ListingInv' /\ ReadInv'
    BY <2>1 DEF ListingInv, ReadInv
  <2>8. QED
    BY <2>5, <2>6, <2>7
<1>5. CASE Waivers!ReadIdentifier
  <2>1. /\ reading # None /\ reading' = [reading EXCEPT !.id = disk[reading.file].id]
        /\ UNCHANGED <<disk, waiverPc, since, moved, waiverFirst, second, waiverLeft, rewritten,
                       waivers>>
        /\ disk[reading.file] # None
    BY <1>5 DEF Waivers!ReadIdentifier
  <2>2. reading \in [file : WaiverFile, id : WaiverId]
    BY <2>1 DEF OpenInv
  <2>3. reading'.file = reading.file /\ reading'.id = disk[reading.file].id
    BY <2>1, <2>2
  <2>4. disk[reading.file] \in Document
    BY <2>1, <2>2 DEF Waivers!TypeOK
  <2>5. reading' \in [file : WaiverFile, id : WaiverId]
    BY <2>1, <2>2, <2>4 DEF WaiverId
  <2>6. OpenInv'
    BY <2>1, <2>3, <2>5 DEF OpenInv, WaiverId
  <2>7. FoundInv'
    BY <2>1, <2>3, <2>5 DEF FoundInv, Found, WaiverConstants, WaiverId
  <2>8. ListingInv' /\ ReadInv'
    BY <2>1 DEF ListingInv, ReadInv, Waivers!Present
  <2>9. QED
    BY <2>6, <2>7, <2>8
<1>6. CASE Waivers!ReadRest
  <2>1. /\ reading # None /\ reading' = None /\ waiverPc = "load"
        /\ UNCHANGED <<disk, since, moved, waiverFirst, second, waiverLeft>>
    BY <1>6 DEF Waivers!ReadRest, FoundInv
  <2>2. CASE waiverPc' = "changed" /\ waivers' = waivers
    BY <2>1, <2>2 DEF ListingInv, FoundInv, OpenInv, ReadInv
  <2>3. CASE /\ ~rewritten /\ waiverPc' = waiverPc
             /\ waivers' = waivers \cup {[file |-> reading.file, id |-> reading.id,
                                         good |-> disk[reading.file].good]}
    <3>1. /\ reading.file \in WaiverFile /\ disk[reading.file] # None
          /\ reading.id \in {None, disk[reading.file].id} /\ reading.id # None
      BY <1>6, <2>1, <2>3 DEF OpenInv, Waivers!ReadRest
    <3>2. disk[reading.file] \in Document
      BY <3>1 DEF Waivers!TypeOK
    <3>3. [id |-> reading.id, good |-> disk[reading.file].good] \in Document
      BY <3>1, <3>2 DEF WaiverConstants
    <3>4. ReadInv'
      <4> DEFINE new == [file |-> reading.file, id |-> reading.id,
                         good |-> disk[reading.file].good]
      <4>1. new.id = reading.id /\ new.good = disk[reading.file].good
        OBVIOUS
      <4>2. waivers' = waivers \cup {new}
        BY <2>3
      <4> HIDE DEF new
      <4>3. QED
        BY <3>3, <4>1, <4>2 DEF ReadInv
    <3>5. Found' = Found
      <4> DEFINE new == [file |-> reading.file, id |-> reading.id,
                         good |-> disk[reading.file].good]
      <4>1. new.file = reading.file /\ waivers' = waivers \cup {new}
        BY <2>3
      <4> HIDE DEF new
      <4>2. {w.file : w \in waivers'} = {w.file : w \in waivers} \cup {reading.file}
        BY <4>1
      <4>3. QED
        BY <2>1, <4>2 DEF Found
    <3>6. FoundInv'
      BY <2>1, <2>3, <3>5 DEF FoundInv
    <3>7. QED
      BY <2>1, <2>3, <3>4, <3>6 DEF ListingInv, OpenInv
  <2>4. QED
    BY <1>6, <2>2, <2>3 DEF Waivers!ReadRest, Waivers!SameFile
<1>7. CASE Waivers!Validate
  BY <1>7 DEF Waivers!Validate, ListingInv, FoundInv, Found, OpenInv, ReadInv
<1>8. ASSUME NEW f \in WaiverFile, \/ \E doc \in Document : Waivers!WriteFile(f, doc)
                             \/ Waivers!RemoveFile(f) \/ \E g \in WaiverFile : Waivers!RenameFile(f, g)
      PROVE  \E d \in [WaiverFile -> Document \cup {None}] : Waivers!Edit(d)
  BY <1>8 DEF Waivers!WriteFile, Waivers!RemoveFile, Waivers!RenameFile, Waivers!TypeOK
<1>9. CASE UNCHANGED Waivers!vars
  BY <1>9 DEF Waivers!vars, ListingInv, FoundInv, Found, OpenInv, ReadInv, Waivers!Present,
  WaiverId
<1>10. QED
  BY <1>1, <1>2, <1>3, <1>4, <1>5, <1>6, <1>7, <1>8, <1>9, EditKeepsWaivers DEF Waivers!Next

LEMMA WaiverInvInit ==
  ASSUME WaiverConstants, Waivers!Init
  PROVE  WaiverInv
<1>1. SUFFICES ASSUME Waivers!Init PROVE WaiverInv
  OBVIOUS
<1>2. Waivers!TypeOK
  <2>1. 0 \in 0 .. MaxWaiverEdits
    BY DEF WaiverConstants
  <2>2. QED
    BY <1>1, <2>1 DEF Waivers!Init, Waivers!TypeOK
<1>3. ListingInv /\ FoundInv /\ OpenInv /\ ReadInv
  BY <1>1 DEF Waivers!Init, ListingInv, FoundInv, OpenInv, ReadInv
<1>4. QED
  BY <1>2, <1>3 DEF WaiverInv

\* The inductive invariant holds throughout the behaviours of this module.
LEMMA WaiversInvariant == MCSpec => [](subject = "waivers" => WaiverInv)
<1> DEFINE Inv == subject = "waivers" => WaiverInv
<1>1. MCInit => Inv
  BY CommandsAssumption, WaiverInvInit DEF MCInit
<1>2. Inv /\ [MCNext]_all => Inv'
  <2>1. SUFFICES ASSUME Inv, [MCNext]_all, subject' = "waivers"
                 PROVE  WaiverInv'
    OBVIOUS
  <2>2. subject = "waivers" /\ [Waivers!Next]_Waivers!vars
    BY <2>1 DEF MCNext, all, waiverVars, Waivers!vars
  <2>3. QED
    BY <2>1, <2>2, CommandsAssumption, WaiverInvStep
<1>3. QED
  BY <1>1, <1>2, PTL DEF MCSpec

\* The waivers of a policy are those of one instant, each as it was written.
THEOREM WaiversOfOneInstant == MCSpec => []WaiversAreOfOneInstant
<1>1. (subject = "waivers" => WaiverInv) => WaiversAreOfOneInstant
  BY DEF WaiverInv, FoundInv, ReadInv, WaiversAreOfOneInstant, Waivers!WaiversAreOfOneInstant
<1>2. QED
  BY <1>1, WaiversInvariant, PTL

-----------------------------------------------------------------------------
(* All the types                                                           *)

LEMMA CommandsInvariant == MCSpec => [](subject = "review" => TypeOK)
<1> DEFINE Inv == subject = "review" => TypeOK
<1>1. MCInit => Inv
  <2>1. Init => TypeOK
    BY CommandAssumption DEF Init, TypeOK
  <2>2. QED
    BY <2>1 DEF MCInit
<1>2. Inv /\ [MCNext]_all => Inv'
  <2>1. SUFFICES ASSUME Inv, [MCNext]_all, subject' = "review"
                 PROVE  TypeOK'
    OBVIOUS
  <2>2. subject = "review" /\ [Next]_vars
    BY <2>1 DEF MCNext, all
  <2>3. QED
    BY <2>1, <2>2, TypeStep
<1>3. QED
  BY <1>1, <1>2, PTL DEF MCSpec

\* Every variable of the hooks, the capture, the command, the policy and its waivers keeps
\* its type, in the module that a behaviour is about.
THEOREM CommandsTypes == MCSpec => []TypesOK
<1>1. /\ (subject = "hooks" => HookInv)
      /\ (subject = "capture" => CaptureInv)
      /\ (subject = "review" => TypeOK)
      /\ (subject = "policy" => LayersInv)
      /\ (subject = "waivers" => WaiverInv)
      => TypesOK
  BY DEF TypesOK, HookInv, CaptureInv, LayersInv, WaiverInv
<1>2. QED
  BY <1>1, HooksInvariant, CapturesInvariant, CommandsInvariant, LayersInvariant,
     WaiversInvariant, PTL
================================================================================
