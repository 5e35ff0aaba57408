------------------------ MODULE PaymentGatewayProofs ------------------------
(***************************************************************************)
(* Proofs about PaymentGateway, for every number of drafts, threads,       *)
(* nonces and payloads, every set of verdicts and every kind of fault: its *)
(* types; that "nothing was sent" is never said of money that was; and     *)
(* that the gateway implements ExecuteOnce.  Then, from an invariant about *)
(* what was offered and scheduled: only a payload that was offered as      *)
(* ready ever runs, a release reported SENT ran what was scheduled, and -- *)
(* when the page waits for one answer before the next and no draft runs    *)
(* out -- every payment that ran went through the safeguards its payload   *)
(* was offered with.  At the end, the kill switch: while a freeze is in    *)
(* force only threads that were past their look at it debit, each once.    *)
(***************************************************************************)
EXTENDS PaymentGateway, TLAPS

\* The stages at which a thread has no draft in hand.
OffDraft == {"idle", "revoke", "snapshot", "closing", "lift", "rows"}

\* At every other stage it has one.
Placed == \A r \in Threads :
             requests[r].at \notin OffDraft => requests[r].draft \in Drafts

ThreadsOK == requests \in [Threads -> Request_] /\ Placed

Typed == TypeOK /\ Placed

-----------------------------------------------------------------------------
\* What the small operators of the module keep.
LEMMA ZeroType == 0 \in Sent
  BY BoundAssumption DEF Sent

\* A table with one row put in place of another, and a rewritten table.
LEMMA PutType ==
    ASSUME NEW S, NEW T, NEW table \in [S -> T], NEW x \in S, NEW row \in T
    PROVE  [table EXCEPT ![x] = row] \in [S -> T]
  OBVIOUS

LEMMA IdleType == Idle \in Request_ /\ Idle.at \in OffDraft
<1>1. "idle" \in Operations /\ "idle" \in Stages /\ "ALLOW" \in Outcomes /\ "idle" \in OffDraft
  BY DEF Operations, Stages, Outcomes, OffDraft
<1> QED BY <1>1, ZeroType DEF Request_, Idle

LEMMA ThreadType ==
    ASSUME ThreadsOK, NEW r \in Threads, NEW new \in Request_,
           requests' = [requests EXCEPT ![r] = new],
           new.at \notin OffDraft => new.draft \in Drafts
    PROVE  ThreadsOK'
  BY DEF ThreadsOK, Placed

LEMMA GoToType ==
    ASSUME ThreadsOK, NEW r \in Threads, NEW at \in Stages, GoTo(r, at),
           at \notin OffDraft => requests[r].at \notin OffDraft
    PROVE  ThreadsOK'
<1>1. requests' \in [Threads -> Request_]
  BY DEF ThreadsOK, Request_, GoTo
<1>2. Placed'
  BY DEF ThreadsOK, Placed, GoTo, Request_
<1> QED BY <1>1, <1>2 DEF ThreadsOK

LEMMA ReturnType ==
    ASSUME ThreadsOK, NEW r \in Threads, Return(r)
    PROVE  ThreadsOK'
  BY IdleType DEF ThreadsOK, Placed, Return

LEMMA BeginsType ==
    ASSUME ThreadsOK, NEW r \in Threads, NEW op \in Operations, NEW at \in Stages,
           NEW d \in Drafts \cup {NoDraft}, NEW p \in Sent, Begins(r, op, at, d, p),
           at \notin OffDraft => d \in Drafts
    PROVE  ThreadsOK'
<1> DEFINE new == [Idle EXCEPT !.op = op, !.at = at, !.draft = d, !.payload = p]
<1>1. new \in Request_ /\ new.at = at /\ new.draft = d
  BY IdleType DEF Request_
<1>2. requests' = [requests EXCEPT ![r] = new]
  BY DEF Begins
<1> HIDE DEF new
<1> QED BY <1>1, <1>2 DEF ThreadsOK, Placed

LEMMA StatusType ==
    ASSUME drafts \in [Drafts -> Draft_], NEW d \in Drafts, NEW s \in DraftStatuses,
           SetStatus(d, s)
    PROVE  drafts' \in [Drafts -> Draft_]
  BY DEF SetStatus, Draft_

LEMMA OffersType ==
    ASSUME drafts \in [Drafts -> Draft_], NEW d \in Drafts, NEW p \in Sent,
           NEW s \in DraftStatuses, Offers(d, p, s)
    PROVE  drafts' \in [Drafts -> Draft_]
  BY DEF Offers, Draft_

LEMMA HoldType ==
    ASSUME holds \in [Drafts -> Hold_], NEW d \in Drafts,
           HoldMoves(d, "CANCELLED") \/ HoldMoves(d, "RELEASED")
    PROVE  holds' \in [Drafts -> Hold_]
  BY DEF HoldMoves, Hold_

LEMMA ReleaseType ==
    ASSUME releases \in [Drafts -> Release_], NEW d \in Drafts, NEW from,
           NEW to \in {"SENT", "CANCELLED"}, ReleaseMoves(d, from, to)
    PROVE  releases' \in [Drafts -> Release_]
  BY DEF ReleaseMoves, Release_

LEMMA MarkType ==
    ASSUME attempts \in [Drafts -> {"NONE", "OPEN", "SENT", "STOPPED"}], NEW d \in Drafts,
           Mark(d, "SENT") \/ Mark(d, "STOPPED")
    PROVE  attempts' \in [Drafts -> {"NONE", "OPEN", "SENT", "STOPPED"}]
  BY DEF Mark

LEMMA RecordType ==
    ASSUME executions \in [Drafts -> Execution_], NEW d \in Drafts, NEW p \in Sent,
           NEW outcome \in Ran \cup CLOSED_OUTCOMES, Closes(d, p, outcome)
    PROVE  executions' \in [Drafts -> Execution_]
  BY DEF Closes, Execution_

LEMMA DebitType ==
    ASSUME executions \in [Drafts -> Execution_], debits \in [Drafts -> Nat],
           NEW d \in Drafts, NEW p \in Sent, NEW outcome \in Ran, Executes(d, p, outcome)
    PROVE  executions' \in [Drafts -> Execution_] /\ debits' \in [Drafts -> Nat]
  BY DEF Executes, Execution_

LEMMA AnswerType ==
    ASSUME ThreadsOK, told \in [Drafts -> SUBSET Answers], NEW r \in Threads,
           requests[r].at \notin OffDraft, NEW answer \in Answers, Answer(r, answer)
    PROVE  ThreadsOK' /\ told' \in [Drafts -> SUBSET Answers]
<1>1. requests[r].draft \in Drafts
  BY DEF ThreadsOK, Placed
<1>2. CASE requests[r].op \in {"decline", "cancel"}
  BY <1>1, <1>2, ReturnType DEF Answer
<1>3. CASE requests[r].op \notin {"decline", "cancel"}
  BY <1>3, GoToType DEF Answer, Stages, OffDraft
<1> QED BY <1>2, <1>3

-----------------------------------------------------------------------------
\* Every step of a thread keeps the types, and its draft in hand.
LEMMA WorkTyped ==
    ASSUME Typed, NEW r \in Threads, Work(r)
    PROVE  Typed'
<1>0. ThreadsOK
  BY DEF Typed, TypeOK, ThreadsOK
<1>1. ASSUME ResolveStops(r) PROVE Typed'
  <2>0. requests[r].draft \in Drafts
    BY <1>1 DEF ResolveStops, Typed, At, Placed, OffDraft
  <2>1. drafts' \in [Drafts -> Draft_]
    BY <1>1, <2>0, ZeroType, OffersType DEF ResolveStops, Typed, TypeOK, DraftStatuses
  <2>2. ThreadsOK'
    BY <1>0, <1>1, GoToType, ReturnType DEF ResolveStops, At, OffDraft, Stages
  <2> QED BY <1>1, <2>1, <2>2 DEF ResolveStops, Typed, TypeOK, ThreadsOK, ledger, seen
<1>2. ASSUME Resolve(r) PROVE Typed'
  <2>1. ThreadsOK'
    BY <1>0, <1>2, GoToType, ReturnType DEF Resolve, At, OffDraft, Stages
  <2> QED BY <1>2, <2>1 DEF Resolve, Typed, TypeOK, ThreadsOK, ledger, seen
<1>3. ASSUME Freezes(r) PROVE Typed'
  <2>0. requests[r].draft \in Drafts
    BY <1>3 DEF Freezes, Typed, At, Placed, OffDraft
  <2>1. freezeSet' \subseteq Drafts
    BY <1>3, <2>0 DEF Freezes, Typed, TypeOK
  <2>2. ThreadsOK'
    BY <1>0, <1>3, GoToType, ReturnType DEF Freezes, At, OffDraft, Stages
  <2> QED BY <1>3, <2>1, <2>2 DEF Freezes, Typed, TypeOK, ThreadsOK, ledger, seen
<1>4. ASSUME OfferFrozen(r) PROVE Typed'
  <2>0. requests[r].draft \in Drafts
    BY <1>4 DEF OfferFrozen, Typed, At, Placed, OffDraft
  <2>1. drafts' \in [Drafts -> Draft_]
    BY <1>4, <2>0, OffersType DEF OfferFrozen, Typed, TypeOK, DraftStatuses, Request_
  <2>2. ThreadsOK'
    BY <1>0, <1>4, GoToType, ReturnType DEF OfferFrozen, At, OffDraft, Stages
  <2> QED BY <1>4, <2>1, <2>2 DEF OfferFrozen, Typed, TypeOK, ThreadsOK, ledger, seen
<1>5. ASSUME Score(r) PROVE Typed'
  <2>0. requests[r].draft \in Drafts
    BY <1>5 DEF Score, Typed, At, Placed, OffDraft
  <2>1. PICK s \in Scores : requests' = [requests EXCEPT ![r].at = "floor",
                         ![r].score = stricter(drafts[requests[r].draft].floor, s)]
    BY <1>5 DEF Score
  <2>2. stricter(drafts[requests[r].draft].floor, s) \in Outcomes
    BY <2>0, GatewayAssumption DEF stricter, Typed, TypeOK, Draft_
  <2>3. "floor" \in Stages
    BY DEF Stages
  <2>4. ThreadsOK'
    <3> DEFINE score == stricter(drafts[requests[r].draft].floor, s)
               new   == [requests[r] EXCEPT !.at = "floor", !.score = score]
    <3>1. requests' = [requests EXCEPT ![r] = new]
      BY <2>1
    <3>2. score \in Outcomes /\ requests[r] \in Request_
      BY <1>0, <2>2 DEF ThreadsOK
    <3> HIDE DEF score
    <3>3. new \in Request_ /\ new.draft \in Drafts
      BY <2>0, <2>3, <3>2 DEF Request_
    <3> HIDE DEF new
    <3> QED BY <1>0, <3>1, <3>3, ThreadType
  <2> QED BY <1>5, <2>4 DEF Score, Typed, TypeOK, ThreadsOK, ledger, seen
<1>6. ASSUME WriteFloor(r) PROVE Typed'
  <2>0. requests[r].draft \in Drafts
    BY <1>6 DEF WriteFloor, Typed, At, Placed, OffDraft
  <2>1. drafts' \in [Drafts -> Draft_]
    <3>1. requests[r].score \in Outcomes
      BY DEF Typed, TypeOK, Request_
    <3>2. drafts \in [Drafts -> Draft_] /\ drafts[requests[r].draft] \in Draft_
      BY <2>0 DEF Typed, TypeOK
    <3>3. [drafts[requests[r].draft] EXCEPT !.floor = requests[r].score] \in Draft_
      BY <3>1, <3>2 DEF Draft_
    <3> QED BY <1>6, <2>0, <3>2, <3>3, PutType DEF WriteFloor
  <2>2. ThreadsOK'
    BY <1>0, <1>6, GoToType DEF WriteFloor, At, OffDraft, Stages
  <2> QED BY <1>6, <2>1, <2>2 DEF WriteFloor, Typed, TypeOK, ThreadsOK, ledger, seen
<1>38. ASSUME RecordAttempt(r) PROVE Typed'
  <2>0. requests[r].draft \in Drafts
    BY <1>38 DEF RecordAttempt, Typed, At, Placed, OffDraft
  <2>1. attempts' \in [Drafts -> {"NONE", "OPEN", "SENT", "STOPPED"}]
    BY <1>38, <2>0 DEF RecordAttempt, Typed, TypeOK
  <2>2. ThreadsOK'
    BY <1>0, <1>38, GoToType DEF RecordAttempt, At, OffDraft, Stages
  <2> QED BY <1>38, <2>1, <2>2 DEF RecordAttempt, Typed, TypeOK, ThreadsOK, seen
<1>39. ASSUME StopOrAsk(r) PROVE Typed'
  <2>0. requests[r].draft \in Drafts
    BY <1>39 DEF StopOrAsk, Typed, At, Placed, OffDraft
  <2>1. drafts' \in [Drafts -> Draft_]
    BY <1>39, <2>0, ZeroType, OffersType DEF StopOrAsk, Typed, TypeOK, DraftStatuses
  <2>2. ThreadsOK'
    BY <1>0, <1>39, GoToType, ReturnType DEF StopOrAsk, At, OffDraft, Stages
  <2> QED BY <1>39, <2>1, <2>2 DEF StopOrAsk, Typed, TypeOK, ThreadsOK, ledger, seen
<1>40. ASSUME CheckNonce(r) PROVE Typed'
  <2>1. requests[r].at \notin OffDraft /\ NextLook(requests[r].at) \in Stages
    BY <1>40 DEF CheckNonce, Looks, NextLook, Stages, OffDraft
  <2>2. ThreadsOK'
    BY <1>0, <1>40, <2>1, GoToType, ReturnType DEF CheckNonce
  <2> QED BY <1>40, <2>2 DEF CheckNonce, Typed, TypeOK, ThreadsOK, ledger, seen
<1>41. ASSUME BurnNonce(r) PROVE Typed'
  <2>0. requests[r].draft \in Drafts
    BY <1>41 DEF BurnNonce, Typed, At, Placed, OffDraft
  <2>1. nonces' \in [Nonces -> Drafts \cup {"unissued", "used"}]
    BY <1>41 DEF BurnNonce, Typed, TypeOK
  <2>2. ThreadsOK'
    <3> DEFINE new == [requests[r] EXCEPT !.at = "prior", !.nonce = NoNonce]
    <3>0. requests[r] \in Request_ /\ "prior" \in Stages
      BY <1>0 DEF ThreadsOK, Stages
    <3>1. new \in Request_ /\ new.draft \in Drafts
      BY <2>0, <3>0 DEF Request_
    <3>2. requests' = [requests EXCEPT ![r] = new]
      BY <1>41 DEF BurnNonce
    <3> HIDE DEF new
    <3> QED BY <1>0, <3>1, <3>2, ThreadType
  <2> QED BY <1>41, <2>1, <2>2 DEF BurnNonce, Typed, TypeOK, ThreadsOK, ledger, seen
<1>7. ASSUME CreateHold(r) PROVE Typed'
  <2>0. requests[r].draft \in Drafts
    BY <1>7 DEF CreateHold, Typed, At, Placed, OffDraft
  <2>1. holds' \in [Drafts -> Hold_]
    BY <1>7, <2>0 DEF CreateHold, Typed, TypeOK, Hold_, Request_
  <2>2. ThreadsOK'
    BY <1>0, <1>7, GoToType, ReturnType DEF CreateHold, At, OffDraft, Stages
  <2> QED BY <1>7, <2>1, <2>2 DEF CreateHold, Typed, TypeOK, ThreadsOK, ledger, seen
<1>8. ASSUME IssueCode(r) PROVE Typed'
  <2>0. requests[r].draft \in Drafts
    BY <1>8 DEF IssueCode, Typed, At, Placed, OffDraft
  <2>1. codes' \in [Drafts -> Code_]
    <3>1. [payload |-> requests[r].payload, state |-> "sent"] \in Code_
      BY DEF Typed, TypeOK, Code_, Request_
    <3> QED BY <1>8, <2>0, <3>1 DEF IssueCode, Typed, TypeOK
  <2>2. ThreadsOK'
    BY <1>0, <1>8, GoToType, ReturnType DEF IssueCode, At, OffDraft, Stages
  <2> QED BY <1>8, <2>1, <2>2 DEF IssueCode, Typed, TypeOK, ThreadsOK, ledger, seen
<1>9. ASSUME OfferReady(r) PROVE Typed'
  <2>0. requests[r].draft \in Drafts
    BY <1>9 DEF OfferReady, Typed, At, Placed, OffDraft
  <2>1. drafts' \in [Drafts -> Draft_]
    BY <1>9, <2>0, OffersType DEF OfferReady, Typed, TypeOK, DraftStatuses, Request_
  <2>2. shown' \in [Drafts -> [Payloads -> Outcomes \cup {"never"}]]
    BY <1>9, <2>0 DEF OfferReady, Typed, TypeOK, Request_
  <2>3. ThreadsOK'
    BY <1>0, <1>9, GoToType, ReturnType DEF OfferReady, At, OffDraft, Stages
  <2> QED BY <1>9, <2>1, <2>2, <2>3 DEF OfferReady, Typed, TypeOK, ThreadsOK, ledger, seen
<1>10. ASSUME IssueNonce(r) PROVE Typed'
  <2>0. requests[r].draft \in Drafts
    BY <1>10 DEF IssueNonce, Typed, At, Placed, OffDraft
  <2>1. nonces' \in [Nonces -> Drafts \cup {"unissued", "used"}]
    BY <1>10, <2>0 DEF IssueNonce, Typed, TypeOK, Unissued
  <2>2. ThreadsOK'
    BY <1>0, <1>10, GoToType, ReturnType DEF IssueNonce, At, OffDraft, Stages
  <2> QED BY <1>10, <2>1, <2>2 DEF IssueNonce, Typed, TypeOK, ThreadsOK, ledger, seen
<1>11. ASSUME CheckPrior(r) PROVE Typed'
  <2>0. requests[r].draft \in Drafts
    BY <1>11 DEF CheckPrior, Typed, At, Placed, OffDraft
  <2>1. executions[requests[r].draft].outcome \in Ran \cup CLOSED_OUTCOMES \cup {"NONE"}
    BY <2>0 DEF Typed, TypeOK, Execution_
  <2>2. Return(r) \/ GoTo(r, "draft") \/ GoTo(r, "duplicate")
    BY <1>11, <2>1 DEF CheckPrior, Ran, CLOSED_OUTCOMES
  <2>3. ThreadsOK'
    BY <1>0, <1>11, <2>2, GoToType, ReturnType DEF CheckPrior, At, OffDraft, Stages
  <2> QED BY <1>11, <2>3 DEF CheckPrior, Typed, TypeOK, ThreadsOK, ledger, seen
<1>12. ASSUME CheckDraft(r) PROVE Typed'
  <2>1. ThreadsOK'
    BY <1>0, <1>12, GoToType, ReturnType DEF CheckDraft, At, OffDraft, Stages
  <2> QED BY <1>12, <2>1 DEF CheckDraft, Typed, TypeOK, ThreadsOK, ledger, seen
<1>13. ASSUME CheckFreeze(r) PROVE Typed'
  <2>1. ThreadsOK'
    BY <1>0, <1>13, GoToType, ReturnType DEF CheckFreeze, At, OffDraft, Stages
  <2> QED BY <1>13, <2>1 DEF CheckFreeze, Typed, TypeOK, ThreadsOK, ledger, seen
<1>14. ASSUME CheckScore(r) PROVE Typed'
  <2>0. requests[r].draft \in Drafts
    BY <1>14 DEF CheckScore, Typed, At, Placed, OffDraft
  <2>1. ThreadsOK'
    <3>1. CASE Return(r)
      BY <1>0, <3>1, ReturnType
    <3>2. ASSUME NEW outcome \in Outcomes,
                 requests' = [requests EXCEPT ![r].at = "safeguards", ![r].score = outcome]
          PROVE  ThreadsOK'
      <4> DEFINE new == [requests[r] EXCEPT !.at = "safeguards", !.score = outcome]
      <4>0. requests[r] \in Request_ /\ "safeguards" \in Stages
        BY <1>0 DEF ThreadsOK, Stages
      <4>1. new \in Request_ /\ new.draft \in Drafts
        BY <2>0, <4>0 DEF Request_
      <4>2. requests' = [requests EXCEPT ![r] = new]
        BY <3>2
      <4> HIDE DEF new
      <4> QED BY <1>0, <4>1, <4>2, ThreadType
    <3>3. \A fresh \in Scores : /\ fresh \in Outcomes
                              /\ stricter(drafts[requests[r].draft].floor, fresh) \in Outcomes
      BY <2>0, GatewayAssumption DEF stricter, Typed, TypeOK, Draft_
    <3> QED BY <1>14, <3>1, <3>2, <3>3 DEF CheckScore
  <2> QED BY <1>14, <2>1 DEF CheckScore, Typed, TypeOK, ThreadsOK, ledger, seen
<1>15. ASSUME CheckSafeguards(r) PROVE Typed'
  <2>1. ThreadsOK'
    BY <1>0, <1>15, GoToType, ReturnType DEF CheckSafeguards, At, OffDraft, Stages
  <2> QED BY <1>15, <2>1 DEF CheckSafeguards, Typed, TypeOK, ThreadsOK, ledger, seen
<1>16. ASSUME Schedule(r) PROVE Typed'
  <2>0. requests[r].draft \in Drafts
    BY <1>16 DEF Schedule, Typed, At, Placed, OffDraft
  <2>1. releases' \in [Drafts -> Release_]
    BY <1>16, <2>0 DEF Schedule, Typed, TypeOK, Release_, Request_
  <2>2. ThreadsOK'
    BY <1>0, <1>16, GoToType, ReturnType DEF Schedule, At, OffDraft, Stages
  <2> QED BY <1>16, <2>1, <2>2 DEF Schedule, Typed, TypeOK, ThreadsOK, ledger, seen
<1>17. ASSUME Execute(r) PROVE Typed'
  <2>0. requests[r].draft \in Drafts
    BY <1>17 DEF Execute, Typed, At, Placed, OffDraft
  <2>1. executions' \in [Drafts -> Execution_] /\ debits' \in [Drafts -> Nat]
    BY <1>17, <2>0, DebitType DEF Execute, Typed, TypeOK, Request_
  <2>2. ThreadsOK'
    BY <1>0, <1>17, GoToType, ReturnType DEF Execute, At, OffDraft, Stages
  <2> QED BY <1>17, <2>1, <2>2 DEF Execute, Typed, TypeOK, ThreadsOK, ledger, seen
<1>18. ASSUME ExecuteRaises(r) PROVE Typed'
  <2>1. ThreadsOK'
    BY <1>0, <1>18, GoToType, ReturnType DEF ExecuteRaises, At, OffDraft, Stages
  <2> QED BY <1>18, <2>1 DEF ExecuteRaises, Typed, TypeOK, ThreadsOK, ledger, seen
<1>19. ASSUME Respond(r) PROVE Typed'
  <2>0. requests[r].draft \in Drafts
    BY <1>19 DEF Respond, Typed, At, Placed, OffDraft
  <2>1. drafts' \in [Drafts -> Draft_]
    BY <1>19, <2>0, StatusType DEF Respond, Typed, TypeOK, DraftStatuses, FINAL_STATUSES
  <2>2. codes' \in [Drafts -> Code_]
    <3>0. codes[requests[r].draft] \in Code_
      BY <2>0 DEF Typed, TypeOK
    <3>1. /\ codes[requests[r].draft] \in Code_
          /\ [codes[requests[r].draft] EXCEPT !.state = "used"] \in Code_
      BY <3>0 DEF Code_
    <3>2. [codes[requests[r].draft] EXCEPT !.state = @] = codes[requests[r].draft]
      BY <3>1 DEF Code_
    <3> QED BY <1>19, <2>0, <3>1, <3>2 DEF Respond, Typed, TypeOK
  <2>3. holds' \in [Drafts -> Hold_]
    BY <1>19, <2>0, HoldType DEF Respond, Typed, TypeOK
  <2>4. attempts' \in [Drafts -> {"NONE", "OPEN", "SENT", "STOPPED"}]
    BY <1>19, <2>0, MarkType DEF Respond, Typed, TypeOK
  <2>5. ThreadsOK'
    BY <1>0, <1>19, GoToType, ReturnType DEF Respond, At, OffDraft, Stages
  <2> QED BY <1>19, <2>1, <2>2, <2>3, <2>4, <2>5 DEF Respond, Typed, TypeOK, ThreadsOK, ledger, seen
<1>20. ASSUME ReadToClose(r) PROVE Typed'
  <2>1. ThreadsOK' /\ told' \in [Drafts -> SUBSET Answers]
    <3>1. ASSUME NEW answer \in Answers, Answer(r, answer)
          PROVE  ThreadsOK' /\ told' \in [Drafts -> SUBSET Answers]
      BY <1>0, <1>20, <3>1, AnswerType DEF ReadToClose, Typed, TypeOK, At, OffDraft
    <3>2. ASSUME GoTo(r, "find") PROVE ThreadsOK'
      BY <1>0, <1>20, <3>2, GoToType DEF ReadToClose, At, OffDraft, Stages
    <3> QED BY <1>20, <3>1, <3>2 DEF ReadToClose, Typed, TypeOK, Answers
  <2> QED BY <1>20, <2>1 DEF ReadToClose, Typed, TypeOK, ThreadsOK, ledger
<1>42. ASSUME FindToClose(r) PROVE Typed'
  <2>0. requests[r].draft \in Drafts
    BY <1>42 DEF FindToClose, Typed, At, Placed, OffDraft
  <2>1. ThreadsOK' /\ told' \in [Drafts -> SUBSET Answers]
    <3>1. ASSUME NEW answer \in Answers, Answer(r, answer)
          PROVE  ThreadsOK' /\ told' \in [Drafts -> SUBSET Answers]
      BY <1>0, <1>42, <3>1, AnswerType DEF FindToClose, Typed, TypeOK, At, OffDraft
    <3>2. ASSUME requests' = [requests EXCEPT ![r].at = "claim",
                                ![r].payload = drafts[requests[r].draft].payload]
          PROVE  ThreadsOK'
      <4> DEFINE new == [requests[r] EXCEPT !.at = "claim",
                                            !.payload = drafts[requests[r].draft].payload]
      <4>0. /\ drafts[requests[r].draft].payload \in Sent
            /\ requests[r] \in Request_ /\ "claim" \in Stages
        BY <1>0, <2>0 DEF Typed, TypeOK, Draft_, ThreadsOK, Stages
      <4>1. new \in Request_ /\ new.draft \in Drafts
        BY <2>0, <4>0 DEF Request_
      <4>2. requests' = [requests EXCEPT ![r] = new]
        BY <3>2
      <4> HIDE DEF new
      <4> QED BY <1>0, <4>1, <4>2, ThreadType
    <3> QED BY <1>42, <3>1, <3>2 DEF FindToClose, Typed, TypeOK, Answers
  <2> QED BY <1>42, <2>1 DEF FindToClose, Typed, TypeOK, ThreadsOK, ledger
<1>21. ASSUME ClaimClose(r) PROVE Typed'
  <2>0. requests[r].draft \in Drafts
    BY <1>21 DEF ClaimClose, Typed, At, Placed, OffDraft
  <2>1. executions' \in [Drafts -> Execution_]
    BY <1>21, <2>0, RecordType DEF ClaimClose, Typed, TypeOK, Request_, OutcomeOf, CLOSED_OUTCOMES
  <2>2. ThreadsOK'
    BY <1>0, <1>21, GoToType, ReturnType DEF ClaimClose, At, OffDraft, Stages
  <2> QED BY <1>21, <2>1, <2>2 DEF ClaimClose, Typed, TypeOK, ThreadsOK, ledger, seen
<1>22. ASSUME ClaimCloseLoses(r) PROVE Typed'
  <2>1. ThreadsOK' /\ told' \in [Drafts -> SUBSET Answers]
    BY <1>0, <1>22, AnswerType DEF ClaimCloseLoses, Typed, TypeOK, At, OffDraft, Answers
  <2> QED BY <1>22, <2>1 DEF ClaimCloseLoses, Typed, TypeOK, ThreadsOK, ledger
<1>23. ASSUME CloseFails(r) PROVE Typed'
  <2>1. ThreadsOK'
    <3> DEFINE new == [requests[r] EXCEPT !.at = "closing", !.failed = TRUE]
    <3>0. requests[r] \in Request_ /\ "closing" \in Stages /\ "closing" \in OffDraft
      BY <1>0 DEF ThreadsOK, Stages, OffDraft
    <3>1. new \in Request_ /\ new.at \in OffDraft
      BY <3>0 DEF Request_
    <3>2. requests' = [requests EXCEPT ![r] = new]
      BY <1>23 DEF CloseFails
    <3> HIDE DEF new
    <3> QED BY <1>0, <3>1, <3>2, ThreadType
  <2> QED BY <1>23, <2>1 DEF CloseFails, Typed, TypeOK, ThreadsOK, ledger, seen
<1>24. ASSUME MarkClosed(r) PROVE Typed'
  <2>0. requests[r].draft \in Drafts
    BY <1>24 DEF MarkClosed, Typed, At, Placed, OffDraft
  <2>1. drafts' \in [Drafts -> Draft_]
    BY <1>24, <2>0, StatusType DEF MarkClosed, Typed, TypeOK, DraftStatuses, FINAL_STATUSES, StatusOf
  <2>2. ThreadsOK'
    BY <1>0, <1>24, GoToType, ReturnType DEF MarkClosed, At, OffDraft, Stages
  <2> QED BY <1>24, <2>1, <2>2 DEF MarkClosed, Typed, TypeOK, ThreadsOK, ledger, seen
<1>25. ASSUME StopRest(r) PROVE Typed'
  <2>0. requests[r].draft \in Drafts
    BY <1>25 DEF StopRest, Typed, At, Placed, OffDraft
  <2>1. holds' \in [Drafts -> Hold_]
    BY <1>25, <2>0, HoldType DEF StopRest, Typed, TypeOK
  <2>2. releases' \in [Drafts -> Release_]
    BY <1>25, <2>0, ReleaseType DEF StopRest, Typed, TypeOK
  <2>3. attempts' \in [Drafts -> {"NONE", "OPEN", "SENT", "STOPPED"}]
    BY <1>25, <2>0, MarkType DEF StopRest, Typed, TypeOK
  <2>4. ThreadsOK' /\ told' \in [Drafts -> SUBSET Answers]
    BY <1>0, <1>25, AnswerType DEF StopRest, Typed, TypeOK, At, OffDraft, Answers
  <2> QED BY <1>25, <2>1, <2>2, <2>3, <2>4 DEF StopRest, Typed, TypeOK, ThreadsOK
<1>26. ASSUME RevokeNonces(r) PROVE Typed'
  <2>1. nonces' \in [Nonces -> Drafts \cup {"unissued", "used"}]
    BY <1>26 DEF RevokeNonces, Typed, TypeOK
  <2>2. ThreadsOK'
    BY <1>0, <1>26, GoToType, ReturnType DEF RevokeNonces, At, OffDraft, Stages
  <2> QED BY <1>26, <2>1, <2>2 DEF RevokeNonces, Typed, TypeOK, ThreadsOK, ledger, seen
<1>27. ASSUME SnapshotOpen(r) PROVE Typed'
  <2>1. ThreadsOK'
    <3> DEFINE new == [requests[r] EXCEPT !.at = "closing", !.todo = open_ids]
    <3>0. /\ requests[r] \in Request_ /\ "closing" \in Stages /\ "closing" \in OffDraft
          /\ open_ids \in SUBSET Drafts
      BY <1>0 DEF ThreadsOK, Stages, OffDraft, open_ids
    <3>1. new \in Request_ /\ new.at \in OffDraft
      BY <3>0 DEF Request_
    <3>2. requests' = [requests EXCEPT ![r] = new]
      BY <1>27 DEF SnapshotOpen
    <3> HIDE DEF new
    <3> QED BY <1>0, <3>1, <3>2, ThreadType
  <2> QED BY <1>27, <2>1 DEF SnapshotOpen, Typed, TypeOK, ThreadsOK, ledger, seen
<1>28. ASSUME CloseNext(r) PROVE Typed'
  <2>1. PICK d \in requests[r].todo :
           requests' = [requests EXCEPT ![r].at = "close", ![r].draft = d,
                                        ![r].todo = @ \ {d}]
    BY <1>28 DEF CloseNext
  <2>2. d \in Drafts /\ requests[r].todo \ {d} \in SUBSET Drafts
    BY <2>1 DEF Typed, TypeOK, Request_
  <2>3. ThreadsOK'
    <3> DEFINE new == [requests[r] EXCEPT !.at = "close", !.draft = d, !.todo = @ \ {d}]
    <3>0. "close" \in Stages
      BY DEF Stages
    <3>1. new \in Request_ /\ new.draft \in Drafts
      BY <1>0, <2>2, <3>0 DEF ThreadsOK, Request_
    <3>2. requests' = [requests EXCEPT ![r] = new]
      BY <2>1
    <3> HIDE DEF new
    <3> QED BY <1>0, <3>1, <3>2, ThreadType
  <2> QED BY <1>28, <2>3 DEF CloseNext, Typed, TypeOK, ThreadsOK, ledger, seen
<1>29. ASSUME CancelHolds(r) PROVE Typed'
  <2>1. holds' \in [Drafts -> Hold_]
    <3>1. \A d \in Drafts : holds[d] \in Hold_
      BY DEF Typed, TypeOK
    <3>2. \A row \in Hold_ : [row EXCEPT !.status = "CANCELLED"] \in Hold_
      BY DEF Hold_
    <3>3. holds' = [d \in Drafts |->
                      IF holds[d].status = "PENDING"
                      THEN [holds[d] EXCEPT !.status = "CANCELLED"] ELSE holds[d]]
      BY <1>29 DEF CancelHolds
    <3> QED BY <3>1, <3>2, <3>3
  <2>2. ThreadsOK'
    BY <1>0, <1>29, GoToType, ReturnType DEF CancelHolds, At, OffDraft, Stages
  <2> QED BY <1>29, <2>1, <2>2 DEF CancelHolds, Typed, TypeOK, ThreadsOK, ledger, seen
<1>30. ASSUME LiftFreeze(r) PROVE Typed'
  <2>1. ThreadsOK'
    BY <1>0, <1>30, GoToType, ReturnType DEF LiftFreeze, At, OffDraft, Stages
  <2> QED BY <1>30, <2>1 DEF LiftFreeze, Typed, TypeOK, ThreadsOK, ledger, seen
<1>31. ASSUME RowCheck(r) PROVE Typed'
  <2>1. PICK d \in requests[r].todo, at \in {"run row", "stop row"} :
           requests' = [requests EXCEPT ![r].at = at, ![r].draft = d,
                          ![r].payload = releases[d].payload, ![r].todo = @ \ {d}]
    BY <1>31 DEF RowCheck
  <2>2. /\ d \in Drafts /\ requests[r].todo \ {d} \in SUBSET Drafts
        /\ releases[d].payload \in Sent
    BY <2>1 DEF Typed, TypeOK, Request_, Release_
  <2>3. at \in Stages
    BY <2>1 DEF Stages
  <2>4. ThreadsOK'
    <3> DEFINE new == [requests[r] EXCEPT !.at = at, !.draft = d, !.todo = @ \ {d},
                                          !.payload = releases[d].payload]
    <3>1. new \in Request_ /\ new.draft \in Drafts
      BY <1>0, <2>2, <2>3 DEF ThreadsOK, Request_
    <3>2. requests' = [requests EXCEPT ![r] = new]
      BY <2>1
    <3> HIDE DEF new
    <3> QED BY <1>0, <3>1, <3>2, ThreadType
  <2> QED BY <1>31, <2>4 DEF RowCheck, Typed, TypeOK, ThreadsOK, ledger, seen
<1>32. ASSUME RowsDone(r) PROVE Typed'
  <2>1. ThreadsOK'
    BY <1>0, <1>32, GoToType, ReturnType DEF RowsDone, At, OffDraft, Stages
  <2> QED BY <1>32, <2>1 DEF RowsDone, Typed, TypeOK, ThreadsOK, ledger, seen
<1>33. ASSUME RowExecute(r) PROVE Typed'
  <2>0. requests[r].draft \in Drafts
    BY <1>33 DEF RowExecute, Typed, At, Placed, OffDraft
  <2>1. executions' \in [Drafts -> Execution_] /\ debits' \in [Drafts -> Nat]
    BY <1>33, <2>0, DebitType DEF RowExecute, Typed, TypeOK, Request_
  <2>2. ThreadsOK'
    BY <1>0, <1>33, GoToType, ReturnType DEF RowExecute, At, OffDraft, Stages
  <2> QED BY <1>33, <2>1, <2>2 DEF RowExecute, Typed, TypeOK, ThreadsOK, ledger, seen
<1>34. ASSUME RowExecuteRaises(r) PROVE Typed'
  <2>1. ThreadsOK'
    BY <1>0, <1>34, GoToType, ReturnType DEF RowExecuteRaises, At, OffDraft, Stages
  <2> QED BY <1>34, <2>1 DEF RowExecuteRaises, Typed, TypeOK, ThreadsOK, ledger, seen
<1>35. ASSUME RowStop(r) PROVE Typed'
  <2>0. requests[r].draft \in Drafts
    BY <1>35 DEF RowStop, Typed, At, Placed, OffDraft
  <2>1. executions' \in [Drafts -> Execution_]
    BY <1>35, <2>0, RecordType DEF RowStop, Typed, TypeOK, Request_, CLOSED_OUTCOMES
  <2>2. ThreadsOK'
    BY <1>0, <1>35, GoToType, ReturnType DEF RowStop, At, OffDraft, Stages
  <2> QED BY <1>35, <2>1, <2>2 DEF RowStop, Typed, TypeOK, ThreadsOK, ledger, seen
<1>36. ASSUME RowFollows(r) PROVE Typed'
  <2>0. requests[r].draft \in Drafts
    BY <1>36 DEF RowFollows, Typed, At, Placed, OffDraft
  <2>1. drafts' \in [Drafts -> Draft_]
    BY <1>36, <2>0, StatusType DEF RowFollows, Typed, TypeOK, DraftStatuses, FINAL_STATUSES
  <2>2. releases' \in [Drafts -> Release_]
    BY <1>36, <2>0, ReleaseType DEF RowFollows, Typed, TypeOK
  <2>3. attempts' \in [Drafts -> {"NONE", "OPEN", "SENT", "STOPPED"}]
    BY <1>36, <2>0, MarkType DEF RowFollows, Typed, TypeOK
  <2>4. ThreadsOK'
    BY <1>0, <1>36, GoToType, ReturnType DEF RowFollows, At, OffDraft, Stages
  <2> QED BY <1>36, <2>1, <2>2, <2>3, <2>4 DEF RowFollows, Typed, TypeOK, ThreadsOK, ledger, seen
<1>37. ASSUME Raises(r) PROVE Typed'
  <2>1. ThreadsOK'
    BY <1>0, <1>37, GoToType, ReturnType DEF Raises, At, OffDraft, Stages
  <2> QED BY <1>37, <2>1 DEF Raises, Typed, TypeOK, ThreadsOK, ledger, seen
<1> QED BY <1>1, <1>2, <1>3, <1>4, <1>5, <1>6, <1>7, <1>8, <1>9, <1>10, <1>11, <1>12,
           <1>13, <1>14, <1>15, <1>16, <1>17, <1>18, <1>19, <1>20, <1>21, <1>22,
           <1>23, <1>24, <1>25, <1>26, <1>27, <1>28, <1>29, <1>30, <1>31, <1>32,
           <1>33, <1>34, <1>35, <1>36, <1>37, <1>38, <1>39, <1>40, <1>41, <1>42 DEF Work

\* So does every other step: a request that begins, a release that is claimed,
\* the clock, and a restart.
LEMMA NextTyped == Typed /\ [Next]_vars => Typed'
<1> SUFFICES ASSUME Typed, [Next]_vars PROVE Typed'
  OBVIOUS
<1>0. ThreadsOK
  BY DEF Typed, TypeOK, ThreadsOK
<1>1. ASSUME NEW r \in Threads, Work(r) PROVE Typed'
  BY <1>1, WorkTyped
<1>2. ASSUME NEW r \in Threads, ClaimDue(r) PROVE Typed'
  <2>1. releases' \in [Drafts -> Release_]
    <3>1. \A d \in Drafts : releases[d] \in Release_
      BY DEF Typed, TypeOK
    <3>2. \A row \in Release_ : [row EXCEPT !.status = "RUNNING"] \in Release_
      BY DEF Release_
    <3>3. releases' = [d \in Drafts |->
                         IF d \in DueReleases THEN [releases[d] EXCEPT !.status = "RUNNING"]
                                              ELSE releases[d]]
      BY <1>2 DEF ClaimDue
    <3> QED BY <3>1, <3>2, <3>3
  <2>2. ThreadsOK'
    <3> DEFINE new == [Idle EXCEPT !.op = "release", !.at = "rows", !.todo = DueReleases]
    <3>1. new \in Request_ /\ new.at \in OffDraft
      BY IdleType DEF Request_, Stages, Operations, OffDraft, DueReleases
    <3>2. requests' = [requests EXCEPT ![r] = new]
      BY <1>2 DEF ClaimDue
    <3> HIDE DEF new
    <3> QED BY <1>0, <3>1, <3>2, ThreadType
  <2> QED BY <1>2, <2>1, <2>2 DEF ClaimDue, Typed, TypeOK, ThreadsOK, seen
<1>3. ASSUME NEW r \in Requests, EngageFreeze(r) PROVE Typed'
  <2>1. ThreadsOK'
    BY <1>0, <1>3, BeginsType, ZeroType DEF EngageFreeze, Threads, OffDraft, Operations, Stages
  <2> QED BY <1>3, <2>1 DEF EngageFreeze, Typed, TypeOK, ThreadsOK, Threads, seen
<1>4. ASSUME NEW r \in Requests, BeginUnfreeze(r) PROVE Typed'
  <2>1. ThreadsOK'
    BY <1>0, <1>4, BeginsType, ZeroType DEF BeginUnfreeze, Threads, OffDraft, Operations, Stages
  <2> QED BY <1>4, <2>1 DEF BeginUnfreeze, Typed, TypeOK, ThreadsOK, Threads, ledger, seen
<1>5. ASSUME NEW r \in Requests, NEW d \in Drafts, BeginPipeline(r, d) PROVE Typed'
  <2>1. built'[d] \in Sent /\ built' \in [Drafts -> Sent]
    BY <1>5, BoundAssumption DEF BeginPipeline, Typed, TypeOK, Sent
  <2>2. ThreadsOK'
    BY <1>0, <1>5, <2>1, BeginsType DEF BeginPipeline, Threads, Operations, Stages
  <2>3. drafts' \in [Drafts -> Draft_]
    <3>1. "clarify" \in DraftStatuses
      BY DEF DraftStatuses
    <3>2. drafts[d] \in Draft_ /\ drafts \in [Drafts -> Draft_]
      BY DEF Typed, TypeOK
    <3>3. /\ [drafts[d] EXCEPT !.status = "clarify"] \in Draft_
          /\ [drafts[d] EXCEPT !.status = @] \in Draft_
      BY <3>1, <3>2 DEF Draft_
    <3>4. \/ drafts' = [drafts EXCEPT ![d] = [drafts[d] EXCEPT !.status = "clarify"]]
          \/ drafts' = [drafts EXCEPT ![d] = [drafts[d] EXCEPT !.status = @]]
      BY <1>5 DEF BeginPipeline
    <3> QED BY <3>2, <3>3, <3>4, PutType
  <2> QED BY <1>5, <2>1, <2>2, <2>3 DEF BeginPipeline, Typed, TypeOK, ThreadsOK, ledger, seen
<1>6. ASSUME NEW r \in Requests, NEW d \in Drafts, AskNonce(r, d) PROVE Typed'
  <2>1. ThreadsOK'
    BY <1>0, <1>6, BeginsType, ZeroType DEF AskNonce, Threads, Operations, Stages
  <2> QED BY <1>6, <2>1 DEF AskNonce, Typed, TypeOK, ThreadsOK, ledger, seen
<1>7. ASSUME NEW r \in Requests, NEW d \in Drafts, NEW p \in Payloads, NEW n \in Nonces,
             Submit(r, d, p, n)
      PROVE  Typed'
  <2>1. ThreadsOK'
    <3> DEFINE new == [Idle EXCEPT !.op = "submit", !.at = "burn", !.draft = d,
                                   !.payload = p, !.nonce = n]
    <3>0. r \in Threads /\ "submit" \in Operations /\ "burn" \in Stages /\ p \in Sent
      BY BoundAssumption DEF Threads, Operations, Stages, Payloads, Sent
    <3>1. new \in Request_ /\ new.draft \in Drafts
      BY <3>0, IdleType DEF Request_
    <3>2. requests' = [requests EXCEPT ![r] = new]
      BY <1>7 DEF Submit
    <3> HIDE DEF new
    <3> QED BY <1>0, <3>0, <3>1, <3>2, ThreadType
  <2> QED BY <1>7, <2>1 DEF Submit, Typed, TypeOK, ThreadsOK, ledger, seen
<1>8. ASSUME NEW r \in Requests, NEW d \in Drafts, NEW op \in {"decline", "cancel"},
             Close(r, d, op)
      PROVE  Typed'
  <2>1. ThreadsOK'
    BY <1>0, <1>8, BeginsType, ZeroType DEF Close, Threads, Operations, Stages
  <2> QED BY <1>8, <2>1 DEF Close, Typed, TypeOK, ThreadsOK, ledger, seen
<1>9. ASSUME NEW n \in Nonces, NonceExpires(n) PROVE Typed'
  BY <1>9 DEF NonceExpires, Typed, TypeOK, Placed, ledger, seen
<1>10. ASSUME NEW d \in Drafts, ConfirmCode(d) PROVE Typed'
  <2>0. codes \in [Drafts -> Code_] /\ codes[d] \in Code_
    BY DEF Typed, TypeOK
  <2>1. codes' \in [Drafts -> Code_] /\ codes[d].payload \in Sent
    <3>1. [codes[d] EXCEPT !.state = "confirmed"] \in Code_ /\ codes[d].payload \in Sent
      BY <2>0 DEF Code_
    <3>2. codes' = [codes EXCEPT ![d] = [codes[d] EXCEPT !.state = "confirmed"]]
      BY <1>10 DEF ConfirmCode
    <3> QED BY <2>0, <3>1, <3>2, PutType
  <2>2. served' \subseteq {"hold", "code"} \X Drafts \X Sent
    BY <1>10, <2>1 DEF ConfirmCode, Typed, TypeOK
  <2> QED BY <1>10, <2>1, <2>2 DEF ConfirmCode, Typed, TypeOK, Placed, ledger
<1>11. ASSUME NEW d \in Drafts, CodeExpires(d) PROVE Typed'
  <2>1. codes' \in [Drafts -> Code_]
    <3>0. codes \in [Drafts -> Code_] /\ codes[d] \in Code_
      BY DEF Typed, TypeOK
    <3>1. [codes[d] EXCEPT !.state = "expired"] \in Code_
      BY <3>0 DEF Code_
    <3>2. codes' = [codes EXCEPT ![d] = [codes[d] EXCEPT !.state = "expired"]]
      BY <1>11 DEF CodeExpires
    <3> QED BY <3>0, <3>1, <3>2, PutType
  <2> QED BY <1>11, <2>1 DEF CodeExpires, Typed, TypeOK, Placed, ledger, seen
<1>12. ASSUME NEW d \in Drafts, HoldElapses(d) PROVE Typed'
  <2>1. holds' \in [Drafts -> Hold_] /\ holds[d].payload \in Sent
    <3>0. holds \in [Drafts -> Hold_] /\ holds[d] \in Hold_
      BY DEF Typed, TypeOK
    <3>1. [holds[d] EXCEPT !.over = TRUE] \in Hold_ /\ holds[d].payload \in Sent
      BY <3>0 DEF Hold_
    <3>2. holds' = [holds EXCEPT ![d] = [holds[d] EXCEPT !.over = TRUE]]
      BY <1>12 DEF HoldElapses
    <3> QED BY <3>0, <3>1, <3>2, PutType
  <2>2. served' \subseteq {"hold", "code"} \X Drafts \X Sent
    BY <1>12, <2>1 DEF HoldElapses, Typed, TypeOK
  <2> QED BY <1>12, <2>1, <2>2 DEF HoldElapses, Typed, TypeOK, Placed, memory
<1>13. ASSUME NEW d \in Drafts, ReleaseFallsDue(d) PROVE Typed'
  <2>1. releases' \in [Drafts -> Release_]
    <3>0. releases \in [Drafts -> Release_] /\ releases[d] \in Release_
      BY DEF Typed, TypeOK
    <3>1. [releases[d] EXCEPT !.due = TRUE] \in Release_
      BY <3>0 DEF Release_
    <3>2. releases' = [releases EXCEPT ![d] = [releases[d] EXCEPT !.due = TRUE]]
      BY <1>13 DEF ReleaseFallsDue
    <3> QED BY <3>0, <3>1, <3>2, PutType
  <2> QED BY <1>13, <2>1 DEF ReleaseFallsDue, Typed, TypeOK, Placed, memory, seen
<1>14. ASSUME NEW d \in Drafts, Sweep(d) PROVE Typed'
  <2>1. drafts' \in [Drafts -> Draft_]
    <3>0. drafts \in [Drafts -> Draft_] /\ drafts[d] \in Draft_ /\ "gone" \in DraftStatuses
      BY DEF Typed, TypeOK, DraftStatuses
    <3>1. [drafts[d] EXCEPT !.status = "gone"] \in Draft_
      BY <3>0 DEF Draft_
    <3>2. drafts' = [drafts EXCEPT ![d] = [drafts[d] EXCEPT !.status = "gone"]]
      BY <1>14 DEF Sweep
    <3> QED BY <3>0, <3>1, <3>2, PutType
  <2> QED BY <1>14, <2>1 DEF Sweep, Typed, TypeOK, Placed, ledger, seen
<1>15. CASE Restart
  <2>1. drafts' \in [Drafts -> Draft_]
    <3>0. (\A d \in Drafts : drafts[d] \in Draft_) /\ "gone" \in DraftStatuses
      BY DEF Typed, TypeOK, DraftStatuses
    <3>1. \A row \in Draft_ : [row EXCEPT !.status = "gone"] \in Draft_
      BY <3>0 DEF Draft_
    <3>2. drafts' = [d \in Drafts |-> IF drafts[d].status = "new" THEN drafts[d]
                                      ELSE [drafts[d] EXCEPT !.status = "gone"]]
      BY <1>15 DEF Restart
    <3> QED BY <3>0, <3>1, <3>2
  <2>2. nonces' \in [Nonces -> Drafts \cup {"unissued", "used"}]
    BY <1>15 DEF Restart, Typed, TypeOK
  <2>3. codes' \in [Drafts -> Code_]
    BY <1>15, ZeroType DEF Restart, Code_
  <2>4. ThreadsOK'
    BY <1>15, IdleType DEF Restart, ThreadsOK, Placed
  <2> QED BY <1>15, <2>1, <2>2, <2>3, <2>4 DEF Restart, Typed, TypeOK, ThreadsOK, ledger, seen
<1>16. CASE UNCHANGED vars
  BY <1>16 DEF Typed, TypeOK, Placed, vars, memory, ledger, seen
<1> QED BY <1>1, <1>2, <1>3, <1>4, <1>5, <1>6, <1>7, <1>8, <1>9, <1>10, <1>11, <1>12,
           <1>13, <1>14, <1>15, <1>16 DEF Next, Begin, Environment

LEMMA InitTyped == Init => Typed
<1> SUFFICES ASSUME Init PROVE Typed
  OBVIOUS
<1>1. "new" \in DraftStatuses /\ "ALLOW" \in Outcomes
  BY DEF DraftStatuses, Outcomes
<1>2. built \in [Drafts -> Sent] /\ drafts \in [Drafts -> Draft_] /\ codes \in [Drafts -> Code_]
  BY <1>1, ZeroType DEF Init, Draft_, Code_
<1>3. /\ executions \in [Drafts -> Execution_] /\ holds \in [Drafts -> Hold_]
      /\ releases \in [Drafts -> Release_]
  BY ZeroType DEF Init, Execution_, Hold_, Release_
<1>4. ThreadsOK
  BY IdleType DEF Init, ThreadsOK, Placed
<1> QED BY <1>2, <1>3, <1>4 DEF Init, Typed, TypeOK, ThreadsOK, Answers

\* The types of every store, thread and table, in every reachable state.
THEOREM TypeTheorem == Spec => []TypeOK
<1>1. Spec => []Typed
  BY InitTyped, NextTyped, PTL DEF Spec
<1> QED BY <1>1, PTL DEF Typed
-----------------------------------------------------------------------------
\* What a draft's one outcome says of its debits, in every reachable state.
Books == \A d \in Drafts :
            debits[d] = IF executions[d].outcome = "EXECUTED" THEN 1 ELSE 0

\* A thread that has claimed a close holds the outcome it is about to answer.
Claims == \A q \in Threads : requests[q].at \in {"claimed", "stop rest"} =>
             executions[requests[q].draft].outcome \in CLOSED_OUTCOMES

SafeInv == Typed /\ Books /\ Claims /\ NothingSentIsTrue

\* One draft is settled, by a run or by a close.
Settles(d) ==
    /\ Claimable(d)
    /\ \/ \E p \in Sent, outcome \in Ran : Executes(d, p, outcome)
       \/ \E p \in Sent, outcome \in CLOSED_OUTCOMES :
             Closes(d, p, outcome) /\ UNCHANGED debits

\* A settling step keeps the books, and takes back nothing that was answered.
LEMMA SettlesSafe ==
    ASSUME SafeInv, NEW d \in Drafts, Settles(d)
    PROVE  /\ Books'
           /\ \A e \in Drafts : executions[e].outcome # "NONE" => executions'[e] = executions[e]
           /\ executions'[d].outcome \in Ran \cup CLOSED_OUTCOMES
<1>1. PICK p \in Sent, outcome \in Ran \cup CLOSED_OUTCOMES :
         /\ executions' = [executions EXCEPT ![d] = [outcome |-> outcome, payload |-> p]]
         /\ debits' = IF outcome = "EXECUTED" THEN [debits EXCEPT ![d] = @ + 1] ELSE debits
  BY DEF Settles, Executes, Closes, Ran, CLOSED_OUTCOMES
<1>2. executions \in [Drafts -> Execution_] /\ debits \in [Drafts -> Nat]
  BY DEF SafeInv, Typed, TypeOK
<1>3. executions[d].outcome = "NONE" /\ debits[d] = 0
  BY DEF SafeInv, Books, Settles, Claimable
<1>4. Books'
  BY <1>1, <1>2, <1>3 DEF SafeInv, Books
<1> QED BY <1>1, <1>2, <1>3, <1>4

\* A step by which no thread comes to hold a claim.
NoneClaims == \A q \in Threads : requests'[q].at \in {"claimed", "stop rest"} =>
                                    requests'[q] = requests[q]

LEMMA GoToClaims ==
    ASSUME requests \in [Threads -> Request_], NEW r \in Threads,
           NEW at \in Stages \ {"claimed", "stop rest"}, GoTo(r, at)
    PROVE  NoneClaims
  BY DEF NoneClaims, GoTo, Request_

LEMMA PutClaims ==
    ASSUME requests \in [Threads -> Request_], NEW r \in Threads, NEW new,
           requests' = [requests EXCEPT ![r] = new], new.at \notin {"claimed", "stop rest"}
    PROVE  NoneClaims
  BY DEF NoneClaims

LEMMA ReturnClaims ==
    ASSUME requests \in [Threads -> Request_], NEW r \in Threads, Return(r)
    PROVE  NoneClaims
  BY DEF NoneClaims, Return, Idle

\* A settling step breaks no other thread's claim.
LEMMA SettledClaims ==
    ASSUME SafeInv, NEW d \in Drafts, Settles(d),
           \A q \in Threads : requests'[q].at \in {"claimed", "stop rest"} =>
              \/ requests'[q] = requests[q]
              \/ /\ requests'[q].draft = d
                 /\ executions'[d].outcome \in CLOSED_OUTCOMES
    PROVE  Claims'
<1> SUFFICES ASSUME NEW q \in Threads, requests'[q].at \in {"claimed", "stop rest"}
             PROVE  executions'[requests'[q].draft].outcome \in CLOSED_OUTCOMES
  BY DEF Claims
<1>1. CASE requests'[q] = requests[q]
  <2>1. /\ executions[requests[q].draft].outcome \in CLOSED_OUTCOMES
        /\ requests[q].draft \in Drafts
    BY <1>1 DEF SafeInv, Claims, Typed, Placed, OffDraft
  <2>2. executions[requests[q].draft].outcome # "NONE"
    BY <2>1 DEF CLOSED_OUTCOMES
  <2> QED BY <1>1, <2>1, <2>2, SettlesSafe
<1> QED BY <1>1

\* Nothing settled, nothing answered, nothing claimed.
LEMMA QuietSafe ==
    ASSUME SafeInv, NoneClaims, executions' = executions, debits' = debits, told' = told
    PROVE  Books' /\ Claims' /\ NothingSentIsTrue'
<1>1. Books' /\ NothingSentIsTrue'
  BY DEF SafeInv, Books, NothingSentIsTrue
<1>2. Claims'
  BY DEF SafeInv, NoneClaims, Claims
<1> QED BY <1>1, <1>2

\* An answer of _close_draft is true when it is given.
LEMMA AnswerSafe ==
    ASSUME SafeInv, NEW r \in Threads, NEW answer \in Answers, Answer(r, answer),
           requests[r].draft \in Drafts, UNCHANGED <<executions, debits>>,
           answer = "nothing sent" =>
              executions[requests[r].draft].outcome \in CLOSED_OUTCOMES
    PROVE  Books' /\ Claims' /\ NothingSentIsTrue'
<1>1. /\ requests \in [Threads -> Request_] /\ told \in [Drafts -> SUBSET Answers]
      /\ Idle.at \notin {"claimed", "stop rest"}
  BY IdleType DEF SafeInv, Typed, TypeOK, OffDraft
<1>2. Books'
  BY DEF SafeInv, Books
<1>3. Claims'
  <2>1. CASE Return(r)
    BY <1>1, <2>1 DEF SafeInv, Claims, Return
  <2>2. CASE GoTo(r, "closing")
    BY <1>1, <2>2 DEF SafeInv, Claims, GoTo, Request_
  <2> QED BY <2>1, <2>2 DEF Answer
<1>4. \A d \in Drafts : executions[d].outcome \in CLOSED_OUTCOMES => debits[d] = 0
  BY DEF SafeInv, Books, CLOSED_OUTCOMES
<1>5. \A d \in Drafts : "nothing sent" \in told'[d] =>
          executions[d].outcome \in CLOSED_OUTCOMES
  <2>1. CASE told' = [told EXCEPT ![requests[r].draft] = @ \cup {answer}]
    BY <1>1, <2>1 DEF SafeInv, NothingSentIsTrue
  <2>2. CASE told' = told
    BY <2>2 DEF SafeInv, NothingSentIsTrue
  <2> QED BY <2>1, <2>2 DEF Answer
<1>6. NothingSentIsTrue'
  BY <1>4, <1>5 DEF NothingSentIsTrue
<1> QED BY <1>2, <1>3, <1>6

\* Every step of a thread keeps the invariant.
LEMMA WorkSafe ==
    ASSUME SafeInv, NEW r \in Threads, Work(r)
    PROVE  Books' /\ Claims' /\ NothingSentIsTrue'
<1> DEFINE Goal == Books' /\ Claims' /\ NothingSentIsTrue'
<1>0. Typed /\ requests[r] \in Request_ /\ requests \in [Threads -> Request_]
  BY DEF SafeInv, Typed, TypeOK
<1>1. ASSUME ResolveStops(r) PROVE Goal
  <2>1. NoneClaims
    BY <1>0, <1>1, GoToClaims, ReturnClaims DEF ResolveStops, Stages
  <2> QED BY <1>1, <2>1, QuietSafe DEF ResolveStops, ledger, seen
<1>2. ASSUME Resolve(r) PROVE Goal
  <2>1. NoneClaims
    BY <1>0, <1>2, GoToClaims, ReturnClaims DEF Resolve, Stages
  <2> QED BY <1>2, <2>1, QuietSafe DEF Resolve, ledger, seen
<1>3. ASSUME Freezes(r) PROVE Goal
  <2>1. NoneClaims
    BY <1>0, <1>3, GoToClaims, ReturnClaims DEF Freezes, Stages
  <2> QED BY <1>3, <2>1, QuietSafe DEF Freezes, ledger, seen
<1>4. ASSUME OfferFrozen(r) PROVE Goal
  <2>1. NoneClaims
    BY <1>0, <1>4, GoToClaims, ReturnClaims DEF OfferFrozen, Stages
  <2> QED BY <1>4, <2>1, QuietSafe DEF OfferFrozen, ledger, seen
<1>5. ASSUME WriteFloor(r) PROVE Goal
  <2>1. NoneClaims
    BY <1>0, <1>5, GoToClaims, ReturnClaims DEF WriteFloor, Stages
  <2> QED BY <1>5, <2>1, QuietSafe DEF WriteFloor, ledger, seen
<1>38. ASSUME RecordAttempt(r) PROVE Goal
  <2>1. NoneClaims
    BY <1>0, <1>38, GoToClaims DEF RecordAttempt, Stages
  <2> QED BY <1>38, <2>1, QuietSafe DEF RecordAttempt, seen
<1>39. ASSUME StopOrAsk(r) PROVE Goal
  <2>1. NoneClaims
    BY <1>0, <1>39, GoToClaims, ReturnClaims DEF StopOrAsk, Stages
  <2> QED BY <1>39, <2>1, QuietSafe DEF StopOrAsk, ledger, seen
<1>40. ASSUME CheckNonce(r) PROVE Goal
  <2>1. NextLook(requests[r].at) \in Stages \ {"claimed", "stop rest"}
    BY <1>40 DEF CheckNonce, Looks, NextLook, Stages
  <2>2. NoneClaims
    BY <1>0, <1>40, <2>1, GoToClaims, ReturnClaims DEF CheckNonce
  <2> QED BY <1>40, <2>2, QuietSafe DEF CheckNonce, ledger, seen
<1>41. ASSUME BurnNonce(r) PROVE Goal
  <2>1. NoneClaims
    BY <1>0, <1>41 DEF NoneClaims, BurnNonce, Request_
  <2> QED BY <1>41, <2>1, QuietSafe DEF BurnNonce, ledger, seen
<1>6. ASSUME CreateHold(r) PROVE Goal
  <2>1. NoneClaims
    BY <1>0, <1>6, GoToClaims, ReturnClaims DEF CreateHold, Stages
  <2> QED BY <1>6, <2>1, QuietSafe DEF CreateHold, ledger, seen
<1>7. ASSUME IssueCode(r) PROVE Goal
  <2>1. NoneClaims
    BY <1>0, <1>7, GoToClaims, ReturnClaims DEF IssueCode, Stages
  <2> QED BY <1>7, <2>1, QuietSafe DEF IssueCode, ledger, seen
<1>8. ASSUME OfferReady(r) PROVE Goal
  <2>1. NoneClaims
    BY <1>0, <1>8, GoToClaims, ReturnClaims DEF OfferReady, Stages
  <2> QED BY <1>8, <2>1, QuietSafe DEF OfferReady, ledger, seen
<1>9. ASSUME IssueNonce(r) PROVE Goal
  <2>1. NoneClaims
    BY <1>0, <1>9, GoToClaims, ReturnClaims DEF IssueNonce, Stages
  <2> QED BY <1>9, <2>1, QuietSafe DEF IssueNonce, ledger, seen
<1>10. ASSUME CheckPrior(r) PROVE Goal
  <2>1. requests[r].draft \in Drafts
    BY <1>10 DEF CheckPrior, SafeInv, Typed, At, Placed, OffDraft
  <2>2. executions[requests[r].draft].outcome \in Ran \cup CLOSED_OUTCOMES \cup {"NONE"}
    BY <2>1 DEF SafeInv, Typed, TypeOK, Execution_
  <2>3. Return(r) \/ GoTo(r, "draft") \/ GoTo(r, "duplicate")
    BY <1>10, <2>2 DEF CheckPrior, Ran, CLOSED_OUTCOMES
  <2>4. NoneClaims
    BY <1>0, <2>3, GoToClaims, ReturnClaims DEF Stages
  <2> QED BY <1>10, <2>4, QuietSafe DEF CheckPrior, ledger, seen
<1>11. ASSUME CheckDraft(r) PROVE Goal
  <2>1. NoneClaims
    BY <1>0, <1>11, GoToClaims, ReturnClaims DEF CheckDraft, Stages
  <2> QED BY <1>11, <2>1, QuietSafe DEF CheckDraft, ledger, seen
<1>12. ASSUME CheckFreeze(r) PROVE Goal
  <2>1. NoneClaims
    BY <1>0, <1>12, GoToClaims, ReturnClaims DEF CheckFreeze, Stages
  <2> QED BY <1>12, <2>1, QuietSafe DEF CheckFreeze, ledger, seen
<1>13. ASSUME CheckSafeguards(r) PROVE Goal
  <2>1. NoneClaims
    BY <1>0, <1>13, GoToClaims, ReturnClaims DEF CheckSafeguards, Stages
  <2> QED BY <1>13, <2>1, QuietSafe DEF CheckSafeguards, ledger, seen
<1>14. ASSUME Schedule(r) PROVE Goal
  <2>1. NoneClaims
    BY <1>0, <1>14, GoToClaims, ReturnClaims DEF Schedule, Stages
  <2> QED BY <1>14, <2>1, QuietSafe DEF Schedule, ledger, seen
<1>15. ASSUME ExecuteRaises(r) PROVE Goal
  <2>1. NoneClaims
    BY <1>0, <1>15, GoToClaims, ReturnClaims DEF ExecuteRaises, Stages
  <2> QED BY <1>15, <2>1, QuietSafe DEF ExecuteRaises, ledger, seen
<1>16. ASSUME Respond(r) PROVE Goal
  <2>1. NoneClaims
    BY <1>0, <1>16, GoToClaims, ReturnClaims DEF Respond, Stages
  <2> QED BY <1>16, <2>1, QuietSafe DEF Respond, ledger, seen
<1>17. ASSUME RevokeNonces(r) PROVE Goal
  <2>1. NoneClaims
    BY <1>0, <1>17, GoToClaims, ReturnClaims DEF RevokeNonces, Stages
  <2> QED BY <1>17, <2>1, QuietSafe DEF RevokeNonces, ledger, seen
<1>18. ASSUME CancelHolds(r) PROVE Goal
  <2>1. NoneClaims
    BY <1>0, <1>18, GoToClaims, ReturnClaims DEF CancelHolds, Stages
  <2> QED BY <1>18, <2>1, QuietSafe DEF CancelHolds, ledger, seen
<1>19. ASSUME LiftFreeze(r) PROVE Goal
  <2>1. NoneClaims
    BY <1>0, <1>19, GoToClaims, ReturnClaims DEF LiftFreeze, Stages
  <2> QED BY <1>19, <2>1, QuietSafe DEF LiftFreeze, ledger, seen
<1>20. ASSUME RowsDone(r) PROVE Goal
  <2>1. NoneClaims
    BY <1>0, <1>20, GoToClaims, ReturnClaims DEF RowsDone, Stages
  <2> QED BY <1>20, <2>1, QuietSafe DEF RowsDone, ledger, seen
<1>21. ASSUME RowExecuteRaises(r) PROVE Goal
  <2>1. NoneClaims
    BY <1>0, <1>21, GoToClaims, ReturnClaims DEF RowExecuteRaises, Stages
  <2> QED BY <1>21, <2>1, QuietSafe DEF RowExecuteRaises, ledger, seen
<1>22. ASSUME RowFollows(r) PROVE Goal
  <2>1. NoneClaims
    BY <1>0, <1>22, GoToClaims, ReturnClaims DEF RowFollows, Stages
  <2> QED BY <1>22, <2>1, QuietSafe DEF RowFollows, ledger, seen
<1>23. ASSUME Raises(r) PROVE Goal
  <2>1. NoneClaims
    BY <1>0, <1>23, GoToClaims, ReturnClaims DEF Raises, Stages
  <2> QED BY <1>23, <2>1, QuietSafe DEF Raises, ledger, seen
<1>24. ASSUME Score(r) PROVE Goal
  <2>1. NoneClaims
    <3>1. PICK s \in Scores : requests' = [requests EXCEPT ![r].at = "floor",
                           ![r].score = stricter(drafts[requests[r].draft].floor, s)]
      BY <1>24 DEF Score
    <3> DEFINE new == [requests[r] EXCEPT !.at = "floor",
                         !.score = stricter(drafts[requests[r].draft].floor, s)]
    <3>2. requests' = [requests EXCEPT ![r] = new]
      BY <3>1
    <3>3. new.at = "floor"
      BY <1>0 DEF Request_
    <3> HIDE DEF new
    <3> QED BY <1>0, <3>2, <3>3, PutClaims
  <2> QED BY <1>24, <2>1, QuietSafe DEF Score, ledger, seen
<1>33. ASSUME CheckScore(r) PROVE Goal
  <2>1. CASE Return(r)
    <3>1. NoneClaims
      BY <1>0, <2>1, ReturnClaims
    <3> QED BY <1>33, <3>1, QuietSafe DEF CheckScore, ledger, seen
  <2>2. CASE \E outcome : requests' = [requests EXCEPT ![r].at = "safeguards",
                                                       ![r].score = outcome]
    <3>1. NoneClaims
      <4>1. PICK outcome : requests' = [requests EXCEPT ![r].at = "safeguards",
                                                        ![r].score = outcome]
        BY <2>2
      <4> DEFINE new == [requests[r] EXCEPT !.at = "safeguards", !.score = outcome]
      <4>2. requests' = [requests EXCEPT ![r] = new]
        BY <4>1
      <4>3. new.at = "safeguards"
        BY <1>0 DEF Request_
      <4> HIDE DEF new
      <4> QED BY <1>0, <4>2, <4>3, PutClaims
    <3> QED BY <1>33, <3>1, QuietSafe DEF CheckScore, ledger, seen
  <2>3. \/ Return(r)
        \/ \E outcome : requests' = [requests EXCEPT ![r].at = "safeguards",
                                                     ![r].score = outcome]
    BY <1>33 DEF CheckScore
  <2> QED BY <2>1, <2>2, <2>3
<1>34. ASSUME CloseFails(r) PROVE Goal
  <2>1. NoneClaims
    BY <1>0, <1>34 DEF NoneClaims, CloseFails, Request_
  <2> QED BY <1>34, <2>1, QuietSafe DEF CloseFails, ledger, seen
<1>35. ASSUME SnapshotOpen(r) PROVE Goal
  <2>1. NoneClaims
    BY <1>0, <1>35 DEF NoneClaims, SnapshotOpen, Request_
  <2> QED BY <1>35, <2>1, QuietSafe DEF SnapshotOpen, ledger, seen
<1>36. ASSUME CloseNext(r) PROVE Goal
  <2>1. NoneClaims
    <3>1. PICK d \in requests[r].todo :
             requests' = [requests EXCEPT ![r].at = "close", ![r].draft = d,
                                          ![r].todo = @ \ {d}]
      BY <1>36 DEF CloseNext
    <3> QED BY <1>0, <3>1 DEF NoneClaims, Request_
  <2> QED BY <1>36, <2>1, QuietSafe DEF CloseNext, ledger, seen
<1>37. ASSUME RowCheck(r) PROVE Goal
  <2>1. NoneClaims
    <3>1. PICK d \in requests[r].todo, at \in {"run row", "stop row"} :
             requests' = [requests EXCEPT ![r].at = at, ![r].draft = d,
                             ![r].payload = releases[d].payload, ![r].todo = @ \ {d}]
      BY <1>37 DEF RowCheck
    <3> QED BY <1>0, <3>1 DEF NoneClaims, Request_
  <2> QED BY <1>37, <2>1, QuietSafe DEF RowCheck, ledger, seen
<1>25. ASSUME Execute(r) PROVE Goal
  <2>1. requests[r].draft \in Drafts /\ Settles(requests[r].draft)
    BY <1>0, <1>25 DEF Execute, Settles, Typed, Placed, At, OffDraft, Request_
  <2>2. NoneClaims
    BY <1>0, <1>25, GoToClaims DEF Execute, Stages
  <2>4. Claims'
    BY <2>1, <2>2, SettledClaims DEF NoneClaims
  <2>3. NothingSentIsTrue'
    BY <1>25, <2>1, SettlesSafe
    DEF Execute, SafeInv, NothingSentIsTrue, Books, CLOSED_OUTCOMES, seen
  <2> QED BY <2>1, <2>3, <2>4, SettlesSafe
<1>26. ASSUME RowExecute(r) PROVE Goal
  <2>1. requests[r].draft \in Drafts /\ Settles(requests[r].draft)
    BY <1>0, <1>26 DEF RowExecute, Settles, Typed, Placed, At, OffDraft, Request_
  <2>2. NoneClaims
    BY <1>0, <1>26, GoToClaims DEF RowExecute, Stages
  <2>4. Claims'
    BY <2>1, <2>2, SettledClaims DEF NoneClaims
  <2>3. NothingSentIsTrue'
    BY <1>26, <2>1, SettlesSafe
    DEF RowExecute, SafeInv, NothingSentIsTrue, Books, CLOSED_OUTCOMES, seen
  <2> QED BY <2>1, <2>3, <2>4, SettlesSafe
<1>27. ASSUME RowStop(r) PROVE Goal
  <2>1. requests[r].draft \in Drafts
    BY <1>0, <1>27 DEF RowStop, Typed, Placed, At, OffDraft
  <2>2. CASE Claimable(requests[r].draft)
    <3>1. Settles(requests[r].draft)
      BY <1>0, <1>27, <2>2 DEF RowStop, Settles, Request_, CLOSED_OUTCOMES
    <3>2. Claims'
      <4>1. NoneClaims
        BY <1>0, <1>27, GoToClaims DEF RowStop, Stages
      <4> QED BY <2>1, <3>1, <4>1, SettledClaims DEF NoneClaims
    <3>3. NothingSentIsTrue'
      BY <1>27, <2>1, <3>1, SettlesSafe
      DEF RowStop, SafeInv, NothingSentIsTrue, Books, CLOSED_OUTCOMES, seen
    <3> QED BY <2>1, <3>1, <3>2, <3>3, SettlesSafe
  <2>3. CASE ~Claimable(requests[r].draft)
    <3>1. NoneClaims
      BY <1>0, <1>27, GoToClaims DEF RowStop, Stages
    <3> QED BY <1>27, <2>3, <3>1, QuietSafe DEF RowStop, seen
  <2> QED BY <2>2, <2>3
<1>28. ASSUME ClaimClose(r) PROVE Goal
  <2>1. requests[r].draft \in Drafts
    BY <1>0, <1>28 DEF ClaimClose, Typed, Placed, At, OffDraft
  <2>2. Settles(requests[r].draft)
    BY <1>0, <1>28 DEF ClaimClose, Settles, Request_, OutcomeOf, CLOSED_OUTCOMES
  <2>3. executions'[requests[r].draft].outcome \in CLOSED_OUTCOMES
    BY <1>0, <1>28, <2>1 DEF ClaimClose, Closes, OutcomeOf, CLOSED_OUTCOMES, Typed, TypeOK
  <2>4. Claims'
    <3>1. \A q \in Threads : q # r => requests'[q] = requests[q]
      BY <1>0, <1>28 DEF ClaimClose, GoTo
    <3>2. requests'[r].draft = requests[r].draft
      BY <1>0, <1>28 DEF ClaimClose, GoTo, Request_
    <3> QED BY <2>1, <2>2, <2>3, <3>1, <3>2, SettledClaims
  <2>5. NothingSentIsTrue'
    BY <1>28, <2>1, <2>2, SettlesSafe
    DEF ClaimClose, SafeInv, NothingSentIsTrue, Books, CLOSED_OUTCOMES, seen
  <2> QED BY <2>1, <2>2, <2>4, <2>5, SettlesSafe
<1>29. ASSUME MarkClosed(r) PROVE Goal
  <2>1. Claims'
    BY <1>0, <1>29 DEF MarkClosed, GoTo, At, SafeInv, Claims, Typed, TypeOK, Request_, ledger
  <2> QED BY <1>29, <2>1 DEF MarkClosed, SafeInv, Books, NothingSentIsTrue, ledger, seen
<1>30. ASSUME ClaimCloseLoses(r) PROVE Goal
  BY <1>0, <1>30, AnswerSafe
  DEF ClaimCloseLoses, Typed, Placed, At, OffDraft, Answers, ledger
<1>31. ASSUME StopRest(r) PROVE Goal
  <2>1. /\ requests[r].draft \in Drafts
        /\ executions[requests[r].draft].outcome \in CLOSED_OUTCOMES
    BY <1>0, <1>31 DEF StopRest, Typed, Placed, At, OffDraft, SafeInv, Claims
  <2> QED BY <1>31, <2>1, AnswerSafe DEF StopRest, Answers
<1>32. ASSUME ReadToClose(r) PROVE Goal
  <2>1. /\ requests[r].draft \in Drafts
        /\ executions' = executions /\ debits' = debits
    BY <1>0, <1>32 DEF ReadToClose, Typed, Placed, At, OffDraft, ledger
  <2>2. ASSUME NEW answer \in Answers, Answer(r, answer),
               answer = "nothing sent" =>
                  executions[requests[r].draft].outcome \in CLOSED_OUTCOMES
        PROVE  Goal
    BY <2>1, <2>2, AnswerSafe
  <2>3. ASSUME GoTo(r, "find"), told' = told PROVE Goal
    <3>1. NoneClaims
      BY <1>0, <2>3, GoToClaims DEF Stages
    <3> QED BY <2>1, <2>3, <3>1, QuietSafe
  <2>4. \/ /\ Answer(r, "nothing sent")
           /\ executions[requests[r].draft].outcome \in CLOSED_OUTCOMES
        \/ Answer(r, "already sent")
        \/ GoTo(r, "find") /\ told' = told
    BY <1>32 DEF ReadToClose
  <2>5. "nothing sent" \in Answers /\ "already sent" \in Answers
    BY DEF Answers
  <2> QED BY <2>2, <2>3, <2>4, <2>5
<1>42. ASSUME FindToClose(r) PROVE Goal
  <2>1. /\ requests[r].draft \in Drafts
        /\ executions' = executions /\ debits' = debits
    BY <1>0, <1>42 DEF FindToClose, Typed, Placed, At, OffDraft, ledger
  <2>2. ASSUME NEW answer \in Answers, Answer(r, answer),
               answer = "nothing sent" =>
                  executions[requests[r].draft].outcome \in CLOSED_OUTCOMES
        PROVE  Goal
    BY <2>1, <2>2, AnswerSafe
  <2>3. ASSUME requests' = [requests EXCEPT ![r].at = "claim",
                               ![r].payload = drafts[requests[r].draft].payload],
               told' = told
        PROVE  Goal
    <3>1. NoneClaims
      BY <1>0, <2>3 DEF NoneClaims, Request_
    <3> QED BY <2>1, <2>3, <3>1, QuietSafe
  <2>4. \/ Answer(r, "no such draft")
        \/ /\ requests' = [requests EXCEPT ![r].at = "claim",
                              ![r].payload = drafts[requests[r].draft].payload]
           /\ told' = told
    BY <1>42 DEF FindToClose
  <2>5. "no such draft" \in Answers
    BY DEF Answers
  <2> QED BY <2>2, <2>3, <2>4, <2>5
<1> QED BY <1>1, <1>2, <1>3, <1>4, <1>5, <1>6, <1>7, <1>8, <1>9, <1>10, <1>11, <1>12,
           <1>13, <1>14, <1>15, <1>16, <1>17, <1>18, <1>19, <1>20, <1>21, <1>22,
           <1>23, <1>24, <1>25, <1>26, <1>27, <1>28, <1>29, <1>30, <1>31,
           <1>32, <1>33, <1>34, <1>35, <1>36, <1>37, <1>38, <1>39, <1>40, <1>41, <1>42
           DEF Work

\* A request that begins, the release loop, the clock and a restart are quiet.
LEMMA BeginsClaims ==
    ASSUME requests \in [Threads -> Request_], NEW r \in Threads, NEW op, NEW d, NEW p,
           NEW at \in Stages \ {"claimed", "stop rest"}, Begins(r, op, at, d, p)
    PROVE  NoneClaims
  BY DEF NoneClaims, Begins, Idle

LEMMA BeginSafe ==
    ASSUME SafeInv, NEW r \in Requests, Begin(r)
    PROVE  Books' /\ Claims' /\ NothingSentIsTrue'
<1> DEFINE Goal == Books' /\ Claims' /\ NothingSentIsTrue'
<1>0. r \in Threads /\ requests \in [Threads -> Request_]
  BY DEF SafeInv, Typed, TypeOK, Threads
<1>1. ASSUME EngageFreeze(r) PROVE Goal
  <2>1. NoneClaims
    BY <1>0, <1>1, BeginsClaims DEF EngageFreeze, Stages
  <2> QED BY <1>1, <2>1, QuietSafe DEF EngageFreeze, seen
<1>2. ASSUME BeginUnfreeze(r) PROVE Goal
  <2>1. NoneClaims
    BY <1>0, <1>2, BeginsClaims DEF BeginUnfreeze, Stages
  <2> QED BY <1>2, <2>1, QuietSafe DEF BeginUnfreeze, ledger, seen
<1>3. ASSUME NEW d \in Drafts, BeginPipeline(r, d) PROVE Goal
  <2>1. NoneClaims
    BY <1>0, <1>3, BeginsClaims DEF BeginPipeline, Stages
  <2> QED BY <1>3, <2>1, QuietSafe DEF BeginPipeline, ledger, seen
<1>4. ASSUME NEW d \in Drafts, AskNonce(r, d) PROVE Goal
  <2>1. NoneClaims
    BY <1>0, <1>4, BeginsClaims DEF AskNonce, Stages
  <2> QED BY <1>4, <2>1, QuietSafe DEF AskNonce, ledger, seen
<1>5. ASSUME NEW d \in Drafts, NEW p \in Payloads, NEW n \in Nonces, Submit(r, d, p, n)
      PROVE  Goal
  <2>1. NoneClaims
    BY <1>0, <1>5 DEF NoneClaims, Submit, Idle
  <2> QED BY <1>5, <2>1, QuietSafe DEF Submit, ledger, seen
<1>6. ASSUME NEW d \in Drafts, NEW op \in {"decline", "cancel"}, Close(r, d, op) PROVE Goal
  <2>1. NoneClaims
    BY <1>0, <1>6, BeginsClaims DEF Close, Stages
  <2> QED BY <1>6, <2>1, QuietSafe DEF Close, ledger, seen
<1> QED BY <1>1, <1>2, <1>3, <1>4, <1>5, <1>6 DEF Begin

LEMMA EnvironmentSafe ==
    ASSUME SafeInv, Environment
    PROVE  Books' /\ Claims' /\ NothingSentIsTrue'
<1>1. executions' = executions /\ debits' = debits /\ told' = told
  BY DEF Environment, NonceExpires, ConfirmCode, CodeExpires, HoldElapses, ReleaseFallsDue,
         Sweep, Restart, ledger, seen
<1>2. CASE requests' = requests
  BY <1>1, <1>2, QuietSafe DEF NoneClaims
<1>3. CASE requests' = [r \in Threads |-> Idle]
  <2>1. NoneClaims
    BY <1>3 DEF NoneClaims, Idle
  <2> QED BY <1>1, <2>1, QuietSafe
<1>4. requests' = requests \/ requests' = [r \in Threads |-> Idle]
  BY DEF Environment, NonceExpires, ConfirmCode, CodeExpires, HoldElapses, ReleaseFallsDue,
         Sweep, Restart, memory
<1> QED BY <1>2, <1>3, <1>4

LEMMA NextSafe ==
    ASSUME SafeInv, [Next]_vars
    PROVE  SafeInv'
<1>0. Typed' /\ requests \in [Threads -> Request_]
  BY NextTyped DEF SafeInv, Typed, TypeOK
<1>1. ASSUME NEW r \in Threads, Work(r) PROVE SafeInv'
  BY <1>0, <1>1, WorkSafe DEF SafeInv
<1>2. ASSUME NEW r \in Threads, ClaimDue(r) PROVE SafeInv'
  <2>1. NoneClaims
    BY <1>0, <1>2 DEF NoneClaims, ClaimDue, Idle
  <2>2. executions' = executions /\ debits' = debits /\ told' = told
    BY <1>2 DEF ClaimDue, seen
  <2> QED BY <1>0, <2>1, <2>2, QuietSafe DEF SafeInv
<1>3. ASSUME NEW r \in Requests, Begin(r) PROVE SafeInv'
  BY <1>0, <1>3, BeginSafe DEF SafeInv
<1>4. ASSUME Environment PROVE SafeInv'
  BY <1>0, <1>4, EnvironmentSafe DEF SafeInv
<1>5. ASSUME UNCHANGED vars PROVE SafeInv'
  BY <1>0, <1>5, QuietSafe DEF SafeInv, NoneClaims, vars, memory, ledger, seen
<1> QED BY <1>1, <1>2, <1>3, <1>4, <1>5 DEF Next

LEMMA InitSafe == Init => SafeInv
<1> SUFFICES ASSUME Init PROVE SafeInv
  OBVIOUS
<1>1. Books /\ Claims /\ NothingSentIsTrue
  BY DEF Init, Idle, Books, Claims, NothingSentIsTrue
<1> QED BY <1>1, InitTyped DEF SafeInv

LEMMA SafeTheorem == Spec => []SafeInv
  BY InitSafe, NextSafe, PTL DEF Spec

\* Declines and cancels tell the truth: "nothing was sent" means that no money of
\* the draft moved, whatever the interleaving, restarts and errors
\* (_close_draft answers only under the claim it won or read).
THEOREM NothingSentTheorem == Spec => []NothingSentIsTrue
  BY SafeTheorem, PTL DEF SafeInv
-----------------------------------------------------------------------------
\* The four places that write `executions` settle a draft; nothing else touches
\* it, or the transactions.
LEMMA SettlesOrNot ==
    ASSUME SafeInv, [Next]_vars
    PROVE  (\E d \in Drafts : Settles(d)) \/ UNCHANGED <<executions, debits>>
<1>1. ASSUME NEW r \in Threads, Work(r)
      PROVE  (\E d \in Drafts : Settles(d)) \/ UNCHANGED <<executions, debits>>
  <2>0. requests[r].payload \in Sent
    BY DEF SafeInv, Typed, TypeOK, Request_
  <2>1. ASSUME Execute(r) PROVE \E d \in Drafts : Settles(d)
    BY <2>0, <2>1 DEF Execute, Settles, SafeInv, Typed, Placed, At, OffDraft
  <2>2. ASSUME RowExecute(r) PROVE \E d \in Drafts : Settles(d)
    BY <2>0, <2>2 DEF RowExecute, Settles, SafeInv, Typed, Placed, At, OffDraft
  <2>3. ASSUME ClaimClose(r) PROVE \E d \in Drafts : Settles(d)
    <3>1. OutcomeOf(r) \in CLOSED_OUTCOMES
      BY DEF OutcomeOf, CLOSED_OUTCOMES
    <3> QED BY <2>0, <2>3, <3>1 DEF ClaimClose, Settles, SafeInv, Typed, Placed, At, OffDraft
  <2>4. ASSUME RowStop(r)
        PROVE  (\E d \in Drafts : Settles(d)) \/ UNCHANGED <<executions, debits>>
    <3>1. "CANCELLED" \in CLOSED_OUTCOMES
      BY DEF CLOSED_OUTCOMES
    <3> QED BY <2>0, <2>4, <3>1 DEF RowStop, Settles, SafeInv, Typed, Placed, At, OffDraft
  <2>5. CASE Execute(r) \/ RowExecute(r) \/ ClaimClose(r) \/ RowStop(r)
    BY <2>1, <2>2, <2>3, <2>4, <2>5
  <2>6. CASE ~(Execute(r) \/ RowExecute(r) \/ ClaimClose(r) \/ RowStop(r))
    BY <1>1, <2>6
    DEF Work, ResolveStops, Resolve, Freezes, OfferFrozen, Score, WriteFloor, RecordAttempt,
        StopOrAsk, CreateHold, IssueCode, OfferReady, CheckNonce, IssueNonce, BurnNonce,
        CheckPrior, CheckDraft, CheckFreeze, CheckScore, CheckSafeguards, Schedule, ExecuteRaises,
        Respond, ReadToClose, FindToClose, ClaimCloseLoses, CloseFails, MarkClosed, StopRest,
        RevokeNonces, SnapshotOpen, CloseNext, CancelHolds, LiftFreeze, RowCheck, RowsDone,
        RowExecuteRaises, RowFollows, Raises, ledger
  <2> QED BY <2>5, <2>6
<1>2. CASE \E r \in Threads : ClaimDue(r)
  BY <1>2 DEF ClaimDue
<1>3. CASE \E r \in Requests : Begin(r)
  BY <1>3 DEF Begin, EngageFreeze, BeginUnfreeze, BeginPipeline, AskNonce, Submit, Close, ledger
<1>4. CASE Environment
  BY <1>4 DEF Environment, NonceExpires, ConfirmCode, CodeExpires, HoldElapses, ReleaseFallsDue,
              Sweep, Restart, ledger
<1>5. CASE UNCHANGED vars
  BY <1>5 DEF vars, ledger
<1> QED BY <1>1, <1>2, <1>3, <1>4, <1>5 DEF Next

\* A settling step is one of ExecuteOnce.
LEMMA SettlesOnceStep ==
    ASSUME SafeInv, NEW d \in Drafts, Settles(d)
    PROVE  Once!Next
<1> DEFINE outcomes == [e \in Drafts |-> executions[e].outcome]
<1>1. PICK p \in Sent, o \in Ran \cup CLOSED_OUTCOMES :
         /\ executions' = [executions EXCEPT ![d] = [outcome |-> o, payload |-> p]]
         /\ debits' = IF o = "EXECUTED" THEN [debits EXCEPT ![d] = @ + 1] ELSE debits
  BY DEF Settles, Executes, Closes, Ran, CLOSED_OUTCOMES
<1>2. executions \in [Drafts -> Execution_] /\ debits \in [Drafts -> Nat]
  BY DEF SafeInv, Typed, TypeOK
<1>3. executions[d].outcome = "NONE" /\ debits[d] = 0
  BY DEF SafeInv, Books, Settles, Claimable
<1>4. outcomes[d] = "NONE" /\ outcomes' = [outcomes EXCEPT ![d] = o]
  BY <1>1, <1>2, <1>3
<1>5. debits' = [debits EXCEPT ![d] = IF o = "EXECUTED" THEN 1 ELSE 0]
  <2>1. CASE o = "EXECUTED"
    BY <1>1, <1>2, <1>3, <2>1
  <2>2. CASE o # "EXECUTED"
    BY <1>1, <1>2, <1>3, <2>2
  <2> QED BY <2>1, <2>2
<1>6. \E k \in Once!Moves(d, o) : debits' = [debits EXCEPT ![d] = k]
  <2>1. CASE o = "EXECUTED"
    BY <1>5, <2>1 DEF Once!Moves
  <2>2. CASE o = "FAILED"
    <3>1. 0 \in Once!Moves(d, o)
      BY <2>2 DEF Once!Moves
    <3> QED BY <1>5, <2>2, <3>1
  <2>3. CASE o \in CLOSED_OUTCOMES
    <3>1. 0 \in Once!Moves(d, o)
      BY <2>3 DEF Once!Moves, CLOSED_OUTCOMES
    <3> QED BY <1>5, <2>3, <3>1 DEF CLOSED_OUTCOMES
  <2> QED BY <2>1, <2>2, <2>3 DEF Ran
<1>7. o \in Once!Outcomes
  BY DEF Once!Outcomes, Once!Ran, Once!CLOSED_OUTCOMES, Ran, CLOSED_OUTCOMES
<1>8. Once!Settle(d)
  BY <1>4, <1>6, <1>7 DEF Once!Settle
<1> QED BY <1>8 DEF Once!Next

\* The gateway implements ExecuteOnce: submits, declines, cancels, freezes and the
\* release loop settle each draft at most once, and debit it in that step or never.
THEOREM SettlesOnceTheorem == Spec => SettlesOnce
<1>1. Init => Once!Init
  BY DEF Init, Once!Init
<1>2. SafeInv /\ [Next]_vars => [Once!Next]_(Once!vars)
  <2>1. CASE UNCHANGED <<executions, debits>>
    BY <2>1 DEF Once!vars
  <2> QED BY <2>1, SettlesOrNot, SettlesOnceStep
<1> QED BY <1>1, <1>2, SafeTheorem, PTL DEF Spec, SettlesOnce, Once!Spec

-----------------------------------------------------------------------------
\* The stages that handle a payload: the pipeline that builds it, the submit and
\* the release that are about to run it, and the release loop's rows.
PipelineStages == {"resolve", "freeze draft", "score", "floor", "record", "weigh", "hold",
                   "code", "offer"}
SignedStages   == {"kill switch", "score now", "safeguards", "schedule", "execute", "run row"}
RowStages      == {"rows", "run row", "stop row", "row sent", "row lost", "row stopped"}
Tracked        == PipelineStages \cup SignedStages \cup RowStages

Offered(d, p) == p \in Payloads /\ shown[d][p] # "never"
Scheduled(d)  == releases[d].status # "NONE"

\* How the record of a thread moves.
Others(r) == \A q \in Threads : q # r => requests'[q] = requests[q]
SameDraft(r) ==
    /\ requests'[r].op = requests[r].op /\ requests'[r].draft = requests[r].draft
    /\ requests'[r].payload = requests[r].payload
SameWork(r) ==
    /\ SameDraft(r)
    /\ requests'[r].score = requests[r].score /\ requests'[r].todo = requests[r].todo
Quits(r) == requests'[r].at \notin Tracked

LEMMA GoToMoves ==
    ASSUME Typed, NEW r \in Threads, NEW at, GoTo(r, at)
    PROVE  Others(r) /\ SameWork(r) /\ requests'[r].at = at
<1>1. requests \in [Threads -> Request_] /\ requests[r] \in Request_
  BY DEF Typed, TypeOK
<1> DEFINE new == [requests[r] EXCEPT !.at = at]
<1>2. requests' = [requests EXCEPT ![r] = new]
  BY DEF GoTo
<1>3. /\ new.op = requests[r].op /\ new.draft = requests[r].draft
      /\ new.payload = requests[r].payload /\ new.score = requests[r].score
      /\ new.todo = requests[r].todo /\ new.at = at
  BY <1>1 DEF Request_
<1> HIDE DEF new
<1> QED BY <1>1, <1>2, <1>3 DEF Others, SameWork, SameDraft

LEMMA ReturnMoves ==
    ASSUME Typed, NEW r \in Threads, Return(r)
    PROVE  Others(r) /\ requests'[r] = Idle /\ Quits(r)
<1>1. requests \in [Threads -> Request_]
  BY DEF Typed, TypeOK
<1>2. Idle.at \notin Tracked
  BY DEF Idle, Tracked, PipelineStages, SignedStages, RowStages
<1> QED BY <1>1, <1>2 DEF Return, Others, Quits

LEMMA AnswerMoves ==
    ASSUME Typed, NEW r \in Threads, NEW answer, Answer(r, answer)
    PROVE  Others(r) /\ Quits(r)
<1>1. "closing" \notin Tracked
  BY DEF Tracked, PipelineStages, SignedStages, RowStages
<1> QED BY <1>1, ReturnMoves, GoToMoves DEF Answer, Quits

LEMMA PutMoves ==
    ASSUME Typed, NEW r \in Threads, NEW new, requests' = [requests EXCEPT ![r] = new]
    PROVE  Others(r) /\ requests'[r] = new
  BY DEF Typed, TypeOK, Others

\* The steps by which a thread reaches a stage that handles a payload.
Advances(r) ==
    \/ Resolve(r) \/ Freezes(r) \/ Score(r) \/ WriteFloor(r) \/ RecordAttempt(r) \/ StopOrAsk(r)
    \/ CreateHold(r) \/ IssueCode(r)
    \/ CheckDraft(r) \/ CheckFreeze(r) \/ CheckScore(r) \/ CheckSafeguards(r)
    \/ RowCheck(r) \/ RowExecute(r) \/ RowExecuteRaises(r) \/ RowStop(r) \/ RowFollows(r)

\* A thread moves only itself, and every other step leaves those stages.
LEMMA WorkMoves ==
    ASSUME Typed, NEW r \in Threads, Work(r)
    PROVE  Others(r) /\ (Advances(r) \/ Quits(r))
<1> DEFINE Goal == Others(r) /\ (Advances(r) \/ Quits(r))
<1>0. \A at \in {"duplicate", "draft", "scheduled", "executed", "claimed", "stop rest",
                 "snapshot", "lift", "closing", "close", "find", "claim", "prior",
                 "nonce draft", "nonce switch", "nonce hold", "issue"} : at \notin Tracked
  BY DEF Tracked, PipelineStages, SignedStages, RowStages
<1>t. requests[r] \in Request_
  BY DEF Typed, TypeOK
<1>1. CASE ResolveStops(r) \/ OfferFrozen(r) \/ OfferReady(r) \/ IssueNonce(r) \/ Respond(r)
           \/ LiftFreeze(r) \/ RowsDone(r) \/ Raises(r)
  <2>1. Return(r)
    BY <1>1 DEF ResolveStops, OfferFrozen, OfferReady, IssueNonce, Respond, LiftFreeze,
                RowsDone, Raises
  <2> QED BY <2>1, ReturnMoves
<1>2. CASE CheckPrior(r)
  <2>1. Return(r) \/ GoTo(r, "draft") \/ GoTo(r, "duplicate")
    <3>1. requests[r].draft \in Drafts
      BY <1>2 DEF CheckPrior, Typed, At, Placed, OffDraft
    <3>2. executions[requests[r].draft].outcome \in Ran \cup CLOSED_OUTCOMES \cup {"NONE"}
      BY <3>1 DEF Typed, TypeOK, Execution_
    <3> QED BY <1>2, <3>2 DEF CheckPrior, Ran, CLOSED_OUTCOMES
  <2> QED BY <1>0, <2>1, ReturnMoves, GoToMoves DEF Quits
<1>3. CASE Schedule(r) \/ Execute(r) \/ ExecuteRaises(r)
  <2>1. Return(r) \/ GoTo(r, "scheduled") \/ GoTo(r, "executed") \/ GoTo(r, "duplicate")
    BY <1>3 DEF Schedule, Execute, ExecuteRaises
  <2> QED BY <1>0, <2>1, ReturnMoves, GoToMoves DEF Quits
<1>4. CASE ClaimCloseLoses(r) \/ StopRest(r)
  <2>1. \E answer \in Answers : Answer(r, answer)
    BY <1>4 DEF ClaimCloseLoses, StopRest, Answers
  <2> QED BY <2>1, AnswerMoves
<1>17. CASE CheckNonce(r)
  <2>1. Return(r) \/ \E at \in {"nonce draft", "nonce switch", "nonce hold", "issue"} : GoTo(r, at)
    BY <1>17 DEF CheckNonce, Looks, NextLook
  <2> QED BY <1>0, <2>1, ReturnMoves, GoToMoves DEF Quits
<1>18. CASE BurnNonce(r)
  <2> DEFINE new == [requests[r] EXCEPT !.at = "prior", !.nonce = NoNonce]
  <2>1. requests' = [requests EXCEPT ![r] = new]
    BY <1>18 DEF BurnNonce
  <2>2. new.at = "prior"
    BY <1>t DEF Request_
  <2> HIDE DEF new
  <2> QED BY <1>0, <2>1, <2>2, PutMoves DEF Quits
<1>19. CASE ReadToClose(r)
  <2>1. GoTo(r, "find") \/ \E answer \in Answers : Answer(r, answer)
    BY <1>19 DEF ReadToClose, Answers
  <2> QED BY <1>0, <2>1, GoToMoves, AnswerMoves DEF Quits
<1>5. CASE FindToClose(r)
  <2>1. \/ \E answer \in Answers : Answer(r, answer)
        \/ requests' = [requests EXCEPT ![r].at = "claim",
                           ![r].payload = drafts[requests[r].draft].payload]
    BY <1>5 DEF FindToClose, Answers
  <2>2. CASE requests' = [requests EXCEPT ![r].at = "claim",
                           ![r].payload = drafts[requests[r].draft].payload]
    <3> DEFINE new == [requests[r] EXCEPT !.at = "claim",
                                          !.payload = drafts[requests[r].draft].payload]
    <3>1. requests' = [requests EXCEPT ![r] = new]
      BY <2>2
    <3>2. new.at = "claim"
      BY <1>t DEF Request_
    <3> HIDE DEF new
    <3> QED BY <1>0, <3>1, <3>2, PutMoves DEF Quits
  <2> QED BY <2>1, <2>2, AnswerMoves
<1>6. CASE ClaimClose(r) \/ MarkClosed(r) \/ RevokeNonces(r)
  <2>1. GoTo(r, "claimed") \/ GoTo(r, "stop rest") \/ GoTo(r, "snapshot")
    BY <1>6 DEF ClaimClose, MarkClosed, RevokeNonces
  <2> QED BY <1>0, <2>1, GoToMoves DEF Quits
<1>7. CASE CloseFails(r)
  <2> DEFINE new == [requests[r] EXCEPT !.at = "closing", !.failed = TRUE]
  <2>1. requests' = [requests EXCEPT ![r] = new]
    BY <1>7 DEF CloseFails
  <2>2. new.at = "closing"
    BY <1>t DEF Request_
  <2> HIDE DEF new
  <2> QED BY <1>0, <2>1, <2>2, PutMoves DEF Quits
<1>8. CASE SnapshotOpen(r)
  <2> DEFINE new == [requests[r] EXCEPT !.at = "closing", !.todo = open_ids]
  <2>1. requests' = [requests EXCEPT ![r] = new]
    BY <1>8 DEF SnapshotOpen
  <2>2. new.at = "closing"
    BY <1>t DEF Request_
  <2> HIDE DEF new
  <2> QED BY <1>0, <2>1, <2>2, PutMoves DEF Quits
<1>9. CASE CloseNext(r)
  <2>0. PICK d \in requests[r].todo :
           requests' = [requests EXCEPT ![r].at = "close", ![r].draft = d,
                                        ![r].todo = @ \ {d}]
    BY <1>9 DEF CloseNext
  <2> DEFINE new == [requests[r] EXCEPT !.at = "close", !.draft = d, !.todo = @ \ {d}]
  <2>1. requests' = [requests EXCEPT ![r] = new]
    BY <2>0
  <2>2. new.at = "close"
    BY <1>t DEF Request_
  <2> HIDE DEF new
  <2> QED BY <1>0, <2>1, <2>2, PutMoves DEF Quits
<1>10. CASE CancelHolds(r)
  <2>1. Return(r) \/ GoTo(r, "lift")
    BY <1>10 DEF CancelHolds
  <2> QED BY <1>0, <2>1, ReturnMoves, GoToMoves DEF Quits
<1>11. CASE Resolve(r) \/ Freezes(r) \/ WriteFloor(r) \/ RecordAttempt(r) \/ StopOrAsk(r)
            \/ CreateHold(r) \/ IssueCode(r)
  <2>1. Return(r) \/ \E at \in Stages : GoTo(r, at)
    BY <1>11 DEF Resolve, Freezes, WriteFloor, RecordAttempt, StopOrAsk, CreateHold, IssueCode,
                 Stages
  <2> QED BY <1>11, <2>1, ReturnMoves, GoToMoves DEF Advances
<1>12. CASE CheckDraft(r) \/ CheckFreeze(r) \/ CheckSafeguards(r)
  <2>1. Return(r) \/ \E at \in Stages : GoTo(r, at)
    BY <1>12 DEF CheckDraft, CheckFreeze, CheckSafeguards, Stages
  <2> QED BY <1>12, <2>1, ReturnMoves, GoToMoves DEF Advances
<1>13. CASE RowExecute(r) \/ RowExecuteRaises(r) \/ RowStop(r) \/ RowFollows(r)
  <2>1. \E at \in Stages : GoTo(r, at)
    BY <1>13 DEF RowExecute, RowExecuteRaises, RowStop, RowFollows, Stages
  <2> QED BY <1>13, <2>1, GoToMoves DEF Advances
<1>14. CASE Score(r)
  <2>1. \E new : requests' = [requests EXCEPT ![r] = new]
    BY <1>14 DEF Score
  <2> QED BY <1>14, <2>1, PutMoves DEF Advances
<1>15. CASE CheckScore(r)
  <2>1. Return(r) \/ \E new : requests' = [requests EXCEPT ![r] = new]
    BY <1>15 DEF CheckScore
  <2> QED BY <1>15, <2>1, ReturnMoves, PutMoves DEF Advances
<1>16. CASE RowCheck(r)
  <2>1. \E new : requests' = [requests EXCEPT ![r] = new]
    BY <1>16 DEF RowCheck
  <2> QED BY <1>16, <2>1, PutMoves DEF Advances
<1> QED BY <1>1, <1>2, <1>3, <1>4, <1>5, <1>6, <1>7, <1>8, <1>9, <1>10, <1>11, <1>12, <1>13,
           <1>14, <1>15, <1>16, <1>17, <1>18, <1>19 DEF Work

-----------------------------------------------------------------------------
\* Who writes what.
LEMMA ShownWritten ==
    [Next]_vars => shown' = shown \/ \E r \in Threads : OfferReady(r)
<1> SUFFICES ASSUME [Next]_vars, ~ \E r \in Threads : OfferReady(r) PROVE shown' = shown
  OBVIOUS
<1>1. ASSUME NEW r \in Threads, Work(r) PROVE shown' = shown
  BY <1>1
  DEF Work, ResolveStops, Resolve, Freezes, OfferFrozen, Score, WriteFloor, RecordAttempt,
      StopOrAsk, CreateHold, IssueCode, CheckNonce, IssueNonce, BurnNonce, CheckPrior, CheckDraft,
      CheckFreeze, CheckScore, CheckSafeguards, Schedule, Execute, ExecuteRaises, Respond,
      ReadToClose, FindToClose, ClaimClose, ClaimCloseLoses, CloseFails, MarkClosed, StopRest,
      RevokeNonces, SnapshotOpen, CloseNext, CancelHolds, LiftFreeze, RowCheck, RowsDone,
      RowExecute, RowExecuteRaises, RowStop, RowFollows, Raises, seen
<1>2. CASE \E r \in Threads : ClaimDue(r)
  BY <1>2 DEF ClaimDue, seen
<1>3. CASE \E r \in Requests : Begin(r)
  BY <1>3 DEF Begin, EngageFreeze, BeginUnfreeze, BeginPipeline, AskNonce, Submit, Close, seen
<1>4. CASE Environment
  BY <1>4 DEF Environment, NonceExpires, ConfirmCode, CodeExpires, HoldElapses, ReleaseFallsDue,
              Sweep, Restart, seen
<1>5. CASE UNCHANGED vars
  BY <1>5 DEF vars, seen
<1> QED BY <1>1, <1>2, <1>3, <1>4, <1>5 DEF Next

LEMMA ReleasesWritten ==
    [Next]_vars =>
       \/ releases' = releases
       \/ \E r \in Threads : Schedule(r) \/ StopRest(r) \/ ClaimDue(r) \/ RowFollows(r)
       \/ \E d \in Drafts : ReleaseFallsDue(d)
<1> SUFFICES ASSUME [Next]_vars, ~ \E d \in Drafts : ReleaseFallsDue(d),
                    ~ \E r \in Threads : Schedule(r) \/ StopRest(r) \/ ClaimDue(r) \/ RowFollows(r)
             PROVE  releases' = releases
  OBVIOUS
<1>1. ASSUME NEW r \in Threads, Work(r) PROVE releases' = releases
  BY <1>1
  DEF Work, ResolveStops, Resolve, Freezes, OfferFrozen, Score, WriteFloor, RecordAttempt,
      StopOrAsk, CreateHold, IssueCode, OfferReady, CheckNonce, IssueNonce, BurnNonce, CheckPrior,
      CheckDraft, CheckFreeze, CheckScore, CheckSafeguards, Execute, ExecuteRaises, Respond,
      ReadToClose, FindToClose, ClaimClose, ClaimCloseLoses, CloseFails, MarkClosed, RevokeNonces,
      SnapshotOpen, CloseNext, CancelHolds, LiftFreeze, RowCheck, RowsDone, RowExecute,
      RowExecuteRaises, RowStop, Raises, ledger
<1>2. CASE \E r \in Requests : Begin(r)
  BY <1>2 DEF Begin, EngageFreeze, BeginUnfreeze, BeginPipeline, AskNonce, Submit, Close, ledger
<1>3. CASE Environment
  BY <1>3 DEF Environment, NonceExpires, ConfirmCode, CodeExpires, HoldElapses, Sweep, Restart,
              ledger
<1>4. CASE UNCHANGED vars
  BY <1>4 DEF vars, ledger
<1> QED BY <1>1, <1>2, <1>3, <1>4 DEF Next

\* The steps that write the draft store.
WritesDrafts(r) ==
    \/ ResolveStops(r) \/ OfferFrozen(r) \/ WriteFloor(r) \/ StopOrAsk(r) \/ OfferReady(r)
    \/ Respond(r) \/ MarkClosed(r) \/ RowFollows(r)

LEMMA DraftsWritten ==
    [Next]_vars =>
       \/ drafts' = drafts \/ Restart
       \/ \E r \in Threads : WritesDrafts(r)
       \/ \E r \in Requests, d \in Drafts : BeginPipeline(r, d)
       \/ \E d \in Drafts : Sweep(d)
<1> SUFFICES ASSUME [Next]_vars, ~Restart, ~ \E r \in Threads : WritesDrafts(r),
                    ~ \E r \in Requests, d \in Drafts : BeginPipeline(r, d),
                    ~ \E d \in Drafts : Sweep(d)
             PROVE  drafts' = drafts
  OBVIOUS
<1>1. ASSUME NEW r \in Threads, Work(r) PROVE drafts' = drafts
  <2>1. ~WritesDrafts(r)
    OBVIOUS
  <2> QED BY <1>1, <2>1
    DEF Work, WritesDrafts, Resolve, Freezes, Score, RecordAttempt, CreateHold, IssueCode,
        CheckNonce, IssueNonce, BurnNonce, CheckPrior, CheckDraft, CheckFreeze, CheckScore,
        CheckSafeguards, Schedule, Execute, ExecuteRaises, ReadToClose, FindToClose, ClaimClose,
        ClaimCloseLoses, CloseFails, StopRest, RevokeNonces, SnapshotOpen, CloseNext, CancelHolds,
        LiftFreeze, RowCheck, RowsDone, RowExecute, RowExecuteRaises, RowStop, Raises
<1>2. CASE \E r \in Threads : ClaimDue(r)
  BY <1>2 DEF ClaimDue
<1>3. CASE \E r \in Requests : Begin(r)
  BY <1>3 DEF Begin, EngageFreeze, BeginUnfreeze, AskNonce, Submit, Close
<1>4. CASE Environment
  BY <1>4 DEF Environment, NonceExpires, ConfirmCode, CodeExpires, HoldElapses, ReleaseFallsDue,
              memory
<1>5. CASE UNCHANGED vars
  BY <1>5 DEF vars, memory
<1> QED BY <1>1, <1>2, <1>3, <1>4, <1>5 DEF Next

-----------------------------------------------------------------------------
\* What was offered stays offered, what is scheduled stays scheduled with its
\* payload, and a settled draft stays as it was settled.
Grows ==
    /\ \A d \in Drafts, p \in Payloads : Offered(d, p) => Offered(d, p)'
    /\ \A d \in Drafts : Scheduled(d) =>
          /\ Scheduled(d)'
          /\ releases'[d].payload = releases[d].payload
          /\ releases[d].due => releases'[d].due
    /\ \A d \in Drafts : executions[d].outcome # "NONE" => executions'[d] = executions[d]

LEMMA MovedRow ==
    ASSUME NEW row \in Release_, NEW to
    PROVE  /\ [row EXCEPT !.status = to].status = to
           /\ [row EXCEPT !.status = to].payload = row.payload
           /\ [row EXCEPT !.status = to].due = row.due
  BY DEF Release_

\* set_release_status touches the status of a scheduled row, and nothing else.
LEMMA ReleaseMoved ==
    ASSUME releases \in [Drafts -> Release_], NEW d \in Drafts, NEW from,
           NEW to \in {"SENT", "CANCELLED"}, from # "NONE", ReleaseMoves(d, from, to)
    PROVE  \A e \in Drafts :
              /\ releases'[e].payload = releases[e].payload /\ releases'[e].due = releases[e].due
              /\ Scheduled(e) <=> Scheduled(e)'
              /\ \/ releases'[e].status = releases[e].status
                 \/ e = d /\ releases'[e].status = to
<1>1. CASE releases' = releases
  BY <1>1 DEF Scheduled
<1>2. CASE releases[d].status = from /\ releases' = [releases EXCEPT ![d].status = to]
  <2>1. releases' = [releases EXCEPT ![d] = [releases[d] EXCEPT !.status = to]]
    BY <1>2
  <2>2. /\ releases'[d] = [releases[d] EXCEPT !.status = to]
        /\ \A e \in Drafts : e # d => releases'[e] = releases[e]
    BY <2>1
  <2>3. /\ releases'[d].status = to /\ releases'[d].payload = releases[d].payload
        /\ releases'[d].due = releases[d].due
    BY <2>2, MovedRow
  <2> QED BY <1>2, <2>2, <2>3 DEF Scheduled
<1> QED BY <1>1, <1>2 DEF ReleaseMoves

\* How a step may change the row of a scheduled payment.
LEMMA ReleasesGrow ==
    ASSUME SafeInv, [Next]_vars, NEW d \in Drafts, Scheduled(d)
    PROVE  /\ Scheduled(d)' /\ releases'[d].payload = releases[d].payload
           /\ releases[d].due => releases'[d].due
<1>t. releases \in [Drafts -> Release_] /\ releases[d] \in Release_
  BY DEF SafeInv, Typed, TypeOK
<1>1. CASE releases' = releases
  BY <1>1 DEF Scheduled
<1>2. ASSUME NEW r \in Threads, Schedule(r)
      PROVE  releases'[d] = releases[d]
  BY <1>2, <1>t DEF Schedule, Scheduled
<1>3. ASSUME NEW r \in Threads, StopRest(r)
      PROVE  /\ Scheduled(d)' /\ releases'[d].payload = releases[d].payload
             /\ releases'[d].due = releases[d].due
  <2>1. requests[r].draft \in Drafts
    BY <1>3 DEF StopRest, SafeInv, Typed, Placed, At, OffDraft
  <2>2. ReleaseMoves(requests[r].draft, "PENDING", "CANCELLED")
    BY <1>3 DEF StopRest
  <2> QED BY <1>t, <2>1, <2>2, ReleaseMoved
<1>4. ASSUME NEW r \in Threads, RowFollows(r)
      PROVE  /\ Scheduled(d)' /\ releases'[d].payload = releases[d].payload
             /\ releases'[d].due = releases[d].due
  <2>1. requests[r].draft \in Drafts
    BY <1>4 DEF RowFollows, SafeInv, Typed, Placed, At, OffDraft
  <2>2. \E to \in {"SENT", "CANCELLED"} : ReleaseMoves(requests[r].draft, "RUNNING", to)
    BY <1>4 DEF RowFollows
  <2> QED BY <1>t, <2>1, <2>2, ReleaseMoved
<1>5. ASSUME NEW r \in Threads, ClaimDue(r)
      PROVE  /\ Scheduled(d)' /\ releases'[d].payload = releases[d].payload
             /\ releases'[d].due = releases[d].due
  <2>1. \/ releases'[d] = releases[d]
        \/ releases'[d] = [releases[d] EXCEPT !.status = "RUNNING"]
    BY <1>5 DEF ClaimDue
  <2>2. CASE releases'[d] = releases[d]
    BY <2>2 DEF Scheduled
  <2>3. CASE releases'[d] = [releases[d] EXCEPT !.status = "RUNNING"]
    <3>1. /\ releases'[d].status = "RUNNING" /\ releases'[d].payload = releases[d].payload
          /\ releases'[d].due = releases[d].due
      BY <1>t, <2>3, MovedRow
    <3> QED BY <3>1 DEF Scheduled
  <2> QED BY <2>1, <2>2, <2>3
<1>6. ASSUME NEW e \in Drafts, ReleaseFallsDue(e)
      PROVE  /\ Scheduled(d)' /\ releases'[d].payload = releases[d].payload
             /\ releases[d].due => releases'[d].due
  <2>1. releases' = [releases EXCEPT ![e] = [releases[e] EXCEPT !.due = TRUE]]
    BY <1>6 DEF ReleaseFallsDue
  <2>2. CASE e # d
    BY <1>t, <2>1, <2>2 DEF Scheduled
  <2>3. CASE e = d
    <3>1. releases'[d] = [releases[d] EXCEPT !.due = TRUE]
      BY <1>t, <2>1, <2>3
    <3> QED BY <1>t, <3>1 DEF Scheduled, Release_
  <2> QED BY <2>2, <2>3
<1> QED BY <1>1, <1>2, <1>3, <1>4, <1>5, <1>6, ReleasesWritten DEF Scheduled

LEMMA GrowsAlways ==
    ASSUME SafeInv, [Next]_vars
    PROVE  Grows
<1>1. ASSUME NEW d \in Drafts, NEW p \in Payloads, Offered(d, p)
      PROVE  Offered(d, p)'
  <2>1. CASE shown' = shown
    BY <1>1, <2>1 DEF Offered
  <2>2. ASSUME NEW r \in Threads, OfferReady(r)
        PROVE  shown'[d][p] # "never"
    <3>1. shown' = [shown EXCEPT ![requests[r].draft][requests[r].payload] = requests[r].score]
      BY <2>2 DEF OfferReady
    <3>2. requests[r].score # "never" /\ shown \in [Drafts -> [Payloads -> Outcomes \cup {"never"}]]
      BY DEF SafeInv, Typed, TypeOK, Request_, Outcomes
    <3> QED BY <1>1, <3>1, <3>2 DEF Offered
  <2> QED BY <1>1, <2>1, <2>2, ShownWritten DEF Offered
<1>2. \A d \in Drafts : executions[d].outcome # "NONE" => executions'[d] = executions[d]
  BY SettlesOrNot, SettlesSafe
<1> QED BY <1>1, <1>2, ReleasesGrow DEF Grows

-----------------------------------------------------------------------------
\* What a thread at such a stage knows of the payload it handles.
ThreadOffers(r) ==
    /\ requests[r].at \in PipelineStages => requests[r].payload \in Payloads
    /\ requests[r].at \in SignedStages => Offered(requests[r].draft, requests[r].payload)
    /\ requests[r].at \in RowStages =>
          requests[r].todo \subseteq Drafts /\ \A d \in requests[r].todo : Scheduled(d)
    /\ requests[r].at = "run row" =>
          /\ Scheduled(requests[r].draft)
          /\ requests[r].payload = releases[requests[r].draft].payload
    /\ requests[r].at = "row sent" =>
          LET d == requests[r].draft IN
          /\ Scheduled(d) /\ executions[d].outcome \in Ran
          /\ executions[d].payload = releases[d].payload

ReadyOffered(d)     == drafts[d].status = "ready" => Offered(d, drafts[d].payload)
ScheduledOffered(d) == Scheduled(d) => Offered(d, releases[d].payload)
RanOffered(d)       == executions[d].outcome \in Ran => Offered(d, executions[d].payload)

\* Every payload that is signable, about to run, scheduled or run was offered.
OffersInv ==
    /\ SafeInv
    /\ \A r \in Threads : ThreadOffers(r)
    /\ \A d \in Drafts : ReadyOffered(d) /\ ScheduledOffered(d) /\ RanOffered(d)
    /\ ReleaseSentIsTrue

LEMMA StagesApart ==
    /\ PipelineStages \cap (SignedStages \cup RowStages) = {}
    /\ SignedStages \cap RowStages = {"run row"}
    /\ "run row" \notin PipelineStages /\ "row sent" \notin PipelineStages \cup SignedStages
  BY DEF PipelineStages, SignedStages, RowStages

\* A thread that did not move knows what it knew.
LEMMA ThreadKept ==
    ASSUME OffersInv, Grows, NEW r \in Threads, requests'[r] = requests[r]
    PROVE  ThreadOffers(r)'
<1> DEFINE q == requests[r]
<1>0. ThreadOffers(r) /\ (q.at \notin OffDraft => q.draft \in Drafts)
  BY DEF OffersInv, SafeInv, Typed, Placed
<1>1. q.at \in SignedStages => q.draft \in Drafts
  BY <1>0 DEF SignedStages, OffDraft
<1>2. q.at \in SignedStages => Offered(q.draft, q.payload)'
  <2>1. q.at \in SignedStages => Offered(q.draft, q.payload) /\ q.payload \in Payloads
    BY <1>0 DEF ThreadOffers, Offered
  <2> QED BY <1>1, <2>1 DEF Grows
<1>3. q.at \in RowStages => \A d \in q.todo : Scheduled(d)'
  BY <1>0 DEF ThreadOffers, Grows
<1>4. q.at \in {"run row", "row sent"} => q.draft \in Drafts
  BY <1>0 DEF OffDraft
<1>5. q.at = "run row" =>
         Scheduled(q.draft)' /\ q.payload = releases'[q.draft].payload
  BY <1>0, <1>4 DEF ThreadOffers, Grows
<1>6. q.at = "row sent" =>
          /\ Scheduled(q.draft)' /\ executions'[q.draft].outcome \in Ran
          /\ executions'[q.draft].payload = releases'[q.draft].payload
  BY <1>0, <1>4 DEF ThreadOffers, Grows, Ran
<1> QED BY <1>0, <1>2, <1>3, <1>5, <1>6 DEF ThreadOffers, Offered, Scheduled

LEMMA ThreadQuits ==
    ASSUME NEW r \in Threads, Quits(r)
    PROVE  ThreadOffers(r)'
<1>1. requests'[r].at \notin PipelineStages \cup SignedStages \cup RowStages
  BY DEF Quits, Tracked
<1> QED BY <1>1 DEF ThreadOffers, SignedStages, RowStages

\* A thread that goes on with its payload within the pipeline, or within a submit.
LEMMA PipelineGoesOn ==
    ASSUME OffersInv, NEW r \in Threads, requests[r].at \in PipelineStages,
           requests'[r].at \in PipelineStages, requests'[r].payload = requests[r].payload
    PROVE  ThreadOffers(r)'
<1>1. requests[r].payload \in Payloads
  BY DEF OffersInv, ThreadOffers
<1> QED BY <1>1, StagesApart DEF ThreadOffers, RowStages

LEMMA SubmitGoesOn ==
    ASSUME OffersInv, Grows, NEW r \in Threads,
           Offered(requests[r].draft, requests[r].payload), requests[r].draft \in Drafts,
           requests'[r].at \in SignedStages \ {"run row"}, SameDraft(r)
    PROVE  ThreadOffers(r)'
<1>1. /\ requests'[r].payload \in Payloads
      /\ shown'[requests'[r].draft][requests'[r].payload] # "never"
  <2>1. /\ requests[r].payload \in Payloads
        /\ shown'[requests[r].draft][requests[r].payload] # "never"
    BY DEF Grows, Offered
  <2> QED BY <2>1 DEF SameDraft
<1>2. requests'[r].at \notin PipelineStages \cup RowStages /\ requests'[r].at # "row sent"
  BY StagesApart
<1> QED BY <1>1, <1>2 DEF ThreadOffers, Offered

\* A thread that goes on with its rows.
LEMMA RowsGoOn ==
    ASSUME OffersInv, Grows, NEW r \in Threads, requests[r].at \in RowStages,
           requests'[r].at \in RowStages \ {"run row", "row sent"},
           requests'[r].todo \subseteq requests[r].todo
    PROVE  ThreadOffers(r)'
<1>1. requests[r].todo \subseteq Drafts /\ \A d \in requests[r].todo : Scheduled(d)
  BY DEF OffersInv, ThreadOffers
<1>2. requests'[r].todo \subseteq Drafts /\ \A d \in requests'[r].todo : Scheduled(d)'
  BY <1>1 DEF Grows
<1>3. requests'[r].at \notin PipelineStages \cup SignedStages
  BY StagesApart
<1> QED BY <1>2, <1>3 DEF ThreadOffers, Scheduled

\* Every step that leads to such a stage brings what the stage must know.
LEMMA AdvancesOffers ==
    ASSUME OffersInv, Grows, NEW r \in Threads, Advances(r)
    PROVE  ThreadOffers(r)'
<1>t. Typed /\ ThreadOffers(r) /\ requests[r] \in Request_
  BY DEF OffersInv, SafeInv, Typed, TypeOK
<1>d. requests[r].at \notin OffDraft => requests[r].draft \in Drafts
  BY <1>t DEF Typed, Placed
<1>q. Return(r) => ThreadOffers(r)'
  BY <1>t, ReturnMoves, ThreadQuits
<1>p. \A at \in PipelineStages : requests[r].at \in PipelineStages /\ GoTo(r, at) => ThreadOffers(r)'
  BY <1>t, GoToMoves, PipelineGoesOn DEF SameWork, SameDraft
<1>s. \A at \in SignedStages \ {"run row"} :
         /\ requests[r].at \in SignedStages /\ GoTo(r, at)
         => ThreadOffers(r)'
  <2> SUFFICES ASSUME NEW at \in SignedStages \ {"run row"}, requests[r].at \in SignedStages,
                      GoTo(r, at)
               PROVE  ThreadOffers(r)'
    OBVIOUS
  <2>1. Offered(requests[r].draft, requests[r].payload) /\ requests[r].draft \in Drafts
    BY <1>t, <1>d DEF ThreadOffers, SignedStages, OffDraft
  <2> QED BY <1>t, <2>1, GoToMoves, SubmitGoesOn DEF SameWork
<1>w. \A at \in RowStages \ {"run row", "row sent"} :
         requests[r].at \in RowStages /\ GoTo(r, at) => ThreadOffers(r)'
  BY <1>t, GoToMoves, RowsGoOn DEF SameWork
<1>1. CASE Resolve(r) \/ Freezes(r) \/ WriteFloor(r) \/ RecordAttempt(r) \/ StopOrAsk(r)
           \/ CreateHold(r) \/ IssueCode(r)
  <2>1. requests[r].at \in PipelineStages
    BY <1>1 DEF Resolve, Freezes, WriteFloor, RecordAttempt, StopOrAsk, CreateHold, IssueCode,
                At, PipelineStages
  <2>2. Return(r) \/ \E at \in PipelineStages : GoTo(r, at)
    BY <1>1 DEF Resolve, Freezes, WriteFloor, RecordAttempt, StopOrAsk, CreateHold, IssueCode,
                PipelineStages
  <2> QED BY <2>1, <2>2, <1>q, <1>p
<1>2. CASE Score(r)
  <2>1. PICK s \in Scores : requests' = [requests EXCEPT ![r].at = "floor",
                         ![r].score = stricter(drafts[requests[r].draft].floor, s)]
    BY <1>2 DEF Score
  <2> DEFINE new == [requests[r] EXCEPT !.at = "floor",
                       !.score = stricter(drafts[requests[r].draft].floor, s)]
  <2>2. requests' = [requests EXCEPT ![r] = new]
    BY <2>1
  <2>3. new.at = "floor" /\ new.payload = requests[r].payload
    BY <1>t DEF Request_
  <2> HIDE DEF new
  <2>4. requests'[r].at = "floor" /\ requests'[r].payload = requests[r].payload
    BY <1>t, <2>2, <2>3, PutMoves
  <2>5. requests[r].at = "score" /\ "score" \in PipelineStages /\ "floor" \in PipelineStages
    BY <1>2 DEF Score, At, PipelineStages
  <2> QED BY <2>4, <2>5, PipelineGoesOn
<1>3. CASE CheckDraft(r)
  <2>1. CASE Return(r)
    BY <2>1, <1>q
  <2>2. CASE ~Return(r)
    <3>1. GoTo(r, "kill switch") /\ executable(requests[r].draft, requests[r].payload)
      BY <1>3, <2>2 DEF CheckDraft
    <3>2. requests[r].draft \in Drafts
      BY <1>3, <1>d DEF CheckDraft, At, OffDraft
    <3>3. Offered(requests[r].draft, requests[r].payload)
      BY <3>1, <3>2 DEF executable, OffersInv, ReadyOffered
    <3>4. "kill switch" \in SignedStages \ {"run row"}
      BY DEF SignedStages
    <3> QED BY <1>t, <3>1, <3>2, <3>3, <3>4, GoToMoves, SubmitGoesOn DEF SameWork
  <2> QED BY <2>1, <2>2
<1>4. CASE CheckFreeze(r) \/ CheckSafeguards(r)
  <2>1. requests[r].at \in SignedStages
    BY <1>4 DEF CheckFreeze, CheckSafeguards, At, SignedStages
  <2>2. Return(r) \/ \E at \in SignedStages \ {"run row"} : GoTo(r, at)
    BY <1>4 DEF CheckFreeze, CheckSafeguards, SignedStages
  <2> QED BY <2>1, <2>2, <1>q, <1>s
<1>5. CASE CheckScore(r)
  <2>1. requests[r].at = "score now" /\ "score now" \in SignedStages
    BY <1>5 DEF CheckScore, At, SignedStages
  <2>2. Return(r) \/ \E outcome : requests' = [requests EXCEPT ![r].at = "safeguards",
                                                               ![r].score = outcome]
    BY <1>5 DEF CheckScore
  <2>3. ASSUME NEW outcome, requests' = [requests EXCEPT ![r].at = "safeguards",
                                                         ![r].score = outcome]
        PROVE  ThreadOffers(r)'
    <3> DEFINE new == [requests[r] EXCEPT !.at = "safeguards", !.score = outcome]
    <3>1. requests' = [requests EXCEPT ![r] = new]
      BY <2>3
    <3>2. /\ new.at = "safeguards" /\ new.payload = requests[r].payload
          /\ new.draft = requests[r].draft /\ new.op = requests[r].op
      BY <1>t DEF Request_
    <3> HIDE DEF new
    <3>3. requests'[r].at = "safeguards" /\ SameDraft(r)
      BY <1>t, <3>1, <3>2, PutMoves DEF SameDraft
    <3>4. Offered(requests[r].draft, requests[r].payload) /\ requests[r].draft \in Drafts
      BY <1>t, <1>d, <2>1 DEF ThreadOffers, OffDraft
    <3>5. "safeguards" \in SignedStages \ {"run row"}
      BY DEF SignedStages
    <3> QED BY <3>3, <3>4, <3>5, SubmitGoesOn
  <2> QED BY <2>2, <2>3, <1>q
<1>6. CASE RowCheck(r)
  <2>1. PICK d \in requests[r].todo, at \in {"run row", "stop row"} :
           requests' = [requests EXCEPT ![r].at = at, ![r].draft = d,
                          ![r].payload = releases[d].payload, ![r].todo = @ \ {d}]
    BY <1>6 DEF RowCheck
  <2> DEFINE new == [requests[r] EXCEPT !.at = at, !.draft = d,
                       !.payload = releases[d].payload, !.todo = @ \ {d}]
  <2>2. requests' = [requests EXCEPT ![r] = new]
    BY <2>1
  <2>3. /\ new.at = at /\ new.draft = d /\ new.payload = releases[d].payload
        /\ new.todo = requests[r].todo \ {d}
    BY <1>t DEF Request_
  <2> HIDE DEF new
  <2>4. /\ requests'[r].at = at /\ requests'[r].draft = d
        /\ requests'[r].payload = releases[d].payload
        /\ requests'[r].todo \subseteq requests[r].todo
    BY <1>t, <2>2, <2>3, PutMoves
  <2>5. requests[r].at = "rows" /\ "rows" \in RowStages
    BY <1>6 DEF RowCheck, At, RowStages
  <2>6. requests[r].todo \subseteq Drafts /\ \A e \in requests[r].todo : Scheduled(e)
    BY <1>t, <2>5 DEF ThreadOffers
  <2>7. CASE at = "stop row"
    <3>1. "stop row" \in RowStages \ {"run row", "row sent"}
      BY DEF RowStages
    <3> QED BY <2>4, <2>5, <2>7, <3>1, RowsGoOn
  <2>8. CASE at = "run row"
    <3>1. d \in Drafts /\ Scheduled(d) /\ Offered(d, releases[d].payload)
      BY <2>6 DEF OffersInv, ScheduledOffered
    <3>2. /\ Scheduled(d)' /\ releases'[d].payload = releases[d].payload
          /\ releases[d].payload \in Payloads /\ shown'[d][releases[d].payload] # "never"
      BY <3>1 DEF Grows, Offered
    <3>3. requests'[r].todo \subseteq Drafts /\ \A e \in requests'[r].todo : Scheduled(e)'
      BY <2>4, <2>6 DEF Grows
    <3> QED BY <2>4, <2>8, <3>2, <3>3, StagesApart DEF ThreadOffers, Offered, Scheduled
  <2> QED BY <2>7, <2>8
<1>7. CASE RowExecute(r)
  <2>1. /\ requests[r].at = "run row" /\ "run row" \in RowStages /\ "run row" \in SignedStages
        /\ requests[r].draft \in Drafts
    BY <1>7, <1>d DEF RowExecute, At, RowStages, SignedStages, OffDraft
  <2>2. requests'[r].at = "row sent" /\ SameWork(r)
    BY <1>t, <1>7, GoToMoves DEF RowExecute
  <2>3. PICK outcome \in Ran :
           executions' = [executions EXCEPT ![requests[r].draft] =
                            [outcome |-> outcome, payload |-> requests[r].payload]]
    BY <1>7 DEF RowExecute, Executes
  <2>4. executions'[requests[r].draft] = [outcome |-> outcome, payload |-> requests[r].payload]
    BY <1>t, <2>1, <2>3 DEF Typed, TypeOK
  <2>5. /\ Scheduled(requests[r].draft)
        /\ requests[r].payload = releases[requests[r].draft].payload
        /\ \A e \in requests[r].todo : Scheduled(e) /\ e \in Drafts
    BY <1>t, <2>1 DEF ThreadOffers
  <2>6. /\ releases'[requests[r].draft].status # "NONE"
        /\ releases'[requests[r].draft].payload = requests[r].payload
        /\ \A e \in requests[r].todo : Scheduled(e)' /\ e \in Drafts
    <3>1. releases' = releases
      BY <1>7 DEF RowExecute
    <3> QED BY <2>5, <3>1 DEF Scheduled
  <2>7. /\ requests'[r].draft = requests[r].draft /\ requests'[r].todo = requests[r].todo
        /\ "row sent" \notin PipelineStages \cup SignedStages /\ "row sent" # "run row"
    BY <2>2, StagesApart DEF SameWork, SameDraft
  <2>8. /\ executions'[requests[r].draft].outcome \in Ran
        /\ executions'[requests[r].draft].payload = releases'[requests[r].draft].payload
    BY <2>4, <2>6
  <2> QED BY <2>2, <2>6, <2>7, <2>8 DEF ThreadOffers, Scheduled
<1>8. CASE RowExecuteRaises(r) \/ RowStop(r) \/ RowFollows(r)
  <2>1. requests[r].at \in RowStages
    BY <1>8 DEF RowExecuteRaises, RowStop, RowFollows, At, RowStages
  <2>2. \E at \in RowStages \ {"run row", "row sent"} : GoTo(r, at)
    BY <1>8 DEF RowExecuteRaises, RowStop, RowFollows, RowStages
  <2> QED BY <2>1, <2>2, <1>w
<1> QED BY <1>1, <1>2, <1>3, <1>4, <1>5, <1>6, <1>7, <1>8 DEF Advances

\* A thread that has just begun a pipeline.
Began(r, d) ==
    /\ BeginPipeline(r, d)
    /\ requests'[r].op = "pipeline" /\ requests'[r].at = "resolve"
    /\ requests'[r].draft = d /\ requests'[r].payload = built'[d]

LEMMA BeginsMoves ==
    ASSUME Typed, NEW r \in Threads, NEW op, NEW at, NEW d, NEW p, Begins(r, op, at, d, p)
    PROVE  /\ Others(r) /\ requests[r] = Idle
           /\ requests'[r].op = op /\ requests'[r].at = at
           /\ requests'[r].draft = d /\ requests'[r].payload = p
<1> DEFINE new == [Idle EXCEPT !.op = op, !.at = at, !.draft = d, !.payload = p]
<1>1. requests' = [requests EXCEPT ![r] = new] /\ requests[r] = Idle
  BY DEF Begins
<1>2. new.op = op /\ new.at = at /\ new.draft = d /\ new.payload = p
  BY DEF Idle
<1> HIDE DEF new
<1> QED BY <1>1, <1>2, PutMoves

\* What begins is a pipeline, or a thread outside the stages above.
LEMMA BeginMoves ==
    ASSUME Typed, NEW r \in Requests, Begin(r)
    PROVE  /\ Others(r)
           /\ Quits(r) \/ \E d \in Drafts : Began(r, d)
<1>0. r \in Threads
  BY DEF Threads
<1>1. \A at \in {"revoke", "snapshot", "nonce prior", "burn", "close"} : at \notin Tracked
  BY DEF Tracked, PipelineStages, SignedStages, RowStages
<1>2. CASE EngageFreeze(r)
  <2>1. Begins(r, "freeze", "revoke", NoDraft, 0)
    BY <1>2 DEF EngageFreeze
  <2> QED BY <1>0, <1>1, <2>1, BeginsMoves DEF Quits
<1>3. CASE BeginUnfreeze(r)
  <2>1. Begins(r, "unfreeze", "snapshot", NoDraft, 0)
    BY <1>3 DEF BeginUnfreeze
  <2> QED BY <1>0, <1>1, <2>1, BeginsMoves DEF Quits
<1>4. ASSUME NEW d \in Drafts, AskNonce(r, d) PROVE Others(r) /\ Quits(r)
  <2>1. Begins(r, "nonce", "nonce prior", d, 0)
    BY <1>4 DEF AskNonce
  <2> QED BY <1>0, <1>1, <2>1, BeginsMoves DEF Quits
<1>5. ASSUME NEW d \in Drafts, NEW p \in Payloads, NEW n \in Nonces, Submit(r, d, p, n)
      PROVE  Others(r) /\ Quits(r)
  <2> DEFINE new == [Idle EXCEPT !.op = "submit", !.at = "burn", !.draft = d, !.payload = p,
                                 !.nonce = n]
  <2>1. requests' = [requests EXCEPT ![r] = new]
    BY <1>5 DEF Submit
  <2>2. new.at = "burn"
    BY DEF Idle
  <2> HIDE DEF new
  <2> QED BY <1>0, <1>1, <2>1, <2>2, PutMoves DEF Quits
<1>6. ASSUME NEW d \in Drafts, NEW op \in {"decline", "cancel"}, Close(r, d, op)
      PROVE  Others(r) /\ Quits(r)
  <2>1. Begins(r, op, "close", d, 0)
    BY <1>6 DEF Close
  <2> QED BY <1>0, <1>1, <2>1, BeginsMoves DEF Quits
<1>7. ASSUME NEW d \in Drafts, BeginPipeline(r, d) PROVE Others(r) /\ Began(r, d)
  <2>1. Begins(r, "pipeline", "resolve", d, built'[d])
    BY <1>7 DEF BeginPipeline
  <2> QED BY <1>0, <1>7, <2>1, BeginsMoves DEF Began
<1> QED BY <1>2, <1>3, <1>4, <1>5, <1>6, <1>7 DEF Begin

\* So every thread knows it after every step.
LEMMA ThreadsOffer ==
    ASSUME OffersInv, [Next]_vars, NEW q \in Threads
    PROVE  ThreadOffers(q)'
<1>g. Grows /\ Typed /\ requests \in [Threads -> Request_]
  BY GrowsAlways DEF OffersInv, SafeInv, Typed, TypeOK
<1>k. CASE requests'[q] = requests[q]
  BY <1>g, <1>k, ThreadKept
<1>1. ASSUME NEW r \in Threads, Work(r) PROVE ThreadOffers(q)'
  BY <1>g, <1>1, WorkMoves, AdvancesOffers, ThreadQuits, ThreadKept DEF Others
<1>2. ASSUME NEW r \in Threads, ClaimDue(r) PROVE ThreadOffers(q)'
  <2>1. requests' = [requests EXCEPT ![r] = [Idle EXCEPT !.op = "release", !.at = "rows",
                                                         !.todo = DueReleases]]
    BY <1>2 DEF ClaimDue
  <2>2. /\ \A t \in Threads : t # r => requests'[t] = requests[t]
        /\ requests'[r].at = "rows" /\ requests'[r].todo = DueReleases
    BY <1>g, <2>1 DEF Idle
  <2>3. requests'[r].todo \subseteq Drafts /\ \A d \in requests'[r].todo : Scheduled(d)'
    BY <1>g, <2>2 DEF DueReleases, Grows, Scheduled
  <2>4. "rows" \notin PipelineStages \cup SignedStages
    BY DEF PipelineStages, SignedStages
  <2>5. ThreadOffers(r)'
    BY <2>2, <2>3, <2>4 DEF ThreadOffers, Scheduled
  <2> QED BY <1>k, <2>2, <2>5
<1>3. ASSUME NEW r \in Requests, Begin(r) PROVE ThreadOffers(q)'
  <2>0. r \in Threads /\ Idle.at = "idle"
    BY DEF Threads, Idle
  <2>1. \A op, at, d, p : Begins(r, op, at, d, p) =>
           /\ \A t \in Threads : t # r => requests'[t] = requests[t]
           /\ requests'[r].at = at /\ requests'[r].payload = p
    BY <1>g, <2>0 DEF Begins, Idle
  <2>2. CASE \E d \in Drafts : BeginPipeline(r, d)
    <3>1. PICK d \in Drafts : BeginPipeline(r, d)
      BY <2>2
    <3>2. built'[d] \in Payloads
      BY <1>g, <3>1, BoundAssumption DEF BeginPipeline, Typed, TypeOK, Sent, Payloads
    <3>3. /\ \A t \in Threads : t # r => requests'[t] = requests[t]
          /\ requests'[r].at = "resolve" /\ requests'[r].payload = built'[d]
      BY <2>1, <3>1 DEF BeginPipeline
    <3>4. "resolve" \in PipelineStages /\ "resolve" \notin SignedStages \cup RowStages
      BY DEF PipelineStages, SignedStages, RowStages
    <3>5. ThreadOffers(r)'
      BY <3>2, <3>3, <3>4 DEF ThreadOffers, RowStages
    <3> QED BY <1>k, <3>3, <3>5
  <2>3. CASE ~ \E d \in Drafts : BeginPipeline(r, d)
    <3>2. Others(r) /\ Quits(r)
      BY <1>3, <1>g, <2>3, BeginMoves DEF Began
    <3> QED BY <1>k, <2>0, <3>2, ThreadQuits DEF Others
  <2> QED BY <2>2, <2>3
<1>4. ASSUME Environment PROVE ThreadOffers(q)'
  <2>1. requests' = requests \/ requests' = [r \in Threads |-> Idle]
    BY <1>4 DEF Environment, NonceExpires, ConfirmCode, CodeExpires, HoldElapses, ReleaseFallsDue,
                Sweep, Restart, memory
  <2>2. CASE requests' = [r \in Threads |-> Idle]
    <3>1. Quits(q)
      BY <2>2 DEF Quits, Idle, Tracked, PipelineStages, SignedStages, RowStages
    <3> QED BY <3>1, ThreadQuits
  <2> QED BY <1>k, <2>1, <2>2
<1>5. CASE UNCHANGED vars
  BY <1>5, <1>k DEF vars, memory
<1> QED BY <1>1, <1>2, <1>3, <1>4, <1>5 DEF Next

-----------------------------------------------------------------------------
\* What a step may do to the entry of a draft.
EntryKept(d) ==
    /\ drafts'[d].status = "ready" =>
          drafts[d].status = "ready" /\ drafts'[d].payload = drafts[d].payload
    /\ drafts[d].status \notin Absent => drafts'[d].status \notin Absent

LEMMA EntryPut ==
    ASSUME drafts \in [Drafts -> Draft_], NEW d \in Drafts, NEW row,
           drafts' = drafts \/ drafts' = [drafts EXCEPT ![d] = row],
           row.status \notin Absent \/ drafts[d].status \in Absent,
           row.status = "ready" => drafts[d].status = "ready" /\ row.payload = drafts[d].payload
    PROVE  \A e \in Drafts : EntryKept(e)
<1>1. CASE drafts' = drafts
  BY <1>1 DEF EntryKept
<1>2. CASE drafts' = [drafts EXCEPT ![d] = row]
  <2>1. drafts'[d] = row /\ \A e \in Drafts : e # d => drafts'[e] = drafts[e]
    BY <1>2
  <2> QED BY <2>1 DEF EntryKept
<1> QED BY <1>1, <1>2

LEMMA EntryStatus ==
    ASSUME drafts \in [Drafts -> Draft_], NEW d \in Drafts, NEW s,
           s \notin Absent \cup {"ready"}, SetStatus(d, s)
    PROVE  \A e \in Drafts : EntryKept(e)
<1> DEFINE row == [drafts[d] EXCEPT !.status = s]
<1>1. drafts' = drafts \/ drafts' = [drafts EXCEPT ![d] = row]
  BY DEF SetStatus
<1>2. row.status = s
  BY DEF Draft_
<1> HIDE DEF row
<1> QED BY <1>1, <1>2, EntryPut

LEMMA EntryOffer ==
    ASSUME drafts \in [Drafts -> Draft_], NEW d \in Drafts, NEW s, NEW p,
           s \notin Absent \cup {"ready"}, Offers(d, p, s)
    PROVE  \A e \in Drafts : EntryKept(e)
<1> DEFINE row == [drafts[d] EXCEPT !.payload = p, !.status = s]
<1>1. drafts' = drafts \/ drafts' = [drafts EXCEPT ![d] = row]
  BY DEF Offers
<1>2. row.status = s
  BY DEF Draft_
<1> HIDE DEF row
<1> QED BY <1>1, <1>2, EntryPut

\* WriteFloor writes the score it holds into the floor, and offers nothing.
LEMMA FloorWritten ==
    ASSUME Typed, NEW r \in Threads, WriteFloor(r)
    PROVE  /\ \A e \in Drafts : EntryKept(e)
           /\ \A e \in Drafts : e # requests[r].draft => drafts'[e] = drafts[e]
           /\ drafts'[requests[r].draft].floor = requests[r].score
<1> DEFINE d == requests[r].draft  s == requests[r].score
<1>t. drafts \in [Drafts -> Draft_] /\ drafts[d] \in Draft_ /\ d \in Drafts
  BY DEF WriteFloor, At, Typed, TypeOK, Placed, OffDraft
<1> DEFINE row == [drafts[d] EXCEPT !.floor = s]
<1>1. drafts' = [drafts EXCEPT ![d] = row]
  BY DEF WriteFloor
<1>2. row.status = drafts[d].status /\ row.payload = drafts[d].payload /\ row.floor = s
  BY <1>t DEF Draft_
<1> HIDE DEF row, d, s
<1>3. \A e \in Drafts : EntryKept(e)
  BY <1>t, <1>1, <1>2, EntryPut
<1>4. drafts'[d] = row /\ \A e \in Drafts : e # d => drafts'[e] = drafts[e]
  BY <1>t, <1>1
<1> QED BY <1>2, <1>3, <1>4 DEF d, s

\* Only OfferReady makes a draft ready, or another payload signable; only a
\* restart, or a draft that runs out, takes one from the store.
LEMMA EntriesKept ==
    ASSUME Typed, [Next]_vars, NEW e \in Drafts
    PROVE  \/ EntryKept(e)
           \/ (Restart \/ \E d \in Drafts : Sweep(d)) /\ (drafts'[e].status = "ready" =>
                                                             drafts'[e] = drafts[e])
           \/ \E r \in Threads : /\ OfferReady(r) /\ e = requests[r].draft
                                 /\ drafts'[e].status \notin Absent
                                 /\ drafts'[e].payload = requests[r].payload
<1>t. drafts \in [Drafts -> Draft_] /\ drafts[e] \in Draft_
  BY DEF Typed, TypeOK
<1>p. \A r \in Threads : requests[r].at \notin OffDraft => requests[r].draft \in Drafts
  BY DEF Typed, Placed
<1>s. \A s \in {"clarify", "blocked", "frozen", "scheduled", "executed", "declined", "cancelled"} :
         s \notin Absent \cup {"ready"}
  BY DEF Absent
<1>1. CASE drafts' = drafts
  BY <1>1 DEF EntryKept
<1>2. ASSUME NEW r \in Threads, ResolveStops(r) PROVE EntryKept(e)
  BY <1>t, <1>p, <1>s, <1>2, EntryOffer DEF ResolveStops, At, OffDraft
<1>3. ASSUME NEW r \in Threads, OfferFrozen(r) PROVE EntryKept(e)
  BY <1>t, <1>p, <1>s, <1>3, EntryOffer DEF OfferFrozen, At, OffDraft
<1>4. ASSUME NEW r \in Threads, WriteFloor(r) PROVE EntryKept(e)
  BY <1>4, FloorWritten
<1>12. ASSUME NEW r \in Threads, StopOrAsk(r) PROVE EntryKept(e)
  <2>1. requests[r].draft \in Drafts
    BY <1>p, <1>12 DEF StopOrAsk, At, OffDraft
  <2>2. drafts' = drafts \/ \E s \in {"blocked", "clarify"} : Offers(requests[r].draft, 0, s)
    BY <1>12 DEF StopOrAsk
  <2> QED BY <1>1, <1>t, <1>s, <2>1, <2>2, EntryOffer DEF EntryKept
<1>5. ASSUME NEW r \in Threads, Respond(r) PROVE EntryKept(e)
  BY <1>t, <1>p, <1>s, <1>5, EntryStatus DEF Respond, At, OffDraft
<1>6. ASSUME NEW r \in Threads, MarkClosed(r) PROVE EntryKept(e)
  <2>1. StatusOf(OutcomeOf(r)) \in {"declined", "cancelled"}
    BY DEF StatusOf
  <2> QED BY <1>t, <1>p, <1>s, <1>6, <2>1, EntryStatus DEF MarkClosed, At, OffDraft
<1>7. ASSUME NEW r \in Threads, RowFollows(r) PROVE EntryKept(e)
  <2>1. requests[r].draft \in Drafts
    BY <1>p, <1>7 DEF RowFollows, At, OffDraft
  <2>2. drafts' = drafts \/ \E s \in {"executed", "cancelled"} : SetStatus(requests[r].draft, s)
    BY <1>7 DEF RowFollows
  <2> QED BY <1>1, <1>t, <1>s, <2>1, <2>2, EntryStatus DEF EntryKept
<1>8. ASSUME NEW r \in Threads, OfferReady(r)
      PROVE  \/ EntryKept(e)
             \/ /\ e = requests[r].draft /\ drafts'[e].status \notin Absent
                /\ drafts'[e].payload = requests[r].payload
  <2> DEFINE d == requests[r].draft
             row == [drafts[d] EXCEPT !.payload = requests[r].payload, !.status = "ready"]
  <2>1. drafts' = drafts \/ drafts' = [drafts EXCEPT ![d] = row]
    BY <1>8 DEF OfferReady, Offers
  <2>2. CASE drafts' = [drafts EXCEPT ![d] = row]
    <3>1. d \in Drafts /\ drafts[d] \in Draft_
      BY <1>t, <1>p, <1>8 DEF OfferReady, At, OffDraft
    <3>2. row.status = "ready" /\ row.payload = requests[r].payload
      BY <3>1 DEF Draft_
    <3> HIDE DEF row
    <3>3. drafts'[e] = IF e = d THEN row ELSE drafts[e]
      BY <1>t, <2>2, <3>1
    <3> QED BY <3>2, <3>3 DEF EntryKept, Absent
  <2> QED BY <1>1, <2>1, <2>2 DEF EntryKept
<1>9. ASSUME NEW r \in Requests, NEW d \in Drafts, BeginPipeline(r, d) PROVE EntryKept(e)
  <2> DEFINE row == IF drafts[d].status = "new" THEN [drafts[d] EXCEPT !.status = "clarify"]
                    ELSE drafts[d]
  <2>1. drafts[d] \in Draft_
    BY <1>t
  <2>2. [drafts[d] EXCEPT !.status = @] = drafts[d]
    BY <2>1 DEF Draft_
  <2>3. drafts' = [drafts EXCEPT ![d] = row]
    BY <1>9, <2>2 DEF BeginPipeline
  <2>4. /\ row.status \notin Absent \/ drafts[d].status \in Absent
        /\ row.status = "ready" => drafts[d].status = "ready" /\ row.payload = drafts[d].payload
    BY <1>s, <2>1 DEF Draft_
  <2> HIDE DEF row
  <2> QED BY <1>t, <2>3, <2>4, EntryPut
<1>10. ASSUME NEW d \in Drafts, Sweep(d)
       PROVE  drafts'[e].status = "ready" => drafts'[e] = drafts[e]
  <2>1. drafts' = [drafts EXCEPT ![d] = [drafts[d] EXCEPT !.status = "gone"]]
    BY <1>10 DEF Sweep
  <2>2. [drafts[d] EXCEPT !.status = "gone"].status = "gone"
    BY <1>t DEF Draft_
  <2> QED BY <1>t, <2>1, <2>2
<1>11. ASSUME Restart
       PROVE  drafts'[e].status = "ready" => drafts'[e] = drafts[e]
  <2>1. drafts'[e] = drafts[e] \/ drafts'[e] = [drafts[e] EXCEPT !.status = "gone"]
    BY <1>11 DEF Restart
  <2>2. [drafts[e] EXCEPT !.status = "gone"].status = "gone"
    BY <1>t DEF Draft_
  <2> QED BY <2>1, <2>2
<1> QED BY <1>1, <1>2, <1>3, <1>4, <1>5, <1>6, <1>7, <1>8, <1>9, <1>10, <1>11, <1>12,
           DraftsWritten DEF WritesDrafts

LEMMA ReadyOffers ==
    ASSUME OffersInv, [Next]_vars, NEW d \in Drafts
    PROVE  ReadyOffered(d)'
<1>g. Grows /\ Typed /\ ReadyOffered(d)
  BY GrowsAlways DEF OffersInv, SafeInv
<1> SUFFICES ASSUME drafts'[d].status = "ready"
             PROVE  /\ drafts'[d].payload \in Payloads
                    /\ shown'[d][drafts'[d].payload] # "never"
  BY DEF ReadyOffered, Offered
<1>1. CASE drafts[d].status = "ready" /\ drafts'[d].payload = drafts[d].payload
  BY <1>g, <1>1 DEF ReadyOffered, Grows, Offered
<1>2. ASSUME NEW r \in Threads, OfferReady(r), d = requests[r].draft,
             drafts'[d].payload = requests[r].payload
      PROVE  /\ drafts'[d].payload \in Payloads
             /\ shown'[d][drafts'[d].payload] # "never"
  <2>1. requests[r].payload \in Payloads
    BY <1>2 DEF OfferReady, At, OffersInv, ThreadOffers, PipelineStages
  <2>2. shown' = [shown EXCEPT ![d][requests[r].payload] = requests[r].score]
    BY <1>2 DEF OfferReady
  <2>3. requests[r].score # "never" /\ shown \in [Drafts -> [Payloads -> Outcomes \cup {"never"}]]
    BY <1>g DEF Typed, TypeOK, Request_, Outcomes
  <2> QED BY <1>2, <2>1, <2>2, <2>3
<1> QED BY <1>g, <1>1, <1>2, EntriesKept DEF EntryKept

\* A payment becomes scheduled by the submit that schedules it.
LEMMA ScheduleOnly ==
    ASSUME Typed, [Next]_vars, NEW d \in Drafts, ~Scheduled(d), Scheduled(d)'
    PROVE  \E r \in Threads : /\ Schedule(r) /\ requests[r].draft = d
                              /\ releases'[d].payload = requests[r].payload
<1>g. Typed
  OBVIOUS
<1>t. releases \in [Drafts -> Release_] /\ releases[d] \in Release_
  BY <1>g DEF Typed, TypeOK
<1>2. ASSUME NEW r \in Threads, Schedule(r)
      PROVE  requests[r].draft = d /\ releases'[d].payload = requests[r].payload
  <2>1. requests[r].draft \in Drafts
    BY <1>g, <1>2 DEF Schedule, At, Typed, Placed, OffDraft
  <2>2. \/ releases'[d] = releases[d]
        \/ d = requests[r].draft /\ releases'[d].payload = requests[r].payload
    BY <1>t, <1>2 DEF Schedule
  <2> QED BY <2>1, <2>2 DEF Scheduled
<1>3. ASSUME ~ \E r \in Threads : Schedule(r)
      PROVE  ~Scheduled(d)'
  <2>1. CASE releases' = releases
    BY <1>3, <2>1 DEF Scheduled
  <2>2. ASSUME NEW r \in Threads, StopRest(r) \/ RowFollows(r)
        PROVE  ~Scheduled(d)'
    <3>1. requests[r].draft \in Drafts
      BY <1>g, <2>2 DEF StopRest, RowFollows, At, Typed, Placed, OffDraft
    <3>2. \E from \in {"PENDING", "RUNNING"}, to \in {"SENT", "CANCELLED"} :
             ReleaseMoves(requests[r].draft, from, to)
      BY <2>2 DEF StopRest, RowFollows
    <3> QED BY <1>3, <1>t, <3>1, <3>2, ReleaseMoved
  <2>3. ASSUME NEW r \in Threads, ClaimDue(r) PROVE ~Scheduled(d)'
    <3>1. d \notin DueReleases
      BY <1>3 DEF DueReleases, Scheduled
    <3> QED BY <1>3, <2>3, <3>1 DEF ClaimDue, Scheduled
  <2>4. ASSUME NEW e \in Drafts, ReleaseFallsDue(e) PROVE ~Scheduled(d)'
    <3>1. releases[e].status = "PENDING" /\ e # d
      BY <1>3, <2>4 DEF ReleaseFallsDue, Scheduled
    <3> QED BY <1>3, <1>t, <2>4, <3>1 DEF ReleaseFallsDue, Scheduled
  <2> QED BY <1>3, <2>1, <2>2, <2>3, <2>4, ReleasesWritten
<1> QED BY <1>2, <1>3

LEMMA ScheduledOffers ==
    ASSUME OffersInv, [Next]_vars, NEW d \in Drafts
    PROVE  ScheduledOffered(d)'
<1>g. Grows /\ Typed /\ ScheduledOffered(d)
  BY GrowsAlways DEF OffersInv, SafeInv
<1>1. CASE Scheduled(d)
  <2>1. releases'[d].payload = releases[d].payload /\ Offered(d, releases[d].payload)
    BY <1>g, <1>1 DEF Grows, ScheduledOffered
  <2> QED BY <1>g, <2>1 DEF ScheduledOffered, Offered, Grows
<1>2. CASE ~Scheduled(d) /\ Scheduled(d)'
  <2>1. PICK r \in Threads : /\ Schedule(r) /\ requests[r].draft = d
                             /\ releases'[d].payload = requests[r].payload
    BY <1>g, <1>2, ScheduleOnly
  <2>2. Offered(d, requests[r].payload) /\ shown' = shown
    BY <2>1 DEF Schedule, At, OffersInv, ThreadOffers, SignedStages, seen
  <2> QED BY <2>1, <2>2 DEF ScheduledOffered, Offered
<1> QED BY <1>1, <1>2 DEF ScheduledOffered

\* A step that runs a draft runs a payload that a thread knows was offered.
LEMMA RunOffers ==
    ASSUME OffersInv, [Next]_vars, NEW d \in Drafts, executions[d].outcome = "NONE",
           executions'[d].outcome \in Ran
    PROVE  \E r \in Threads : /\ Execute(r) \/ RowExecute(r)
                              /\ requests[r].draft = d
                              /\ executions'[d].payload = requests[r].payload
<1>t. Typed /\ executions \in [Drafts -> Execution_]
  BY DEF OffersInv, SafeInv, Typed, TypeOK
<1>1. ASSUME NEW r \in Threads, Execute(r) \/ RowExecute(r)
      PROVE  requests[r].draft = d /\ executions'[d].payload = requests[r].payload
  <2>1. PICK outcome \in Ran :
           executions' = [executions EXCEPT ![requests[r].draft] =
                            [outcome |-> outcome, payload |-> requests[r].payload]]
    BY <1>1 DEF Execute, RowExecute, Executes
  <2>2. requests[r].draft = d
    BY <1>t, <2>1 DEF Ran
  <2> QED BY <1>t, <2>1, <2>2
<1>2. ASSUME NEW r \in Threads, ClaimClose(r) \/ RowStop(r)
      PROVE  FALSE
  <2>1. \/ executions' = executions
        \/ \E outcome \in CLOSED_OUTCOMES :
              executions' = [executions EXCEPT ![requests[r].draft] =
                               [outcome |-> outcome, payload |-> requests[r].payload]]
    BY <1>2 DEF ClaimClose, RowStop, Closes, OutcomeOf, CLOSED_OUTCOMES
  <2> QED BY <1>t, <2>1 DEF CLOSED_OUTCOMES, Ran
<1>3. executions' # executions
  BY DEF Ran
<1>4. \E r \in Threads : Execute(r) \/ RowExecute(r) \/ ClaimClose(r) \/ RowStop(r)
  <2>1. ASSUME NEW r \in Threads, Work(r),
               ~(Execute(r) \/ RowExecute(r) \/ ClaimClose(r) \/ RowStop(r))
        PROVE  executions' = executions
    BY <2>1
    DEF Work, ResolveStops, Resolve, Freezes, OfferFrozen, Score, WriteFloor, RecordAttempt,
        StopOrAsk, CreateHold, IssueCode, OfferReady, CheckNonce, IssueNonce, BurnNonce,
        CheckPrior, CheckDraft, CheckFreeze, CheckScore, CheckSafeguards, Schedule, ExecuteRaises,
        Respond, ReadToClose, FindToClose, ClaimCloseLoses, CloseFails, MarkClosed, StopRest,
        RevokeNonces, SnapshotOpen, CloseNext, CancelHolds, LiftFreeze, RowCheck, RowsDone,
        RowExecuteRaises, RowFollows, Raises, ledger
  <2>2. CASE \E r \in Threads : ClaimDue(r)
    BY <1>3, <2>2 DEF ClaimDue
  <2>3. CASE \E r \in Requests : Begin(r)
    BY <1>3, <2>3
    DEF Begin, EngageFreeze, BeginUnfreeze, BeginPipeline, AskNonce, Submit, Close, ledger
  <2>4. CASE Environment
    BY <1>3, <2>4 DEF Environment, NonceExpires, ConfirmCode, CodeExpires, HoldElapses,
                      ReleaseFallsDue, Sweep, Restart, ledger
  <2>5. CASE UNCHANGED vars
    BY <1>3, <2>5 DEF vars, ledger
  <2> QED BY <1>3, <2>1, <2>2, <2>3, <2>4, <2>5 DEF Next
<1> QED BY <1>1, <1>2, <1>4

LEMMA RanOffers ==
    ASSUME OffersInv, [Next]_vars, NEW d \in Drafts
    PROVE  RanOffered(d)'
<1>g. Grows /\ Typed /\ RanOffered(d)
  BY GrowsAlways DEF OffersInv, SafeInv
<1>1. CASE executions[d].outcome # "NONE"
  <2>1. executions'[d] = executions[d]
    BY <1>g, <1>1 DEF Grows
  <2> QED BY <1>g, <2>1 DEF RanOffered, Offered, Grows
<1>2. CASE executions[d].outcome = "NONE" /\ executions'[d].outcome \in Ran
  <2>1. PICK r \in Threads : /\ Execute(r) \/ RowExecute(r)
                             /\ requests[r].draft = d
                             /\ executions'[d].payload = requests[r].payload
    BY <1>2, RunOffers
  <2>2. Offered(d, executions'[d].payload)
    BY <2>1 DEF Execute, RowExecute, At, OffersInv, ThreadOffers, SignedStages
  <2> QED BY <1>g, <2>2 DEF RanOffered, Offered, Grows
<1>3. CASE executions'[d].outcome \notin Ran
  BY <1>3 DEF RanOffered
<1> QED BY <1>1, <1>2, <1>3

LEMMA SentRan ==
    ASSUME OffersInv, [Next]_vars
    PROVE  ReleaseSentIsTrue'
<1>g. Grows /\ Typed /\ ReleaseSentIsTrue
  BY GrowsAlways DEF OffersInv, SafeInv
<1> SUFFICES ASSUME NEW d \in Drafts, releases'[d].status = "SENT"
             PROVE  /\ executions'[d].outcome \in Ran
                    /\ executions'[d].payload = releases'[d].payload
  BY DEF ReleaseSentIsTrue
<1>t. releases \in [Drafts -> Release_] /\ releases[d] \in Release_
  BY <1>g DEF Typed, TypeOK
<1>1. CASE releases[d].status = "SENT"
  <2>1. executions[d].outcome \in Ran /\ executions[d].payload = releases[d].payload
    BY <1>g, <1>1 DEF ReleaseSentIsTrue
  <2> QED BY <1>g, <1>1, <2>1 DEF Grows, Scheduled, Ran
<1>2. CASE releases[d].status # "SENT"
  <2>1. releases' # releases
    BY <1>2
  <2>2. ASSUME NEW r \in Threads, Schedule(r) PROVE FALSE
    BY <1>t, <1>2, <2>2 DEF Schedule
  <2>3. ASSUME NEW r \in Threads, StopRest(r) PROVE FALSE
    <3>1. /\ requests[r].draft \in Drafts
          /\ ReleaseMoves(requests[r].draft, "PENDING", "CANCELLED")
      BY <1>g, <2>3 DEF StopRest, At, Typed, Placed, OffDraft
    <3> QED BY <1>t, <1>2, <3>1, ReleaseMoved
  <2>4. ASSUME NEW r \in Threads, ClaimDue(r) PROVE FALSE
    <3>1. releases'[d] = releases[d] \/ releases'[d] = [releases[d] EXCEPT !.status = "RUNNING"]
      BY <2>4 DEF ClaimDue
    <3>2. [releases[d] EXCEPT !.status = "RUNNING"].status = "RUNNING"
      BY <1>t, MovedRow
    <3> QED BY <1>2, <3>1, <3>2
  <2>5. ASSUME NEW e \in Drafts, ReleaseFallsDue(e) PROVE FALSE
    <3>1. releases' = [releases EXCEPT ![e] = [releases[e] EXCEPT !.due = TRUE]]
      BY <2>5 DEF ReleaseFallsDue
    <3>2. [releases[e] EXCEPT !.due = TRUE].status = releases[e].status
      BY <1>t DEF Release_
    <3> QED BY <1>t, <1>2, <3>1, <3>2
  <2>6. PICK r \in Threads : RowFollows(r)
    BY <2>1, <2>2, <2>3, <2>4, <2>5, ReleasesWritten
  <2>7. requests[r].draft \in Drafts
    BY <1>g, <2>6 DEF RowFollows, At, Typed, Placed, OffDraft
  <2>8. ReleaseMoves(requests[r].draft, "RUNNING",
                     IF requests[r].at = "row sent" THEN "SENT" ELSE "CANCELLED")
    BY <2>6 DEF RowFollows, At
  <2>9. requests[r].draft = d /\ requests[r].at = "row sent"
    <3>1. CASE requests[r].at = "row sent"
      <4>1. ReleaseMoves(requests[r].draft, "RUNNING", "SENT")
        BY <2>8, <3>1
      <4> QED BY <1>t, <1>2, <2>7, <3>1, <4>1, ReleaseMoved
    <3>2. CASE requests[r].at # "row sent"
      <4>1. ReleaseMoves(requests[r].draft, "RUNNING", "CANCELLED")
        BY <2>8, <3>2
      <4> QED BY <1>t, <1>2, <2>7, <4>1, ReleaseMoved
    <3> QED BY <3>1, <3>2
  <2>10. /\ Scheduled(d) /\ executions[d].outcome \in Ran
         /\ executions[d].payload = releases[d].payload
    BY <2>9 DEF OffersInv, ThreadOffers
  <2> QED BY <1>g, <2>10 DEF Grows, Ran
<1> QED BY <1>1, <1>2

LEMMA OffersNext ==
    ASSUME OffersInv, [Next]_vars
    PROVE  OffersInv'
<1>1. SafeInv'
  BY NextSafe DEF OffersInv
<1> QED BY <1>1, ThreadsOffer, ReadyOffers, ScheduledOffers, RanOffers, SentRan DEF OffersInv

LEMMA OffersInit == Init => OffersInv
<1> SUFFICES ASSUME Init PROVE OffersInv
  OBVIOUS
<1>1. \A r \in Threads : ThreadOffers(r)
  BY DEF Init, Idle, ThreadOffers, PipelineStages, SignedStages, RowStages
<1>2. /\ ReleaseSentIsTrue
      /\ \A d \in Drafts : ReadyOffered(d) /\ ScheduledOffered(d) /\ RanOffered(d)
  BY DEF Init, ReadyOffered, ScheduledOffered, RanOffered, ReleaseSentIsTrue, Scheduled, Ran
<1> QED BY <1>1, <1>2, InitSafe DEF OffersInv

LEMMA OffersTheorem == Spec => []OffersInv
  BY OffersInit, OffersNext, PTL DEF Spec

\* Only a payload the pipeline offered as ready ever runs, by a submit or by a
\* release, whatever a client submits, whatever races, fails or restarts
\* (drafts.py executable, delayed.py release_due).
THEOREM OfferedTheorem == Spec => []ExecutesOnlyOffered
<1>1. OffersInv => ExecutesOnlyOffered
  BY DEF OffersInv, RanOffered, Offered, ExecutesOnlyOffered, Payloads
<1> QED BY <1>1, OffersTheorem, PTL

\* A release reported SENT ran, and ran the payload that was signed and scheduled
\* (delayed.py release_due).
THEOREM ReleaseTheorem == Spec => []ReleaseSentIsTrue
  BY OffersTheorem, PTL DEF OffersInv

-----------------------------------------------------------------------------
\* The order of the outcomes.
LEMMA RankOf ==
    /\ ScamRank["ALLOW"] = 0 /\ ScamRank["WARN"] = 1 /\ ScamRank["DELAY"] = 2
    /\ ScamRank["HOLD"] = 3 /\ ScamRank["HOLD_STEP_UP"] = 4 /\ ScamRank["BLOCK"] = 5
  BY DEF ScamRank

LEMMA RankType == \A o \in Outcomes : ScamRank[o] \in Nat
  BY RankOf DEF Outcomes

LEMMA StricterRank ==
    ASSUME NEW a \in Outcomes, NEW b \in Outcomes
    PROVE  /\ stricter(a, b) \in Outcomes
           /\ ScamRank[stricter(a, b)] >= ScamRank[a]
  BY RankType DEF stricter

\* An outcome at least as strict, short of a refusal, asks for as much.
LEMMA StricterAsks ==
    ASSUME NEW a \in Outcomes, NEW b \in Outcomes \ {"BLOCK"}, ScamRank[b] >= ScamRank[a]
    PROVE  /\ needs_hold(a) => needs_hold(b)
           /\ a = "HOLD_STEP_UP" => b = "HOLD_STEP_UP"
           /\ release_delay(a) => release_delay(b)
<1>1. CASE a = "HOLD_STEP_UP"
  <2>1. b = "HOLD_STEP_UP"
    BY <1>1, RankOf DEF Outcomes
  <2> QED BY <1>1, <2>1
<1>2. CASE a = "HOLD"
  <2>1. b \in {"HOLD", "HOLD_STEP_UP"}
    BY <1>2, RankOf DEF Outcomes
  <2> QED BY <1>2, <2>1 DEF needs_hold, release_delay
<1>3. CASE a = "DELAY"
  <2>1. b \in {"DELAY", "HOLD", "HOLD_STEP_UP"}
    BY <1>3, RankOf DEF Outcomes
  <2> QED BY <1>3, <2>1 DEF needs_hold, release_delay
<1> QED BY <1>1, <1>2, <1>3 DEF needs_hold, release_delay

-----------------------------------------------------------------------------
\* The setting: the page waits for an answer before it sends the next, and no
\* draft runs out of its five minutes between a submit's checks.
Orderly == SerialAnswers = TRUE /\ "expiry" \notin Faults

\* The user has been through what payload p of draft d was offered with.
Served(d, p) ==
    /\ needs_hold(shown[d][p]) => <<"hold", d, p>> \in served
    /\ shown[d][p] = "HOLD_STEP_UP" => <<"code", d, p>> \in served

\* The stages of a pipeline that has written the draft's floor.
FloorStages == {"record", "weigh", "hold", "code", "offer"}

\* The pipeline's own payload is the newest, not offered yet, and its score is
\* above the floor it is about to write and within the floor it wrote.
Builds(r) ==
    requests[r].at \in PipelineStages =>
       /\ requests[r].op = "pipeline" /\ requests[r].payload = built[requests[r].draft]
       /\ ~Offered(requests[r].draft, requests[r].payload)
       /\ requests[r].at = "floor" =>
             ScamRank[requests[r].score] >= ScamRank[drafts[requests[r].draft].floor]
       /\ requests[r].at \in FloorStages =>
             ScamRank[requests[r].score] <= ScamRank[drafts[requests[r].draft].floor]

OnePipeline ==
    \A q, r \in Threads :
        /\ q # r /\ requests[q].at \in PipelineStages /\ requests[r].at \in PipelineStages
        => requests[q].draft # requests[r].draft

\* A submit that has passed a check, and a release, know what it checked.
Checked(r) ==
    /\ requests[r].at \in {"kill switch", "score now"} =>
          drafts[requests[r].draft].status \notin Absent
    /\ requests[r].at = "safeguards" =>
          /\ requests[r].score # "BLOCK"
          /\ ScamRank[requests[r].score] >=
                ScamRank[shown[requests[r].draft][requests[r].payload]]
    /\ requests[r].at \in {"schedule", "execute"} =>
          Served(requests[r].draft, requests[r].payload)
    /\ requests[r].at = "execute" =>
          ~release_delay(shown[requests[r].draft][requests[r].payload])
    /\ requests[r].at \in RowStages => \A d \in requests[r].todo : releases[d].due
    /\ requests[r].at = "run row" => releases[requests[r].draft].due

\* The floor covers everything offered so far; waits and codes are over when the
\* stores say so; what is scheduled, and what ran, was served.
FloorCovers(d) ==
    \A p \in Payloads : Offered(d, p) =>
        p <= built[d] /\ ScamRank[shown[d][p]] <= ScamRank[drafts[d].floor]
WaitServed(d) == holds[d].over => <<"hold", d, holds[d].payload>> \in served
CodeServed(d) == codes[d].state = "confirmed" => <<"code", d, codes[d].payload>> \in served
ScheduledServed(d) == Scheduled(d) => Served(d, releases[d].payload)
RanServed(d) ==
    executions[d].outcome \in Ran =>
       /\ Served(d, executions[d].payload)
       /\ release_delay(shown[d][executions[d].payload]) =>
             Scheduled(d) /\ releases[d].due /\ releases[d].payload = executions[d].payload

ServesInv ==
    /\ OffersInv /\ OnePipeline
    /\ \A r \in Threads : Builds(r) /\ Checked(r)
    /\ \A d \in Drafts : FloorCovers(d) /\ WaitServed(d) /\ CodeServed(d)
    /\ \A d \in Drafts : ScheduledServed(d) /\ RanServed(d)

-----------------------------------------------------------------------------
\* An offer is made once, and safeguards once served stay served.
LEMMA ServedGrows == [Next]_vars => served \subseteq served'
<1> SUFFICES ASSUME [Next]_vars PROVE served \subseteq served'
  OBVIOUS
<1>1. ASSUME NEW r \in Threads, Work(r) PROVE served' = served
  BY <1>1
  DEF Work, ResolveStops, Resolve, Freezes, OfferFrozen, Score, WriteFloor, RecordAttempt,
      StopOrAsk, CreateHold, IssueCode, OfferReady, CheckNonce, IssueNonce, BurnNonce, CheckPrior,
      CheckDraft, CheckFreeze, CheckScore, CheckSafeguards, Schedule, Execute, ExecuteRaises,
      Respond, ReadToClose, FindToClose, ClaimClose, ClaimCloseLoses, CloseFails, MarkClosed,
      StopRest, RevokeNonces, SnapshotOpen, CloseNext, CancelHolds, LiftFreeze, RowCheck, RowsDone,
      RowExecute, RowExecuteRaises, RowStop, RowFollows, Raises, seen
<1>2. CASE \E r \in Threads : ClaimDue(r)
  BY <1>2 DEF ClaimDue, seen
<1>3. CASE \E r \in Requests : Begin(r)
  BY <1>3 DEF Begin, EngageFreeze, BeginUnfreeze, BeginPipeline, AskNonce, Submit, Close, seen
<1>4. CASE Environment
  BY <1>4 DEF Environment, NonceExpires, ConfirmCode, CodeExpires, HoldElapses, ReleaseFallsDue,
              Sweep, Restart, seen
<1>5. CASE UNCHANGED vars
  BY <1>5 DEF vars, seen
<1> QED BY <1>1, <1>2, <1>3, <1>4, <1>5 DEF Next

LEMMA BuiltWritten ==
    [Next]_vars => built' = built \/ \E r \in Requests, d \in Drafts : BeginPipeline(r, d)
<1> SUFFICES ASSUME [Next]_vars, ~ \E r \in Requests, d \in Drafts : BeginPipeline(r, d)
             PROVE  built' = built
  OBVIOUS
<1>1. ASSUME NEW r \in Threads, Work(r) PROVE built' = built
  BY <1>1
  DEF Work, ResolveStops, Resolve, Freezes, OfferFrozen, Score, WriteFloor, RecordAttempt,
      StopOrAsk, CreateHold, IssueCode, OfferReady, CheckNonce, IssueNonce, BurnNonce, CheckPrior,
      CheckDraft, CheckFreeze, CheckScore, CheckSafeguards, Schedule, Execute, ExecuteRaises,
      Respond, ReadToClose, FindToClose, ClaimClose, ClaimCloseLoses, CloseFails, MarkClosed,
      StopRest, RevokeNonces, SnapshotOpen, CloseNext, CancelHolds, LiftFreeze, RowCheck, RowsDone,
      RowExecute, RowExecuteRaises, RowStop, RowFollows, Raises
<1>2. CASE \E r \in Threads : ClaimDue(r)
  BY <1>2 DEF ClaimDue
<1>3. CASE \E r \in Requests : Begin(r)
  BY <1>3 DEF Begin, EngageFreeze, BeginUnfreeze, AskNonce, Submit, Close
<1>4. CASE Environment
  BY <1>4 DEF Environment, NonceExpires, ConfirmCode, CodeExpires, HoldElapses, ReleaseFallsDue,
              Sweep, Restart, memory
<1>5. CASE UNCHANGED vars
  BY <1>5 DEF vars, memory
<1> QED BY <1>1, <1>2, <1>3, <1>4, <1>5 DEF Next

LEMMA ShownOnce ==
    ASSUME ServesInv, [Next]_vars, NEW d \in Drafts, NEW p \in Payloads
    PROVE  \/ shown'[d][p] = shown[d][p]
           \/ /\ ~Offered(d, p)
              /\ \E r \in Threads : /\ OfferReady(r)
                                    /\ requests[r].draft = d /\ requests[r].payload = p
                                    /\ shown'[d][p] = requests[r].score
                                    /\ drafts[d].floor = drafts'[d].floor
<1>1. ASSUME NEW r \in Threads, OfferReady(r), shown'[d][p] # shown[d][p]
      PROVE  /\ ~Offered(d, p) /\ requests[r].draft = d /\ requests[r].payload = p
             /\ shown'[d][p] = requests[r].score
             /\ drafts[d].floor = drafts'[d].floor
  <2>1. shown' = [shown EXCEPT ![requests[r].draft][requests[r].payload] = requests[r].score]
    BY <1>1 DEF OfferReady
  <2>2. shown \in [Drafts -> [Payloads -> Outcomes \cup {"never"}]]
    BY DEF ServesInv, OffersInv, SafeInv, Typed, TypeOK
  <2>3. /\ requests[r].draft = d /\ requests[r].payload = p
        /\ shown'[d][p] = requests[r].score
    BY <1>1, <2>1, <2>2
  <2>4. ~Offered(d, p)
    BY <1>1, <2>3 DEF OfferReady, At, ServesInv, Builds, PipelineStages
  <2>5. drafts[d].floor = drafts'[d].floor
    <3>1. drafts \in [Drafts -> Draft_] /\ drafts[d] \in Draft_
      BY DEF ServesInv, OffersInv, SafeInv, Typed, TypeOK
    <3> DEFINE row == [drafts[d] EXCEPT !.payload = p, !.status = "ready"]
    <3>2. drafts' = drafts \/ drafts' = [drafts EXCEPT ![d] = row]
      BY <1>1, <2>3 DEF OfferReady, Offers
    <3>3. row.floor = drafts[d].floor
      BY <3>1 DEF Draft_
    <3> HIDE DEF row
    <3> QED BY <3>1, <3>2, <3>3
  <2> QED BY <2>3, <2>4, <2>5
<1> QED BY <1>1, ShownWritten

LEMMA ShownStays ==
    ASSUME ServesInv, [Next]_vars, NEW d \in Drafts, NEW p \in Payloads, Offered(d, p)
    PROVE  shown'[d][p] = shown[d][p] /\ (Served(d, p) => Served(d, p)')
<1>1. shown'[d][p] = shown[d][p]
  BY ShownOnce
<1> QED BY <1>1, ServedGrows DEF Served

LEMMA FloorPut ==
    ASSUME Typed, NEW d \in Drafts, NEW row, row.floor = drafts[d].floor,
           drafts' = drafts \/ drafts' = [drafts EXCEPT ![d] = row]
    PROVE  \A e \in Drafts : drafts'[e].floor = drafts[e].floor
<1>1. drafts \in [Drafts -> Draft_]
  BY DEF Typed, TypeOK
<1>2. CASE drafts' = [drafts EXCEPT ![d] = row]
  <2>1. drafts'[d] = row /\ \A e \in Drafts : e # d => drafts'[e] = drafts[e]
    BY <1>1, <1>2
  <2> QED BY <2>1
<1> QED BY <1>2

\* Only WriteFloor writes a floor, and it never lowers it.
LEMMA FloorsKept ==
    ASSUME Typed, [Next]_vars, NEW e \in Drafts
    PROVE  \/ drafts'[e].floor = drafts[e].floor
           \/ \E r \in Threads : WriteFloor(r) /\ requests[r].draft = e
<1>t. \A d \in Drafts : drafts[d] \in Draft_
  BY DEF Typed, TypeOK
<1>p. \A r \in Threads : requests[r].at \notin OffDraft => requests[r].draft \in Drafts
  BY DEF Typed, Placed
<1>r. ASSUME NEW d \in Drafts, NEW s,
             drafts' = drafts \/ drafts' = [drafts EXCEPT ![d] = [drafts[d] EXCEPT !.status = s]]
      PROVE  drafts'[e].floor = drafts[e].floor
  <2> DEFINE row == [drafts[d] EXCEPT !.status = s]
  <2>1. row.floor = drafts[d].floor
    BY <1>t DEF Draft_
  <2>2. drafts' = drafts \/ drafts' = [drafts EXCEPT ![d] = row]
    BY <1>r
  <2> HIDE DEF row
  <2> QED BY <2>1, <2>2, FloorPut
<1>s. ASSUME NEW d \in Drafts, NEW s, SetStatus(d, s)
      PROVE  drafts'[e].floor = drafts[e].floor
  <2>1. drafts' = drafts \/ drafts' = [drafts EXCEPT ![d] = [drafts[d] EXCEPT !.status = s]]
    BY <1>s DEF SetStatus
  <2> QED BY <1>r, <2>1
<1>o. ASSUME NEW d \in Drafts, NEW s, NEW p, Offers(d, p, s)
      PROVE  drafts'[e].floor = drafts[e].floor
  <2> DEFINE row == [drafts[d] EXCEPT !.payload = p, !.status = s]
  <2>1. row.floor = drafts[d].floor
    BY <1>t DEF Draft_
  <2>2. drafts' = drafts \/ drafts' = [drafts EXCEPT ![d] = row]
    BY <1>o DEF Offers
  <2> HIDE DEF row
  <2> QED BY <2>1, <2>2, FloorPut
<1>1. ASSUME NEW r \in Threads, ResolveStops(r) PROVE drafts'[e].floor = drafts[e].floor
  BY <1>p, <1>o, <1>1 DEF ResolveStops, At, OffDraft
<1>2. ASSUME NEW r \in Threads, OfferFrozen(r) PROVE drafts'[e].floor = drafts[e].floor
  BY <1>p, <1>o, <1>2 DEF OfferFrozen, At, OffDraft
<1>3. ASSUME NEW r \in Threads, OfferReady(r) PROVE drafts'[e].floor = drafts[e].floor
  BY <1>p, <1>o, <1>3 DEF OfferReady, At, OffDraft
<1>11. ASSUME NEW r \in Threads, StopOrAsk(r) PROVE drafts'[e].floor = drafts[e].floor
  BY <1>p, <1>o, <1>11 DEF StopOrAsk, At, OffDraft
<1>4. ASSUME NEW r \in Threads, Respond(r) PROVE drafts'[e].floor = drafts[e].floor
  BY <1>p, <1>s, <1>4 DEF Respond, At, OffDraft
<1>5. ASSUME NEW r \in Threads, MarkClosed(r) PROVE drafts'[e].floor = drafts[e].floor
  BY <1>p, <1>s, <1>5 DEF MarkClosed, At, OffDraft
<1>6. ASSUME NEW r \in Threads, RowFollows(r) PROVE drafts'[e].floor = drafts[e].floor
  BY <1>p, <1>s, <1>6 DEF RowFollows, At, OffDraft
<1>7. ASSUME NEW r \in Threads, WriteFloor(r), e # requests[r].draft
      PROVE  drafts'[e].floor = drafts[e].floor
  BY <1>7, FloorWritten
<1>8. ASSUME NEW r \in Requests, NEW d \in Drafts, BeginPipeline(r, d)
      PROVE  drafts'[e].floor = drafts[e].floor
  <2>1. \E s : drafts' = [drafts EXCEPT ![d] = [drafts[d] EXCEPT !.status = s]]
    BY <1>8 DEF BeginPipeline
  <2> QED BY <1>r, <2>1
<1>9. ASSUME NEW d \in Drafts, Sweep(d) PROVE drafts'[e].floor = drafts[e].floor
  <2>1. drafts' = [drafts EXCEPT ![d] = [drafts[d] EXCEPT !.status = "gone"]]
    BY <1>9 DEF Sweep
  <2> QED BY <1>r, <2>1
<1>10. ASSUME Restart PROVE drafts'[e].floor = drafts[e].floor
  <2>1. drafts'[e] = drafts[e] \/ drafts'[e] = [drafts[e] EXCEPT !.status = "gone"]
    BY <1>10 DEF Restart
  <2>2. [drafts[e] EXCEPT !.status = "gone"].floor = drafts[e].floor
    BY <1>t DEF Draft_
  <2> QED BY <2>1, <2>2
<1> QED BY <1>1, <1>2, <1>3, <1>4, <1>5, <1>6, <1>7, <1>8, <1>9, <1>10, <1>11,
           DraftsWritten DEF WritesDrafts

LEMMA FloorsRise ==
    ASSUME ServesInv, [Next]_vars, NEW e \in Drafts
    PROVE  /\ ScamRank[drafts[e].floor] <= ScamRank[drafts'[e].floor]
           /\ \/ drafts'[e].floor = drafts[e].floor
              \/ \E r \in Threads : WriteFloor(r) /\ requests[r].draft = e
<1>t. Typed /\ ScamRank[drafts[e].floor] \in Nat
  BY RankType DEF ServesInv, OffersInv, SafeInv, Typed, TypeOK, Draft_
<1>1. ASSUME NEW r \in Threads, WriteFloor(r), requests[r].draft = e
      PROVE  ScamRank[drafts[e].floor] <= ScamRank[drafts'[e].floor]
  <2>1. drafts'[e].floor = requests[r].score
    BY <1>t, <1>1, FloorWritten
  <2>2. ScamRank[requests[r].score] >= ScamRank[drafts[e].floor]
    BY <1>1 DEF WriteFloor, At, ServesInv, Builds, PipelineStages
  <2>3. ScamRank[requests[r].score] \in Nat
    BY <1>t, RankType DEF Typed, TypeOK, Request_
  <2> QED BY <1>t, <2>1, <2>2, <2>3
<1> QED BY <1>t, <1>1, FloorsKept

-----------------------------------------------------------------------------
\* Waits and codes: nothing but time ends a wait, nothing but the user's code
\* confirms one.
LEMMA HoldsWritten ==
    [Next]_vars =>
       \/ holds' = holds
       \/ \E r \in Threads : CreateHold(r) \/ Respond(r) \/ StopRest(r) \/ CancelHolds(r)
       \/ \E d \in Drafts : HoldElapses(d)
<1> SUFFICES ASSUME [Next]_vars, ~ \E d \in Drafts : HoldElapses(d),
                    ~ \E r \in Threads :
                         CreateHold(r) \/ Respond(r) \/ StopRest(r) \/ CancelHolds(r)
             PROVE  holds' = holds
  OBVIOUS
<1>1. ASSUME NEW r \in Threads, Work(r) PROVE holds' = holds
  BY <1>1
  DEF Work, ResolveStops, Resolve, Freezes, OfferFrozen, Score, WriteFloor, RecordAttempt,
      StopOrAsk, IssueCode, OfferReady, CheckNonce, IssueNonce, BurnNonce, CheckPrior, CheckDraft,
      CheckFreeze, CheckScore, CheckSafeguards, Schedule, Execute, ExecuteRaises, ReadToClose,
      FindToClose, ClaimClose, ClaimCloseLoses, CloseFails, MarkClosed, RevokeNonces, SnapshotOpen,
      CloseNext, LiftFreeze, RowCheck, RowsDone, RowExecute, RowExecuteRaises, RowStop, RowFollows,
      Raises, ledger
<1>2. CASE \E r \in Threads : ClaimDue(r)
  BY <1>2 DEF ClaimDue
<1>3. CASE \E r \in Requests : Begin(r)
  BY <1>3 DEF Begin, EngageFreeze, BeginUnfreeze, BeginPipeline, AskNonce, Submit, Close, ledger
<1>4. CASE Environment
  BY <1>4 DEF Environment, NonceExpires, ConfirmCode, CodeExpires, ReleaseFallsDue, Sweep,
              Restart, ledger
<1>5. CASE UNCHANGED vars
  BY <1>5 DEF vars, ledger
<1> QED BY <1>1, <1>2, <1>3, <1>4, <1>5 DEF Next

LEMMA CodesWritten ==
    [Next]_vars =>
       \/ codes' = codes \/ Restart
       \/ \E r \in Threads : IssueCode(r) \/ Respond(r)
       \/ \E d \in Drafts : ConfirmCode(d) \/ CodeExpires(d)
<1> SUFFICES ASSUME [Next]_vars, ~Restart, ~ \E r \in Threads : IssueCode(r) \/ Respond(r),
                    ~ \E d \in Drafts : ConfirmCode(d) \/ CodeExpires(d)
             PROVE  codes' = codes
  OBVIOUS
<1>1. ASSUME NEW r \in Threads, Work(r) PROVE codes' = codes
  BY <1>1
  DEF Work, ResolveStops, Resolve, Freezes, OfferFrozen, Score, WriteFloor, RecordAttempt,
      StopOrAsk, CreateHold, OfferReady, CheckNonce, IssueNonce, BurnNonce, CheckPrior, CheckDraft,
      CheckFreeze, CheckScore, CheckSafeguards, Schedule, Execute, ExecuteRaises, ReadToClose,
      FindToClose, ClaimClose, ClaimCloseLoses, CloseFails, MarkClosed, StopRest, RevokeNonces,
      SnapshotOpen, CloseNext, CancelHolds, LiftFreeze, RowCheck, RowsDone, RowExecute,
      RowExecuteRaises, RowStop, RowFollows, Raises
<1>2. CASE \E r \in Threads : ClaimDue(r)
  BY <1>2 DEF ClaimDue
<1>3. CASE \E r \in Requests : Begin(r)
  BY <1>3 DEF Begin, EngageFreeze, BeginUnfreeze, BeginPipeline, AskNonce, Submit, Close
<1>4. CASE Environment
  BY <1>4 DEF Environment, NonceExpires, HoldElapses, ReleaseFallsDue, Sweep, memory
<1>5. CASE UNCHANGED vars
  BY <1>5 DEF vars, memory
<1> QED BY <1>1, <1>2, <1>3, <1>4, <1>5 DEF Next

LEMMA WaitKept ==
    ASSUME ServesInv, [Next]_vars, NEW d \in Drafts,
           holds'[d].over => holds[d].over /\ holds'[d].payload = holds[d].payload
    PROVE  WaitServed(d)'
<1>1. WaitServed(d) /\ served \subseteq served'
  BY ServedGrows DEF ServesInv
<1> QED BY <1>1 DEF WaitServed

LEMMA HoldMoved ==
    ASSUME Typed, NEW e \in Drafts, NEW to, HoldMoves(e, to), NEW d \in Drafts
    PROVE  holds'[d].over = holds[d].over /\ holds'[d].payload = holds[d].payload
<1>t. holds \in [Drafts -> Hold_] /\ holds[e] \in Hold_
  BY DEF Typed, TypeOK
<1> DEFINE row == [holds[e] EXCEPT !.status = to]
<1>1. holds' = holds \/ holds' = [holds EXCEPT ![e] = row]
  BY DEF HoldMoves
<1>2. row.over = holds[e].over /\ row.payload = holds[e].payload
  BY <1>t DEF Hold_
<1> HIDE DEF row
<1>3. CASE holds' = [holds EXCEPT ![e] = row]
  <2>1. holds'[d] = IF d = e THEN row ELSE holds[d]
    BY <1>t, <1>3
  <2> QED BY <1>2, <2>1
<1> QED BY <1>1, <1>3

LEMMA WaitsServed ==
    ASSUME ServesInv, [Next]_vars, NEW d \in Drafts
    PROVE  WaitServed(d)'
<1>t. Typed /\ holds \in [Drafts -> Hold_]
  BY DEF ServesInv, OffersInv, SafeInv, Typed, TypeOK
<1>p. \A r \in Threads : requests[r].at \notin OffDraft => requests[r].draft \in Drafts
  BY <1>t DEF Typed, Placed
<1>1. CASE holds' = holds
  BY <1>1, WaitKept
<1>2. ASSUME NEW r \in Threads, CreateHold(r) PROVE WaitServed(d)'
  <2> DEFINE row == [status |-> "PENDING", payload |-> requests[r].payload, over |-> FALSE]
  <2>1. holds' = holds \/ holds' = [holds EXCEPT ![requests[r].draft] = row]
    BY <1>2 DEF CreateHold
  <2>2. row.over = FALSE
    OBVIOUS
  <2> HIDE DEF row
  <2>3. CASE holds' = [holds EXCEPT ![requests[r].draft] = row]
    <3>1. holds'[d] = holds[d] \/ holds'[d] = row
      BY <1>t, <2>3
    <3> QED BY <2>2, <3>1, WaitKept
  <2> QED BY <1>1, <2>1, <2>3
<1>3. ASSUME NEW r \in Threads, Respond(r) \/ StopRest(r) PROVE WaitServed(d)'
  <2>1. requests[r].draft \in Drafts
    BY <1>p, <1>3 DEF Respond, StopRest, At, OffDraft
  <2>2. holds' = holds \/ \E to : HoldMoves(requests[r].draft, to)
    BY <1>3 DEF Respond, StopRest
  <2>3. ASSUME NEW to, HoldMoves(requests[r].draft, to) PROVE WaitServed(d)'
    BY <1>t, <2>1, <2>3, HoldMoved, WaitKept
  <2> QED BY <1>1, <2>2, <2>3
<1>4. ASSUME NEW r \in Threads, CancelHolds(r) PROVE WaitServed(d)'
  <2>1. holds'[d] = holds[d] \/ holds'[d] = [holds[d] EXCEPT !.status = "CANCELLED"]
    BY <1>4 DEF CancelHolds
  <2>2. /\ [holds[d] EXCEPT !.status = "CANCELLED"].over = holds[d].over
        /\ [holds[d] EXCEPT !.status = "CANCELLED"].payload = holds[d].payload
    <3>1. holds[d] \in Hold_
      BY <1>t
    <3> QED BY <3>1 DEF Hold_
  <2> QED BY <2>1, <2>2, WaitKept
<1>5. ASSUME NEW e \in Drafts, HoldElapses(e) PROVE WaitServed(d)'
  <2> DEFINE row == [holds[e] EXCEPT !.over = TRUE]
  <2>1. holds' = [holds EXCEPT ![e] = row] /\ <<"hold", e, holds[e].payload>> \in served'
    BY <1>5 DEF HoldElapses
  <2>2. row.payload = holds[e].payload
    BY <1>t DEF Hold_
  <2> HIDE DEF row
  <2>3. holds'[e] = row /\ \A x \in Drafts : x # e => holds'[x] = holds[x]
    BY <1>t, <2>1
  <2>4. CASE d = e
    BY <2>1, <2>2, <2>3, <2>4 DEF WaitServed
  <2> QED BY <2>3, <2>4, WaitKept
<1> QED BY <1>1, <1>2, <1>3, <1>4, <1>5, HoldsWritten

LEMMA CodesServed ==
    ASSUME ServesInv, [Next]_vars, NEW d \in Drafts
    PROVE  CodeServed(d)'
<1>t. Typed /\ codes \in [Drafts -> Code_]
  BY DEF ServesInv, OffersInv, SafeInv, Typed, TypeOK
<1>k. ASSUME codes'[d].state = "confirmed" => codes'[d] = codes[d] PROVE CodeServed(d)'
  <2>1. CodeServed(d) /\ served \subseteq served'
    BY ServedGrows DEF ServesInv
  <2> QED BY <1>k, <2>1 DEF CodeServed
<1>w. ASSUME NEW e, NEW row, row.state # "confirmed", codes' = [codes EXCEPT ![e] = row]
      PROVE  CodeServed(d)'
  <2>1. codes'[d] = codes[d] \/ codes'[d] = row
    BY <1>t, <1>w
  <2> QED BY <1>k, <1>w, <2>1
<1>1. CASE codes' = codes
  BY <1>1, <1>k
<1>2. ASSUME NEW r \in Threads, IssueCode(r) PROVE CodeServed(d)'
  <2> DEFINE row == [payload |-> requests[r].payload, state |-> "sent"]
  <2>1. codes' = codes \/ codes' = [codes EXCEPT ![requests[r].draft] = row]
    BY <1>2 DEF IssueCode
  <2>2. row.state # "confirmed"
    OBVIOUS
  <2> HIDE DEF row
  <2> QED BY <1>1, <1>w, <2>1, <2>2
<1>3. ASSUME NEW r \in Threads, Respond(r) PROVE CodeServed(d)'
  <2> DEFINE e == requests[r].draft
             row == [codes[e] EXCEPT !.state = IF codes[e].state = "none" THEN "none" ELSE "used"]
  <2>1. e \in Drafts
    BY <1>t, <1>3 DEF Respond, At, OffDraft, Typed, Placed
  <2>2. codes[e] \in Code_
    BY <1>t, <2>1
  <2>3. codes' = codes \/ codes' = [codes EXCEPT ![e] = row]
    BY <1>3, <1>t DEF Respond
  <2>4. row.state # "confirmed"
    BY <2>2 DEF Code_
  <2> HIDE DEF row
  <2> QED BY <1>1, <1>w, <2>3, <2>4
<1>4. ASSUME NEW e \in Drafts, CodeExpires(e) PROVE CodeServed(d)'
  <2> DEFINE row == [codes[e] EXCEPT !.state = "expired"]
  <2>1. codes' = [codes EXCEPT ![e] = row]
    BY <1>4 DEF CodeExpires
  <2>2. row.state # "confirmed"
    BY <1>t DEF Code_
  <2> HIDE DEF row
  <2> QED BY <1>w, <2>1, <2>2
<1>5. ASSUME NEW e \in Drafts, ConfirmCode(e) PROVE CodeServed(d)'
  <2> DEFINE row == [codes[e] EXCEPT !.state = "confirmed"]
  <2>1. codes' = [codes EXCEPT ![e] = row] /\ <<"code", e, codes[e].payload>> \in served'
    BY <1>5 DEF ConfirmCode
  <2>2. row.payload = codes[e].payload
    BY <1>t DEF Code_
  <2> HIDE DEF row
  <2>3. codes'[e] = row /\ \A x \in Drafts : x # e => codes'[x] = codes[x]
    BY <1>t, <2>1
  <2>4. CASE d = e
    BY <2>1, <2>2, <2>3, <2>4 DEF CodeServed
  <2> QED BY <1>k, <2>3, <2>4
<1>6. CASE Restart
  <2>1. codes'[d].state # "confirmed"
    BY <1>6 DEF Restart
  <2> QED BY <1>k, <2>1
<1> QED BY <1>1, <1>2, <1>3, <1>4, <1>5, <1>6, CodesWritten

-----------------------------------------------------------------------------
\* The pipeline's threads.
LEMMA AdvancesKeep ==
    ASSUME NEW r \in Threads, Advances(r)
    PROVE  shown' = shown /\ served' = served /\ built' = built
  BY DEF Advances, Resolve, Freezes, Score, WriteFloor, RecordAttempt, StopOrAsk, CreateHold,
         IssueCode, CheckDraft, CheckFreeze, CheckScore, CheckSafeguards, RowCheck, RowExecute,
         RowExecuteRaises, RowStop, RowFollows, seen

\* How a thread goes on within the pipeline.
LEMMA PipelineMoves ==
    ASSUME Typed, NEW r \in Threads, Advances(r), requests'[r].at \in PipelineStages
    PROVE  /\ requests[r].at \in PipelineStages /\ SameDraft(r)
           /\ \/ requests'[r].at \in {"score", "freeze draft"}
              \/ /\ requests'[r].at = "floor" /\ drafts' = drafts
                 /\ \E s \in Scores :
                       requests'[r].score = stricter(drafts[requests[r].draft].floor, s)
              \/ /\ requests'[r].at = "record" /\ WriteFloor(r)
                 /\ requests'[r].score = requests[r].score
              \/ /\ requests'[r].at \in FloorStages \ {"record"} /\ drafts' = drafts
                 /\ requests[r].at \in FloorStages
                 /\ requests'[r].score = requests[r].score
<1>t. requests[r] \in Request_
  BY DEF Typed, TypeOK
<1>r. ~Return(r)
  BY ReturnMoves DEF Quits, Tracked
<1>g. \A at : GoTo(r, at) => requests'[r].at = at /\ SameWork(r)
  BY GoToMoves
<1>x. \A at \in SignedStages \cup RowStages : at \notin PipelineStages
  BY StagesApart
<1>1. CASE Resolve(r) \/ Freezes(r)
  <2>1. requests[r].at \in PipelineStages
    BY <1>1 DEF Resolve, Freezes, At, PipelineStages
  <2>2. \E at \in {"score", "freeze draft"} : GoTo(r, at)
    BY <1>1 DEF Resolve, Freezes
  <2> QED BY <1>g, <2>1, <2>2 DEF SameWork
<1>2. CASE Score(r)
  <2>1. PICK s \in Scores : requests' = [requests EXCEPT ![r].at = "floor",
                         ![r].score = stricter(drafts[requests[r].draft].floor, s)]
    BY <1>2 DEF Score
  <2> DEFINE new == [requests[r] EXCEPT !.at = "floor",
                       !.score = stricter(drafts[requests[r].draft].floor, s)]
  <2>2. requests' = [requests EXCEPT ![r] = new]
    BY <2>1
  <2>3. /\ new.at = "floor" /\ new.score = stricter(drafts[requests[r].draft].floor, s)
        /\ new.op = requests[r].op /\ new.draft = requests[r].draft
        /\ new.payload = requests[r].payload
    BY <1>t DEF Request_
  <2> HIDE DEF new
  <2>4. requests[r].at \in PipelineStages /\ drafts' = drafts
    BY <1>2 DEF Score, At, PipelineStages
  <2> QED BY <2>2, <2>3, <2>4, PutMoves DEF SameDraft
<1>3. CASE WriteFloor(r)
  <2>1. requests[r].at \in PipelineStages
    BY <1>3 DEF WriteFloor, At, PipelineStages
  <2>2. GoTo(r, "record")
    BY <1>3 DEF WriteFloor
  <2> QED BY <1>3, <1>g, <2>1, <2>2 DEF SameWork
<1>4. CASE RecordAttempt(r) \/ StopOrAsk(r) \/ CreateHold(r) \/ IssueCode(r)
  <2>1. requests[r].at \in PipelineStages /\ requests[r].at \in FloorStages
    BY <1>4 DEF RecordAttempt, StopOrAsk, CreateHold, IssueCode, At, PipelineStages, FloorStages
  <2>2. drafts' = drafts /\ \E at \in FloorStages \ {"record"} : GoTo(r, at)
    BY <1>4, <1>r DEF RecordAttempt, StopOrAsk, CreateHold, IssueCode, FloorStages
  <2> QED BY <1>g, <2>1, <2>2 DEF SameWork
<1>5. CASE CheckDraft(r) \/ CheckFreeze(r) \/ CheckSafeguards(r)
  <2>1. \E at \in SignedStages : GoTo(r, at)
    BY <1>5, <1>r DEF CheckDraft, CheckFreeze, CheckSafeguards, SignedStages
  <2> QED BY <1>g, <1>x, <2>1
<1>6. CASE CheckScore(r)
  <2>1. PICK outcome : requests' = [requests EXCEPT ![r].at = "safeguards", ![r].score = outcome]
    BY <1>6, <1>r DEF CheckScore
  <2> DEFINE new == [requests[r] EXCEPT !.at = "safeguards", !.score = outcome]
  <2>2. requests' = [requests EXCEPT ![r] = new]
    BY <2>1
  <2>3. new.at = "safeguards" /\ "safeguards" \in SignedStages
    BY <1>t DEF Request_, SignedStages
  <2> HIDE DEF new
  <2> QED BY <1>x, <2>2, <2>3, PutMoves
<1>7. CASE RowCheck(r)
  <2>1. PICK d \in requests[r].todo, at \in {"run row", "stop row"} :
           requests' = [requests EXCEPT ![r].at = at, ![r].draft = d,
                          ![r].payload = releases[d].payload, ![r].todo = @ \ {d}]
    BY <1>7 DEF RowCheck
  <2> DEFINE new == [requests[r] EXCEPT !.at = at, !.draft = d,
                       !.payload = releases[d].payload, !.todo = @ \ {d}]
  <2>2. requests' = [requests EXCEPT ![r] = new]
    BY <2>1
  <2>3. new.at \in RowStages
    BY <1>t DEF Request_, RowStages
  <2> HIDE DEF new
  <2> QED BY <1>x, <2>2, <2>3, PutMoves
<1>8. CASE RowExecute(r) \/ RowExecuteRaises(r) \/ RowStop(r) \/ RowFollows(r)
  <2>1. \E at \in RowStages : GoTo(r, at)
    BY <1>8 DEF RowExecute, RowExecuteRaises, RowStop, RowFollows, RowStages
  <2> QED BY <1>g, <1>x, <2>1
<1> QED BY <1>1, <1>2, <1>3, <1>4, <1>5, <1>6, <1>7, <1>8 DEF Advances

\* How any step moves any thread.
LEMMA StepMoves ==
    ASSUME Typed, [Next]_vars, NEW q \in Threads
    PROVE  \/ requests'[q] = requests[q] /\ ~Restart
           \/ Quits(q)
           \/ Advances(q)
           \/ ClaimDue(q) /\ requests'[q].at = "rows" /\ requests'[q].todo = DueReleases
           \/ \E d \in Drafts : q \in Requests /\ Began(q, d) /\ Others(q)
<1>1. ASSUME NEW r \in Threads, Work(r) PROVE Quits(q) \/ Advances(q) \/ requests'[q] = requests[q]
  BY <1>1, WorkMoves DEF Others
<1>2. ASSUME NEW r \in Threads, ClaimDue(r)
      PROVE  \/ requests'[q] = requests[q]
             \/ ClaimDue(q) /\ requests'[q].at = "rows" /\ requests'[q].todo = DueReleases
  <2> DEFINE new == [Idle EXCEPT !.op = "release", !.at = "rows", !.todo = DueReleases]
  <2>1. requests' = [requests EXCEPT ![r] = new]
    BY <1>2 DEF ClaimDue
  <2>2. new.at = "rows" /\ new.todo = DueReleases
    BY DEF Idle
  <2> HIDE DEF new
  <2> QED BY <1>2, <2>1, <2>2, PutMoves DEF Others
<1>3. ASSUME NEW r \in Requests, Begin(r)
      PROVE  \/ requests'[q] = requests[q] \/ Quits(q)
             \/ \E d \in Drafts : q \in Requests /\ Began(q, d) /\ Others(q)
  BY <1>3, BeginMoves DEF Others
<1>4. ASSUME Restart PROVE Quits(q)
  <2>1. Idle.at \notin Tracked
    BY DEF Idle, Tracked, PipelineStages, SignedStages, RowStages
  <2> QED BY <1>4, <2>1 DEF Restart, Quits
<1>5. CASE Environment /\ ~Restart
  BY <1>5 DEF Environment, NonceExpires, ConfirmCode, CodeExpires, HoldElapses, ReleaseFallsDue,
              Sweep, memory
<1>6. CASE UNCHANGED vars /\ ~Restart
  BY <1>6 DEF vars, memory
<1> QED BY <1>1, <1>2, <1>3, <1>4, <1>5, <1>6 DEF Next, Environment

LEMMA BuiltGrows ==
    ASSUME Typed, [Next]_vars, NEW d \in Drafts
    PROVE  built[d] \in Nat /\ built'[d] \in Nat /\ built[d] <= built'[d]
<1>t. built \in [Drafts -> Nat]
  BY BoundAssumption DEF Typed, TypeOK, Sent
<1>1. ASSUME NEW r \in Requests, NEW e \in Drafts, BeginPipeline(r, e)
      PROVE  built'[d] = built[d] \/ built'[d] = built[d] + 1
  BY <1>t, <1>1 DEF BeginPipeline
<1> QED BY <1>t, <1>1, BuiltWritten

\* A thread's own payload and score, in the pipeline and before a run.
LEMMA ThreadRanks ==
    ASSUME ServesInv, NEW r \in Threads
    PROVE  /\ requests[r].score \in Outcomes /\ ScamRank[requests[r].score] \in Nat
           /\ requests[r].at \notin OffDraft =>
                 /\ requests[r].draft \in Drafts
                 /\ drafts[requests[r].draft].floor \in Outcomes
                 /\ ScamRank[drafts[requests[r].draft].floor] \in Nat
<1>1. Typed
  BY DEF ServesInv, OffersInv, SafeInv
<1>2. requests[r].score \in Outcomes
  BY <1>1 DEF Typed, TypeOK, Request_
<1>3. \A d \in Drafts : drafts[d].floor \in Outcomes
  BY <1>1 DEF Typed, TypeOK, Draft_
<1>4. requests[r].at \notin OffDraft => requests[r].draft \in Drafts
  BY <1>1 DEF Typed, Placed
<1> QED BY <1>2, <1>3, <1>4, RankType

LEMMA PipelineInHand == PipelineStages \cap OffDraft = {} /\ SignedStages \cap OffDraft = {}
  BY DEF PipelineStages, SignedStages, OffDraft

LEMMA BuildsKept ==
    ASSUME ServesInv, Orderly, [Next]_vars, NEW q \in Threads, requests'[q] = requests[q]
    PROVE  Builds(q)'
<1> DEFINE at == requests[q].at  d == requests[q].draft  p == requests[q].payload
           s == requests[q].score
<1>t. Typed
  BY DEF ServesInv, OffersInv, SafeInv
<1> SUFFICES ASSUME at \in PipelineStages
             PROVE  /\ requests[q].op = "pipeline" /\ p = built'[d]
                    /\ ~(p \in Payloads /\ shown'[d][p] # "never")
                    /\ at = "floor" => ScamRank[s] >= ScamRank[drafts'[d].floor]
                    /\ at \in FloorStages => ScamRank[s] <= ScamRank[drafts'[d].floor]
  BY DEF Builds, Offered
<1>0. /\ requests[q].op = "pipeline" /\ p = built[d] /\ ~Offered(d, p)
      /\ at = "floor" => ScamRank[s] >= ScamRank[drafts[d].floor]
      /\ at \in FloorStages => ScamRank[s] <= ScamRank[drafts[d].floor]
      /\ p \in Payloads /\ d \in Drafts
      /\ ScamRank[s] \in Nat /\ ScamRank[drafts[d].floor] \in Nat
  BY PipelineInHand, ThreadRanks DEF ServesInv, OffersInv, Builds, ThreadOffers
<1>1. ASSUME NEW r \in Threads, r # q, requests[r].draft = d, requests[r].at \in PipelineStages
      PROVE  FALSE
  BY <1>1 DEF ServesInv, OnePipeline
<1>2. built'[d] = built[d]
  <2>1. ASSUME NEW r \in Requests, NEW e \in Drafts, BeginPipeline(r, e), e = d
        PROVE  FALSE
    <3>1. requests[r] = Idle /\ ~OthersPipelining(r, d)
      BY <2>1 DEF BeginPipeline, Begins, Orderly
    <3>2. Idle.at \notin PipelineStages
      BY DEF Idle, PipelineStages
    <3>3. r # q
      BY <3>1, <3>2
    <3> QED BY <1>0, <3>1, <3>3 DEF OthersPipelining
  <2>2. ASSUME NEW r \in Requests, NEW e \in Drafts, BeginPipeline(r, e), e # d
        PROVE  built'[d] = built[d]
    <3>1. built' = [built EXCEPT ![e] = built[e] + 1] /\ built \in [Drafts -> Sent]
      BY <1>t, <2>2 DEF BeginPipeline, Typed, TypeOK
    <3> QED BY <1>0, <2>2, <3>1
  <2> QED BY <2>1, <2>2, BuiltWritten
<1>3. shown'[d][p] = shown[d][p]
  <2>1. ASSUME NEW r \in Threads, OfferReady(r), requests[r].draft = d
        PROVE  FALSE
    <3>1. requests[r].at \in PipelineStages /\ Quits(r)
      BY <1>t, <2>1, ReturnMoves DEF OfferReady, At, PipelineStages
    <3>2. r # q
      BY <3>1 DEF Quits, Tracked
    <3> QED BY <1>1, <2>1, <3>1, <3>2
  <2> QED BY <1>0, <2>1, ShownOnce
<1>4. at = "floor" => drafts'[d].floor = drafts[d].floor
  <2>1. ASSUME at = "floor", NEW r \in Threads, WriteFloor(r), requests[r].draft = d
        PROVE  FALSE
    <3>1. requests[r].at \in PipelineStages
      BY <2>1 DEF WriteFloor, At, PipelineStages
    <3>2. GoTo(r, "record")
      BY <2>1 DEF WriteFloor
    <3>3. requests'[r].at # "floor"
      BY <1>t, <3>2, GoToMoves
    <3> QED BY <1>1, <2>1, <3>1, <3>3
  <2> QED BY <1>0, <2>1, FloorsRise
<1>5. /\ ScamRank[drafts[d].floor] <= ScamRank[drafts'[d].floor]
      /\ ScamRank[drafts'[d].floor] \in Nat
  <2>1. Typed'
    BY <1>t, NextTyped
  <2>2. drafts'[d].floor \in Outcomes
    BY <1>0, <2>1 DEF Typed, TypeOK, Draft_
  <2> QED BY <1>0, <2>2, RankType, FloorsRise
<1> HIDE DEF at, d, p, s
<1> QED BY <1>0, <1>2, <1>3, <1>4, <1>5 DEF Offered

LEMMA BuildsMoves ==
    ASSUME ServesInv, [Next]_vars, NEW r \in Threads, Advances(r)
    PROVE  Builds(r)'
<1> DEFINE at == requests[r].at  d == requests[r].draft  p == requests[r].payload
           s == requests[r].score
<1>t. Typed
  BY DEF ServesInv, OffersInv, SafeInv
<1> SUFFICES ASSUME requests'[r].at \in PipelineStages
             PROVE  Builds(r)'
  BY DEF Builds
<1>1. at \in PipelineStages /\ SameDraft(r)
  BY <1>t, PipelineMoves
<1>2. /\ requests[r].op = "pipeline" /\ p = built'[d]
      /\ ~(p \in Payloads /\ shown'[d][p] # "never")
  BY <1>1, AdvancesKeep DEF ServesInv, Builds, Offered
<1>3. d \in Drafts /\ ScamRank[drafts[d].floor] \in Nat /\ drafts[d].floor \in Outcomes
  BY <1>1, PipelineInHand, ThreadRanks
<1>4. requests'[r].at = "floor" => ScamRank[requests'[r].score] >= ScamRank[drafts'[d].floor]
  <2>1. requests'[r].at = "floor" =>
           drafts' = drafts /\ \E x \in Scores : requests'[r].score = stricter(drafts[d].floor, x)
    BY <1>t, PipelineMoves DEF FloorStages
  <2> QED BY <1>3, <2>1, StricterRank, GatewayAssumption
<1>5. requests'[r].at \in FloorStages =>
         ScamRank[requests'[r].score] <= ScamRank[drafts'[d].floor]
  <2> SUFFICES ASSUME requests'[r].at \in FloorStages
               PROVE  ScamRank[requests'[r].score] <= ScamRank[drafts'[d].floor]
    OBVIOUS
  <2>0. \A x \in {"score", "freeze draft", "floor"} : x \notin FloorStages
    BY DEF FloorStages
  <2>1. requests'[r].score = s
    BY <1>t, <2>0, PipelineMoves
  <2>2. CASE WriteFloor(r)
    <3>1. drafts'[d].floor = s
      BY <1>t, <2>2, FloorWritten
    <3> QED BY <2>1, <3>1, ThreadRanks
  <2>3. CASE at \in FloorStages /\ drafts' = drafts
    BY <1>1, <2>1, <2>3 DEF ServesInv, Builds
  <2> QED BY <1>t, <2>0, <2>2, <2>3, PipelineMoves
<1> HIDE DEF at, d, p, s
<1>6. requests'[r].draft = d /\ requests'[r].payload = p /\ requests'[r].op = requests[r].op
  BY <1>1 DEF SameDraft, d, p
<1> QED BY <1>2, <1>4, <1>5, <1>6 DEF Builds, Offered

LEMMA BuildsBegins ==
    ASSUME ServesInv, [Next]_vars, NEW r \in Threads, NEW d \in Drafts, Began(r, d)
    PROVE  Builds(r)'
<1>t. built \in [Drafts -> Nat]
  BY BoundAssumption DEF ServesInv, OffersInv, SafeInv, Typed, TypeOK, Sent
<1>1. built'[d] = built[d] + 1
  BY <1>t DEF Began, BeginPipeline
<1>2. ~Offered(d, built'[d])
  BY <1>t, <1>1 DEF ServesInv, FloorCovers, Offered
<1>3. shown' = shown
  BY DEF Began, BeginPipeline, seen
<1>4. /\ requests'[r].op = "pipeline" /\ requests'[r].at = "resolve"
      /\ requests'[r].draft = d /\ requests'[r].payload = built'[d]
  BY DEF Began
<1> QED BY <1>2, <1>3, <1>4 DEF Builds, Offered, FloorStages

LEMMA BuildsNext ==
    ASSUME ServesInv, Orderly, [Next]_vars, NEW q \in Threads
    PROVE  Builds(q)'
<1>1. CASE Quits(q)
  BY <1>1 DEF Quits, Tracked, Builds
<1>2. CASE requests'[q].at = "rows"
  BY <1>2 DEF Builds, PipelineStages
<1> QED BY <1>1, <1>2, BuildsKept, BuildsMoves, BuildsBegins, StepMoves
        DEF ServesInv, OffersInv, SafeInv

LEMMA OnePipelineNext ==
    ASSUME ServesInv, Orderly, [Next]_vars
    PROVE  OnePipeline'
<1>t. Typed
  BY DEF ServesInv, OffersInv, SafeInv
<1>f. ASSUME NEW q \in Threads, requests'[q].at \in PipelineStages
      PROVE  \/ requests[q].at \in PipelineStages /\ requests'[q].draft = requests[q].draft
             \/ \E d \in Drafts : q \in Requests /\ Began(q, d) /\ Others(q)
  <2>1. CASE Quits(q)
    BY <1>f, <2>1 DEF Quits, Tracked
  <2>2. CASE requests'[q].at = "rows"
    BY <1>f, <2>2 DEF PipelineStages
  <2>3. CASE Advances(q)
    BY <1>f, <1>t, <2>3, PipelineMoves DEF SameDraft
  <2>4. CASE requests'[q] = requests[q]
    BY <1>f, <2>4
  <2> QED BY <1>t, <2>1, <2>2, <2>3, <2>4, StepMoves
<1>b. ASSUME NEW q \in Threads, NEW r \in Threads, q # r, NEW d \in Drafts, Began(q, d), Others(q),
             requests'[r].at \in PipelineStages
      PROVE  requests'[r].draft # requests'[q].draft
  <2>1. requests[r] = requests'[r] /\ requests'[q].draft = d
    BY <1>b DEF Others, Began
  <2>2. requests[r].op = "pipeline"
    BY <1>b, <2>1 DEF ServesInv, Builds
  <2>3. ~OthersPipelining(q, d)
    BY <1>b DEF Began, BeginPipeline, Orderly
  <2> QED BY <1>b, <2>1, <2>2, <2>3 DEF OthersPipelining
<1> SUFFICES ASSUME NEW q \in Threads, NEW r \in Threads, q # r,
                    requests'[q].at \in PipelineStages, requests'[r].at \in PipelineStages
             PROVE  requests'[q].draft # requests'[r].draft
  BY DEF OnePipeline
<1>1. CASE \E d \in Drafts : Began(q, d) /\ Others(q)
  BY <1>1, <1>b
<1>2. CASE \E d \in Drafts : Began(r, d) /\ Others(r)
  BY <1>2, <1>b
<1>3. CASE requests[q].at \in PipelineStages /\ requests'[q].draft = requests[q].draft
           /\ requests[r].at \in PipelineStages /\ requests'[r].draft = requests[r].draft
  BY <1>3 DEF ServesInv, OnePipeline
<1> QED BY <1>1, <1>2, <1>3, <1>f

-----------------------------------------------------------------------------
\* The checks of a submit, and of a release.
LEMMA CheckedKept ==
    ASSUME ServesInv, Orderly, [Next]_vars, ~Restart, NEW q \in Threads,
           requests'[q] = requests[q]
    PROVE  Checked(q)'
<1> PICK at, d, p, s, todo :
       /\ requests[q].at = at /\ requests[q].draft = d /\ requests[q].payload = p
       /\ requests[q].score = s /\ requests[q].todo = todo
  OBVIOUS
<1>t. Typed /\ OffersInv /\ SafeInv /\ Checked(q) /\ ThreadOffers(q) /\ Grows
  BY GrowsAlways DEF ServesInv, OffersInv, SafeInv
<1>d. at \notin OffDraft => d \in Drafts
  BY <1>t DEF Typed, Placed
<1>1. ASSUME at \in {"kill switch", "score now"}
      PROVE  drafts'[d].status \notin Absent
  <2>1. d \in Drafts /\ drafts[d].status \notin Absent
    BY <1>t, <1>d, <1>1 DEF OffDraft, Checked
  <2>2. ~ \E e \in Drafts : Sweep(e)
    BY DEF Orderly, Sweep
  <2> QED BY <1>t, <2>1, <2>2, EntriesKept DEF EntryKept
<1>2. at \in SignedStages \ {"run row"} =>
         /\ shown'[d][p] = shown[d][p]
         /\ Served(d, p) => Served(d, p)'
  <2> SUFFICES ASSUME at \in SignedStages
               PROVE  shown'[d][p] = shown[d][p] /\ (Served(d, p) => Served(d, p)')
    OBVIOUS
  <2>1. Offered(d, p) /\ p \in Payloads /\ d \in Drafts
    BY <1>t, <1>d, PipelineInHand DEF ThreadOffers, Offered
  <2> QED BY <2>1, ShownStays
<1>3. at \in RowStages => \A e \in todo : releases'[e].due
  BY <1>t DEF Checked, ThreadOffers, Grows
<1>4. at = "run row" => releases'[d].due
  BY <1>t, <1>d DEF Checked, ThreadOffers, Grows, OffDraft
<1>5. {"safeguards", "schedule", "execute"} \subseteq SignedStages \ {"run row"}
  BY DEF SignedStages
<1>6. /\ at = "safeguards" => s # "BLOCK" /\ ScamRank[s] >= ScamRank[shown'[d][p]]
      /\ at \in {"schedule", "execute"} => Served(d, p)'
      /\ at = "execute" => ~release_delay(shown'[d][p])
  BY <1>t, <1>2, <1>5 DEF Checked
<1>7. /\ requests'[q].at = at /\ requests'[q].draft = d /\ requests'[q].payload = p
      /\ requests'[q].score = s /\ requests'[q].todo = todo
  OBVIOUS
<1> QED BY <1>1, <1>3, <1>4, <1>6, <1>7 DEF Checked, Served

\* A thread outside the submits and the releases has nothing to know.
LEMMA CheckedElsewhere ==
    ASSUME NEW r \in Threads, requests'[r].at \notin SignedStages \cup RowStages
    PROVE  Checked(r)'
<1>1. /\ requests'[r].at \notin {"kill switch", "score now", "safeguards", "schedule", "execute"}
      /\ requests'[r].at \notin RowStages /\ requests'[r].at # "run row"
  BY DEF SignedStages
<1> QED BY <1>1 DEF Checked

\* The rows a thread has left were due, and still are.
LEMMA CheckedRows ==
    ASSUME ServesInv, [Next]_vars, NEW r \in Threads,
           requests[r].at \in RowStages, requests'[r].at \in RowStages,
           requests'[r].todo \subseteq requests[r].todo,
           requests'[r].at = "run row" => requests'[r].draft \in requests[r].todo
    PROVE  Checked(r)'
<1>1. ThreadOffers(r) /\ Checked(r) /\ Grows
  BY GrowsAlways DEF ServesInv, OffersInv
<1>2. \A d \in requests[r].todo : releases'[d].due
  BY <1>1 DEF ThreadOffers, Checked, Grows
<1>3. requests'[r].at \notin {"kill switch", "score now", "safeguards", "schedule", "execute"}
  BY DEF RowStages
<1>4. /\ \A d \in requests'[r].todo : releases'[d].due
      /\ requests'[r].at = "run row" => releases'[requests'[r].draft].due
  BY <1>2
<1> QED BY <1>3, <1>4 DEF Checked

LEMMA CheckedMoves ==
    ASSUME ServesInv, Orderly, [Next]_vars, NEW r \in Threads, Advances(r)
    PROVE  Checked(r)'
<1> PICK d, p, s :
       requests[r].draft = d /\ requests[r].payload = p /\ requests[r].score = s
  OBVIOUS
<1>t. Typed /\ OffersInv /\ Checked(r) /\ ThreadOffers(r) /\ requests[r] \in Request_
  BY DEF ServesInv, OffersInv, SafeInv, Typed, TypeOK
<1>d. requests[r].at \notin OffDraft => d \in Drafts
  BY <1>t DEF Typed, Placed
<1>g. \A at : GoTo(r, at) => requests'[r].at = at /\ SameWork(r)
  BY <1>t, GoToMoves
<1>r. Return(r) => Checked(r)'
  BY <1>t, ReturnMoves, CheckedElsewhere DEF Quits, Tracked
<1>k. shown' = shown /\ served' = served
  BY AdvancesKeep
<1>1. CASE Resolve(r) \/ Freezes(r) \/ WriteFloor(r) \/ RecordAttempt(r) \/ StopOrAsk(r)
           \/ CreateHold(r) \/ IssueCode(r)
  <2>1. Return(r) \/ \E at \in PipelineStages : GoTo(r, at)
    BY <1>1 DEF Resolve, Freezes, WriteFloor, RecordAttempt, StopOrAsk, CreateHold, IssueCode,
                PipelineStages
  <2> QED BY <1>g, <1>r, <2>1, StagesApart, CheckedElsewhere
<1>2. CASE Score(r)
  <2>1. PICK x \in Scores : requests' = [requests EXCEPT ![r].at = "floor",
                         ![r].score = stricter(drafts[requests[r].draft].floor, x)]
    BY <1>2 DEF Score
  <2> DEFINE new == [requests[r] EXCEPT !.at = "floor",
                       !.score = stricter(drafts[requests[r].draft].floor, x)]
  <2>2. requests' = [requests EXCEPT ![r] = new]
    BY <2>1
  <2>3. new.at = "floor" /\ "floor" \notin SignedStages \cup RowStages
    BY <1>t DEF Request_, SignedStages, RowStages
  <2> HIDE DEF new
  <2> QED BY <1>t, <2>2, <2>3, PutMoves, CheckedElsewhere
<1>3. CASE CheckDraft(r)
  <2>1. CASE GoTo(r, "kill switch") /\ executable(d, p)
    <3>1. requests'[r].at = "kill switch" /\ requests'[r].draft = d /\ drafts' = drafts
      BY <1>3, <1>g, <2>1 DEF CheckDraft, SameWork, SameDraft
    <3>2. drafts'[d].status \notin Absent
      BY <2>1, <3>1 DEF executable, Absent
    <3> QED BY <3>1, <3>2 DEF Checked, RowStages
  <2> QED BY <1>3, <1>r, <2>1 DEF CheckDraft
<1>4. CASE CheckFreeze(r)
  <2>1. CASE GoTo(r, "score now")
    <3>1. requests'[r].at = "score now" /\ requests'[r].draft = d /\ drafts' = drafts
      BY <1>4, <1>g, <2>1 DEF CheckFreeze, SameWork, SameDraft
    <3>2. drafts'[d].status \notin Absent
      BY <1>4, <1>t, <3>1 DEF CheckFreeze, At, Checked
    <3> QED BY <3>1, <3>2 DEF Checked, RowStages
  <2> QED BY <1>4, <1>r, <2>1 DEF CheckFreeze
<1>5. CASE CheckScore(r)
  <2>0. /\ requests[r].at = "score now" /\ d \in Drafts /\ drafts[d].status \notin Absent
        /\ Offered(d, p) /\ p \in Payloads /\ drafts[d].floor \in Outcomes
    <3>1. requests[r].at = "score now" /\ d \in Drafts
      BY <1>5, <1>d DEF CheckScore, At, OffDraft
    <3>2. drafts[d].status \notin Absent /\ Offered(d, p) /\ drafts[d].floor \in Outcomes
      BY <1>t, <3>1 DEF Checked, ThreadOffers, SignedStages, Typed, TypeOK, Draft_
    <3> QED BY <3>1, <3>2 DEF Offered
  <2>1. ASSUME NEW fresh \in Scores,
               stricter(drafts[d].floor, fresh) # "BLOCK",
               requests' = [requests EXCEPT ![r].at = "safeguards",
                                            ![r].score = stricter(drafts[d].floor, fresh)]
        PROVE  Checked(r)'
    <3> DEFINE outcome == stricter(drafts[d].floor, fresh)
               new == [requests[r] EXCEPT !.at = "safeguards", !.score = outcome]
    <3>1. requests' = [requests EXCEPT ![r] = new]
      BY <2>1
    <3>2. /\ new.at = "safeguards" /\ new.score = outcome /\ new.draft = d /\ new.payload = p
      BY <1>t DEF Request_
    <3>3. /\ outcome \in Outcomes /\ ScamRank[outcome] >= ScamRank[drafts[d].floor]
      BY <2>0, StricterRank, GatewayAssumption
    <3>4. /\ ScamRank[shown[d][p]] <= ScamRank[drafts[d].floor]
          /\ shown[d][p] \in Outcomes
      <4>1. FloorCovers(d) /\ shown[d] \in [Payloads -> Outcomes \cup {"never"}]
        BY <1>t, <2>0 DEF ServesInv, Typed, TypeOK
      <4> QED BY <2>0, <4>1 DEF FloorCovers, Offered
    <3>5. outcome # "BLOCK" /\ ScamRank[outcome] >= ScamRank[shown'[d][p]]
      <4> HIDE DEF outcome
      <4>1. ScamRank[outcome] \in Nat /\ ScamRank[shown[d][p]] \in Nat
            /\ ScamRank[drafts[d].floor] \in Nat
        BY <2>0, <3>3, <3>4, RankType
      <4>2. ScamRank[outcome] >= ScamRank[shown[d][p]]
        BY <3>3, <3>4, <4>1
      <4> QED BY <1>k, <2>1, <4>2 DEF outcome
    <3> HIDE DEF new, outcome
    <3>6. /\ requests'[r].at = "safeguards" /\ requests'[r].score = outcome
          /\ requests'[r].draft = d /\ requests'[r].payload = p
      BY <1>t, <3>1, <3>2, PutMoves
    <3> QED BY <3>5, <3>6 DEF Checked, RowStages
  <2>2. \/ Return(r)
        \/ \E fresh \in Scores :
              /\ stricter(drafts[d].floor, fresh) # "BLOCK"
              /\ requests' = [requests EXCEPT ![r].at = "safeguards",
                                              ![r].score = stricter(drafts[d].floor, fresh)]
    BY <1>5, <2>0 DEF CheckScore
  <2> QED BY <1>r, <2>1, <2>2
<1>6. CASE CheckSafeguards(r)
  <2>0. /\ requests[r].at = "safeguards" /\ d \in Drafts
        /\ Offered(d, p) /\ p \in Payloads /\ shown[d][p] \in Outcomes
        /\ s \in Outcomes \ {"BLOCK"} /\ ScamRank[s] >= ScamRank[shown[d][p]]
    <3>1. requests[r].at = "safeguards" /\ d \in Drafts
      BY <1>6, <1>d DEF CheckSafeguards, At, OffDraft
    <3>2. Offered(d, p) /\ s # "BLOCK" /\ ScamRank[s] >= ScamRank[shown[d][p]]
      BY <1>t, <3>1 DEF Checked, ThreadOffers, SignedStages
    <3>3. shown[d][p] \in Outcomes /\ s \in Outcomes
      BY <1>t, <3>1, <3>2, ThreadRanks DEF Offered, Typed, TypeOK
    <3> QED BY <3>1, <3>2, <3>3 DEF Offered
  <2>1. CASE /\ IF holds[d].status = "NONE" THEN ~needs_hold(s) ELSE HoldServes(d, p)
             /\ s = "HOLD_STEP_UP" => is_confirmed(d, p)
             /\ GoTo(r, IF release_delay(s) THEN "schedule" ELSE "execute")
    <3>1. /\ needs_hold(shown[d][p]) => needs_hold(s)
          /\ shown[d][p] = "HOLD_STEP_UP" => s = "HOLD_STEP_UP"
          /\ release_delay(shown[d][p]) => release_delay(s)
      BY <2>0, StricterAsks
    <3>2. needs_hold(s) => <<"hold", d, p>> \in served
      BY <2>0, <2>1 DEF HoldServes, ServesInv, WaitServed
    <3>3. s = "HOLD_STEP_UP" => <<"code", d, p>> \in served
      BY <2>0, <2>1 DEF is_confirmed, ServesInv, CodeServed
    <3>4. Served(d, p)'
      BY <1>k, <3>1, <3>2, <3>3 DEF Served
    <3>5. /\ requests'[r].at = IF release_delay(s) THEN "schedule" ELSE "execute"
          /\ requests'[r].draft = d /\ requests'[r].payload = p
      BY <1>g, <2>1 DEF SameWork, SameDraft
    <3>6. requests'[r].at = "execute" => ~release_delay(shown'[d][p])
      BY <1>k, <3>1, <3>5
    <3>7. /\ requests'[r].at \in {"schedule", "execute"}
          /\ requests'[r].at \notin RowStages /\ requests'[r].at # "run row"
      BY <3>5 DEF RowStages
    <3> QED BY <3>4, <3>5, <3>6, <3>7 DEF Checked, Served
  <2> QED BY <1>6, <1>r, <2>1 DEF CheckSafeguards
<1>7. CASE RowCheck(r)
  <2>1. PICK e \in requests[r].todo, at \in {"run row", "stop row"} :
           requests' = [requests EXCEPT ![r].at = at, ![r].draft = e,
                          ![r].payload = releases[e].payload, ![r].todo = @ \ {e}]
    BY <1>7 DEF RowCheck
  <2> DEFINE new == [requests[r] EXCEPT !.at = at, !.draft = e,
                       !.payload = releases[e].payload, !.todo = @ \ {e}]
  <2>2. requests' = [requests EXCEPT ![r] = new]
    BY <2>1
  <2>3. new.at = at /\ new.draft = e /\ new.todo = requests[r].todo \ {e}
    BY <1>t DEF Request_
  <2> HIDE DEF new
  <2>4. requests[r].at \in RowStages /\ at \in RowStages
    BY <1>7 DEF RowCheck, At, RowStages
  <2> QED BY <1>t, <2>2, <2>3, <2>4, PutMoves, CheckedRows
<1>8. CASE RowExecute(r) \/ RowExecuteRaises(r) \/ RowStop(r) \/ RowFollows(r)
  <2>1. requests[r].at \in RowStages
    BY <1>8 DEF RowExecute, RowExecuteRaises, RowStop, RowFollows, At, RowStages
  <2>2. \E at \in RowStages \ {"run row"} : GoTo(r, at)
    BY <1>8 DEF RowExecute, RowExecuteRaises, RowStop, RowFollows, RowStages
  <2>3. /\ requests'[r].at \in RowStages \ {"run row"}
        /\ requests'[r].todo = requests[r].todo
    BY <1>g, <2>2 DEF SameWork
  <2> QED BY <2>1, <2>3, CheckedRows
<1> QED BY <1>1, <1>2, <1>3, <1>4, <1>5, <1>6, <1>7, <1>8 DEF Advances

LEMMA CheckedNext ==
    ASSUME ServesInv, Orderly, [Next]_vars, NEW q \in Threads
    PROVE  Checked(q)'
<1>t. Typed /\ Grows
  BY GrowsAlways DEF ServesInv, OffersInv, SafeInv
<1>1. CASE Quits(q)
  BY <1>1, CheckedElsewhere DEF Quits, Tracked
<1>2. CASE ClaimDue(q) /\ requests'[q].at = "rows" /\ requests'[q].todo = DueReleases
  <2>1. \A d \in requests'[q].todo : releases'[d].due
    BY <1>t, <1>2 DEF DueReleases, Grows, Scheduled
  <2> QED BY <1>2, <2>1 DEF Checked
<1>3. CASE requests'[q].at = "resolve"
  <2>1. "resolve" \notin SignedStages \cup RowStages
    BY DEF SignedStages, RowStages
  <2> QED BY <1>3, <2>1, CheckedElsewhere
<1> QED BY <1>t, <1>1, <1>2, <1>3, CheckedKept, CheckedMoves, StepMoves DEF Began

-----------------------------------------------------------------------------
\* The drafts and the ledger.
LEMMA FloorCoversNext ==
    ASSUME ServesInv, [Next]_vars, NEW d \in Drafts
    PROVE  FloorCovers(d)'
<1>t. Typed
  BY DEF ServesInv, OffersInv, SafeInv
<1>0. drafts[d].floor \in Outcomes /\ drafts'[d].floor \in Outcomes
      /\ shown[d] \in [Payloads -> Outcomes \cup {"never"}]
  <2>1. Typed'
    BY <1>t, NextTyped
  <2> QED BY <1>t, <2>1 DEF Typed, TypeOK, Draft_
<1> SUFFICES ASSUME NEW p \in Payloads, shown'[d][p] # "never"
             PROVE  p <= built'[d] /\ ScamRank[shown'[d][p]] <= ScamRank[drafts'[d].floor]
  BY DEF FloorCovers, Offered
<1>1. CASE shown'[d][p] = shown[d][p]
  <2>1. /\ p <= built[d] /\ ScamRank[shown[d][p]] <= ScamRank[drafts[d].floor]
        /\ shown[d][p] \in Outcomes
    BY <1>0, <1>1 DEF ServesInv, FloorCovers, Offered
  <2>2. ScamRank[drafts[d].floor] <= ScamRank[drafts'[d].floor]
    BY FloorsRise
  <2>3. /\ ScamRank[drafts[d].floor] \in Nat /\ ScamRank[drafts'[d].floor] \in Nat
        /\ ScamRank[shown[d][p]] \in Nat
    BY <1>0, <2>1, RankType
  <2> QED BY <1>1, <1>t, <2>1, <2>2, <2>3, BuiltGrows DEF Payloads
<1>2. ASSUME NEW r \in Threads, OfferReady(r), requests[r].draft = d, requests[r].payload = p,
             shown'[d][p] = requests[r].score, drafts[d].floor = drafts'[d].floor
      PROVE  p <= built'[d] /\ ScamRank[shown'[d][p]] <= ScamRank[drafts'[d].floor]
  <2>1. p = built[d] /\ ScamRank[requests[r].score] <= ScamRank[drafts[d].floor]
    BY <1>2 DEF OfferReady, At, ServesInv, Builds, PipelineStages, FloorStages
  <2> QED BY <1>2, <1>t, <2>1, BuiltGrows
<1> QED BY <1>1, <1>2, ShownOnce

LEMMA ScheduledServedNext ==
    ASSUME ServesInv, [Next]_vars, NEW d \in Drafts
    PROVE  ScheduledServed(d)'
<1>t. Typed /\ Grows /\ OffersInv
  BY GrowsAlways DEF ServesInv, OffersInv, SafeInv
<1>1. CASE Scheduled(d)
  <2>1. PICK p : p = releases[d].payload
    OBVIOUS
  <2>2. Served(d, p) /\ Offered(d, p) /\ p \in Payloads /\ releases'[d].payload = p
    BY <1>t, <1>1, <2>1 DEF ServesInv, ScheduledServed, OffersInv, ScheduledOffered, Offered, Grows
  <2>3. Served(d, p)'
    BY <2>2, ShownStays
  <2> QED BY <2>2, <2>3 DEF ScheduledServed, Served
<1>2. CASE ~Scheduled(d) /\ Scheduled(d)'
  <2>1. PICK r \in Threads : /\ Schedule(r) /\ requests[r].draft = d
                             /\ releases'[d].payload = requests[r].payload
    BY <1>t, <1>2, ScheduleOnly
  <2>2. Served(d, requests[r].payload) /\ shown' = shown /\ served' = served
    BY <2>1 DEF Schedule, At, ServesInv, Checked, seen
  <2> QED BY <2>1, <2>2 DEF ScheduledServed, Served
<1> QED BY <1>1, <1>2 DEF ScheduledServed

LEMMA RanServedNext ==
    ASSUME ServesInv, [Next]_vars, NEW d \in Drafts
    PROVE  RanServed(d)'
<1>t. Typed /\ Grows /\ OffersInv
  BY GrowsAlways DEF ServesInv, OffersInv, SafeInv
<1>1. CASE executions[d].outcome \in Ran
  <2>1. PICK p : p = executions[d].payload
    OBVIOUS
  <2>2. /\ Served(d, p) /\ Offered(d, p) /\ p \in Payloads
        /\ release_delay(shown[d][p]) => Scheduled(d) /\ releases[d].due /\ releases[d].payload = p
    BY <1>t, <1>1, <2>1 DEF ServesInv, RanServed, OffersInv, RanOffered, Offered
  <2>3. shown'[d][p] = shown[d][p] /\ Served(d, p)'
    BY <2>2, ShownStays
  <2>4. executions'[d].payload = p
    BY <1>t, <1>1, <2>1 DEF Grows, Ran
  <2>5. release_delay(shown'[d][p]) =>
           Scheduled(d)' /\ releases'[d].due /\ releases'[d].payload = p
    BY <1>t, <2>2, <2>3 DEF Grows
  <2> QED BY <2>3, <2>4, <2>5 DEF RanServed, Served, Scheduled
<1>2. CASE executions[d].outcome # "NONE" /\ executions[d].outcome \notin Ran
  <2>1. executions'[d] = executions[d]
    BY <1>t, <1>2 DEF Grows
  <2> QED BY <1>2, <2>1 DEF RanServed
<1>3. CASE executions[d].outcome = "NONE" /\ executions'[d].outcome \in Ran
  <2>1. PICK r \in Threads : /\ Execute(r) \/ RowExecute(r)
                             /\ requests[r].draft = d
                             /\ executions'[d].payload = requests[r].payload
    BY <1>t, <1>3, RunOffers
  <2>2. PICK p : p = requests[r].payload
    OBVIOUS
  <2>3. shown' = shown /\ served' = served /\ releases' = releases
    BY <2>1 DEF Execute, RowExecute, seen
  <2>4. CASE Execute(r)
    <3>1. Served(d, p) /\ ~release_delay(shown[d][p])
      BY <2>1, <2>2, <2>4 DEF Execute, At, ServesInv, Checked
    <3> QED BY <2>1, <2>2, <2>3, <3>1 DEF RanServed, Served
  <2>5. CASE RowExecute(r)
    <3>1. Scheduled(d) /\ releases[d].due /\ p = releases[d].payload
      BY <2>1, <2>2, <2>5, <1>t DEF RowExecute, At, ServesInv, Checked, OffersInv, ThreadOffers
    <3>2. Served(d, p)
      BY <3>1 DEF ServesInv, ScheduledServed
    <3> QED BY <2>1, <2>2, <2>3, <3>1, <3>2 DEF RanServed, Served, Scheduled
  <2> QED BY <2>1, <2>4, <2>5
<1>4. CASE executions'[d].outcome \notin Ran
  BY <1>4 DEF RanServed
<1> QED BY <1>1, <1>2, <1>3, <1>4

LEMMA ServesNext ==
    ASSUME Orderly, ServesInv, [Next]_vars
    PROVE  ServesInv'
<1>1. OffersInv' /\ OnePipeline'
  BY OffersNext, OnePipelineNext DEF ServesInv
<1>2. \A r \in Threads : Builds(r)' /\ Checked(r)'
  BY BuildsNext, CheckedNext
<1>3. \A d \in Drafts : FloorCovers(d)' /\ WaitServed(d)' /\ CodeServed(d)'
  BY FloorCoversNext, WaitsServed, CodesServed
<1>4. \A d \in Drafts : ScheduledServed(d)' /\ RanServed(d)'
  BY ScheduledServedNext, RanServedNext
<1> QED BY <1>1, <1>2, <1>3, <1>4 DEF ServesInv

LEMMA ServesInit == Init => ServesInv
<1> SUFFICES ASSUME Init PROVE ServesInv
  OBVIOUS
<1>1. \A r \in Threads : requests[r].at = "idle"
  BY DEF Init, Idle
<1>2. "idle" \notin PipelineStages \cup RowStages
  BY DEF PipelineStages, RowStages
<1>3. OnePipeline /\ \A r \in Threads : Builds(r) /\ Checked(r)
  BY <1>1, <1>2 DEF OnePipeline, Builds, Checked
<1>4. \A d \in Drafts : FloorCovers(d) /\ WaitServed(d) /\ CodeServed(d)
  BY DEF Init, FloorCovers, WaitServed, CodeServed, Offered
<1>5. \A d \in Drafts : ScheduledServed(d) /\ RanServed(d)
  BY DEF Init, ScheduledServed, RanServed, Scheduled, Ran
<1> QED BY <1>3, <1>4, <1>5, OffersInit DEF ServesInv

\* The safeguards a payload was offered with are the ones it went through before
\* it ran -- its own hold ran out, its own phone code was entered, its release
\* delay passed -- whatever else the threads do, fail at or lose in a restart
\* (policy/safety.py, gateway.py submit, delayed.py).  The page must wait for an
\* answer before it sends the next (frontend/app.js disables a card's buttons on
\* the first answer), and the draft must not run out between a submit's checks:
\* a draft the store dropped has no floor, so a lower score then counts.
THEOREM SafeguardsTheorem ==
    ASSUME Orderly
    PROVE  Spec => []SafeguardsServed
<1>1. Init => ServesInv
  BY ServesInit
<1>2. ServesInv /\ [Next]_vars => ServesInv'
  BY ServesNext
<1>3. ServesInv => SafeguardsServed
  BY DEF ServesInv, RanServed, Served, SafeguardsServed
<1> QED BY <1>1, <1>2, <1>3, PTL DEF Spec

-----------------------------------------------------------------------------
\* The kill switch: who may still debit while a freeze is in force.
FlightStages == {"score now", "safeguards", "execute", "run row"}

LEMMA FlightMoves ==
    ASSUME Typed, NEW r \in Threads, Work(r), frozen
    PROVE  requests'[r].at \in FlightStages => requests[r].at \in FlightStages
<1>t. requests[r] \in Request_
  BY DEF Typed, TypeOK
<1>a. FlightStages \subseteq Tracked
  BY DEF FlightStages, Tracked, SignedStages
<1> SUFFICES ASSUME requests'[r].at \in FlightStages
             PROVE  requests[r].at \in FlightStages
  OBVIOUS
<1>q. Advances(r) /\ ~Return(r)
  BY <1>a, WorkMoves, ReturnMoves DEF Quits
<1>g. \A at : GoTo(r, at) => requests'[r].at = at
  BY GoToMoves
<1>1. CASE Resolve(r) \/ Freezes(r) \/ WriteFloor(r) \/ RecordAttempt(r) \/ StopOrAsk(r)
           \/ CreateHold(r) \/ IssueCode(r) \/ CheckDraft(r)
  <2>1. \E at \in Stages \ FlightStages : GoTo(r, at)
    BY <1>1, <1>q DEF Resolve, Freezes, WriteFloor, RecordAttempt, StopOrAsk, CreateHold,
                      IssueCode, CheckDraft, FlightStages, Stages
  <2> QED BY <1>g, <2>1
<1>2. CASE Score(r)
  <2>1. PICK s \in Scores : requests' = [requests EXCEPT ![r].at = "floor",
                         ![r].score = stricter(drafts[requests[r].draft].floor, s)]
    BY <1>2 DEF Score
  <2> DEFINE new == [requests[r] EXCEPT !.at = "floor",
                       !.score = stricter(drafts[requests[r].draft].floor, s)]
  <2>2. requests' = [requests EXCEPT ![r] = new]
    BY <2>1
  <2>3. new.at = "floor"
    BY <1>t DEF Request_
  <2> HIDE DEF new
  <2> QED BY <2>2, <2>3, PutMoves DEF FlightStages
<1>3. CASE CheckFreeze(r)
  BY <1>3, <1>q DEF CheckFreeze
<1>4. CASE CheckScore(r) \/ CheckSafeguards(r)
  BY <1>4 DEF CheckScore, CheckSafeguards, At, FlightStages
<1>5. CASE RowCheck(r)
  <2>1. PICK d \in requests[r].todo :
           requests' = [requests EXCEPT ![r].at = "stop row", ![r].draft = d,
                          ![r].payload = releases[d].payload, ![r].todo = @ \ {d}]
    BY <1>5 DEF RowCheck
  <2> DEFINE new == [requests[r] EXCEPT !.at = "stop row", !.draft = d,
                       !.payload = releases[d].payload, !.todo = @ \ {d}]
  <2>2. requests' = [requests EXCEPT ![r] = new]
    BY <2>1
  <2>3. new.at = "stop row"
    BY <1>t DEF Request_
  <2> HIDE DEF new
  <2> QED BY <2>2, <2>3, PutMoves DEF FlightStages
<1>6. CASE RowExecute(r) \/ RowExecuteRaises(r) \/ RowStop(r) \/ RowFollows(r)
  <2>1. \E at \in Stages \ FlightStages : GoTo(r, at)
    BY <1>6 DEF RowExecute, RowExecuteRaises, RowStop, RowFollows, FlightStages, Stages
  <2> QED BY <1>g, <2>1
<1> QED BY <1>q, <1>1, <1>2, <1>3, <1>4, <1>5, <1>6 DEF Advances

\* Once the switch is on, no thread passes its look at it.
LEMMA FlightShrinks ==
    ASSUME Typed, [Next]_vars, frozen
    PROVE  InFlight' \subseteq InFlight
<1>0. \A q \in Threads : q \in InFlight <=> requests[q].at \in FlightStages
  BY DEF InFlight, FlightStages
<1> SUFFICES ASSUME NEW q \in Threads, requests'[q].at \in FlightStages
             PROVE  requests[q].at \in FlightStages
  BY <1>0 DEF InFlight, FlightStages
<1>a. FlightStages \subseteq Tracked /\ "rows" \notin FlightStages /\ "resolve" \notin FlightStages
  BY DEF FlightStages, Tracked, SignedStages
<1>1. ASSUME NEW r \in Threads, Work(r) PROVE requests[q].at \in FlightStages
  <2>1. q # r => requests'[q] = requests[q]
    BY <1>1, WorkMoves DEF Others
  <2> QED BY <1>1, <2>1, FlightMoves
<1>2. ASSUME ~ \E r \in Threads : Work(r) PROVE requests'[q] = requests[q]
  <2>1. ASSUME NEW r \in Threads, ClaimDue(r) PROVE requests'[q] = requests[q]
    <3> DEFINE new == [Idle EXCEPT !.op = "release", !.at = "rows", !.todo = DueReleases]
    <3>1. requests' = [requests EXCEPT ![r] = new]
      BY <2>1 DEF ClaimDue
    <3>2. new.at = "rows"
      BY DEF Idle
    <3> HIDE DEF new
    <3> QED BY <1>a, <3>1, <3>2, PutMoves DEF Others
  <2>2. ASSUME NEW r \in Requests, Begin(r) PROVE requests'[q] = requests[q]
    BY <1>a, <2>2, BeginMoves DEF Others, Quits, Began
  <2>3. ASSUME Environment PROVE requests'[q] = requests[q]
    <3>1. requests' = requests \/ requests' = [r \in Threads |-> Idle]
      BY <2>3 DEF Environment, NonceExpires, ConfirmCode, CodeExpires, HoldElapses,
                  ReleaseFallsDue, Sweep, Restart, memory
    <3>2. Idle.at \notin FlightStages
      BY DEF Idle, FlightStages
    <3> QED BY <3>1, <3>2
  <2>4. CASE UNCHANGED vars
    BY <2>4 DEF vars, memory
  <2> QED BY <1>2, <2>1, <2>2, <2>3, <2>4 DEF Next
<1> QED BY <1>1, <1>2

\* A debit is the run of a thread in flight, which lands with it.
LEMMA FlightLands ==
    ASSUME Typed, [Next]_vars
    PROVE  debits' = debits \/ \E r \in InFlight \ InFlight' :
              /\ requests[r].draft \in Drafts
              /\ debits' = [debits EXCEPT ![requests[r].draft] = @ + 1]
<1>1. ASSUME NEW r \in Threads, Work(r), debits' # debits
      PROVE  /\ r \in InFlight \ InFlight'
             /\ requests[r].draft \in Drafts
             /\ debits' = [debits EXCEPT ![requests[r].draft] = @ + 1]
  <2>1. Execute(r) \/ RowExecute(r)
    BY <1>1
    DEF Work, ResolveStops, Resolve, Freezes, OfferFrozen, Score, WriteFloor, RecordAttempt,
        StopOrAsk, CreateHold, IssueCode, OfferReady, CheckNonce, IssueNonce, BurnNonce,
        CheckPrior, CheckDraft, CheckFreeze, CheckScore, CheckSafeguards, Schedule, ExecuteRaises,
        Respond, ReadToClose, FindToClose, ClaimClose, ClaimCloseLoses, CloseFails, MarkClosed,
        StopRest, RevokeNonces, SnapshotOpen, CloseNext, CancelHolds, LiftFreeze, RowCheck,
        RowsDone, RowExecuteRaises, RowStop, RowFollows, Raises, ledger
  <2>2. requests[r].at \in {"execute", "run row"}
    BY <2>1 DEF Execute, RowExecute, At
  <2>3. requests'[r].at \in {"executed", "row sent"}
    BY <2>1, GoToMoves DEF Execute, RowExecute
  <2>4. requests[r].draft \in Drafts
    BY <2>2 DEF Typed, Placed, OffDraft
  <2>5. debits' = [debits EXCEPT ![requests[r].draft] = @ + 1]
    BY <1>1, <2>1 DEF Execute, RowExecute, Executes
  <2> QED BY <2>2, <2>3, <2>4, <2>5 DEF InFlight
<1>2. CASE \E r \in Threads : ClaimDue(r)
  BY <1>2 DEF ClaimDue
<1>3. CASE \E r \in Requests : Begin(r)
  BY <1>3 DEF Begin, EngageFreeze, BeginUnfreeze, BeginPipeline, AskNonce, Submit, Close, ledger
<1>4. CASE Environment
  BY <1>4 DEF Environment, NonceExpires, ConfirmCode, CodeExpires, HoldElapses,
              ReleaseFallsDue, Sweep, Restart, ledger
<1>5. CASE UNCHANGED vars
  BY <1>5 DEF vars, ledger
<1> QED BY <1>1, <1>2, <1>3, <1>4, <1>5 DEF Next

\* From the first step of a freeze on, whatever restarts, runs out or raises, only
\* threads that had already passed their look at the switch debit, each at most
\* once, and no thread joins them (gateway 3d, release_due, engage_kill_switch).
THEOREM DrainTheorem == Spec => FreezeDrains
<1>1. Typed /\ [Next]_vars =>
         [frozen /\ frozen' =>
             /\ InFlight' \subseteq InFlight
             /\ \A d \in Drafts : debits'[d] # debits[d] =>
                   /\ debits'[d] = debits[d] + 1
                   /\ \E r \in InFlight \ InFlight' : requests[r].draft = d]_vars
  <2> SUFFICES ASSUME Typed, [Next]_vars, frozen
               PROVE  /\ InFlight' \subseteq InFlight
                      /\ \A d \in Drafts : debits'[d] # debits[d] =>
                            /\ debits'[d] = debits[d] + 1
                            /\ \E r \in InFlight \ InFlight' : requests[r].draft = d
    OBVIOUS
  <2>1. InFlight' \subseteq InFlight
    BY FlightShrinks
  <2>2. ASSUME NEW d \in Drafts, debits'[d] # debits[d]
        PROVE  /\ debits'[d] = debits[d] + 1
               /\ \E r \in InFlight \ InFlight' : requests[r].draft = d
    <3>1. debits \in [Drafts -> Nat]
      BY DEF Typed, TypeOK
    <3>2. PICK r \in InFlight \ InFlight' :
             /\ requests[r].draft \in Drafts
             /\ debits' = [debits EXCEPT ![requests[r].draft] = @ + 1]
      BY <2>2, FlightLands
    <3> QED BY <2>2, <3>1, <3>2
  <2> QED BY <2>1, <2>2
<1>2. Spec => []Typed
  BY InitTyped, NextTyped, PTL DEF Spec
<1> QED BY <1>1, <1>2, PTL DEF Spec, FreezeDrains
=============================================================================
