--------------------------- MODULE ClearanceProofs ---------------------------
(* Proofs about Clearance, for any drafts, requests, texts and limits.       *)
(*                                                                           *)
(* 1. The state (IInv): the types, that an attempt row only ever rises, and  *)
(*    that what a draft was ever scored to need was served.                  *)
(* 2. The score: a fact that a plan shows is in its assessment, and the      *)
(*    points of a group are at least those of its strongest fact.            *)
(* 3. With what the gateway's score is shown (Shown): no smaller retry       *)
(*    passes unasked, and no first payment to a changed number passes plain. *)
(* 4. The limits (LimitInv): what the policy engine lets pass fits the day   *)
(*    and the window with all its legs, and still does when it is paid, if   *)
(*    one payment at a time is between its check and its debit.              *)
EXTENDS Clearance, SumTheorems, SequenceTheorems, TLAPS

OutcomeSet == {"ALLOW", "WARN", "DELAY", "HOLD", "HOLD_STEP_UP", "BLOCK"}

\* What the bounds are.
LEMMA Bounds ==
  /\ Start \in Nat \ {0} /\ Ticks \subseteq Nat /\ HoldSeconds \in Nat
  /\ MaxChanges \in Nat /\ MaxEvents \in Nat /\ IsFiniteSet(Drafts)
BY ClearanceAssumption

\* Outcomes are ranked in the order they are listed in.
LEMMA RankOf ==
  /\ Scam!Rank("None") = 1 /\ Scam!Rank("ALLOW") = 1 /\ Scam!Rank("WARN") = 2
  /\ Scam!Rank("DELAY") = 3 /\ Scam!Rank("HOLD") = 4 /\ Scam!Rank("HOLD_STEP_UP") = 5
  /\ Scam!Rank("BLOCK") = 6
<1> DEFINE O == Scam!Outcomes
<1>1. /\ DOMAIN O = 1 .. 6
      /\ O[1] = "ALLOW" /\ O[2] = "WARN" /\ O[3] = "DELAY" /\ O[4] = "HOLD"
      /\ O[5] = "HOLD_STEP_UP" /\ O[6] = "BLOCK"
  BY DEF Scam!Outcomes
<1> HIDE DEF O
<1>2. \A o \in OutcomeSet : \E i \in DOMAIN O : O[i] = o
  BY <1>1 DEF OutcomeSet
<1>3. ASSUME NEW o \in OutcomeSet
      PROVE  Scam!Rank(o) \in DOMAIN O /\ O[Scam!Rank(o)] = o
  <2>1. PICK i \in DOMAIN O : O[i] = o
    BY <1>2
  <2>2. Scam!Rank(o) = CHOOSE j \in DOMAIN O : O[j] = o
    BY DEF Scam!Rank, OutcomeSet, O
  <2> QED BY <2>1, <2>2
<1>4. Scam!Rank("None") = 1
  BY DEF Scam!Rank
<1> QED BY <1>1, <1>3, <1>4 DEF OutcomeSet

\* Whatever the facts and the words, decide() has one of the outcomes.
LEMMA DecideOutcome ==
  ASSUME NEW facts, NEW words, NEW never, NEW small
  PROVE  Scam!Decide(facts, words, never, small) \in OutcomeSet
BY DEF Scam!Decide, OutcomeSet

LEMMA AssessOutcome ==
  ASSUME NEW plan, NEW ctx
  PROVE  Scam!Assess(plan, ctx).outcome \in OutcomeSet
<1>1. ASSUME NEW phrases, NEW facts, NEW words
      PROVE  Scam!Weigh(plan, phrases, facts, words).outcome \in OutcomeSet
  <2>1. \E o \in OutcomeSet, warned \in BOOLEAN :
          Scam!Weigh(plan, phrases, facts, words).outcome
            = IF o = "ALLOW" /\ warned THEN "WARN" ELSE o
    BY DecideOutcome DEF Scam!Weigh
  <2> QED BY <2>1 DEF OutcomeSet
<1> QED BY <1>1 DEF Scam!Assess
---------------------------------------------------------------------------
(* The invariant.                                                            *)

Statuses == {"none", "blocked", "cancelled", "executed"} \union Open
Fields == {"status", "plan", "text", "questions", "tries", "purpose", "unanswered", "floor",
           "started", "created", "heldUntil", "code", "signedAt", "releaseAt", "paidAt"}

RowShape(a) ==
  /\ {"draft", "leg", "outcome", "asked", "status", "updated"} \subseteq DOMAIN a
  /\ a.draft \in Drafts /\ a.outcome \in OutcomeSet
  /\ a.status \in {"OPEN", "SENT", "STOPPED"}

\* The rows of an open draft are of its transfers, open, and no higher than its
\* floor: nothing the user was shown is forgotten by the draft.
RowsBelow(d, dr, rows) ==
  \A a \in rows : a.draft = d =>
    /\ a.status = "OPEN" /\ a.leg \in DOMAIN dr.plan /\ IsTransfer(dr.plan[a.leg])
    /\ Scam!Rank(a.outcome) <= Scam!Rank(dr.floor)

\* A signed draft arranged what its floor needs; one that waits, waits for it.
Arranged(dr, time) ==
  /\ dr.floor # "BLOCK" /\ (dr.floor = "HOLD_STEP_UP" => dr.code = "confirmed")
  /\ dr.signedAt \in Nat /\ dr.signedAt <= time
  /\ dr.status = "checked" => dr.floor \in {"ALLOW", "WARN"}
  /\ dr.status # "checked" => dr.releaseAt = dr.signedAt + Scam!ReleaseDelaySeconds
  /\ dr.status = "releasing" => time >= dr.releaseAt

Served(d, dr, rows) ==
  \A a \in rows : a.draft = d =>
    /\ a.outcome = "HOLD_STEP_UP" => dr.code = "confirmed"
    /\ dr.paidAt >= dr.signedAt + Scam!ReleaseDelay(a.outcome)

DraftShape(dr) ==
  /\ Fields \subseteq DOMAIN dr /\ dr.status \in Statuses
  /\ dr.tries \in 0 .. Scam!AnswerTries
  /\ dr.status = "asking" => dr.tries < Scam!AnswerTries

DraftInv(d, dr, rows, time) ==
  /\ DraftShape(dr)
  /\ dr.status = "none" => \A a \in rows : a.draft # d
  /\ dr.status \in Open => dr.floor \in OutcomeSet /\ RowsBelow(d, dr, rows)
  /\ dr.status \in {"checked", "scheduled", "releasing"} => Arranged(dr, time)
  /\ dr.status = "executed" => Served(d, dr, rows)

Counters ==
  /\ now \in Nat /\ ticks \in Nat /\ changes \in Nat
  /\ ticks <= MaxEvents /\ changes <= MaxChanges
  /\ dests = [p \in Payees |-> dests[p]]
  /\ \A p \in Payees : /\ {"version", "changed"} \subseteq DOMAIN dests[p]
                       /\ dests[p].version \in 1 .. 1 + changes

Rows == \A a \in attempts : RowShape(a)

IInv ==
  /\ Counters /\ Rows
  /\ drafts = [d \in Drafts |-> drafts[d]]
  /\ \A d \in Drafts : DraftInv(d, drafts[d], attempts, now)

\* A row that is still there, or took its place, is no lower.
Rises(a, b) ==
  /\ b.draft = a.draft /\ b.leg = a.leg
  /\ Scam!Rank(b.outcome) >= Scam!Rank(a.outcome)
  /\ a.asked => b.asked
  /\ a.status # "OPEN" => b = a
Risen(rows, after) == \A a \in rows : \E b \in after : Rises(a, b)

LEMMA ClosedShape ==
  ASSUME NEW status \in {"blocked", "cancelled"}, NEW d, NEW rows, NEW time
  PROVE  DraftInv(d, Closed(status), rows, time)
BY DEF Closed, Blank, DraftInv, DraftShape, Statuses, Fields, Open, Scam!AnswerTries

\* A draft that a step leaves alone keeps its part of the invariant, when its
\* rows keep their outcomes and the clock does not go back.
LEMMA Framed ==
  ASSUME NEW d, NEW dr, NEW rows, NEW after, NEW time \in Nat, NEW later \in Nat, later >= time,
         DraftInv(d, dr, rows, time),
         \A b \in after : b.draft = d => b \in rows
  PROVE  DraftInv(d, dr, after, later)
<1>1. ASSUME Arranged(dr, time), dr.releaseAt \in Nat \/ dr.status = "checked"
      PROVE  Arranged(dr, later)
  BY <1>1 DEF Arranged
<1>2. Arranged(dr, time) => dr.releaseAt \in Nat \/ dr.status = "checked"
  BY DEF Arranged, Scam!ReleaseDelaySeconds
<1>3. RowsBelow(d, dr, rows) => RowsBelow(d, dr, after)
  BY DEF RowsBelow
<1>4. Served(d, dr, rows) => Served(d, dr, after)
  BY DEF Served
<1> QED BY <1>1, <1>2, <1>3, <1>4 DEF DraftInv

\* Every row is at least where it was if it is still there.
LEMMA Stays == ASSUME Rows, NEW after, attempts \subseteq after PROVE Risen(attempts, after)
<1> SUFFICES ASSUME NEW a \in attempts PROVE Rises(a, a)
  BY DEF Risen
<1>1. Scam!Rank(a.outcome) \in Int
  BY RankOf DEF Rows, RowShape, OutcomeSet
<1> QED BY <1>1 DEF Rises

---------------------------------------------------------------------------
(* Closing a draft's rows.                                                   *)

\* A row whose status is all that changes, and that only when it was open.
LEMMA RowClosed ==
  ASSUME NEW a, RowShape(a), NEW status \in {"SENT", "STOPPED"}, NEW time,
         NEW b, b = [a EXCEPT !.status = status, !.updated = time]
  PROVE  /\ RowShape(b) /\ b.draft = a.draft /\ b.outcome = a.outcome
         /\ a.status = "OPEN" => Rises(a, b)
         /\ Rises(a, a)
<1>1. /\ DOMAIN b = DOMAIN a /\ b.status = status
      /\ b.draft = a.draft /\ b.leg = a.leg /\ b.outcome = a.outcome /\ b.asked = a.asked
  BY DEF RowShape
<1>2. Scam!Rank(a.outcome) \in Int
  BY RankOf DEF RowShape, OutcomeSet
<1> QED BY <1>1, <1>2 DEF RowShape, Rises

LEMMA Marked ==
  ASSUME Rows, NEW d \in Drafts, NEW status \in {"SENT", "STOPPED"}
  PROVE  /\ Risen(attempts, Mark(d, status))
         /\ \A b \in Mark(d, status) :
              /\ RowShape(b)
              /\ b.draft # d => b \in attempts
              /\ \E a \in attempts : b.draft = a.draft /\ b.outcome = a.outcome
<1> DEFINE shut(a) == [a EXCEPT !.status = status, !.updated = now]
           new(a) == IF a.draft = d /\ a.status = "OPEN" THEN shut(a) ELSE a
<1>1. Mark(d, status) = {new(a) : a \in attempts}
  BY DEF Mark
<1>2. ASSUME NEW a \in attempts
      PROVE  /\ RowShape(new(a)) /\ Rises(a, new(a))
             /\ new(a).draft # d => new(a) = a
             /\ new(a).draft = a.draft /\ new(a).outcome = a.outcome
  <2>1. RowShape(a)
    BY DEF Rows
  <2>2. /\ RowShape(shut(a)) /\ shut(a).draft = a.draft /\ shut(a).outcome = a.outcome
        /\ a.status = "OPEN" => Rises(a, shut(a))
        /\ Rises(a, a)
    BY <2>1, RowClosed
  <2> HIDE DEF shut
  <2> QED BY <2>1, <2>2
<1> HIDE DEF new
<1> QED BY <1>1, <1>2 DEF Risen

\* What Unfreeze does to the rows.
OpenStopped == {IF a.status = "OPEN" THEN [a EXCEPT !.status = "STOPPED", !.updated = now]
                ELSE a : a \in attempts}

LEMMA UnfrozenRows ==
  ASSUME Rows
  PROVE  /\ Risen(attempts, OpenStopped)
         /\ \A b \in OpenStopped :
              /\ RowShape(b)
              /\ \E a \in attempts : b.draft = a.draft /\ b.outcome = a.outcome
<1> DEFINE shut(a) == [a EXCEPT !.status = "STOPPED", !.updated = now]
           new(a) == IF a.status = "OPEN" THEN shut(a) ELSE a
<1>1. OpenStopped = {new(a) : a \in attempts}
  BY DEF OpenStopped
<1>2. ASSUME NEW a \in attempts
      PROVE  /\ RowShape(new(a)) /\ Rises(a, new(a))
             /\ new(a).draft = a.draft /\ new(a).outcome = a.outcome
  <2>1. RowShape(a)
    BY DEF Rows
  <2>2. /\ RowShape(shut(a)) /\ shut(a).draft = a.draft /\ shut(a).outcome = a.outcome
        /\ a.status = "OPEN" => Rises(a, shut(a))
        /\ Rises(a, a)
    BY <2>1, RowClosed
  <2> HIDE DEF shut
  <2> QED BY <2>1, <2>2
<1> HIDE DEF new
<1> QED BY <1>1, <1>2 DEF Risen

---------------------------------------------------------------------------
(* The pipeline.                                                             *)

RecordedRow(d, plan, outcome, asked, status, i) ==
  [draft |-> d, leg |-> i, payee |-> plan[i].payee, amount |-> plan[i].amount,
   outcome |-> outcome, status |-> status, updated |-> now,
   asked |-> asked \/ \E a \in attempts : a.draft = d /\ a.leg = i /\ a.asked]

LEMMA Recorded ==
  ASSUME Rows, NEW d \in Drafts, NEW plan, NEW outcome \in OutcomeSet, NEW asked,
         NEW status \in {"OPEN", "STOPPED"}
  PROVE  /\ \A b \in Record(d, plan, outcome, asked, status) :
              /\ RowShape(b)
              /\ b.draft # d => b \in attempts
              /\ b.draft = d => /\ b.outcome = outcome /\ b.status = status
                                /\ b.leg \in DOMAIN plan /\ IsTransfer(plan[b.leg])
         /\ (\A a \in attempts : a.draft = d =>
               /\ a.status = "OPEN" /\ a.leg \in DOMAIN plan /\ IsTransfer(plan[a.leg])
               /\ Scam!Rank(a.outcome) <= Scam!Rank(outcome))
            => Risen(attempts, Record(d, plan, outcome, asked, status))
<1> DEFINE new(i) == RecordedRow(d, plan, outcome, asked, status, i)
           legs == {j \in DOMAIN plan : IsTransfer(plan[j])}
<1>1. Record(d, plan, outcome, asked, status)
        = (attempts \ {a \in attempts : a.draft = d}) \union {new(i) : i \in legs}
  BY DEF Record, RecordedRow
<1>2. ASSUME NEW i PROVE
        /\ RowShape(new(i)) /\ new(i).draft = d /\ new(i).leg = i
        /\ new(i).outcome = outcome /\ new(i).status = status
        /\ \A a \in attempts : a.draft = d /\ a.leg = i /\ a.asked => new(i).asked
  BY DEF RowShape, RecordedRow
<1>3. \A a \in attempts : RowShape(a) /\ Scam!Rank(a.outcome) \in Int
  BY RankOf DEF Rows, RowShape, OutcomeSet
<1>4. Scam!Rank(outcome) \in Int
  BY RankOf DEF OutcomeSet
<1> HIDE DEF new
<1>5. \A b \in Record(d, plan, outcome, asked, status) :
              /\ RowShape(b)
              /\ b.draft # d => b \in attempts
              /\ b.draft = d => /\ b.outcome = outcome /\ b.status = status
                                /\ b.leg \in DOMAIN plan /\ IsTransfer(plan[b.leg])
  BY <1>1, <1>2, <1>3
<1>6. ASSUME \A a \in attempts : a.draft = d =>
               /\ a.status = "OPEN" /\ a.leg \in DOMAIN plan /\ IsTransfer(plan[a.leg])
               /\ Scam!Rank(a.outcome) <= Scam!Rank(outcome),
             NEW a \in attempts
      PROVE  \E b \in Record(d, plan, outcome, asked, status) : Rises(a, b)
  <2>1. CASE a.draft # d
    <3>1. Rises(a, a)
      BY <1>3 DEF Rises
    <3> QED BY <3>1, <2>1, <1>1
  <2>2. CASE a.draft = d
    <3>1. a.leg \in legs /\ Rises(a, new(a.leg))
      BY <2>2, <1>6, <1>2, <1>3, <1>4 DEF Rises
    <3> QED BY <3>1, <1>1
  <2> QED BY <2>1, <2>2
<1> QED BY <1>5, <1>6 DEF Risen
\* One draft changes, its rows with it, and nothing else that is open.
LEMMA OneDraft ==
  ASSUME IInv, Counters', now' >= now, NEW d \in Drafts, NEW dr,
         drafts' = [drafts EXCEPT ![d] = dr], DraftInv(d, dr, attempts', now'),
         \A b \in attempts' : RowShape(b) /\ (b.draft # d => b \in attempts)
  PROVE  IInv'
<1>1. drafts' = [e \in Drafts |-> drafts'[e]]
  BY DEF IInv
<1>2. ASSUME NEW e \in Drafts PROVE DraftInv(e, drafts'[e], attempts', now')
  <2>1. CASE e = d
    BY <2>1 DEF IInv
  <2>2. CASE e # d
    <3>1. DraftInv(e, drafts[e], attempts, now) /\ drafts'[e] = drafts[e]
      BY <2>2 DEF IInv
    <3>2. \A b \in attempts' : b.draft = e => b \in attempts
      BY <2>2
    <3>3. now \in Nat /\ now' \in Nat
      BY DEF IInv, Counters
    <3> QED BY <3>1, <3>2, <3>3, Framed
  <2> QED BY <2>1, <2>2
<1> QED BY <1>1, <1>2 DEF IInv, Rows

LEMMA LedgerKept == ASSUME Counters, UNCHANGED Ledger PROVE Counters' /\ now' >= now /\ now' = now
BY DEF Counters, Ledger

LEMMA StricterIsStricter ==
  ASSUME NEW floor \in OutcomeSet \union {"None"}, NEW fresh \in OutcomeSet
  PROVE  /\ Scam!Stricter(floor, fresh) \in OutcomeSet
         /\ Scam!Rank(floor) <= Scam!Rank(Scam!Stricter(floor, fresh))
         /\ Scam!Rank(fresh) <= Scam!Rank(Scam!Stricter(floor, fresh))
BY RankOf DEF Scam!Stricter, OutcomeSet

\* What the pipeline leaves of a draft: closed, asking, or ready, at a floor no
\* lower than before.
LEMMA ScreenedKeeps ==
  ASSUME IInv, NEW d \in Drafts, NEW dr, NEW ruling, NEW fresh,
         Fields \subseteq DOMAIN dr, dr.tries \in 0 .. Scam!AnswerTries,
         dr.tries < Scam!AnswerTries \/ dr.purpose,
         dr.floor \in OutcomeSet \union {"None"}, RowsBelow(d, dr, attempts),
         fresh.outcome \in OutcomeSet,
         Screened(d, dr, ruling, fresh), UNCHANGED Ledger
  PROVE  IInv' /\ Risen(attempts, attempts')
<1> DEFINE outcome == Scam!Stricter(dr.floor, fresh.outcome)
           asking  == ~dr.purpose /\ fresh.asks /\ outcome # "BLOCK"
           status  == IF outcome = "BLOCK" THEN "blocked" ELSE IF asking THEN "asking" ELSE "ready"
           coded   == ruling = "REQUIRE_EXTRA_CONFIRMATION" \/ outcome = "HOLD_STEP_UP"
           passed  == [dr EXCEPT !.status = status, !.floor = outcome,
                          !.questions = IF asking THEN fresh.questions ELSE <<>>,
                          !.heldUntil = IF status = "ready" /\ Scam!NeedsHold(outcome)
                                        THEN now + HoldSeconds ELSE 0,
                          !.code = IF status = "ready" /\ coded THEN "sent" ELSE "none"]
           next    == IF status = "blocked" THEN Closed("blocked") ELSE passed
           after   == Record(d, dr.plan, outcome, asking \/ dr.purpose,
                             IF outcome = "BLOCK" THEN "STOPPED" ELSE "OPEN")
<1>1. Counters' /\ now' >= now
  BY LedgerKept DEF IInv
<1>2. outcome \in OutcomeSet /\ Scam!Rank(dr.floor) <= Scam!Rank(outcome)
  BY StricterIsStricter
<1>3. CASE ruling = "BLOCK"
  <2>1. drafts' = [drafts EXCEPT ![d] = Closed("blocked")] /\ attempts' = attempts
    BY <1>3 DEF Screened
  <2>2. \A b \in attempts' : RowShape(b) /\ (b.draft # d => b \in attempts)
    BY <2>1 DEF IInv, Rows
  <2>3. Risen(attempts, attempts')
    BY <2>1, Stays DEF IInv
  <2>4. DraftInv(d, Closed("blocked"), attempts', now')
    BY ClosedShape
  <2> QED BY <2>1, <2>2, <2>3, <2>4, <1>1, OneDraft
<1>4. CASE ruling # "BLOCK"
  <2>1. attempts' = after /\ drafts' = [drafts EXCEPT ![d] = next]
    BY <1>4 DEF Screened
  <2>2. /\ status \in {"blocked", "asking", "ready"}
        /\ status = "asking" => ~dr.purpose
        /\ status # "blocked" <=> outcome # "BLOCK"
    OBVIOUS
  <2>3. /\ DOMAIN passed = DOMAIN dr /\ passed.status = status /\ passed.floor = outcome
        /\ passed.plan = dr.plan /\ passed.tries = dr.tries /\ passed.purpose = dr.purpose
    BY DEF Fields
  <2> HIDE DEF passed, asking, coded, outcome
  <2>4. \A a \in attempts : a.draft = d =>
          /\ a.status = "OPEN" /\ a.leg \in DOMAIN dr.plan /\ IsTransfer(dr.plan[a.leg])
          /\ Scam!Rank(a.outcome) <= Scam!Rank(outcome)
    <3>1. \A a \in attempts : Scam!Rank(a.outcome) \in Int
      BY RankOf DEF IInv, Rows, RowShape, OutcomeSet
    <3>2. Scam!Rank(dr.floor) \in Int /\ Scam!Rank(outcome) \in Int
      BY <1>2, RankOf DEF OutcomeSet
    <3> QED BY <3>1, <3>2, <1>2 DEF RowsBelow
  <2>5. /\ Risen(attempts, after)
        /\ \A b \in after :
              /\ RowShape(b)
              /\ b.draft # d => b \in attempts
              /\ b.draft = d => /\ b.outcome = outcome
                                /\ b.status = IF outcome = "BLOCK" THEN "STOPPED" ELSE "OPEN"
                                /\ b.leg \in DOMAIN dr.plan /\ IsTransfer(dr.plan[b.leg])
    BY <2>4, <1>2, Recorded DEF IInv
  <2> HIDE DEF after, status
  <2>6. DraftInv(d, next, after, now')
    <3>1. CASE status = "blocked"
      BY <3>1, ClosedShape
    <3>2. CASE status # "blocked"
      <4>1. next = passed
        BY <3>2
      <4>2. RowsBelow(d, passed, after)
        <5>1. Scam!Rank(outcome) \in Int
          BY <1>2, RankOf DEF OutcomeSet
        <5> QED BY <5>1, <2>2, <2>3, <2>5, <3>2 DEF RowsBelow
      <4>3. DraftShape(passed)
        BY <2>2, <2>3, <3>2 DEF DraftShape, Statuses, Open, Scam!AnswerTries
      <4> QED BY <4>1, <4>2, <4>3, <2>2, <2>3, <3>2, <1>2 DEF DraftInv, Open
    <3> QED BY <3>1, <3>2
  <2> HIDE DEF next
  <2> QED BY <2>1, <2>5, <2>6, <1>1, OneDraft
<1> QED BY <1>3, <1>4

LEMMA PipelineKeeps ==
  ASSUME IInv, NEW d \in Drafts, NEW given,
         Fields \subseteq DOMAIN given, given.tries \in 0 .. Scam!AnswerTries,
         given.tries < Scam!AnswerTries \/ given.purpose,
         given.floor \in OutcomeSet \union {"None"}, RowsBelow(d, given, attempts),
         Pipeline(d, given), UNCHANGED Ledger
  PROVE  IInv' /\ Risen(attempts, attempts')
<1> DEFINE bound == Bind(given.plan)
<1>1. PICK dr : /\ dr = [given EXCEPT !.plan = bound, !.created = now, !.questions = <<>>]
                /\ Screened(d, dr, Ruling(dr.plan), Rescore(d, dr))
  BY DEF Pipeline
<1>2. DOMAIN bound = DOMAIN given.plan /\ \A i \in DOMAIN bound : bound[i].type = given.plan[i].type
  BY DEF Bind
<1> HIDE DEF bound
<1>3. /\ DOMAIN dr = DOMAIN given /\ dr.plan = bound
      /\ dr.tries = given.tries /\ dr.purpose = given.purpose /\ dr.floor = given.floor
  BY <1>1 DEF Fields
<1>4. RowsBelow(d, dr, attempts)
  BY <1>2, <1>3 DEF RowsBelow, IsTransfer
<1>5. Rescore(d, dr).outcome \in OutcomeSet
  BY AssessOutcome DEF Rescore
<1> QED BY <1>1, <1>3, <1>4, <1>5, ScreenedKeeps

LEMMA AskKeeps ==
  ASSUME IInv, NEW d \in Drafts, Ask(d) PROVE IInv' /\ Risen(attempts, attempts')
<1>1. PICK request, text :
        Pipeline(d, [Blank EXCEPT !.plan = request, !.text = text, !.started = now])
  BY DEF Ask
<1> DEFINE given == [Blank EXCEPT !.plan = request, !.text = text, !.started = now]
<1>2. /\ DOMAIN given = Fields /\ given.tries = 0 /\ given.floor = "None"
  BY DEF Blank, Fields
<1>3. RowsBelow(d, given, attempts)
  BY DEF Ask, IInv, DraftInv, RowsBelow
<1> HIDE DEF given
<1>4. Pipeline(d, given) /\ UNCHANGED Ledger
  BY <1>1 DEF given, Ask
<1> QED BY <1>2, <1>3, <1>4, PipelineKeeps DEF Scam!AnswerTries

LEMMA AnswerKeeps ==
  ASSUME IInv, NEW d \in Drafts, Answer(d) PROVE IInv' /\ Risen(attempts, attempts')
<1> DEFINE dr == drafts[d]
<1>1. DraftInv(d, dr, attempts, now) /\ dr.status = "asking" /\ UNCHANGED Ledger
  BY DEF IInv, Answer
<1>2. PICK reply, missing, tries, unanswered :
        /\ tries = dr.tries + 1
        /\ \/ /\ ReAsks(missing, tries, reply)
              /\ drafts' = [drafts EXCEPT ![d].questions = missing, ![d].tries = tries]
              /\ UNCHANGED attempts
           \/ Pipeline(d, [dr EXCEPT !.text = Scam!JoinTexts(dr.text, reply), !.tries = tries,
                                     !.purpose = TRUE, !.unanswered = unanswered])
  BY DEF Answer
<1>3. /\ Fields \subseteq DOMAIN dr /\ tries \in 0 .. Scam!AnswerTries
      /\ dr.floor \in OutcomeSet /\ RowsBelow(d, dr, attempts)
  BY <1>1, <1>2 DEF DraftInv, DraftShape, Open, Scam!AnswerTries
<1>4. CASE /\ ReAsks(missing, tries, reply)
           /\ drafts' = [drafts EXCEPT ![d].questions = missing, ![d].tries = tries]
           /\ UNCHANGED attempts
  <2> DEFINE next == [dr EXCEPT !.questions = missing, !.tries = tries]
  <2>1. drafts' = [drafts EXCEPT ![d] = next]
    BY <1>4 DEF IInv
  <2>2. /\ DOMAIN next = DOMAIN dr /\ next.status = dr.status /\ next.tries = tries
        /\ next.floor = dr.floor /\ next.plan = dr.plan
    BY <1>3 DEF Fields
  <2> HIDE DEF next
  <2>3. tries < Scam!AnswerTries
    BY <1>4 DEF ReAsks
  <2>4. DraftInv(d, next, attempts', now')
    <3>1. RowsBelow(d, next, attempts')
      BY <1>3, <1>4, <2>2 DEF RowsBelow
    <3>2. DraftShape(next)
      BY <1>1, <1>3, <2>2, <2>3 DEF DraftShape, Statuses, Open
    <3> QED BY <3>1, <3>2, <1>1, <1>3, <2>2 DEF DraftInv, Open
  <2>5. \A b \in attempts' : RowShape(b) /\ (b.draft # d => b \in attempts)
    BY <1>4 DEF IInv, Rows
  <2>6. Risen(attempts, attempts')
    BY <1>4, Stays DEF IInv
  <2> QED BY <2>1, <2>4, <2>5, <2>6, <1>1, LedgerKept, OneDraft DEF IInv
<1>5. CASE Pipeline(d, [dr EXCEPT !.text = Scam!JoinTexts(dr.text, reply), !.tries = tries,
                                  !.purpose = TRUE, !.unanswered = unanswered])
  <2> DEFINE given == [dr EXCEPT !.text = Scam!JoinTexts(dr.text, reply), !.tries = tries,
                                 !.purpose = TRUE, !.unanswered = unanswered]
  <2>1. /\ DOMAIN given = DOMAIN dr /\ given.tries = tries /\ given.purpose = TRUE
        /\ given.floor = dr.floor /\ given.plan = dr.plan
    BY <1>3 DEF Fields
  <2>2. Pipeline(d, given)
    BY <1>5
  <2> HIDE DEF given
  <2>3. RowsBelow(d, given, attempts)
    BY <2>1, <1>3 DEF RowsBelow
  <2> QED BY <2>1, <2>2, <2>3, <1>1, <1>3, PipelineKeeps
<1> QED BY <1>2, <1>4, <1>5
LEMMA StopKeeps ==
  ASSUME IInv, NEW d \in Drafts, StopBeforeAsking(d) PROVE IInv' /\ Risen(attempts, attempts')
<1>1. PICK plan : /\ drafts' = [drafts EXCEPT ![d] = Closed("blocked")]
                  /\ attempts' = Record(d, plan, "BLOCK", FALSE, "STOPPED")
  BY DEF StopBeforeAsking
<1>2. UNCHANGED Ledger /\ \A a \in attempts : a.draft # d
  BY DEF StopBeforeAsking, IInv, DraftInv
<1>3. /\ Risen(attempts, attempts')
      /\ \A b \in attempts' : RowShape(b) /\ (b.draft # d => b \in attempts)
  <2>1. Rows /\ "BLOCK" \in OutcomeSet /\ "STOPPED" \in {"OPEN", "STOPPED"}
    BY DEF IInv, OutcomeSet
  <2> DEFINE after == Record(d, plan, "BLOCK", FALSE, "STOPPED")
  <2>2. /\ \A b \in after : RowShape(b) /\ (b.draft # d => b \in attempts)
        /\ (\A a \in attempts : a.draft # d) => Risen(attempts, after)
    <3>1. \A b \in after : RowShape(b) /\ (b.draft # d => b \in attempts)
      BY <2>1, Recorded
    <3>2. (\A a \in attempts : a.draft # d) => Risen(attempts, after)
      BY <2>1, Recorded
    <3> QED BY <3>1, <3>2
  <2> HIDE DEF after
  <2>3. attempts' = after
    BY <1>1 DEF after
  <2> QED BY <1>2, <2>2, <2>3
<1>4. DraftInv(d, Closed("blocked"), attempts', now')
  BY ClosedShape
<1> QED BY <1>1, <1>2, <1>3, <1>4, LedgerKept, OneDraft DEF IInv

\* A draft that is closed and its open rows with it.
LEMMA CloseKeeps ==
  ASSUME IInv, NEW d \in Drafts, drafts' = [drafts EXCEPT ![d] = Closed("cancelled")],
         attempts' = Mark(d, "STOPPED"), UNCHANGED Ledger
  PROVE  IInv' /\ Risen(attempts, attempts')
<1>1. /\ Risen(attempts, attempts')
      /\ \A b \in attempts' : RowShape(b) /\ (b.draft # d => b \in attempts)
  BY Marked DEF IInv
<1>2. DraftInv(d, Closed("cancelled"), attempts', now')
  BY ClosedShape
<1> QED BY <1>1, <1>2, LedgerKept, OneDraft DEF IInv

\* A draft that changes while its rows stay.
LEMMA RowsStay ==
  ASSUME IInv, NEW d \in Drafts, NEW dr, drafts' = [drafts EXCEPT ![d] = dr],
         UNCHANGED attempts, UNCHANGED Ledger, DraftInv(d, dr, attempts, now)
  PROVE  IInv' /\ Risen(attempts, attempts')
<1>1. DraftInv(d, dr, attempts', now')
  BY LedgerKept DEF IInv
<1>2. \A b \in attempts' : RowShape(b) /\ (b.draft # d => b \in attempts)
  BY DEF IInv, Rows
<1>3. Risen(attempts, attempts')
  BY Stays DEF IInv
<1> QED BY <1>1, <1>2, <1>3, LedgerKept, OneDraft DEF IInv

LEMMA ConfirmKeeps ==
  ASSUME IInv, NEW d \in Drafts, ConfirmCode(d) PROVE IInv' /\ Risen(attempts, attempts')
<1> DEFINE dr   == drafts[d]
           next == [dr EXCEPT !.code = "confirmed"]
<1>1. DraftInv(d, dr, attempts, now) /\ dr.status = "ready"
  BY DEF IInv, ConfirmCode
<1>2. drafts' = [drafts EXCEPT ![d] = next] /\ UNCHANGED attempts /\ UNCHANGED Ledger
  BY DEF ConfirmCode, IInv, Ledger
<1>3. /\ DOMAIN next = DOMAIN dr /\ next.status = dr.status /\ next.tries = dr.tries
      /\ next.floor = dr.floor /\ next.plan = dr.plan
  BY <1>1 DEF DraftInv, DraftShape, Fields
<1> HIDE DEF next, dr
<1>4. DraftInv(d, next, attempts, now)
  BY <1>1, <1>3 DEF DraftInv, DraftShape, RowsBelow, Open
<1> QED BY <1>2, <1>4, RowsStay

LEMMA CancelKeeps ==
  ASSUME IInv, NEW d \in Drafts, Cancel(d) PROVE IInv' /\ Risen(attempts, attempts')
BY CloseKeeps DEF Cancel

\* A payment that passes the gateway arranged what its floor needs: the draft's
\* outcome and the fresh one together are at least the floor.
LEMMA SubmitKeeps ==
  ASSUME IInv, NEW d \in Drafts, Submit(d) PROVE IInv' /\ Risen(attempts, attempts')
<1> DEFINE dr == drafts[d]
<1>1. PICK fresh : /\ fresh.outcome \in OutcomeSet
                   /\ ScamAllows(d, fresh, Scam!Stricter(dr.floor, fresh.outcome))
                   /\ drafts' = [drafts EXCEPT
                        ![d].status = IF Scam!ReleaseDelay(Scam!Stricter(dr.floor, fresh.outcome)) > 0
                                      THEN "scheduled" ELSE "checked",
                        ![d].signedAt = now,
                        ![d].releaseAt = IF Scam!ReleaseDelay(Scam!Stricter(dr.floor, fresh.outcome)) > 0
                                         THEN now + Scam!ReleaseDelay(Scam!Stricter(dr.floor, fresh.outcome))
                                         ELSE 0]
  <2>1. Rescore(d, drafts[d]).outcome \in OutcomeSet
    BY AssessOutcome DEF Rescore
  <2> QED BY <2>1 DEF Submit
<1>2. DraftInv(d, dr, attempts, now) /\ dr.status = "ready" /\ now \in Nat
  BY DEF IInv, Submit, Counters
<1>3. PICK outcome \in OutcomeSet :
        /\ outcome = Scam!Stricter(dr.floor, fresh.outcome)
        /\ Scam!Rank(dr.floor) <= Scam!Rank(outcome)
  BY <1>1, <1>2, StricterIsStricter DEF DraftInv, Open
<1> DEFINE wait == Scam!ReleaseDelay(outcome)
           next == [dr EXCEPT !.status = IF wait > 0 THEN "scheduled" ELSE "checked",
                              !.signedAt = now, !.releaseAt = IF wait > 0 THEN now + wait ELSE 0]
<1>4. drafts' = [drafts EXCEPT ![d] = next]
  BY <1>1, <1>3 DEF IInv
<1>5. /\ DOMAIN next = DOMAIN dr /\ next.tries = dr.tries
      /\ next.status = IF wait > 0 THEN "scheduled" ELSE "checked"
      /\ next.signedAt = now /\ next.releaseAt = IF wait > 0 THEN now + wait ELSE 0
      /\ next.floor = dr.floor /\ next.plan = dr.plan /\ next.code = dr.code
  BY <1>2 DEF DraftInv, DraftShape, Fields
<1>6. dr.floor \in OutcomeSet /\ RowsBelow(d, dr, attempts)
  BY <1>2 DEF DraftInv, Open
<1>7. outcome # "BLOCK" /\ (outcome = "HOLD_STEP_UP" => dr.code = "confirmed")
  BY <1>1, <1>3 DEF ScamAllows
<1>8. /\ wait = IF outcome \in {"DELAY", "HOLD", "HOLD_STEP_UP"} THEN 60 ELSE 0
      /\ Scam!ReleaseDelaySeconds = 60
  BY DEF Scam!ReleaseDelay, Scam!ReleaseDelaySeconds
<1> HIDE DEF next, wait
<1>9. /\ dr.floor # "BLOCK" /\ (dr.floor = "HOLD_STEP_UP" => dr.code = "confirmed")
      /\ wait = 0 => dr.floor \in {"ALLOW", "WARN"}
  BY <1>3, <1>6, <1>7, <1>8, RankOf DEF OutcomeSet
<1>10. Arranged(next, now)
  BY <1>2, <1>5, <1>8, <1>9 DEF Arranged
<1>11. DraftInv(d, next, attempts, now)
  <2>1. RowsBelow(d, next, attempts)
    BY <1>5, <1>6 DEF RowsBelow
  <2>2. DraftShape(next)
    BY <1>2, <1>5 DEF DraftInv, DraftShape, Statuses, Open
  <2> QED BY <2>1, <2>2, <1>5, <1>6, <1>10 DEF DraftInv, Open
<1>12. UNCHANGED Ledger /\ UNCHANGED attempts
  BY DEF Submit
<1> QED BY <1>4, <1>11, <1>12, RowsStay

LEMMA ReleaseKeeps ==
  ASSUME IInv, NEW d \in Drafts, Release(d) PROVE IInv' /\ Risen(attempts, attempts')
<1> DEFINE dr   == drafts[d]
           next == [dr EXCEPT !.status = "releasing"]
<1>1. DraftInv(d, dr, attempts, now) /\ dr.status = "scheduled" /\ now >= dr.releaseAt
  BY DEF IInv, Release
<1>2. CASE drafts' = [drafts EXCEPT ![d] = Closed("cancelled")] /\ attempts' = Mark(d, "STOPPED")
  BY <1>2, CloseKeeps DEF Release
<1>3. CASE drafts' = [drafts EXCEPT ![d].status = "releasing"] /\ UNCHANGED attempts
  <2>1. drafts' = [drafts EXCEPT ![d] = next]
    BY <1>3 DEF IInv
  <2>2. /\ DOMAIN next = DOMAIN dr /\ next.status = "releasing" /\ next.tries = dr.tries
        /\ next.signedAt = dr.signedAt /\ next.releaseAt = dr.releaseAt
        /\ next.floor = dr.floor /\ next.plan = dr.plan /\ next.code = dr.code
    BY <1>1 DEF DraftInv, DraftShape, Fields
  <2> HIDE DEF next
  <2>3. Arranged(next, now)
    BY <1>1, <2>2 DEF DraftInv, Arranged
  <2>4. DraftInv(d, next, attempts, now)
    BY <1>1, <2>2, <2>3 DEF DraftInv, DraftShape, RowsBelow, Statuses, Open
  <2>5. UNCHANGED Ledger
    BY DEF Release
  <2> QED BY <1>3, <2>1, <2>4, <2>5, RowsStay
<1> QED BY <1>2, <1>3 DEF Release

\* A paid draft had its code and its wait: its rows are no higher than its floor.
LEMMA PayKeeps ==
  ASSUME IInv, NEW d \in Drafts, Pay(d) PROVE IInv' /\ Risen(attempts, attempts')
<1> DEFINE dr   == drafts[d]
           next == [Closed("executed") EXCEPT !.code = dr.code, !.signedAt = dr.signedAt,
                                              !.paidAt = now]
<1>1. /\ DraftInv(d, dr, attempts, now) /\ dr.status \in {"checked", "releasing"} /\ now \in Nat
      /\ drafts' = [drafts EXCEPT ![d] = next] /\ attempts' = Mark(d, "SENT")
  BY DEF IInv, Pay, Counters
<1>2. /\ DraftShape(next) /\ next.status = "executed" /\ next.code = dr.code
      /\ next.signedAt = dr.signedAt /\ next.paidAt = now
  BY DEF Closed, Blank, DraftShape, Statuses, Fields, Open, Scam!AnswerTries
<1> HIDE DEF next
<1>3. /\ Risen(attempts, attempts')
      /\ \A b \in attempts' :
           /\ RowShape(b) /\ (b.draft # d => b \in attempts)
           /\ \E a \in attempts : b.draft = a.draft /\ b.outcome = a.outcome
  BY <1>1, Marked DEF IInv
<1>4. Arranged(dr, now) /\ RowsBelow(d, dr, attempts) /\ dr.floor \in OutcomeSet
  BY <1>1 DEF DraftInv, Open
<1>5. ASSUME NEW a \in attempts, a.draft = d
      PROVE  /\ a.outcome = "HOLD_STEP_UP" => dr.code = "confirmed"
             /\ now >= dr.signedAt + Scam!ReleaseDelay(a.outcome)
  <2>1. a.outcome \in OutcomeSet /\ Scam!Rank(a.outcome) <= Scam!Rank(dr.floor)
    BY <1>4, <1>5 DEF RowsBelow, IInv, Rows, RowShape
  <2>2. \/ dr.status = "releasing" /\ now >= dr.signedAt + 60 /\ dr.signedAt \in Nat
        \/ dr.floor \in {"ALLOW", "WARN"} /\ now >= dr.signedAt /\ dr.signedAt \in Nat
    BY <1>1, <1>4 DEF Arranged, Scam!ReleaseDelaySeconds
  <2>3. dr.floor # "BLOCK" /\ (dr.floor = "HOLD_STEP_UP" => dr.code = "confirmed")
    BY <1>4 DEF Arranged
  <2>4. Scam!ReleaseDelay(a.outcome)
          = IF a.outcome \in {"DELAY", "HOLD", "HOLD_STEP_UP"} THEN 60 ELSE 0
    BY DEF Scam!ReleaseDelay, Scam!ReleaseDelaySeconds
  <2>5. a.outcome = "HOLD_STEP_UP" => dr.code = "confirmed"
    BY <2>1, <2>3, <1>4, RankOf DEF OutcomeSet
  <2>6. dr.floor \in {"ALLOW", "WARN"} => a.outcome \in {"ALLOW", "WARN"}
    BY <2>1, RankOf DEF OutcomeSet
  <2> QED BY <1>1, <2>2, <2>4, <2>5, <2>6
<1>6. DraftInv(d, next, attempts', now)
  <2>1. Served(d, next, attempts')
    BY <1>2, <1>3, <1>5 DEF Served
  <2> QED BY <2>1, <1>2 DEF DraftInv, Open
<1>7. Counters' /\ now' = now
  BY DEF Pay, IInv, Counters
<1>8. DraftInv(d, next, attempts', now') /\ now' >= now
  BY <1>1, <1>6, <1>7
<1>9. \A b \in attempts' : RowShape(b) /\ (b.draft # d => b \in attempts)
  BY <1>3
<1>10. IInv'
  BY <1>1, <1>7, <1>8, <1>9, OneDraft
<1> QED BY <1>3, <1>10

LEMMA SupersededKeeps ==
  ASSUME IInv, NEW d \in Drafts, Superseded(d) PROVE IInv' /\ Risen(attempts, attempts')
<1> DEFINE dr   == drafts[d]
           next == [dr EXCEPT !.status = "ready"]
<1>1. DraftInv(d, dr, attempts, now) /\ dr.status \in {"checked", "releasing"} /\ UNCHANGED Ledger
  BY DEF IInv, Superseded
<1>2. CASE drafts' = [drafts EXCEPT ![d] = Closed("cancelled")] /\ attempts' = Mark(d, "STOPPED")
  BY <1>1, <1>2, CloseKeeps
<1>3. CASE drafts' = [drafts EXCEPT ![d].status = "ready"] /\ UNCHANGED attempts
  <2>1. drafts' = [drafts EXCEPT ![d] = next]
    BY <1>3 DEF IInv
  <2>2. /\ DOMAIN next = DOMAIN dr /\ next.status = "ready" /\ next.tries = dr.tries
        /\ next.floor = dr.floor /\ next.plan = dr.plan
    BY <1>1 DEF DraftInv, DraftShape, Fields
  <2> HIDE DEF next
  <2>3. DraftInv(d, next, attempts, now)
    BY <1>1, <2>2 DEF DraftInv, DraftShape, RowsBelow, Statuses, Open
  <2> QED BY <1>1, <1>3, <2>1, <2>3, RowsStay
<1> QED BY <1>2, <1>3 DEF Superseded

---------------------------------------------------------------------------
(* What else happens.                                                        *)

LEMMA DraftsStay ==
  ASSUME IInv, Counters', now' >= now, UNCHANGED <<attempts, drafts>>
  PROVE  IInv' /\ Risen(attempts, attempts')
<1>1. ASSUME NEW d \in Drafts PROVE DraftInv(d, drafts[d], attempts, now')
  BY Framed DEF IInv, Counters
<1>2. Risen(attempts, attempts')
  BY Stays DEF IInv
<1> QED BY <1>1, <1>2 DEF IInv, Rows

LEMMA ChangeNumberKeeps ==
  ASSUME IInv, NEW p \in Payees, ChangeNumber(p) PROVE IInv' /\ Risen(attempts, attempts')
<1>1. Counters' /\ now' = now
  BY Bounds DEF IInv, Counters, ChangeNumber, AccountEvent
<1> QED BY <1>1, DraftsStay DEF ChangeNumber, IInv, Counters

LEMMA UnfreezeKeeps ==
  ASSUME IInv, Unfreeze PROVE IInv' /\ Risen(attempts, attempts')
<1>1. Counters' /\ now' = now /\ now \in Nat
  <2>1. /\ now' = now /\ ticks' = ticks /\ dests' = dests
        /\ changes' = changes + 1 /\ changes < MaxChanges
    BY DEF Unfreeze, AccountEvent
  <2> QED BY <2>1, Bounds DEF IInv, Counters
<1>2. attempts' = OpenStopped
  BY DEF Unfreeze, OpenStopped
<1>3. /\ Risen(attempts, attempts')
      /\ \A b \in attempts' :
           RowShape(b) /\ \E a \in attempts : b.draft = a.draft /\ b.outcome = a.outcome
  BY <1>2, UnfrozenRows DEF IInv
<1>4. ASSUME NEW d \in Drafts PROVE DraftInv(d, drafts'[d], attempts', now')
  <2>1. DraftInv(d, drafts[d], attempts, now)
    BY DEF IInv
  <2>2. CASE drafts[d].status \in Open
    <3>1. drafts'[d] = Closed("cancelled")
      BY <2>2 DEF Unfreeze
    <3> QED BY <3>1, ClosedShape
  <2>3. CASE drafts[d].status \notin Open
    <3>1. drafts'[d] = drafts[d]
      BY <2>3 DEF Unfreeze
    <3> QED BY <3>1, <2>1, <2>3, <1>1, <1>3 DEF DraftInv, Served, Open
  <2> QED BY <2>2, <2>3
<1>5. drafts' = [d \in Drafts |-> drafts'[d]]
  BY DEF Unfreeze
<1> QED BY <1>1, <1>3, <1>4, <1>5 DEF IInv, Rows

LEMMA TickKeeps ==
  ASSUME IInv, Tick PROVE IInv' /\ Risen(attempts, attempts')
<1>1. Counters' /\ now' >= now
  BY Bounds DEF IInv, Counters, Tick
<1> QED BY <1>1, DraftsStay DEF Tick

LEMMA InitInv == Init => IInv
<1> SUFFICES ASSUME Init PROVE IInv
  OBVIOUS
<1>1. Counters
  BY Bounds DEF Init, Counters
<1>2. DraftShape(Blank) /\ Blank.status = "none"
  BY DEF Blank, DraftShape, Statuses, Fields, Open, Scam!AnswerTries
<1>3. \A d \in Drafts : DraftInv(d, drafts[d], attempts, now)
  BY <1>2 DEF Init, DraftInv, Open
<1> QED BY <1>1, <1>3 DEF Init, IInv, Rows

LEMMA StepKeeps == IInv /\ [Next]_vars => IInv' /\ Risen(attempts, attempts')
<1> SUFFICES ASSUME IInv, [Next]_vars PROVE IInv' /\ Risen(attempts, attempts')
  OBVIOUS
<1>1. ASSUME NEW d \in Drafts, Ask(d) PROVE IInv' /\ Risen(attempts, attempts')
  BY <1>1, AskKeeps
<1>2. ASSUME NEW d \in Drafts, StopBeforeAsking(d) PROVE IInv' /\ Risen(attempts, attempts')
  BY <1>2, StopKeeps
<1>3. ASSUME NEW d \in Drafts, Answer(d) PROVE IInv' /\ Risen(attempts, attempts')
  BY <1>3, AnswerKeeps
<1>4. ASSUME NEW d \in Drafts, ConfirmCode(d) PROVE IInv' /\ Risen(attempts, attempts')
  BY <1>4, ConfirmKeeps
<1>5. ASSUME NEW d \in Drafts, Cancel(d) PROVE IInv' /\ Risen(attempts, attempts')
  BY <1>5, CancelKeeps
<1>6. ASSUME NEW d \in Drafts, Submit(d) PROVE IInv' /\ Risen(attempts, attempts')
  BY <1>6, SubmitKeeps
<1>7. ASSUME NEW d \in Drafts, Release(d) PROVE IInv' /\ Risen(attempts, attempts')
  BY <1>7, ReleaseKeeps
<1>8. ASSUME NEW d \in Drafts, Pay(d) PROVE IInv' /\ Risen(attempts, attempts')
  BY <1>8, PayKeeps
<1>9. ASSUME NEW d \in Drafts, Superseded(d) PROVE IInv' /\ Risen(attempts, attempts')
  BY <1>9, SupersededKeeps
<1>10. ASSUME NEW p \in Payees, ChangeNumber(p) PROVE IInv' /\ Risen(attempts, attempts')
  BY <1>10, ChangeNumberKeeps
<1>11. CASE AddPasskey
  <2>1. Counters' /\ now' = now /\ now \in Nat
    BY <1>11, Bounds DEF IInv, Counters, AddPasskey, AccountEvent
  <2> QED BY <2>1, <1>11, DraftsStay DEF AddPasskey
<1>12. CASE Unfreeze
  BY <1>12, UnfreezeKeeps
<1>13. CASE Tick
  BY <1>13, TickKeeps
<1>14. CASE UNCHANGED vars
  <2>1. Counters' /\ now' = now /\ now \in Nat
    BY <1>14 DEF IInv, Counters, vars
  <2> QED BY <2>1, <1>14, DraftsStay DEF vars
<1> QED BY <1>1, <1>2, <1>3, <1>4, <1>5, <1>6, <1>7, <1>8, <1>9, <1>10, <1>11, <1>12, <1>13,
           <1>14 DEF Next

---------------------------------------------------------------------------
(* The theorems.                                                             *)

THEOREM Invariant == Spec => []IInv
<1>1. IInv /\ [Next]_vars => IInv'
  BY StepKeeps
<1> QED BY <1>1, InitInv, PTL DEF Spec

\* The counters, the destinations, the rows and the drafts keep their types.
THEOREM TypeTheorem == Spec => []TypeOK
<1>1. IInv => TypeOK
  BY Bounds DEF IInv, Counters, Rows, RowShape, DraftInv, DraftShape, TypeOK,
     Statuses, OutcomeSet, Open, Scam!Outcomes, ToSet
<1> QED BY <1>1, Invariant, PTL

\* attempts.py: an attempt's outcome only ever rises, what was asked stays
\* asked, what is finished stays as it ended.
THEOREM RiseTheorem == Spec => AttemptsOnlyRise
<1>1. IInv /\ [Next]_vars =>
        [\A a \in attempts : \E b \in attempts' :
           /\ b.draft = a.draft /\ b.leg = a.leg
           /\ Scam!Rank(b.outcome) >= Scam!Rank(a.outcome)
           /\ a.asked => b.asked
           /\ a.status # "OPEN" => b = a]_vars
  BY StepKeeps DEF Risen, Rises
<1> QED BY <1>1, Invariant, PTL DEF Spec, AttemptsOnlyRise

\* main.py, gateway.py: a paid draft that was ever scored as needing them had
\* its phone code and its wait.
THEOREM ServedTheorem == Spec => []ShownIsServed
<1>1. IInv => ShownIsServed
  BY DEF IInv, DraftInv, Served, ShownIsServed
<1> QED BY <1>1, Invariant, PTL

-----------------------------------------------------------------------------
(* The score of a list of facts.                                             *)

Fact_ == [code : DOMAIN Scam!Weights, points : Nat, ask : {"open", "yesno", "none"}]

\* A fact with this code and at least these points is in the list.
Has(facts, code, points) ==
  \E i \in DOMAIN facts : facts[i].code = code /\ facts[i].points >= points

LEMMA Joined ==
  ASSUME NEW s \in Seq(Fact_), NEW t \in Seq(Fact_)
  PROVE  /\ s \o t \in Seq(Fact_)
         /\ \A code, points : Has(s, code, points) \/ Has(t, code, points)
                                => Has(s \o t, code, points)
<1>1. s \o t \in Seq(Fact_)
  OBVIOUS
<1>2. ASSUME NEW code, NEW points, Has(s, code, points) PROVE Has(s \o t, code, points)
  <2>1. PICK i \in DOMAIN s : s[i].code = code /\ s[i].points >= points
    BY <1>2 DEF Has
  <2>2. i \in DOMAIN (s \o t) /\ (s \o t)[i] = s[i]
    OBVIOUS
  <2> QED BY <2>1, <2>2 DEF Has
<1>3. ASSUME NEW code, NEW points, Has(t, code, points) PROVE Has(s \o t, code, points)
  <2>1. PICK i \in DOMAIN t : t[i].code = code /\ t[i].points >= points
    BY <1>3 DEF Has
  <2>2. Len(s) + i \in DOMAIN (s \o t) /\ (s \o t)[Len(s) + i] = t[i]
    OBVIOUS
  <2> QED BY <2>1, <2>2 DEF Has
<1> QED BY <1>1, <1>2, <1>3

LEMMA FactIfHas ==
  ASSUME NEW holds, NEW code \in DOMAIN Scam!Weights, NEW points \in Nat, NEW ask \in {"open", "yesno", "none"}
  PROVE  /\ Scam!FactIf(holds, code, points, ask) \in Seq(Fact_)
         /\ holds => Has(Scam!FactIf(holds, code, points, ask), code, points)
<1> DEFINE f == [code |-> code, points |-> points, ask |-> ask]
<1>1. f \in Fact_ /\ f.code = code /\ f.points = points
  BY DEF Fact_
<1> HIDE DEF f
<1>2. Scam!FactIf(holds, code, points, ask) = IF holds THEN <<f>> ELSE <<>>
  BY DEF Scam!FactIf, f
<1>3. <<f>> \in Seq(Fact_) /\ Has(<<f>>, code, points)
  BY <1>1 DEF Has
<1> QED BY <1>2, <1>3

LEMMA WeightOf ==
  /\ \A code \in DOMAIN Scam!Weights : Scam!Weights[code] \in Nat
  /\ Scam!Weights["RETRY_AFTER_STOPPED"] = 30 /\ Scam!Weights["SMALLER_AFTER_STOPPED"] = 30
  /\ Scam!Weights["FIRST_PAYMENT_TO_DESTINATION"] = 20
  /\ Scam!Weights["RECENT_DESTINATION_CHANGE"] = 50
BY DEF Scam!Weights

LEMMA CodesAre ==
  /\ "FIRST_PAYMENT_TO_DESTINATION" \in DOMAIN Scam!Weights
  /\ "RECENT_DESTINATION_CHANGE" \in DOMAIN Scam!Weights
  /\ "LARGE_FIRST_PAYMENT" \in DOMAIN Scam!Weights
  /\ "BALANCE_DRAIN" \in DOMAIN Scam!Weights
  /\ "LARGE_SHARE" \in DOMAIN Scam!Weights
  /\ "LARGE_AMOUNT" \in DOMAIN Scam!Weights
  /\ "ABOVE_USUAL_MAX" \in DOMAIN Scam!Weights
  /\ "ABOVE_PAYEE_MAX" \in DOMAIN Scam!Weights
  /\ "RAPID_MULTI_DESTINATION" \in DOMAIN Scam!Weights
  /\ "RECENT_CREDENTIAL_CHANGE" \in DOMAIN Scam!Weights
  /\ "FREEZE_TURNED_OFF" \in DOMAIN Scam!Weights
  /\ "UNUSUAL_HOUR" \in DOMAIN Scam!Weights
  /\ "DORMANT_ACCOUNT_WAKE" \in DOMAIN Scam!Weights
  /\ "RETRY_AFTER_STOPPED" \in DOMAIN Scam!Weights
  /\ "SMALLER_AFTER_STOPPED" \in DOMAIN Scam!Weights
  /\ "REPEATED_STOPPED_ATTEMPTS" \in DOMAIN Scam!Weights
  /\ "SPLIT_PAYMENTS" \in DOMAIN Scam!Weights
  /\ "ESCALATING_AMOUNTS" \in DOMAIN Scam!Weights
  /\ "WARNINGS_IGNORED" \in DOMAIN Scam!Weights
BY DEF Scam!Weights

LEMMA FactHas ==
  ASSUME NEW holds, NEW code \in DOMAIN Scam!Weights, NEW ask \in {"open", "yesno", "none"}
  PROVE  /\ Scam!Fact(holds, code, ask) \in Seq(Fact_)
         /\ holds => Has(Scam!Fact(holds, code, ask), code, Scam!Weights[code])
BY FactIfHas, WeightOf DEF Scam!Fact

LEMMA FactWorth ==
  ASSUME NEW holds, NEW ask \in {"open", "yesno", "none"}, NEW code,
         code \in DOMAIN Scam!Weights, NEW points, Scam!Weights[code] = points
  PROVE  /\ Scam!Fact(holds, code, ask) \in Seq(Fact_)
         /\ holds => Has(Scam!Fact(holds, code, ask), code, points)
BY FactHas

\* Every fact carries points, whatever it is about.
LEMMA AnyFact ==
  /\ \A holds, code, ask : code \in DOMAIN Scam!Weights /\ ask \in {"open", "yesno", "none"}
        => Scam!Fact(holds, code, ask) \in Seq(Fact_)
  /\ \A s, t \in Seq(Fact_) : s \o t \in Seq(Fact_)
BY FactHas, Joined

LEMMA AmountFactsType ==
  ASSUME NEW plan, NEW ctx, NEW i
  PROVE  Scam!AmountFacts(plan, ctx, i) \in Seq(Fact_)
<1>1. \E h1, h2, h3, h4, h5 :
        Scam!AmountFacts(plan, ctx, i)
          = Scam!Fact(h1, "BALANCE_DRAIN", "open") \o Scam!Fact(h2, "LARGE_SHARE", "open")
            \o Scam!Fact(h3, "LARGE_AMOUNT", "open") \o Scam!Fact(h4, "ABOVE_USUAL_MAX", "open")
            \o Scam!Fact(h5, "ABOVE_PAYEE_MAX", "open")
  BY ZenonT(60) DEF Scam!AmountFacts
<1> QED BY <1>1, AnyFact, CodesAre

LEMMA PlanFactsType ==
  ASSUME NEW plan, NEW ctx, IsFiniteSet({a.draft : a \in Scam!RecentStopped(ctx)})
  PROVE  Scam!PlanFacts(plan, ctx) \in Seq(Fact_)
<1> DEFINE n == Scam!Cardinality({a.draft : a \in Scam!RecentStopped(ctx)})
           repeated == Scam!FactIf(n >= 2, "REPEATED_STOPPED_ATTEMPTS", 10 * Scam!Min({3, n}), "yesno")
<1>1. \E h1, h2, h3, h4, h5 :
        Scam!AccountFacts(plan, ctx)
          = Scam!Fact(h1, "RAPID_MULTI_DESTINATION", "yesno")
            \o Scam!Fact(h2, "RECENT_CREDENTIAL_CHANGE", "yesno")
            \o Scam!Fact(h3, "FREEZE_TURNED_OFF", "yesno") \o Scam!Fact(h4, "UNUSUAL_HOUR", "yesno")
            \o Scam!Fact(h5, "DORMANT_ACCOUNT_WAKE", "open")
  BY ZenonT(60) DEF Scam!AccountFacts
<1>2. \E h : Scam!AttemptFacts(ctx) = repeated \o Scam!Fact(h, "WARNINGS_IGNORED", "none")
  BY Zenon DEF Scam!AttemptFacts
<1>3. n \in Nat
  <2>1. n = Cardinality({a.draft : a \in Scam!RecentStopped(ctx)})
    BY Zenon DEF Scam!Cardinality, Cardinality
  <2> QED BY <2>1, FS_CardinalityType
<1>4. 10 * Scam!Min({3, n}) \in Nat
  <2> HIDE DEF n
  <2>1. Scam!Min({3, n}) = IF 3 <= n THEN 3 ELSE n
    BY <1>3 DEF Scam!Min
  <2> QED BY <1>3, <2>1
<1>5. repeated \in Seq(Fact_)
  <2> HIDE DEF n
  <2> QED BY <1>4, CodesAre, FactIfHas
<1> HIDE DEF repeated
<1>6. Scam!AccountFacts(plan, ctx) \in Seq(Fact_)
  BY <1>1, AnyFact, CodesAre
<1>7. Scam!AttemptFacts(ctx) \in Seq(Fact_)
  BY <1>2, <1>5, AnyFact, CodesAre
<1> QED BY <1>6, <1>7, AnyFact DEF Scam!PlanFacts

LEMMA PayeeFactsHas ==
  ASSUME NEW plan, NEW ctx, NEW i
  PROVE  /\ Scam!PayeeFacts(plan, ctx, i) \in Seq(Fact_)
         /\ i \in Scam!NewHere(plan, ctx)
              => Has(Scam!PayeeFacts(plan, ctx, i), "FIRST_PAYMENT_TO_DESTINATION", 20)
         /\ (/\ ctx.dests[plan[i].payee].changed # 0
             /\ ctx.now - ctx.dests[plan[i].payee].changed < Scam!Day
             /\ ctx.dests[plan[i].payee].version # 1)
              => Has(Scam!PayeeFacts(plan, ctx, i), "RECENT_DESTINATION_CHANGE", 50)
<1> DEFINE dest == ctx.dests[plan[i].payee]
           recent == dest.changed # 0 /\ ctx.now - dest.changed < Scam!RecentChange
           new == i \in Scam!NewHere(plan, ctx)
           f1 == Scam!Fact(new, "FIRST_PAYMENT_TO_DESTINATION", "open")
           f2 == Scam!Fact(new /\ plan[i].amount >= Scam!LargeFirstCents, "LARGE_FIRST_PAYMENT", "open")
           f3 == Scam!FactIf(recent /\ dest.version = 1, "RECENT_DESTINATION_CHANGE",
                             Scam!NewContactPoints, "open")
           other == recent /\ dest.version # 1
           f4 == Scam!Fact(other, "RECENT_DESTINATION_CHANGE", "yesno")
<1>1. Scam!PayeeFacts(plan, ctx, i) = ((f1 \o f2) \o f3) \o f4
  BY Zenon DEF Scam!PayeeFacts
<1>2. f1 \in Seq(Fact_) /\ (new => Has(f1, "FIRST_PAYMENT_TO_DESTINATION", 20))
  <2>1. "FIRST_PAYMENT_TO_DESTINATION" \in DOMAIN Scam!Weights /\ Scam!Weights["FIRST_PAYMENT_TO_DESTINATION"] = 20
    BY CodesAre, WeightOf
  <2> HIDE DEF new
  <2> QED BY <2>1, FactWorth
<1>3. f2 \in Seq(Fact_)
  BY AnyFact, CodesAre
<1>4. f3 \in Seq(Fact_)
  BY FactIfHas, CodesAre DEF Scam!NewContactPoints
<1>5. f4 \in Seq(Fact_) /\ (other => Has(f4, "RECENT_DESTINATION_CHANGE", 50))
  <2>1. "RECENT_DESTINATION_CHANGE" \in DOMAIN Scam!Weights /\ Scam!Weights["RECENT_DESTINATION_CHANGE"] = 50
    BY CodesAre, WeightOf
  <2> HIDE DEF other
  <2> QED BY <2>1, FactWorth
<1>6. Scam!RecentChange = Scam!Day
  BY DEF Scam!RecentChange
<1> HIDE DEF f1, f2, f3, f4
<1>7. /\ f1 \o f2 \in Seq(Fact_) /\ (f1 \o f2) \o f3 \in Seq(Fact_)
      /\ ((f1 \o f2) \o f3) \o f4 \in Seq(Fact_)
  BY <1>2, <1>3, <1>4, <1>5, AnyFact
<1>8. new => Has(((f1 \o f2) \o f3) \o f4, "FIRST_PAYMENT_TO_DESTINATION", 20)
  <2> HIDE DEF new
  <2> QED BY <1>2, <1>3, <1>4, <1>5, <1>7, Joined
<1>9. recent /\ dest.version # 1 => Has(((f1 \o f2) \o f3) \o f4, "RECENT_DESTINATION_CHANGE", 50)
  <2> HIDE DEF recent, dest
  <2> QED BY <1>5, <1>7, Joined
<1> QED BY <1>1, <1>6, <1>7, <1>8, <1>9

LEMMA PayeeHistoryFactsHas ==
  ASSUME NEW plan, NEW ctx, NEW i
  PROVE  /\ Scam!PayeeHistoryFacts(plan, ctx, i) \in Seq(Fact_)
         /\ (\E a \in Scam!RecentStopped(ctx) : a.payee = plan[i].payee /\ a.amount > plan[i].amount)
              => /\ Has(Scam!PayeeHistoryFacts(plan, ctx, i), "RETRY_AFTER_STOPPED", 30)
                 /\ Has(Scam!PayeeHistoryFacts(plan, ctx, i), "SMALLER_AFTER_STOPPED", 30)
<1> DEFINE mine == {a \in Scam!RecentStopped(ctx) : a.payee = plan[i].payee}
           more == \E a \in mine : a.amount > plan[i].amount
           f3 == Scam!Fact(mine # {}, "RETRY_AFTER_STOPPED", "open")
           f4 == Scam!Fact(more, "SMALLER_AFTER_STOPPED", "yesno")
<1>1. \E h1, h2 : Scam!PayeeHistoryFacts(plan, ctx, i)
         = ((Scam!Fact(h1, "SPLIT_PAYMENTS", "yesno") \o Scam!Fact(h2, "ESCALATING_AMOUNTS", "yesno"))
            \o f3) \o f4
  BY Zenon DEF Scam!PayeeHistoryFacts
<1>2. PICK f12 \in Seq(Fact_) : Scam!PayeeHistoryFacts(plan, ctx, i) = (f12 \o f3) \o f4
  BY <1>1, AnyFact, CodesAre
<1>3. f3 \in Seq(Fact_) /\ (mine # {} => Has(f3, "RETRY_AFTER_STOPPED", 30))
  <2>1. "RETRY_AFTER_STOPPED" \in DOMAIN Scam!Weights /\ Scam!Weights["RETRY_AFTER_STOPPED"] = 30
    BY CodesAre, WeightOf
  <2> HIDE DEF mine
  <2> QED BY <2>1, FactWorth
<1>4. f4 \in Seq(Fact_) /\ (more => Has(f4, "SMALLER_AFTER_STOPPED", 30))
  <2>1. "SMALLER_AFTER_STOPPED" \in DOMAIN Scam!Weights /\ Scam!Weights["SMALLER_AFTER_STOPPED"] = 30
    BY CodesAre, WeightOf
  <2> HIDE DEF more
  <2> QED BY <2>1, FactWorth
<1>5. (\E a \in Scam!RecentStopped(ctx) : a.payee = plan[i].payee /\ a.amount > plan[i].amount)
        => mine # {} /\ more
  OBVIOUS
<1> HIDE DEF f3, f4, mine, more
<1>6. f12 \o f3 \in Seq(Fact_) /\ (f12 \o f3) \o f4 \in Seq(Fact_)
  BY <1>3, <1>4, AnyFact
<1>7. mine # {} => Has((f12 \o f3) \o f4, "RETRY_AFTER_STOPPED", 30)
  BY <1>3, <1>4, <1>6, Joined
<1>8. more => Has((f12 \o f3) \o f4, "SMALLER_AFTER_STOPPED", 30)
  BY <1>4, <1>6, Joined
<1> QED BY <1>2, <1>5, <1>6, <1>7, <1>8

LEMMA LegFactsHas ==
  ASSUME NEW plan, NEW ctx, NEW i
  PROVE  /\ Scam!LegFacts(plan, ctx, i) \in Seq(Fact_)
         /\ plan[i].type = "TRANSFER" =>
              /\ i \in Scam!NewHere(plan, ctx)
                   => Has(Scam!LegFacts(plan, ctx, i), "FIRST_PAYMENT_TO_DESTINATION", 20)
              /\ (/\ ctx.dests[plan[i].payee].changed # 0
                  /\ ctx.now - ctx.dests[plan[i].payee].changed < Scam!Day
                  /\ ctx.dests[plan[i].payee].version # 1)
                   => Has(Scam!LegFacts(plan, ctx, i), "RECENT_DESTINATION_CHANGE", 50)
              /\ (\E a \in Scam!RecentStopped(ctx) :
                    a.payee = plan[i].payee /\ a.amount > plan[i].amount)
                   => /\ Has(Scam!LegFacts(plan, ctx, i), "RETRY_AFTER_STOPPED", 30)
                      /\ Has(Scam!LegFacts(plan, ctx, i), "SMALLER_AFTER_STOPPED", 30)
<1>1. CASE plan[i].type # "TRANSFER"
  BY <1>1 DEF Scam!LegFacts
<1>2. CASE plan[i].type = "TRANSFER"
  <2> DEFINE changed == /\ ctx.dests[plan[i].payee].changed # 0
                        /\ ctx.now - ctx.dests[plan[i].payee].changed < Scam!Day
                        /\ ctx.dests[plan[i].payee].version # 1
             retried == \E a \in Scam!RecentStopped(ctx) :
                          a.payee = plan[i].payee /\ a.amount > plan[i].amount
             new == i \in Scam!NewHere(plan, ctx)
             f1 == Scam!AmountFacts(plan, ctx, i)
             f2 == Scam!PayeeFacts(plan, ctx, i)
             f3 == Scam!PayeeHistoryFacts(plan, ctx, i)
  <2>1. Scam!LegFacts(plan, ctx, i) = (f1 \o f2) \o f3
    BY <1>2 DEF Scam!LegFacts
  <2>2. f1 \in Seq(Fact_)
    BY AmountFactsType
  <2>3. /\ f2 \in Seq(Fact_)
        /\ new => Has(f2, "FIRST_PAYMENT_TO_DESTINATION", 20)
        /\ changed => Has(f2, "RECENT_DESTINATION_CHANGE", 50)
    BY PayeeFactsHas
  <2>4. /\ f3 \in Seq(Fact_)
        /\ retried => Has(f3, "RETRY_AFTER_STOPPED", 30) /\ Has(f3, "SMALLER_AFTER_STOPPED", 30)
    BY PayeeHistoryFactsHas
  <2> HIDE DEF f1, f2, f3, new, changed, retried
  <2>5. f1 \o f2 \in Seq(Fact_) /\ (f1 \o f2) \o f3 \in Seq(Fact_)
    BY <2>2, <2>3, <2>4, AnyFact
  <2>6. \A code, points : Has(f2, code, points) \/ Has(f3, code, points)
          => Has((f1 \o f2) \o f3, code, points)
    BY <2>2, <2>3, <2>4, <2>5, Joined
  <2>7. /\ new => Has((f1 \o f2) \o f3, "FIRST_PAYMENT_TO_DESTINATION", 20)
        /\ changed => Has((f1 \o f2) \o f3, "RECENT_DESTINATION_CHANGE", 50)
        /\ retried => /\ Has((f1 \o f2) \o f3, "RETRY_AFTER_STOPPED", 30)
                      /\ Has((f1 \o f2) \o f3, "SMALLER_AFTER_STOPPED", 30)
    BY <2>3, <2>4, <2>6
  <2> QED BY <2>1, <2>5, <2>7 DEF new, changed, retried
<1> QED BY <1>1, <1>2

\* Lists put one after the other, up to the k-th.
Flattens(g, seqs, k) ==
  g = [i \in 1 .. k |-> IF i = 1 THEN seqs[i] ELSE g[i - 1] \o seqs[i]]

LEMMA FlattenExists ==
  ASSUME NEW seqs, NEW n \in Nat
  PROVE  \E g : Flattens(g, seqs, n)
<1> DEFINE Found == {k \in Nat : \E g : Flattens(g, seqs, k)}
<1>1. 0 \in Found
  <2>1. Flattens([i \in 1 .. 0 |-> 0], seqs, 0)
    BY DEF Flattens
  <2> QED BY <2>1
<1>2. ASSUME NEW k \in Nat, k \in Found PROVE k + 1 \in Found
  <2>1. PICK g : Flattens(g, seqs, k)
    BY <1>2
  <2>2. PICK h : h = [i \in 1 .. k + 1 |-> IF i = 1 THEN seqs[i]
                                           ELSE IF i = k + 1 THEN g[k] \o seqs[i] ELSE g[i]]
    OBVIOUS
  <2>3. \A i \in 1 .. k : h[i] = g[i]
    BY <2>1, <2>2 DEF Flattens
  <2>4. \A i \in 1 .. k + 1 : h[i] = IF i = 1 THEN seqs[i] ELSE h[i - 1] \o seqs[i]
    <3> SUFFICES ASSUME NEW i \in 1 .. k + 1, i # 1 PROVE h[i] = h[i - 1] \o seqs[i]
      BY <2>2
    <3>1. i - 1 \in 1 .. k
      OBVIOUS
    <3>2. CASE i = k + 1
      <4>1. k \in 1 .. k /\ k + 1 \in 1 .. k + 1 /\ k + 1 # 1 /\ i - 1 = k
        BY <3>2
      <4>2. h[k + 1] = g[k] \o seqs[k + 1]
        BY <2>2, <4>1
      <4>3. h[k] = g[k]
        BY <2>3, <4>1
      <4> QED BY <3>2, <4>1, <4>2, <4>3
    <3>3. CASE i # k + 1
      <4>1. i \in 1 .. k
        BY <3>3
      <4>2. g[i] = g[i - 1] \o seqs[i]
        BY <2>1, <4>1 DEF Flattens
      <4> QED BY <2>3, <3>1, <4>1, <4>2
    <3> QED BY <3>2, <3>3
  <2>5. h = [i \in 1 .. k + 1 |-> IF i = 1 THEN seqs[i] ELSE h[i - 1] \o seqs[i]]
    BY <2>2, <2>4
  <2>6. Flattens(h, seqs, k + 1)
    BY <2>5, Zenon DEF Flattens
  <2> QED BY <2>6
<1> HIDE DEF Found
<1>3. n \in Found
  BY <1>1, <1>2, Induction
<1> QED BY <1>3 DEF Found

LEMMA FlattenHas ==
  ASSUME NEW n \in Nat, NEW seqs \in [1 .. n -> Seq(Fact_)], NEW g, Flattens(g, seqs, n),
         NEW k \in 1 .. n
  PROVE  /\ g[k] \in Seq(Fact_)
         /\ \A i \in 1 .. k : \A code, points :
              Has(seqs[i], code, points) => Has(g[k], code, points)
<1> DEFINE Fine(m) == /\ g[m] \in Seq(Fact_)
                      /\ \A i \in 1 .. m : \A code, points :
                           Has(seqs[i], code, points) => Has(g[m], code, points)
           Good == {m \in Nat : m \in 1 .. n => Fine(m)}
<1>1. 0 \in Good
  OBVIOUS
<1>2. ASSUME NEW m \in Nat, m \in Good PROVE m + 1 \in Good
  <2> SUFFICES ASSUME m + 1 \in 1 .. n PROVE Fine(m + 1)
    OBVIOUS
  <2>0. seqs[m + 1] \in Seq(Fact_)
    OBVIOUS
  <2>1. CASE m = 0
    <3>1. g[1] = seqs[1]
      BY <2>1 DEF Flattens
    <3>2. 1 .. 1 = {1}
      OBVIOUS
    <3> QED BY <2>0, <2>1, <3>1, <3>2
  <2>2. CASE m # 0
    <3>1. g[m + 1] = g[m] \o seqs[m + 1]
      <4>1. m + 1 # 1 /\ (m + 1) - 1 = m
        BY <2>2
      <4>2. g[m + 1] = g[(m + 1) - 1] \o seqs[m + 1]
        BY <4>1 DEF Flattens
      <4> QED BY <4>1, <4>2
    <3>2. Fine(m)
      BY <1>2, <2>2
    <3> HIDE DEF Fine
    <3>3. g[m] \in Seq(Fact_)
      BY <3>2 DEF Fine
    <3>4. /\ g[m + 1] \in Seq(Fact_)
          /\ \A code, points : Has(g[m], code, points) \/ Has(seqs[m + 1], code, points)
                                 => Has(g[m + 1], code, points)
      BY <2>0, <3>1, <3>3, Joined
    <3>5. ASSUME NEW i \in 1 .. m + 1, NEW code, NEW points, Has(seqs[i], code, points)
          PROVE  Has(g[m + 1], code, points)
      <4>1. CASE i = m + 1
        BY <3>4, <3>5, <4>1
      <4>2. CASE i \in 1 .. m
        BY <3>2, <3>4, <3>5, <4>2 DEF Fine
      <4> QED BY <4>1, <4>2
    <3> QED BY <3>4, <3>5 DEF Fine
  <2> QED BY <2>1, <2>2
<1> HIDE DEF Good
<1>3. \A m \in Nat : m \in Good
  BY <1>1, <1>2, Induction
<1>4. k \in Nat /\ k \in Good
  BY <1>3
<1> QED BY <1>4 DEF Good

LEMMA Flattened ==
  ASSUME NEW n \in Nat, NEW seqs \in [1 .. n -> Seq(Fact_)]
  PROVE  /\ Scam!FlattenSeq(seqs) \in Seq(Fact_)
         /\ \A i \in 1 .. n : \A code, points :
              Has(seqs[i], code, points) => Has(Scam!FlattenSeq(seqs), code, points)
<1>1. seqs \in Seq(Seq(Fact_)) /\ Len(seqs) = n
  OBVIOUS
<1>2. CASE n = 0
  <2>1. Scam!FlattenSeq(seqs) = seqs /\ seqs = << >>
    BY <1>1, <1>2 DEF Scam!FlattenSeq
  <2> QED BY <1>2, <2>1
<1>3. CASE n # 0
  <2> DEFINE flatten[i \in 1 .. Len(seqs)] == IF i = 1 THEN seqs[i] ELSE flatten[i - 1] \o seqs[i]
  <2>1. Scam!FlattenSeq(seqs) = flatten[n]
    BY <1>1, <1>3 DEF Scam!FlattenSeq
  <2>2. flatten = CHOOSE g : Flattens(g, seqs, Len(seqs))
    BY DEF Flattens
  <2> HIDE DEF flatten
  <2>3. Flattens(flatten, seqs, n)
    BY <1>1, <2>2, FlattenExists
  <2>4. n \in 1 .. n
    BY <1>3
  <2> QED BY <2>1, <2>3, <2>4, FlattenHas
<1> QED BY <1>2, <1>3

\* The facts of a plan hold those of each of its legs.
LEMMA FactsHas ==
  ASSUME NEW n \in Nat, NEW plan, DOMAIN plan = 1 .. n, NEW ctx,
         IsFiniteSet({a.draft : a \in Scam!RecentStopped(ctx)})
  PROVE  /\ Scam!Facts(plan, ctx) \in Seq(Fact_)
         /\ \A i \in 1 .. n : \A code, points :
              Has(Scam!LegFacts(plan, ctx, i), code, points)
                => Has(Scam!Facts(plan, ctx), code, points)
<1> DEFINE seqs == [i \in 1 .. n |-> Scam!LegFacts(plan, ctx, i)]
<1>1. seqs \in [1 .. n -> Seq(Fact_)]
  BY LegFactsHas
<1>2. Scam!Facts(plan, ctx) = Scam!FlattenSeq(seqs) \o Scam!PlanFacts(plan, ctx)
  BY DEF Scam!Facts
<1>3. \A i \in 1 .. n : seqs[i] = Scam!LegFacts(plan, ctx, i)
  OBVIOUS
<1> HIDE DEF seqs
<1>4. /\ Scam!FlattenSeq(seqs) \in Seq(Fact_)
      /\ \A i \in 1 .. n : \A code, points :
           Has(seqs[i], code, points) => Has(Scam!FlattenSeq(seqs), code, points)
  BY <1>1, Flattened
<1>5. Scam!PlanFacts(plan, ctx) \in Seq(Fact_)
  BY PlanFactsType
<1> QED BY <1>2, <1>3, <1>4, <1>5, Joined

\* The greatest of the points some of the facts carry.
LEMMA SomeMost ==
  ASSUME NEW T, IsFiniteSet(T), NEW by, \A i \in T : by[i] \in Nat
  PROVE  T # {} => \E i \in T : \A j \in T : by[i] >= by[j]
<1> DEFINE F == {s \in SUBSET T : s # {} => \E i \in s : \A j \in s : by[i] >= by[j]}
<1>1. {} \in F
  OBVIOUS
<1>2. ASSUME NEW s \in SUBSET T, NEW x \in T \ s, s \in F PROVE s \cup {x} \in F
  <2>1. CASE s = {}
    BY <2>1
  <2>2. CASE s # {}
    <3>1. PICK i \in s : \A j \in s : by[i] >= by[j]
      BY <1>2, <2>2
    <3>2. CASE by[x] >= by[i]
      <4>1. \A j \in s \cup {x} : by[x] >= by[j]
        BY <3>1, <3>2
      <4> QED BY <4>1
    <3>3. CASE ~(by[x] >= by[i])
      <4>1. \A j \in s \cup {x} : by[i] >= by[j]
        BY <3>1, <3>3
      <4> QED BY <4>1
    <3> QED BY <3>2, <3>3
  <2> QED BY <2>1, <2>2
<1> HIDE DEF F
<1>3. T \in F
  BY <1>1, <1>2, SetInduction
<1> QED BY <1>3 DEF F

LEMMA BestOfCode ==
  ASSUME NEW facts \in Seq(Fact_), NEW k \in DOMAIN facts
  PROVE  /\ Scam!PointsByCode(facts)[facts[k].code] \in Nat
         /\ Scam!PointsByCode(facts)[facts[k].code] >= facts[k].points
<1> DEFINE c == facts[k].code
           same == {j \in DOMAIN facts : facts[j].code = c}
           points == {facts[i].points : i \in same}
           worth == [i \in DOMAIN facts |-> facts[i].points]
<1>1. Scam!PointsByCode(facts)[c] = Scam!Max(points)
  BY DEF Scam!PointsByCode
<1>2. k \in same /\ IsFiniteSet(same)
  <2>1. IsFiniteSet(DOMAIN facts)
    <3>1. DOMAIN facts = 1 .. Len(facts) /\ 1 \in Int /\ Len(facts) \in Int
      OBVIOUS
    <3> QED BY <3>1, FS_Interval
  <2> QED BY <2>1, FS_Subset
<1>3. \A i \in DOMAIN facts : worth[i] = facts[i].points /\ worth[i] \in Nat
  <2>1. \A i \in DOMAIN facts : facts[i] \in Fact_
    OBVIOUS
  <2> QED BY <2>1 DEF Fact_
<1>4. PICK i \in same : \A j \in same : worth[i] >= worth[j]
  <2>1. \A j \in same : worth[j] \in Nat
    BY <1>3
  <2> HIDE DEF worth, same
  <2> QED BY <1>2, <2>1, SomeMost
<1>5. /\ worth[i] \in points /\ worth[k] \in points
      /\ \A p \in points : p \in Nat /\ worth[i] >= p
  BY <1>2, <1>3, <1>4
<1> HIDE DEF points
<1>6. Scam!Max(points) \in points /\ \A p \in points : Scam!Max(points) >= p
  BY <1>5 DEF Scam!Max
<1>7. worth[k] = facts[k].points
  BY <1>3
<1> QED BY <1>1, <1>5, <1>6, <1>7

\* Two facts of different codes, neither about the amount, both count in full.
LEMMA ScoreAtLeast ==
  ASSUME NEW facts \in Seq(Fact_), NEW c, NEW b, c # b,
         c \notin Scam!AmountCodes, b \notin Scam!AmountCodes,
         NEW p \in Nat, NEW q \in Nat, Has(facts, c, p), Has(facts, b, q)
  PROVE  Scam!FactsPoints(facts) \in Nat /\ Scam!FactsPoints(facts) >= p + q
<1> DEFINE by == Scam!PointsByCode(facts)
           others == DOMAIN by \ Scam!AmountCodes
           amounts == DOMAIN by \intersect Scam!AmountCodes
<1>1. Scam!FactsPoints(facts) = SumOver(by, others) + Scam!Min({50, SumOver(by, amounts)})
  BY DEF Scam!FactsPoints, Scam!MapThenSumSet, Scam!MapThenFoldSet, SumOver, MapThenSumSet,
         MapThenFoldSet, Scam!AmountMax
<1>2. DOMAIN by = {facts[i].code : i \in DOMAIN facts}
  BY DEF Scam!PointsByCode
<1>3. IsFiniteSet(DOMAIN by)
  <2> DEFINE D == DOMAIN facts
             F == {s \in SUBSET D : IsFiniteSet({facts[i].code : i \in s})}
  <2>1. IsFiniteSet(D)
    <3>1. D = 1 .. Len(facts) /\ 1 \in Int /\ Len(facts) \in Int
      OBVIOUS
    <3> QED BY <3>1, FS_Interval
  <2>2. {} \in F
    <3>1. {facts[i].code : i \in {}} = {}
      OBVIOUS
    <3> QED BY <3>1, FS_EmptySet
  <2>3. ASSUME NEW s \in SUBSET D, NEW x \in D \ s, s \in F PROVE s \cup {x} \in F
    <3>1. {facts[i].code : i \in s \cup {x}} = {facts[i].code : i \in s} \cup {facts[x].code}
      OBVIOUS
    <3>2. PICK S : S = {facts[i].code : i \in s}
      OBVIOUS
    <3>3. IsFiniteSet(S)
      BY <2>3, <3>2
    <3>4. IsFiniteSet(S \cup {facts[x].code})
      BY <3>3, FS_AddElement
    <3> QED BY <3>1, <3>2, <3>4
  <2> HIDE DEF F
  <2>4. D \in F
    BY <2>1, <2>2, <2>3, SetInduction
  <2> QED BY <1>2, <2>4 DEF F
<1>4. \A d \in DOMAIN by : by[d] \in Nat
  <2> SUFFICES ASSUME NEW d \in DOMAIN by PROVE by[d] \in Nat
    OBVIOUS
  <2>1. PICK k \in DOMAIN facts : facts[k].code = d
    BY <1>2
  <2> QED BY <2>1, BestOfCode
<1>5. ASSUME NEW d, NEW r \in Nat, Has(facts, d, r) PROVE d \in DOMAIN by /\ by[d] >= r
  <2>1. PICK k \in DOMAIN facts : facts[k].code = d /\ facts[k].points >= r
    BY <1>5 DEF Has
  <2>2. facts[k].points \in Nat
    <3>1. facts[k] \in Fact_
      OBVIOUS
    <3> QED BY <3>1 DEF Fact_
  <2>3. by[d] \in Nat /\ by[d] >= facts[k].points
    BY <2>1, BestOfCode
  <2>4. d \in DOMAIN by
    BY <1>2, <2>1
  <2> HIDE DEF by
  <2> QED BY <2>1, <2>2, <2>3, <2>4
<1>6. /\ c \in others /\ by[c] >= p /\ by[c] \in Nat
      /\ b \in others /\ by[b] >= q /\ by[b] \in Nat
  BY <1>4, <1>5
<1>7. IsFiniteSet(others) /\ IsFiniteSet(amounts)
  BY <1>3, FS_Subset
<1> HIDE DEF by
<1>8. /\ \A d \in others : by[d] \in Nat
      /\ \A d \in amounts : by[d] \in Nat
  BY <1>4
<1> HIDE DEF others, amounts
<1>9. SumOver(by, others) \in Nat /\ SumOver(by, others) >= by[c] + by[b]
  BY <1>6, <1>7, <1>8, SumNat, SumAtLeast
<1>10. SumOver(by, amounts) \in Nat
  BY <1>7, <1>8, SumNat
<1>11. Scam!Min({50, SumOver(by, amounts)}) \in Nat
  <2>1. PICK m \in Nat : m = SumOver(by, amounts)
    BY <1>10
  <2>2. Scam!Min({50, m}) = IF 50 <= m THEN 50 ELSE m
    BY DEF Scam!Min
  <2> QED BY <2>1, <2>2
<1> QED BY <1>1, <1>6, <1>9, <1>11

\* What a score of at least 60 or 70 tenths means, whatever the words.
LEMMA Weighed ==
  ASSUME NEW plan, NEW phrases, NEW facts, NEW words, Scam!FactsPoints(facts) \in Nat,
         Scam!FactsPoints(facts) >= 60
  PROVE  LET w == Scam!Weigh(plan, phrases, facts, words)
         IN /\ w.outcome # "BLOCK" => w.asks
            /\ Scam!FactsPoints(facts) >= 70 => w.outcome \in {"HOLD_STEP_UP", "BLOCK"}
<1> DEFINE score == Scam!FactsPoints(facts)
           codes == {facts[i].code : i \in DOMAIN facts}
           small == Scam!PlanTotal(plan) < Scam!SmallPaymentCents /\ codes \intersect Scam!AmountCodes = {}
           line == Scam!AskFrom(words.points, small)
           weighed == score >= line \/ words.never
           counted == IF weighed THEN words.points ELSE 0
           decided == Scam!Decide(score, counted, words.never, small)
           w == Scam!Weigh(plan, phrases, facts, words)
<1>1. /\ w.asks = (line <= score /\ score < 100 /\ ~words.never /\ decided # "BLOCK")
      /\ w.outcome = "BLOCK" <=> decided = "BLOCK"
      /\ decided \in {"HOLD_STEP_UP", "BLOCK"} => w.outcome = decided
  BY DEF Scam!Weigh
<1>2. \A x, y : Scam!AskFrom(x, y) \in 30 .. 50
  BY DEF Scam!AskFrom
<1>3. decided # "BLOCK" => ~words.never /\ score < 100
  BY DEF Scam!Decide
<1>4. ASSUME score >= 70 PROVE decided \in {"HOLD_STEP_UP", "BLOCK"}
  <2>1. ~(score < Scam!AskFrom(counted, small))
    BY <1>2, <1>4
  <2> HIDE DEF score, counted, small
  <2> QED BY <1>4, <2>1 DEF Scam!Decide
<1>5. line <= score
  BY <1>2
<1> HIDE DEF score, line, decided, w
<1>6. (w.outcome # "BLOCK" => w.asks) /\ (score >= 70 => w.outcome \in {"HOLD_STEP_UP", "BLOCK"})
  BY <1>1, <1>3, <1>4, <1>5
<1> QED BY <1>6 DEF score, w

-----------------------------------------------------------------------------
(* What the gateway's score is shown.                                        *)

SoundPlan(plan) ==
  /\ \E n \in Nat : DOMAIN plan = 1 .. n
  /\ \A i \in DOMAIN plan : /\ IsTransfer(plan[i]) => plan[i].payee \in Payees
                            /\ plan[i].amount \in Nat
SoundDraft(dr) == SoundPlan(dr.plan) /\ dr.heldUntil \in Nat

\* Plans are lists whose transfers have a payee, times are numbers, and a number
\* that was changed says when.
Shown ==
  /\ now # 0
  /\ \A d \in Drafts : SoundDraft(drafts[d])
  /\ \A a \in attempts : a.updated \in Nat
  /\ \A p \in Payees : dests[p].version # 1 => dests[p].changed # 0

LEMMA ClosedSound == \A status : SoundDraft(Closed(status))
<1>1. DOMAIN << >> = 1 .. 0
  OBVIOUS
<1>2. \A status : Closed(status).plan = << >> /\ Closed(status).heldUntil = 0
  BY DEF Closed, Blank
<1> QED BY <1>1, <1>2 DEF SoundDraft, SoundPlan

LEMMA BoundSound == ASSUME NEW plan, SoundPlan(plan) PROVE SoundPlan(Bind(plan))
BY DEF SoundPlan, Bind, IsTransfer

\* The rows a step may write carry the time it is.
LEMMA MarkedTimes ==
  ASSUME IInv, Shown, NEW d, NEW status
  PROVE  \A b \in Mark(d, status) : b.updated \in Nat
<1> DEFINE shut(a) == [a EXCEPT !.status = status, !.updated = now]
           new(a) == IF a.draft = d /\ a.status = "OPEN" THEN shut(a) ELSE a
<1>1. Mark(d, status) = {new(a) : a \in attempts}
  BY DEF Mark
<1>2. ASSUME NEW a \in attempts PROVE new(a).updated \in Nat
  <2>1. RowShape(a) /\ now \in Nat
    BY DEF IInv, Rows, Counters
  <2>2. shut(a).updated = now
    BY <2>1 DEF RowShape
  <2> QED BY <2>1, <2>2 DEF Shown
<1> HIDE DEF new
<1> QED BY <1>1, <1>2

LEMMA RecordedTimes ==
  ASSUME IInv, Shown, NEW d, NEW plan, NEW outcome, NEW asked, NEW status
  PROVE  \A b \in Record(d, plan, outcome, asked, status) : b.updated \in Nat
<1> DEFINE new(i) == RecordedRow(d, plan, outcome, asked, status, i)
           legs == {j \in DOMAIN plan : IsTransfer(plan[j])}
<1>1. Record(d, plan, outcome, asked, status)
        = (attempts \ {a \in attempts : a.draft = d}) \union {new(i) : i \in legs}
  BY DEF Record, RecordedRow
<1>2. \A i : new(i).updated = now
  BY DEF RecordedRow
<1>3. now \in Nat
  BY DEF IInv, Counters
<1> HIDE DEF new, legs
<1> QED BY <1>1, <1>2, <1>3 DEF Shown

LEMMA UnfrozenTimes ==
  ASSUME IInv, Shown PROVE \A b \in OpenStopped : b.updated \in Nat
<1> DEFINE shut(a) == [a EXCEPT !.status = "STOPPED", !.updated = now]
           new(a) == IF a.status = "OPEN" THEN shut(a) ELSE a
<1>1. OpenStopped = {new(a) : a \in attempts}
  BY DEF OpenStopped
<1>2. ASSUME NEW a \in attempts PROVE new(a).updated \in Nat
  <2>1. RowShape(a) /\ now \in Nat
    BY DEF IInv, Rows, Counters
  <2>2. shut(a).updated = now
    BY <2>1 DEF RowShape
  <2> QED BY <2>1, <2>2 DEF Shown
<1> HIDE DEF new
<1> QED BY <1>1, <1>2

LEMMA OneShown ==
  ASSUME IInv, Shown, NEW d \in Drafts, NEW dr, drafts' = [drafts EXCEPT ![d] = dr],
         SoundDraft(dr), \A b \in attempts' : b.updated \in Nat, UNCHANGED <<now, dests>>
  PROVE  Shown'
<1>1. ASSUME NEW e \in Drafts PROVE SoundDraft(drafts'[e])
  BY DEF IInv, Shown
<1> QED BY <1>1 DEF Shown

LEMMA ScreenedShown ==
  ASSUME IInv, Shown, NEW d \in Drafts, NEW dr, NEW ruling, NEW fresh,
         Fields \subseteq DOMAIN dr, SoundPlan(dr.plan),
         Screened(d, dr, ruling, fresh), UNCHANGED Ledger
  PROVE  Shown'
<1> DEFINE outcome == Scam!Stricter(dr.floor, fresh.outcome)
           asking  == ~dr.purpose /\ fresh.asks /\ outcome # "BLOCK"
           status  == IF outcome = "BLOCK" THEN "blocked" ELSE IF asking THEN "asking" ELSE "ready"
           coded   == ruling = "REQUIRE_EXTRA_CONFIRMATION" \/ outcome = "HOLD_STEP_UP"
           passed  == [dr EXCEPT !.status = status, !.floor = outcome,
                          !.questions = IF asking THEN fresh.questions ELSE <<>>,
                          !.heldUntil = IF status = "ready" /\ Scam!NeedsHold(outcome)
                                        THEN now + HoldSeconds ELSE 0,
                          !.code = IF status = "ready" /\ coded THEN "sent" ELSE "none"]
           next    == IF status = "blocked" THEN Closed("blocked") ELSE passed
<1>0. UNCHANGED <<now, dests>> /\ now \in Nat
  BY DEF Ledger, IInv, Counters
<1>1. CASE ruling = "BLOCK"
  <2>1. drafts' = [drafts EXCEPT ![d] = Closed("blocked")] /\ attempts' = attempts
    BY <1>1 DEF Screened
  <2>2. \A b \in attempts' : b.updated \in Nat
    BY <2>1 DEF Shown
  <2> QED BY <1>0, <2>1, <2>2, ClosedSound, OneShown
<1>2. CASE ruling # "BLOCK"
  <2>1. /\ attempts' = Record(d, dr.plan, outcome, asking \/ dr.purpose,
                              IF outcome = "BLOCK" THEN "STOPPED" ELSE "OPEN")
        /\ drafts' = [drafts EXCEPT ![d] = next]
    BY <1>2 DEF Screened
  <2>2. /\ passed.plan = dr.plan
        /\ passed.heldUntil = IF status = "ready" /\ Scam!NeedsHold(outcome)
                              THEN now + HoldSeconds ELSE 0
    BY DEF Fields
  <2> HIDE DEF passed, status, outcome, asking
  <2>3. SoundDraft(passed)
    BY <1>0, <2>2, Bounds DEF SoundDraft
  <2>4. SoundDraft(next)
    BY <2>3, ClosedSound
  <2>5. \A b \in attempts' : b.updated \in Nat
    BY <2>1, RecordedTimes
  <2> HIDE DEF next
  <2> QED BY <1>0, <2>1, <2>4, <2>5, OneShown
<1> QED BY <1>1, <1>2

LEMMA PipelineShown ==
  ASSUME IInv, Shown, NEW d \in Drafts, NEW given, Fields \subseteq DOMAIN given,
         SoundPlan(given.plan), Pipeline(d, given), UNCHANGED Ledger
  PROVE  Shown'
<1> DEFINE bound == Bind(given.plan)
<1>1. PICK dr : /\ dr = [given EXCEPT !.plan = bound, !.created = now, !.questions = <<>>]
                /\ Screened(d, dr, Ruling(dr.plan), Rescore(d, dr))
  BY DEF Pipeline
<1>2. SoundPlan(bound)
  BY BoundSound
<1> HIDE DEF bound
<1>3. DOMAIN dr = DOMAIN given /\ dr.plan = bound
  BY <1>1 DEF Fields
<1> QED BY <1>1, <1>2, <1>3, ScreenedShown

\* A request's plan is a list whose transfers have a payee.
LEMMA RequestSound == ASSUME NEW request \in Requests PROVE SoundPlan(request)
<1>1. request \in Seq(Leg_)
  BY ClearanceAssumption
<1>2. DOMAIN request = 1 .. Len(request) /\ Len(request) \in Nat
  BY <1>1
<1>3. ASSUME NEW i \in DOMAIN request
      PROVE  /\ IsTransfer(request[i]) => request[i].payee \in Payees
             /\ request[i].amount \in Nat
  <2>1. request[i] \in Leg_
    BY <1>1
  <2> QED BY <2>1 DEF Leg_, IsTransfer
<1> QED BY <1>2, <1>3 DEF SoundPlan

LEMMA AskShown == ASSUME IInv, Shown, NEW d \in Drafts, Ask(d) PROVE Shown'
<1>1. PICK request \in Requests, text \in Texts :
        Pipeline(d, [Blank EXCEPT !.plan = request, !.text = text, !.started = now])
  BY DEF Ask
<1> DEFINE given == [Blank EXCEPT !.plan = request, !.text = text, !.started = now]
<1>2. DOMAIN given = Fields /\ given.plan = request
  BY DEF Blank, Fields
<1> HIDE DEF given
<1>3. Pipeline(d, given) /\ UNCHANGED Ledger
  BY <1>1 DEF given, Ask
<1> QED BY <1>2, <1>3, RequestSound, PipelineShown

LEMMA AnswerShown == ASSUME IInv, Shown, NEW d \in Drafts, Answer(d) PROVE Shown'
<1> DEFINE dr == drafts[d]
<1>1. DraftInv(d, dr, attempts, now) /\ UNCHANGED Ledger /\ SoundDraft(dr)
  BY DEF IInv, Answer, Shown
<1>2. PICK reply, missing, tries, unanswered :
           \/ /\ drafts' = [drafts EXCEPT ![d].questions = missing, ![d].tries = tries]
              /\ UNCHANGED attempts
           \/ Pipeline(d, [dr EXCEPT !.text = Scam!JoinTexts(dr.text, reply), !.tries = tries,
                                     !.purpose = TRUE, !.unanswered = unanswered])
  BY DEF Answer
<1>3. Fields \subseteq DOMAIN dr
  BY <1>1 DEF DraftInv, DraftShape
<1>4. CASE /\ drafts' = [drafts EXCEPT ![d].questions = missing, ![d].tries = tries]
           /\ UNCHANGED attempts
  <2> DEFINE next == [dr EXCEPT !.questions = missing, !.tries = tries]
  <2>1. drafts' = [drafts EXCEPT ![d] = next]
    BY <1>4 DEF IInv
  <2>2. next.plan = dr.plan /\ next.heldUntil = dr.heldUntil
    BY <1>3 DEF Fields
  <2> HIDE DEF next
  <2>3. SoundDraft(next)
    BY <1>1, <2>2 DEF SoundDraft
  <2>4. \A b \in attempts' : b.updated \in Nat
    BY <1>4 DEF Shown
  <2>5. UNCHANGED <<now, dests>>
    BY <1>1 DEF Ledger
  <2> QED BY <2>1, <2>3, <2>4, <2>5, OneShown
<1>5. CASE Pipeline(d, [dr EXCEPT !.text = Scam!JoinTexts(dr.text, reply), !.tries = tries,
                                  !.purpose = TRUE, !.unanswered = unanswered])
  <2> DEFINE given == [dr EXCEPT !.text = Scam!JoinTexts(dr.text, reply), !.tries = tries,
                                 !.purpose = TRUE, !.unanswered = unanswered]
  <2>1. DOMAIN given = DOMAIN dr /\ given.plan = dr.plan
    BY <1>3 DEF Fields
  <2>2. Pipeline(d, given)
    BY <1>5
  <2> HIDE DEF given
  <2>3. SoundPlan(given.plan)
    BY <1>1, <2>1 DEF SoundDraft
  <2> QED BY <1>1, <1>3, <2>1, <2>2, <2>3, PipelineShown
<1> QED BY <1>2, <1>4, <1>5

\* A draft whose plan and hold a step leaves alone.
LEMMA SameShown ==
  ASSUME IInv, Shown, NEW d \in Drafts, NEW dr, drafts' = [drafts EXCEPT ![d] = dr],
         dr.plan = drafts[d].plan, dr.heldUntil = drafts[d].heldUntil,
         UNCHANGED attempts, UNCHANGED Ledger
  PROVE  Shown'
<1>1. SoundDraft(dr)
  BY DEF SoundDraft, Shown
<1>2. \A b \in attempts' : b.updated \in Nat
  BY DEF Shown
<1>3. UNCHANGED <<now, dests>>
  BY DEF Ledger
<1> QED BY <1>1, <1>2, <1>3, OneShown

LEMMA ClosedShown ==
  ASSUME IInv, Shown, NEW d \in Drafts, drafts' = [drafts EXCEPT ![d] = Closed("cancelled")],
         attempts' = Mark(d, "STOPPED"), UNCHANGED Ledger
  PROVE  Shown'
<1>1. \A b \in attempts' : b.updated \in Nat
  BY MarkedTimes
<1>2. UNCHANGED <<now, dests>>
  BY DEF Ledger
<1> QED BY <1>1, <1>2, ClosedSound, OneShown

LEMMA StepShown == IInv /\ Shown /\ [Next]_vars => Shown'
<1> SUFFICES ASSUME IInv, Shown, [Next]_vars PROVE Shown'
  OBVIOUS
<1>0. \A d \in Drafts : Fields \subseteq DOMAIN drafts[d]
  BY DEF IInv, DraftInv, DraftShape
<1>1. ASSUME NEW d \in Drafts, StopBeforeAsking(d) PROVE Shown'
  <2>1. PICK plan : /\ drafts' = [drafts EXCEPT ![d] = Closed("blocked")]
                    /\ attempts' = Record(d, plan, "BLOCK", FALSE, "STOPPED")
    BY <1>1 DEF StopBeforeAsking
  <2>2. \A b \in attempts' : b.updated \in Nat
    BY <2>1, RecordedTimes
  <2>3. UNCHANGED <<now, dests>>
    BY <1>1 DEF StopBeforeAsking, Ledger
  <2> QED BY <2>1, <2>2, <2>3, ClosedSound, OneShown
<1>2. ASSUME NEW d \in Drafts, ConfirmCode(d) PROVE Shown'
  <2> DEFINE next == [drafts[d] EXCEPT !.code = "confirmed"]
  <2>1. drafts' = [drafts EXCEPT ![d] = next]
    BY <1>2 DEF ConfirmCode, IInv
  <2>2. next.plan = drafts[d].plan /\ next.heldUntil = drafts[d].heldUntil
    BY <1>0 DEF Fields
  <2>3. UNCHANGED attempts /\ UNCHANGED Ledger
    BY <1>2 DEF ConfirmCode, Ledger
  <2> HIDE DEF next
  <2> QED BY <2>1, <2>2, <2>3, SameShown
<1>3. ASSUME NEW d \in Drafts, Cancel(d) PROVE Shown'
  BY <1>3, ClosedShown DEF Cancel
<1>4. ASSUME NEW d \in Drafts, Submit(d) PROVE Shown'
  <2>1. PICK status, at : drafts' = [drafts EXCEPT ![d].status = status, ![d].signedAt = now,
                                                   ![d].releaseAt = at]
    BY <1>4 DEF Submit
  <2> DEFINE next == [drafts[d] EXCEPT !.status = status, !.signedAt = now, !.releaseAt = at]
  <2>2. drafts' = [drafts EXCEPT ![d] = next]
    BY <2>1 DEF IInv
  <2>3. next.plan = drafts[d].plan /\ next.heldUntil = drafts[d].heldUntil
    BY <1>0 DEF Fields
  <2>4. UNCHANGED attempts /\ UNCHANGED Ledger
    BY <1>4 DEF Submit
  <2> HIDE DEF next
  <2> QED BY <2>2, <2>3, <2>4, SameShown
<1>5. ASSUME NEW d \in Drafts, Release(d) \/ Superseded(d) PROVE Shown'
  <2>0. UNCHANGED Ledger
    BY <1>5 DEF Release, Superseded
  <2>1. CASE drafts' = [drafts EXCEPT ![d] = Closed("cancelled")] /\ attempts' = Mark(d, "STOPPED")
    BY <2>0, <2>1, ClosedShown
  <2>2. CASE /\ \/ drafts' = [drafts EXCEPT ![d].status = "releasing"]
                \/ drafts' = [drafts EXCEPT ![d].status = "ready"]
             /\ UNCHANGED attempts
    <3>1. PICK status : drafts' = [drafts EXCEPT ![d].status = status]
      BY <2>2
    <3> DEFINE next == [drafts[d] EXCEPT !.status = status]
    <3>2. drafts' = [drafts EXCEPT ![d] = next]
      BY <3>1 DEF IInv
    <3>3. next.plan = drafts[d].plan /\ next.heldUntil = drafts[d].heldUntil
      BY <1>0 DEF Fields
    <3> HIDE DEF next
    <3> QED BY <2>0, <2>2, <3>2, <3>3, SameShown
  <2> QED BY <1>5, <2>1, <2>2 DEF Release, Superseded
<1>6. ASSUME NEW d \in Drafts, Pay(d) PROVE Shown'
  <2> DEFINE next == [Closed("executed") EXCEPT !.code = drafts[d].code,
                        !.signedAt = drafts[d].signedAt, !.paidAt = now]
  <2>1. drafts' = [drafts EXCEPT ![d] = next] /\ attempts' = Mark(d, "SENT") /\ UNCHANGED <<now, dests>>
    BY <1>6 DEF Pay
  <2>2. next.plan = Closed("executed").plan /\ next.heldUntil = Closed("executed").heldUntil
    BY DEF Closed, Blank
  <2> HIDE DEF next
  <2>3. SoundDraft(next)
    BY <2>2, ClosedSound DEF SoundDraft
  <2>4. \A b \in attempts' : b.updated \in Nat
    BY <2>1, MarkedTimes
  <2> QED BY <2>1, <2>3, <2>4, OneShown
<1>7. ASSUME NEW p \in Payees, ChangeNumber(p) PROVE Shown'
  <2>1. UNCHANGED <<now, attempts, drafts>>
    BY <1>7 DEF ChangeNumber
  <2>2. ASSUME NEW q \in Payees, dests'[q].version # 1 PROVE dests'[q].changed # 0
    <3>1. CASE q = p
      BY <1>7, <3>1 DEF ChangeNumber, IInv, Counters, Shown
    <3>2. CASE q # p
      BY <1>7, <2>2, <3>2 DEF ChangeNumber, IInv, Counters, Shown
    <3> QED BY <3>1, <3>2
  <2> QED BY <2>1, <2>2 DEF Shown
<1>8. ASSUME AddPasskey PROVE Shown'
  BY <1>8 DEF AddPasskey, Shown
<1>9. ASSUME Unfreeze PROVE Shown'
  <2>1. attempts' = OpenStopped /\ UNCHANGED <<now, dests>>
    BY <1>9 DEF Unfreeze, OpenStopped
  <2>2. \A b \in attempts' : b.updated \in Nat
    BY <2>1, UnfrozenTimes
  <2>3. ASSUME NEW d \in Drafts PROVE SoundDraft(drafts'[d])
    <3>1. drafts'[d] = Closed("cancelled") \/ drafts'[d] = drafts[d]
      BY <1>9 DEF Unfreeze
    <3> QED BY <3>1, ClosedSound DEF Shown
  <2> QED BY <2>1, <2>2, <2>3 DEF Shown
<1>10. ASSUME Tick PROVE Shown'
  <2>1. now' # 0
    BY <1>10, Bounds DEF Tick, Shown, IInv, Counters
  <2> QED BY <1>10, <2>1 DEF Tick, Shown
<1>11. ASSUME UNCHANGED vars PROVE Shown'
  BY <1>11 DEF vars, Shown
<1> QED BY <1>1, <1>2, <1>3, <1>4, <1>5, <1>6, <1>7, <1>8, <1>9, <1>10, <1>11, AskShown, AnswerShown
        DEF Next

LEMMA InitShown == Init => Shown
<1> SUFFICES ASSUME Init PROVE Shown
  OBVIOUS
<1>1. now # 0 /\ attempts = {} /\ \A d \in Drafts : drafts[d] = Blank
  BY Bounds DEF Init
<1>2. SoundDraft(Blank)
  <2>1. DOMAIN << >> = 1 .. 0 /\ Blank.plan = << >> /\ Blank.heldUntil = 0
    BY DEF Blank
  <2> QED BY <2>1 DEF SoundDraft, SoundPlan
<1>3. \A p \in Payees : dests[p].version = 1
  BY DEF Init
<1> QED BY <1>1, <1>2, <1>3 DEF Shown

-----------------------------------------------------------------------------
(* What a payment that passes has had.                                       *)

\* Only the gateway's checks let a draft pass.
LEMMA PassesSubmits ==
  ASSUME IInv, [Next]_vars, NEW d \in Drafts, Passes(d)
  PROVE  Submit(d)
<1>0. /\ drafts[d].status = "ready" /\ drafts'[d].status \in {"checked", "scheduled"}
      /\ drafts = [e \in Drafts |-> drafts[e]]
      /\ Fields \subseteq DOMAIN drafts[d]
  BY DEF Passes, IInv, DraftInv, DraftShape
<1>1. \A e, dr : drafts' = [drafts EXCEPT ![e] = dr] => e = d /\ drafts'[d] = dr
  BY <1>0
<1>2. \A status : Closed(status).status = status
  BY DEF Closed, Blank
<1>3. ASSUME NEW e \in Drafts, Ask(e) \/ StopBeforeAsking(e) \/ Answer(e) PROVE FALSE
  <2>1. e # d
    BY <1>0, <1>3 DEF Ask, StopBeforeAsking, Answer
  <2>2. \A given : Pipeline(e, given) => FALSE
    BY <1>1, <2>1 DEF Pipeline, Screened
  <2>3. Answer(e) => FALSE
    BY <1>0, <2>1, <2>2 DEF Answer
  <2> QED BY <1>1, <1>3, <2>1, <2>2, <2>3 DEF Ask, StopBeforeAsking
<1>4. ASSUME NEW e \in Drafts, ConfirmCode(e) PROVE FALSE
  BY <1>0, <1>4 DEF ConfirmCode, Fields
<1>5. ASSUME NEW e \in Drafts, Cancel(e) PROVE FALSE
  BY <1>0, <1>1, <1>2, <1>5 DEF Cancel
<1>6. ASSUME NEW e \in Drafts, Release(e) \/ Superseded(e) PROVE FALSE
  <2>1. e # d
    BY <1>0, <1>6 DEF Release, Superseded
  <2> QED BY <1>0, <1>6, <2>1 DEF Release, Superseded
<1>7. ASSUME NEW e \in Drafts, Pay(e) PROVE FALSE
  <2>1. e # d
    BY <1>0, <1>7 DEF Pay
  <2> QED BY <1>1, <1>7, <2>1 DEF Pay
<1>8. ASSUME Unfreeze PROVE FALSE
  BY <1>0, <1>2, <1>8 DEF Unfreeze, Open
<1>9. ASSUME (\E p \in Payees : ChangeNumber(p)) \/ AddPasskey \/ Tick \/ UNCHANGED vars PROVE FALSE
  BY <1>0, <1>9 DEF ChangeNumber, AddPasskey, Tick, vars
<1>10. ASSUME NEW e \in Drafts, Submit(e) PROVE Submit(d)
  <2>1. CASE e # d
    BY <1>0, <1>10, <2>1 DEF Submit
  <2> QED BY <1>10, <2>1
<1> QED BY <1>3, <1>4, <1>5, <1>6, <1>7, <1>8, <1>9, <1>10 DEF Next

\* The context a draft is scored in.
ShownTo(d) ==
  [now |-> now, dests |-> dests, history |-> history, balances |-> balances,
   creds |-> creds, freezeReleased |-> freezeReleased, askedAt |-> drafts[d].created,
   attempts |-> {a \in attempts : a.draft # d /\ a.updated >= now - Scam!Week},
   text |-> drafts[d].text, unanswered |-> drafts[d].unanswered]

LEMMA ShownAttempts ==
  ASSUME IInv, Shown, NEW d \in Drafts
  PROVE  /\ IsFiniteSet({a.draft : a \in Scam!RecentStopped(ShownTo(d))})
         /\ \A a \in attempts : /\ a.draft # d /\ Scam!Stopped(a)
                                /\ a.updated >= now - Scam!AttemptWindow
              => a \in Scam!RecentStopped(ShownTo(d))
<1>1. Scam!RecentStopped(ShownTo(d)) =
        {a \in {b \in attempts : b.draft # d /\ b.updated >= now - Scam!Week} :
           Scam!Stopped(a) /\ a.updated >= now - Scam!AttemptWindow}
  BY DEF Scam!RecentStopped, ShownTo
<1>2. {a.draft : a \in Scam!RecentStopped(ShownTo(d))} \subseteq Drafts
  BY <1>1 DEF IInv, Rows, RowShape
<1>3. IsFiniteSet({a.draft : a \in Scam!RecentStopped(ShownTo(d))})
  BY <1>2, Bounds, FS_Subset
<1>4. ASSUME NEW a \in attempts, a.updated >= now - Scam!AttemptWindow
      PROVE  a.updated >= now - Scam!Week
  <2>1. a.updated \in Nat /\ now \in Nat
    BY DEF Shown, IInv, Counters
  <2>2. Scam!AttemptWindow = 86400 /\ Scam!Week = 604800
    BY DEF Scam!AttemptWindow, Scam!Week, Scam!Day, Scam!Hour
  <2> QED BY <1>4, <2>1, <2>2
<1> QED BY <1>1, <1>3, <1>4

\* A payment that passes is scored with the facts of each of its transfers.
LEMMA ScoredWith ==
  ASSUME IInv, Shown, NEW d \in Drafts, NEW i \in DOMAIN drafts[d].plan,
         NEW c, NEW b, c # b, c \notin Scam!AmountCodes, b \notin Scam!AmountCodes,
         NEW j \in DOMAIN drafts[d].plan, NEW p \in Nat, NEW q \in Nat, p + q >= 60,
         Has(Scam!LegFacts(drafts[d].plan, ShownTo(d), i), c, p),
         Has(Scam!LegFacts(drafts[d].plan, ShownTo(d), j), b, q)
  PROVE  LET w == Rescore(d, drafts[d])
         IN /\ w.outcome # "BLOCK" => w.asks
            /\ p + q >= 70 => w.outcome \in {"HOLD_STEP_UP", "BLOCK"}
<1> DEFINE plan == drafts[d].plan
           facts == Scam!Facts(plan, ShownTo(d))
           words == Scam!WordScore(drafts[d].text, drafts[d].unanswered)
<1>1. PICK n \in Nat : DOMAIN plan = 1 .. n
  BY DEF Shown, SoundDraft, SoundPlan
<1>2. Rescore(d, drafts[d]) = Scam!Weigh(plan, drafts[d].text.phrases, facts, words)
  BY DEF Rescore, Scam!Assess, ShownTo
<1>3. IsFiniteSet({a.draft : a \in Scam!RecentStopped(ShownTo(d))})
  BY ShownAttempts
<1>4. facts \in Seq(Fact_) /\ Has(facts, c, p) /\ Has(facts, b, q)
  <2> HIDE DEF plan
  <2>1. /\ facts \in Seq(Fact_)
        /\ \A k \in 1 .. n : \A code, points :
             Has(Scam!LegFacts(plan, ShownTo(d), k), code, points) => Has(facts, code, points)
    BY <1>1, <1>3, FactsHas
  <2> QED BY <1>1, <2>1 DEF plan
<1> HIDE DEF facts
<1>5. Scam!FactsPoints(facts) \in Nat /\ Scam!FactsPoints(facts) >= p + q
  BY <1>4, ScoreAtLeast
<1>6. LET w == Scam!Weigh(plan, drafts[d].text.phrases, facts, words)
      IN /\ w.outcome # "BLOCK" => w.asks
         /\ Scam!FactsPoints(facts) >= 70 => w.outcome \in {"HOLD_STEP_UP", "BLOCK"}
  <2>1. Scam!FactsPoints(facts) >= 60
    BY <1>5
  <2> HIDE DEF words, plan
  <2> QED BY <1>5, <2>1, Weighed
<1>7. p + q >= 70 => Scam!FactsPoints(facts) >= 70
  BY <1>5
<1> HIDE DEF words
<1> QED BY <1>2, <1>6, <1>7

\* What the gateway's checks require of the score made again.
LEMMA PassedAs ==
  ASSUME IInv, NEW d \in Drafts, Submit(d)
  PROVE  LET w == Rescore(d, drafts[d])
         IN /\ w.outcome # "BLOCK"
            /\ w.asks => drafts[d].purpose
            /\ w.outcome = "HOLD_STEP_UP" =>
                 /\ drafts[d].heldUntil # 0 /\ now >= drafts[d].heldUntil
                 /\ drafts[d].code = "confirmed" /\ drafts'[d].status = "scheduled"
            /\ DestinationsHold(drafts[d].plan)
<1> DEFINE dr == drafts[d]
           w == Rescore(d, drafts[d])
           outcome == Scam!Stricter(dr.floor, w.outcome)
           wait == Scam!ReleaseDelay(outcome)
<1>1. /\ ScamAllows(d, w, outcome) /\ DestinationsHold(dr.plan)
      /\ drafts' = [drafts EXCEPT ![d].status = IF wait > 0 THEN "scheduled" ELSE "checked",
                                  ![d].signedAt = now,
                                  ![d].releaseAt = IF wait > 0 THEN now + wait ELSE 0]
  BY DEF Submit
<1>2. w.outcome \in OutcomeSet /\ dr.floor \in OutcomeSet
  <2>1. w.outcome \in OutcomeSet
    BY AssessOutcome DEF Rescore
  <2> QED BY <2>1 DEF Submit, IInv, DraftInv, Open
<1> HIDE DEF w
<1>3. /\ outcome \in OutcomeSet /\ outcome # "BLOCK"
      /\ Scam!Rank(w.outcome) <= Scam!Rank(outcome)
  BY <1>1, <1>2, StricterIsStricter DEF ScamAllows
<1>4. w.asks => dr.purpose
  BY <1>1 DEF ScamAllows, Scam!AsksUnasked
<1>5. w.outcome # "BLOCK" /\ (w.outcome = "HOLD_STEP_UP" => outcome = "HOLD_STEP_UP")
  <2> HIDE DEF outcome
  <2> QED BY <1>2, <1>3, RankOf DEF OutcomeSet
<1>6. drafts'[d].status = IF wait > 0 THEN "scheduled" ELSE "checked"
  <2>1. drafts = [e \in Drafts |-> drafts[e]] /\ Fields \subseteq DOMAIN dr
    BY DEF IInv, DraftInv, DraftShape
  <2> HIDE DEF wait
  <2> QED BY <1>1, <2>1 DEF Fields
<1>7. outcome = "HOLD_STEP_UP" =>
        /\ dr.heldUntil # 0 /\ now >= dr.heldUntil /\ dr.code = "confirmed"
        /\ drafts'[d].status = "scheduled"
  <2> HIDE DEF outcome
  <2>1. outcome = "HOLD_STEP_UP" => Scam!NeedsHold(outcome) /\ wait = 60
    BY DEF Scam!NeedsHold, Scam!ReleaseDelay, Scam!ReleaseDelaySeconds
  <2> HIDE DEF wait
  <2> QED BY <1>1, <1>6, <2>1 DEF ScamAllows
<1> HIDE DEF outcome
<1> QED BY <1>1, <1>4, <1>5, <1>7 DEF w

LEMMA NotOfAmount ==
  /\ "RETRY_AFTER_STOPPED" \notin Scam!AmountCodes
  /\ "SMALLER_AFTER_STOPPED" \notin Scam!AmountCodes
  /\ "FIRST_PAYMENT_TO_DESTINATION" \notin Scam!AmountCodes
  /\ "RECENT_DESTINATION_CHANGE" \notin Scam!AmountCodes
BY DEF Scam!AmountCodes

LEMMA RetryAsked ==
  ASSUME IInv, Shown, [Next]_vars, NEW d \in Drafts, NEW i \in DOMAIN drafts[d].plan,
         Passes(d), NEW a \in attempts, a.draft # d, a.payee = drafts[d].plan[i].payee,
         IsTransfer(drafts[d].plan[i]), a.amount > drafts[d].plan[i].amount,
         Scam!Stopped(a), a.updated >= now - Scam!AttemptWindow
  PROVE  drafts[d].purpose
<1> DEFINE plan == drafts[d].plan
           w == Rescore(d, drafts[d])
<1>1. a \in Scam!RecentStopped(ShownTo(d))
  BY ShownAttempts
<1>2. /\ Has(Scam!LegFacts(plan, ShownTo(d), i), "RETRY_AFTER_STOPPED", 30)
      /\ Has(Scam!LegFacts(plan, ShownTo(d), i), "SMALLER_AFTER_STOPPED", 30)
  BY <1>1, LegFactsHas DEF IsTransfer
<1>3. w.outcome # "BLOCK" => w.asks
  BY <1>2, ScoredWith, NotOfAmount
<1>4. w.outcome # "BLOCK" /\ (w.asks => drafts[d].purpose)
  BY PassesSubmits, PassedAs
<1> QED BY <1>3, <1>4

\* The first transfer of a plan to a destination that was never paid.
LEMMA FirstLeg ==
  ASSUME NEW plan, NEW n \in Nat, DOMAIN plan = 1 .. n, NEW i \in 1 .. n,
         plan[i].type = "TRANSFER", NEW ctx, Scam!NeverPaid(ctx, plan[i])
  PROVE  \E j \in DOMAIN plan : j \in Scam!NewHere(plan, ctx)
<1> DEFINE same == {j \in Scam!TransferLegs(plan) :
                      <<plan[j].payee, plan[j].version>> = <<plan[i].payee, plan[i].version>>}
<1>1. i \in same /\ same \subseteq 1 .. n
  BY DEF Scam!TransferLegs
<1>2. PICK j \in same : \A k \in same : j <= k
  <2> HIDE DEF same
  <2>1. IsFiniteSet(same)
    <3>1. 1 \in Int /\ n \in Int
      OBVIOUS
    <3>2. IsFiniteSet(1 .. n)
      BY <3>1, FS_Interval
    <3> QED BY <1>1, <3>2, FS_Subset
  <2> DEFINE less == [k \in 1 .. n |-> n - k]
  <2>2. \A k \in same : less[k] \in Nat
    BY <1>1
  <2>3. \E j \in same : \A k \in same : less[j] >= less[k]
    <3> HIDE DEF less
    <3> QED BY <1>1, <2>1, <2>2, SomeMost
  <2>4. PICK j \in same : \A k \in same : less[j] >= less[k]
    BY <2>3
  <2>5. ASSUME NEW k \in same PROVE j <= k
    <3>1. less[j] = n - j /\ less[k] = n - k /\ j \in Nat /\ k \in Nat
      BY <1>1
    <3>2. less[j] >= less[k]
      BY <2>4
    <3> HIDE DEF less, same
    <3> QED BY <3>1, <3>2
  <2> QED BY <2>5
<1>3. Scam!NeverPaid(ctx, plan[j])
  <2>1. plan[j].payee = plan[i].payee /\ plan[j].version = plan[i].version
    OBVIOUS
  <2> QED BY <2>1 DEF Scam!NeverPaid
<1>4. \A k \in Scam!TransferLegs(plan) :
        k < j => <<plan[k].payee, plan[k].version>> # <<plan[j].payee, plan[j].version>>
  <2> SUFFICES ASSUME NEW k \in Scam!TransferLegs(plan), k < j,
                      <<plan[k].payee, plan[k].version>> = <<plan[j].payee, plan[j].version>>
               PROVE  FALSE
    OBVIOUS
  <2>1. k \in same
    OBVIOUS
  <2>2. k \in 1 .. n /\ j \in 1 .. n
    BY <1>1, <2>1
  <2> HIDE DEF same
  <2> QED BY <1>2, <2>1, <2>2
<1> QED BY <1>3, <1>4 DEF Scam!NewHere, Scam!TransferLegs

LEMMA ChangedServed ==
  ASSUME IInv, Shown, [Next]_vars, NEW d \in Drafts, NEW i \in DOMAIN drafts[d].plan,
         Passes(d), IsTransfer(drafts[d].plan[i]), FirstToNewNumber(drafts[d].plan[i])
  PROVE  /\ drafts[d].heldUntil \in 1 .. now
         /\ drafts[d].code = "confirmed"
         /\ drafts'[d].status = "scheduled"
<1> DEFINE plan == drafts[d].plan
           payee == plan[i].payee
           w == Rescore(d, drafts[d])
<1>1. PICK n \in Nat : DOMAIN plan = 1 .. n
  BY DEF Shown, SoundDraft, SoundPlan
<1>2. payee \in Payees /\ plan[i].type = "TRANSFER"
  BY DEF Shown, SoundDraft, SoundPlan, IsTransfer
<1>3. Submit(d)
  BY PassesSubmits
<1>4. plan[i].version = dests[payee].version
  BY <1>3, PassedAs DEF DestinationsHold
<1>5. Scam!NeverPaid(ShownTo(d), plan[i])
  <2>1. \A k \in DOMAIN history : history[k].payee # payee \/ history[k].version # plan[i].version
    BY <1>4 DEF FirstToNewNumber
  <2>2. ShownTo(d).history = history
    BY DEF ShownTo
  <2>3. Scam!ToSet(history) = {history[k] : k \in DOMAIN history}
    BY DEF Scam!ToSet
  <2> HIDE DEF plan
  <2> QED BY <2>1, <2>2, <2>3 DEF Scam!NeverPaid
<1>6. PICK j \in DOMAIN plan : j \in Scam!NewHere(plan, ShownTo(d))
  <2>1. i \in 1 .. n
    BY <1>1
  <2>2. plan[i].type = "TRANSFER" /\ Scam!NeverPaid(ShownTo(d), plan[i])
    BY <1>2, <1>5
  <2> HIDE DEF plan
  <2> QED BY <1>1, <2>1, <2>2, FirstLeg
<1>7. Has(Scam!LegFacts(plan, ShownTo(d), j), "FIRST_PAYMENT_TO_DESTINATION", 20)
  <2>1. plan[j].type = "TRANSFER"
    BY <1>6 DEF Scam!NewHere, Scam!TransferLegs
  <2> QED BY <1>6, <2>1, LegFactsHas
<1>8. Has(Scam!LegFacts(plan, ShownTo(d), i), "RECENT_DESTINATION_CHANGE", 50)
  <2>1. /\ dests[payee].version # 1 /\ dests[payee].changed # 0
        /\ now - dests[payee].changed < Scam!Day
    <3>1. dests[payee].version > 1 /\ now - dests[payee].changed < Scam!Day
      BY DEF FirstToNewNumber
    <3>2. dests[payee].version # 1 => dests[payee].changed # 0
      BY <1>2 DEF Shown
    <3> HIDE DEF payee
    <3> QED BY <3>1, <3>2
  <2>2. ShownTo(d).dests = dests /\ ShownTo(d).now = now
    BY DEF ShownTo
  <2> QED BY <1>2, <2>1, <2>2, LegFactsHas
<1>9. w.outcome \in {"HOLD_STEP_UP", "BLOCK"}
  BY <1>6, <1>7, <1>8, ScoredWith, NotOfAmount
<1>10. /\ drafts[d].heldUntil # 0 /\ now >= drafts[d].heldUntil
       /\ drafts[d].code = "confirmed" /\ drafts'[d].status = "scheduled"
  BY <1>3, <1>9, PassedAs
<1>11. drafts[d].heldUntil \in Nat /\ now \in Nat
  BY DEF Shown, SoundDraft, IInv, Counters
<1> QED BY <1>10, <1>11

-----------------------------------------------------------------------------
(* The theorems about the score.                                             *)

THEOREM ShownTheorem == Spec => []Shown
<1>1. IInv /\ Shown /\ [Next]_vars => Shown'
  BY StepShown
<1> QED BY <1>1, InitShown, Invariant, PTL DEF Spec

\* scam.py, gateway.py: no draft passes unasked while a bigger payment of
\* another to the same payee was stopped in the last day.
THEOREM SmallerRetryTheorem == Spec => SmallerRetryAsked
<1>1. IInv /\ Shown /\ [Next]_vars =>
        [\A d \in Drafts : \A i \in DOMAIN drafts[d].plan :
           Passes(d) /\ (\E a \in attempts :
                           /\ a.draft # d /\ a.payee = drafts[d].plan[i].payee
                           /\ IsTransfer(drafts[d].plan[i]) /\ a.amount > drafts[d].plan[i].amount
                           /\ Scam!Stopped(a) /\ a.updated >= now - Scam!AttemptWindow)
             => drafts[d].purpose]_vars
  BY RetryAsked
<1> QED BY <1>1, Invariant, ShownTheorem, PTL DEF Spec, SmallerRetryAsked

\* scam.py, gateway.py: the first payment to a number changed less than a day
\* ago passes only with its hold served and its phone code given, and waits.
THEOREM ChangedNumberTheorem == Spec => ChangedNumberNeverPlain
<1>1. IInv /\ Shown /\ [Next]_vars =>
        [\A d \in Drafts : \A i \in DOMAIN drafts[d].plan :
           Passes(d) /\ IsTransfer(drafts[d].plan[i]) /\ FirstToNewNumber(drafts[d].plan[i])
             => /\ drafts[d].heldUntil \in 1 .. now
                /\ drafts[d].code = "confirmed"
                /\ drafts'[d].status = "scheduled"]_vars
  BY ChangedServed
<1> QED BY <1>1, Invariant, ShownTheorem, PTL DEF Spec, ChangedNumberNeverPlain

LEMMA SumFunctionIs ==
    ASSUME NEW by, NEW S PROVE SumFunctionOnSet(by, S) = SumOver(by, S)
BY DEF SumFunctionOnSet, FoldFunctionOnSet, SumOver, MapThenSumSet, MapThenFoldSet
-----------------------------------------------------------------------------
(* What the policy engine allows.                                            *)

LEMMA VerdictPasses ==
  ASSUME NEW leg, NEW ctx, NEW running, NEW recent
  PROVE  LET v == VerdictOn(leg, ctx, running, recent)
         IN /\ v.decision \in {"ALLOW", "REQUIRE_EXTRA_CONFIRMATION", "BLOCK"}
            /\ v.decision # "BLOCK" => ~CheckDaily(leg, ctx, running) /\ ~CheckVelocity(leg, ctx, recent)
BY DEF VerdictOn

\* The i-th verdict, from the earlier ones.
Running(plan, ctx, v, i) ==
  SpentSince(ctx.history, StartOfDay(ctx.now))
    + SumFunctionOnSet(Moved(plan), {j \in DOMAIN plan : j < i /\ v[j].decision # "BLOCK"})
Recent(plan, ctx, v, i) ==
  CountSince(ctx.history, ctx.now - VelocityWindow)
    + Cardinality({j \in {h \in DOMAIN plan : h < i /\ v[h].decision # "BLOCK"} : IsTransfer(plan[j])})
Decides(v, plan, ctx, n) ==
  v = [i \in 1 .. n |-> VerdictOn(plan[i], ctx, Running(plan, ctx, v, i), Recent(plan, ctx, v, i))]

LEMMA DecidesExists ==
  ASSUME NEW n \in Nat, NEW plan, DOMAIN plan = 1 .. n, NEW ctx
  PROVE  \E v : Decides(v, plan, ctx, n)
<1> DEFINE Found == {k \in Nat : k <= n => \E v : Decides(v, plan, ctx, k)}
<1>1. 0 \in Found
  <2>1. Decides([i \in 1 .. 0 |-> 0], plan, ctx, 0)
    BY DEF Decides
  <2> QED BY <2>1
<1>2. ASSUME NEW k \in Nat, k \in Found PROVE k + 1 \in Found
  <2> SUFFICES ASSUME k + 1 <= n PROVE \E v : Decides(v, plan, ctx, k + 1)
    OBVIOUS
  <2>1. PICK v : Decides(v, plan, ctx, k)
    BY <1>2
  <2> DEFINE last == VerdictOn(plan[k + 1], ctx, Running(plan, ctx, v, k + 1), Recent(plan, ctx, v, k + 1))
             w == [i \in 1 .. k + 1 |-> IF i = k + 1 THEN last ELSE v[i]]
  <2>2. \A i \in 1 .. k : w[i] = v[i]
    OBVIOUS
  <2>3. w[k + 1] = last /\ DOMAIN w = 1 .. k + 1
    OBVIOUS
  <2> HIDE DEF w
  <2>4. ASSUME NEW i \in 1 .. k + 1
        PROVE  Running(plan, ctx, w, i) = Running(plan, ctx, v, i)
               /\ Recent(plan, ctx, w, i) = Recent(plan, ctx, v, i)
    <3>1. {j \in DOMAIN plan : j < i /\ w[j].decision # "BLOCK"}
            = {j \in DOMAIN plan : j < i /\ v[j].decision # "BLOCK"}
      BY <2>2
    <3> QED BY <3>1 DEF Running, Recent
  <2>5. \A i \in 1 .. k :
          v[i] = VerdictOn(plan[i], ctx, Running(plan, ctx, v, i), Recent(plan, ctx, v, i))
    BY <2>1 DEF Decides
  <2>6. ASSUME NEW i \in 1 .. k + 1
        PROVE  w[i] = VerdictOn(plan[i], ctx, Running(plan, ctx, w, i), Recent(plan, ctx, w, i))
    <3>1. CASE i = k + 1
      BY <2>3, <2>4, <3>1
    <3>2. CASE i # k + 1
      <4>1. i \in 1 .. k
        BY <3>2
      <4> QED BY <2>2, <2>4, <2>5, <4>1
    <3> QED BY <3>1, <3>2
  <2>7. w = [i \in 1 .. k + 1 |-> w[i]]
    BY DEF w
  <2>8. Decides(w, plan, ctx, k + 1)
    BY <2>6, <2>7 DEF Decides
  <2> QED BY <2>8
<1> HIDE DEF Found
<1>3. \A k \in Nat : k \in Found
  BY <1>1, <1>2, Induction
<1> QED BY <1>3 DEF Found

LEMMA VerdictsDecide ==
  ASSUME NEW n \in Nat, NEW plan, DOMAIN plan = 1 .. n, NEW ctx
  PROVE  Decides(Verdicts(plan, ctx), plan, ctx, n)
<1> DEFINE verdict[i \in DOMAIN plan] ==
        LET ran == {j \in DOMAIN plan : j < i /\ verdict[j].decision # "BLOCK"}
        IN VerdictOn(plan[i], ctx,
                     SpentSince(ctx.history, StartOfDay(ctx.now)) + SumFunctionOnSet(Moved(plan), ran),
                     CountSince(ctx.history, ctx.now - VelocityWindow)
                       + Cardinality({j \in ran : IsTransfer(plan[j])}))
<1>1. Verdicts(plan, ctx) = verdict
  BY Zenon DEF Verdicts
<1>2. verdict = CHOOSE v : Decides(v, plan, ctx, n)
  BY DEF Decides, Running, Recent
<1> HIDE DEF verdict
<1>3. Decides(verdict, plan, ctx, n)
  BY <1>2, DecidesExists
<1> QED BY <1>1, <1>3

LEMMA SeverityOf ==
  /\ Severity("ALLOW") = 1 /\ Severity("REQUIRE_EXTRA_CONFIRMATION") = 2 /\ Severity("BLOCK") = 3
  /\ Decisions[3] = "BLOCK"
<1> DEFINE D == Decisions
<1>1. /\ DOMAIN D = 1 .. 3 /\ D[1] = "ALLOW" /\ D[2] = "REQUIRE_EXTRA_CONFIRMATION" /\ D[3] = "BLOCK"
  BY DEF Decisions
<1> HIDE DEF D
<1>2. \A c : Severity(c) = CHOOSE i \in DOMAIN D : D[i] = c
  BY DEF Severity, D
<1>3. ASSUME NEW i \in DOMAIN D PROVE Severity(D[i]) = i
  <2>1. \A j \in DOMAIN D : D[j] = D[i] => j = i
    BY <1>1
  <2> QED BY <1>2, <2>1
<1>4. 1 \in DOMAIN D /\ 2 \in DOMAIN D /\ 3 \in DOMAIN D
  BY <1>1
<1>5. Severity(D[1]) = 1 /\ Severity(D[2]) = 2 /\ Severity(D[3]) = 3
  BY <1>3, <1>4
<1> QED BY <1>1, <1>5 DEF D

\* A plan that is not blocked has no leg that is.
LEMMA NoneBlocked ==
  ASSUME NEW n \in Nat, NEW plan, DOMAIN plan = 1 .. n, NEW ctx,
         PolicyDecision(plan, ctx) # "BLOCK"
  PROVE  \A i \in 1 .. n : Verdicts(plan, ctx)[i].decision # "BLOCK"
<1> DEFINE v == Verdicts(plan, ctx)
           worst == {1} \union {Severity(v[i].decision) : i \in DOMAIN v}
<1>1. PolicyDecision(plan, ctx) = Decisions[Max(worst)]
  BY DEF PolicyDecision
<1>2. /\ DOMAIN v = 1 .. n
      /\ \A i \in 1 .. n : v[i].decision \in {"ALLOW", "REQUIRE_EXTRA_CONFIRMATION", "BLOCK"}
  <2>1. Decides(v, plan, ctx, n)
    BY VerdictsDecide
  <2> HIDE DEF v
  <2>2. \A i \in 1 .. n :
          v[i] = VerdictOn(plan[i], ctx, Running(plan, ctx, v, i), Recent(plan, ctx, v, i))
    BY <2>1 DEF Decides
  <2> QED BY <2>1, <2>2, VerdictPasses DEF Decides
<1> SUFFICES ASSUME NEW i \in 1 .. n, v[i].decision = "BLOCK" PROVE FALSE
  OBVIOUS
<1> HIDE DEF v
<1>3. 3 \in worst /\ \A w \in worst : w \in 1 .. 3
  BY <1>2, SeverityOf
<1> HIDE DEF worst
<1>4. Max(worst) = 3
  BY <1>3 DEF Max
<1> QED BY <1>1, <1>4, SeverityOf

\* A history, or a plan, as far as the limits read it.
Rowed(h) ==
  /\ \E n \in Nat : DOMAIN h = 1 .. n /\ h = [i \in 1 .. n |-> h[i]]
  /\ \A i \in DOMAIN h : h[i].amount \in Nat /\ h[i].at \in Nat

Sent(plan) == {j \in DOMAIN plan : IsTransfer(plan[j])}
Fits(plan, h, time) ==
  /\ Daily # 0 /\ DOMAIN plan # {}
       => SpentSince(h, StartOfDay(time)) + SumOver(Moved(plan), DOMAIN plan) <= Daily
  /\ VelocityCount # 0 /\ Sent(plan) # {}
       => CountSince(h, time - VelocityWindow) + Cardinality(Sent(plan)) <= VelocityCount

LEMMA SinceType ==
  ASSUME NEW h, Rowed(h), NEW t
  PROVE  /\ IsFiniteSet(RowsSince(h, t)) /\ IsFiniteSet(DOMAIN h)
         /\ SpentSince(h, t) = SumOver(Moved(h), RowsSince(h, t))
         /\ SpentSince(h, t) \in Nat /\ CountSince(h, t) \in Nat
         /\ \A i \in DOMAIN h : Moved(h)[i] = h[i].amount /\ Moved(h)[i] \in Nat
<1>1. PICK n \in Nat : DOMAIN h = 1 .. n
  BY DEF Rowed
<1>2. IsFiniteSet(DOMAIN h)
  <2>1. 1 \in Int /\ n \in Int
    OBVIOUS
  <2> QED BY <1>1, <2>1, FS_Interval
<1>3. RowsSince(h, t) \subseteq DOMAIN h
  BY DEF RowsSince
<1>4. IsFiniteSet(RowsSince(h, t))
  BY <1>2, <1>3, FS_Subset
<1>5. CountSince(h, t) \in Nat
  BY <1>4, FS_CardinalityType DEF CountSince
<1>6. SpentSince(h, t) = SumOver(Moved(h), RowsSince(h, t))
  BY SumFunctionIs DEF SpentSince
<1>7. \A i \in DOMAIN h : Moved(h)[i] = h[i].amount /\ Moved(h)[i] \in Nat
  BY DEF Moved, Rowed
<1>8. SumOver(Moved(h), RowsSince(h, t)) \in Nat
  BY <1>3, <1>4, <1>7, SumNat
<1> QED BY <1>2, <1>4, <1>5, <1>6, <1>7, <1>8

\* What is not blocked fits the limits, all its legs together.
LEMMA AllowedFits ==
  ASSUME NEW n \in Nat, NEW plan, DOMAIN plan = 1 .. n, \A i \in 1 .. n : plan[i].amount \in Nat,
         NEW ctx, Rowed(ctx.history), PolicyDecision(plan, ctx) # "BLOCK"
  PROVE  Fits(plan, ctx.history, ctx.now)
<1> DEFINE v == Verdicts(plan, ctx)
           today == SpentSince(ctx.history, StartOfDay(ctx.now))
           recent == CountSince(ctx.history, ctx.now - VelocityWindow)
<1>0. today \in Nat /\ recent \in Nat
  BY SinceType
<1>1. \A i \in 1 .. n : v[i].decision # "BLOCK"
  BY NoneBlocked
<1>2. Decides(v, plan, ctx, n)
  BY VerdictsDecide
<1> HIDE DEF v
<1>3. ASSUME NEW i \in 1 .. n
      PROVE  /\ ~CheckDaily(plan[i], ctx, today + SumOver(Moved(plan), 1 .. (i - 1)))
             /\ ~CheckVelocity(plan[i], ctx, recent + Cardinality({j \in 1 .. (i - 1) : IsTransfer(plan[j])}))
  <2>1. {j \in DOMAIN plan : j < i /\ v[j].decision # "BLOCK"} = 1 .. (i - 1)
    BY <1>1
  <2>2. /\ Running(plan, ctx, v, i) = today + SumOver(Moved(plan), 1 .. (i - 1))
        /\ Recent(plan, ctx, v, i) = recent + Cardinality({j \in 1 .. (i - 1) : IsTransfer(plan[j])})
    BY <2>1, SumFunctionIs DEF Running, Recent
  <2>3. v[i] = VerdictOn(plan[i], ctx, Running(plan, ctx, v, i), Recent(plan, ctx, v, i))
    BY <1>2 DEF Decides
  <2> HIDE DEF today, recent
  <2>4. /\ ~CheckDaily(plan[i], ctx, Running(plan, ctx, v, i))
        /\ ~CheckVelocity(plan[i], ctx, Recent(plan, ctx, v, i))
    BY <1>1, <2>3, VerdictPasses
  <2> QED BY <2>2, <2>4
<1>4. \A i \in 1 .. n : Moved(plan)[i] = plan[i].amount /\ Moved(plan)[i] \in Nat
  BY DEF Moved
<1>5. ASSUME NEW m \in Nat PROVE IsFiniteSet(1 .. m)
  <2>1. 1 \in Int /\ m \in Int
    OBVIOUS
  <2> QED BY <2>1, FS_Interval
<1> HIDE DEF today, recent
<1>6. ASSUME Daily # 0, n # 0 PROVE today + SumOver(Moved(plan), 1 .. n) <= Daily
  <2> DEFINE A == 1 .. (n - 1)
  <2>1. n - 1 \in Nat /\ n \in 1 .. n /\ 1 .. n = A \cup {n} /\ n \notin A
    BY <1>6
  <2>2. IsFiniteSet(A) /\ (\A x \in A \cup {n} : Moved(plan)[x] \in Int)
    BY <1>4, <1>5, <2>1
  <2>3. SumOver(Moved(plan), A) \in Nat
    <3>1. \A x \in A : Moved(plan)[x] \in Nat
      BY <1>4
    <3> HIDE DEF A
    <3> QED BY <2>2, <3>1, SumNat
  <2> HIDE DEF A
  <2>4. SumOver(Moved(plan), A \cup {n}) = Moved(plan)[n] + SumOver(Moved(plan), A)
    BY <2>1, <2>2, SumAdd
  <2>5. ~(today + SumOver(Moved(plan), A) + plan[n].amount > Daily)
    BY <1>3, <1>6, <2>1 DEF CheckDaily, A
  <2>6. plan[n].amount \in Nat /\ Moved(plan)[n] = plan[n].amount
    BY <1>4, <2>1
  <2> DEFINE before == SumOver(Moved(plan), A)
             amount == plan[n].amount
  <2>7. SumOver(Moved(plan), 1 .. n) = amount + before
    BY <2>1, <2>4, <2>6
  <2>8. amount \in Nat /\ before \in Nat /\ ~(today + before + amount > Daily)
    BY <2>3, <2>5, <2>6
  <2> HIDE DEF amount, before
  <2> QED BY <1>0, <2>7, <2>8, LimitsAssumption
<1>7. ASSUME VelocityCount # 0, Sent(plan) # {}
      PROVE  recent + Cardinality(Sent(plan)) <= VelocityCount
  <2>1. Sent(plan) \subseteq 1 .. n /\ IsFiniteSet(Sent(plan))
    <3>1. Sent(plan) \subseteq 1 .. n
      BY DEF Sent
    <3> QED BY <1>5, <3>1, FS_Subset
  <2>2. PICK m \in Sent(plan) : \A j \in Sent(plan) : m >= j
    <3> DEFINE at == [j \in 1 .. n |-> j]
    <3>1. \A j \in Sent(plan) : at[j] = j /\ at[j] \in Nat
      BY <2>1
    <3> HIDE DEF at
    <3>2. \E m \in Sent(plan) : \A j \in Sent(plan) : at[m] >= at[j]
      BY <1>7, <2>1, <3>1, SomeMost
    <3> QED BY <3>1, <3>2
  <2> DEFINE A == {j \in 1 .. (m - 1) : IsTransfer(plan[j])}
  <2>3. m \in 1 .. n /\ IsTransfer(plan[m])
    BY DEF Sent
  <2>4. Sent(plan) = A \cup {m} /\ m \notin A /\ A \subseteq Sent(plan)
    BY <2>2, <2>3 DEF Sent
  <2>5. ~CheckVelocity(plan[m], ctx, recent + Cardinality(A))
    BY <1>3, <2>3
  <2> HIDE DEF A
  <2>6. IsFiniteSet(A) /\ Cardinality(A) \in Nat
    BY <2>1, <2>4, FS_Subset, FS_CardinalityType
  <2>7. Cardinality(Sent(plan)) = Cardinality(A) + 1
    BY <2>4, <2>6, FS_AddElement
  <2> QED BY <1>0, <1>7, <2>3, <2>5, <2>6, <2>7, LimitsAssumption DEF CheckVelocity
<1> QED BY <1>6, <1>7 DEF Fits, today, recent

-----------------------------------------------------------------------------
(* The limits, over the history.                                             *)

DayRows(h, i) == {j \in DOMAIN h : StartOfDay(h[j].at) = StartOfDay(h[i].at)}
SentTo(h, i) == {j \in RowsSince(h, h[i].at - VelocityWindow) : j <= i /\ IsTransfer(h[j])}
Limited(h) ==
  \A i \in DOMAIN h : i > Len(Past) =>
    /\ Daily # 0 => SumOver(Moved(h), DayRows(h, i)) <= Daily
    /\ VelocityCount # 0 /\ IsTransfer(h[i]) => Cardinality(SentTo(h, i)) <= VelocityCount

LEMMA LimitedIs ==
  /\ WithinLimits <=> Limited(history)
  /\ WithinLimits' <=> Limited(history')
<1>1. WithinLimits <=> Limited(history)
  BY SumFunctionIs DEF WithinLimits, Limited, OnDayOf, SentUpTo, DayRows, SentTo
<1>2. WithinLimits' <=> Limited(history')
  BY SumFunctionIs DEF WithinLimits, Limited, OnDayOf, SentUpTo, DayRows, SentTo
<1> QED BY <1>1, <1>2

LEMMA DaysPass ==
  ASSUME NEW s \in Nat, NEW t \in Nat
  PROVE  /\ StartOfDay(s) \in Int /\ StartOfDay(s) <= s
         /\ s <= t => StartOfDay(s) <= StartOfDay(t)
BY DEF StartOfDay, DaySeconds

\* What fits now fits later, when nothing else is paid meanwhile.
LEMMA FitsLater ==
  ASSUME NEW plan, NEW h, Rowed(h), NEW s \in Nat, NEW t \in Nat, s <= t, Fits(plan, h, s),
         SumOver(Moved(plan), DOMAIN plan) \in Nat, Cardinality(Sent(plan)) \in Nat
  PROVE  Fits(plan, h, t)
<1>1. \A u, v \in Int : u <= v => SpentSince(h, v) <= SpentSince(h, u) /\ CountSince(h, v) <= CountSince(h, u)
  <2> SUFFICES ASSUME NEW u \in Int, NEW v \in Int, u <= v
               PROVE  SpentSince(h, v) <= SpentSince(h, u) /\ CountSince(h, v) <= CountSince(h, u)
    OBVIOUS
  <2>1. RowsSince(h, v) \subseteq RowsSince(h, u)
    BY DEF RowsSince, Rowed
  <2>2. IsFiniteSet(RowsSince(h, u)) /\ \A i \in RowsSince(h, u) : Moved(h)[i] \in Nat
    BY SinceType DEF RowsSince
  <2>3. SumOver(Moved(h), RowsSince(h, v)) <= SumOver(Moved(h), RowsSince(h, u))
    BY <2>1, <2>2, SumPart
  <2>4. Cardinality(RowsSince(h, v)) <= Cardinality(RowsSince(h, u))
    BY <2>1, <2>2, FS_Subset
  <2> QED BY <2>3, <2>4, SinceType DEF CountSince
<1>2. /\ StartOfDay(s) \in Int /\ StartOfDay(t) \in Int /\ StartOfDay(s) <= StartOfDay(t)
      /\ s - VelocityWindow \in Int /\ t - VelocityWindow \in Int
      /\ s - VelocityWindow <= t - VelocityWindow
  BY DaysPass, LimitsAssumption
<1>3. /\ SpentSince(h, StartOfDay(t)) <= SpentSince(h, StartOfDay(s))
      /\ CountSince(h, t - VelocityWindow) <= CountSince(h, s - VelocityWindow)
  BY <1>1, <1>2
<1>4. /\ SpentSince(h, StartOfDay(t)) \in Nat /\ SpentSince(h, StartOfDay(s)) \in Nat
      /\ CountSince(h, t - VelocityWindow) \in Nat /\ CountSince(h, s - VelocityWindow) \in Nat
  BY SinceType
<1> QED BY <1>3, <1>4, LimitsAssumption DEF Fits

\* The history after the first k legs of a plan that fits.
Grown(h, N, plan, n, k, time, after) ==
  /\ N \in Nat /\ n \in Nat /\ k \in 0 .. n /\ time \in Nat
  /\ DOMAIN h = 1 .. N /\ Rowed(h) /\ \A i \in DOMAIN h : h[i].at <= time
  /\ DOMAIN plan = 1 .. n /\ \A j \in 1 .. n : plan[j].amount \in Nat
  /\ DOMAIN after = 1 .. (N + k) /\ after = [i \in 1 .. (N + k) |-> after[i]]
  /\ \A i \in 1 .. N : after[i] = h[i]
  /\ \A j \in 1 .. k : /\ after[N + j].amount = plan[j].amount /\ after[N + j].type = plan[j].type
                       /\ after[N + j].at = time

LEMMA GrownRows ==
  ASSUME NEW h, NEW N, NEW plan, NEW n, NEW k, NEW time, NEW after,
         Grown(h, N, plan, n, k, time, after)
  PROVE  /\ Rowed(after) /\ \A i \in DOMAIN after : after[i].at <= time
         /\ \A i \in DOMAIN after : i \in 1 .. N \/ \E j \in 1 .. k : i = N + j
<1>h. /\ N \in Nat /\ n \in Nat /\ k \in 0 .. n /\ time \in Nat
      /\ DOMAIN h = 1 .. N /\ Rowed(h) /\ \A x \in DOMAIN h : h[x].at <= time
      /\ DOMAIN plan = 1 .. n /\ \A j \in 1 .. n : plan[j].amount \in Nat
  BY DEF Grown
<1> USE <1>h
<1>1. ASSUME NEW i \in DOMAIN after PROVE i \in 1 .. N \/ \E j \in 1 .. k : i = N + j
  <2>1. CASE i > N
    <3>1. i - N \in 1 .. k /\ i = N + (i - N)
      BY <2>1 DEF Grown
    <3> QED BY <3>1
  <2> QED BY <2>1 DEF Grown
<1>2. ASSUME NEW i \in DOMAIN after
      PROVE  after[i].amount \in Nat /\ after[i].at \in Nat /\ after[i].at <= time
  <2>1. CASE i \in 1 .. N
    BY <2>1 DEF Grown, Rowed
  <2>2. CASE \E j \in 1 .. k : i = N + j
    <3>1. PICK j \in 1 .. k : i = N + j
      BY <2>2
    <3>2. j \in 1 .. n
      OBVIOUS
    <3>3. after[N + j].amount = plan[j].amount /\ after[N + j].at = time
      BY DEF Grown
    <3>4. after[N + j].amount \in Nat /\ after[N + j].at \in Nat /\ after[N + j].at <= time
      BY <3>2, <3>3
    <3> QED BY <3>1, <3>4
  <2> QED BY <1>1, <2>1, <2>2
<1>3. \E m \in Nat : DOMAIN after = 1 .. m /\ after = [i \in 1 .. m |-> after[i]]
  <2>1. N + k \in Nat
    OBVIOUS
  <2> QED BY <2>1 DEF Grown
<1> QED BY <1>1, <1>2, <1>3 DEF Rowed

LEMMA GrownDaily ==
  ASSUME NEW h, NEW N, NEW plan, NEW n, NEW k, NEW time, NEW after,
         Grown(h, N, plan, n, k, time, after),
         Fits(plan, h, time), Limited(h), Daily # 0, NEW i \in DOMAIN after, i > Len(Past)
  PROVE  SumOver(Moved(after), DayRows(after, i)) <= Daily
<1>h. /\ N \in Nat /\ n \in Nat /\ k \in 0 .. n /\ time \in Nat
      /\ DOMAIN h = 1 .. N /\ Rowed(h) /\ \A x \in DOMAIN h : h[x].at <= time
      /\ DOMAIN plan = 1 .. n /\ \A j \in 1 .. n : plan[j].amount \in Nat
  BY DEF Grown
<1>r. Rowed(after) /\ \A x \in DOMAIN after : x \in 1 .. N \/ \E j \in 1 .. k : x = N + j
  BY GrownRows
<1> USE <1>h
<1>0. /\ Rowed(after) /\ \A x \in DOMAIN after : x \in 1 .. N \/ \E j \in 1 .. k : x = N + j
      /\ \A x \in 1 .. N : after[x] = h[x] /\ x \in DOMAIN after
      /\ DOMAIN after = 1 .. (N + k)
  <2>2. DOMAIN after = 1 .. (N + k) /\ \A x \in 1 .. N : after[x] = h[x]
    BY DEF Grown
  <2>3. 1 .. N \subseteq 1 .. (N + k)
    OBVIOUS
  <2> QED BY <1>r, <2>2, <2>3
<1>1. \A x \in DOMAIN after : Moved(after)[x] = after[x].amount /\ Moved(after)[x] \in Nat
  BY <1>0, SinceType
<1>2. \A x \in 1 .. N : /\ Moved(h)[x] = h[x].amount /\ Moved(h)[x] \in Nat
                        /\ Moved(after)[x] = Moved(h)[x]
  <2>1. \A x \in 1 .. N : Moved(h)[x] = h[x].amount /\ Moved(h)[x] \in Nat
    BY SinceType
  <2> QED BY <1>0, <1>1, <2>1
<1>3. \A j \in 1 .. n : Moved(plan)[j] = plan[j].amount /\ Moved(plan)[j] \in Nat
  BY DEF Moved
<1>4. IsFiniteSet(DOMAIN after) /\ IsFiniteSet(DOMAIN h)
  BY <1>0, SinceType
<1>5. CASE k # 0 /\ StartOfDay(after[i].at) = StartOfDay(time)
  <2> DEFINE D == DayRows(after, i)
             R == RowsSince(h, StartOfDay(time))
             U == R \cup ((N + 1) .. (N + k))
  <2>1. IsFiniteSet(R) /\ R \subseteq 1 .. N /\ \A x \in R : Moved(after)[x] \in Nat
    <3>1. IsFiniteSet(R)
      BY SinceType
    <3>2. R \subseteq 1 .. N
      BY DEF RowsSince
    <3> QED BY <1>2, <3>1, <3>2
  <2>2. D \subseteq U
    <3> SUFFICES ASSUME NEW x \in D PROVE x \in U
      OBVIOUS
    <3>1. x \in DOMAIN after /\ StartOfDay(after[x].at) = StartOfDay(time)
      BY <1>5 DEF DayRows
    <3>2. CASE x \in 1 .. N
      <4>1. h[x].at \in Nat /\ StartOfDay(h[x].at) = StartOfDay(time)
        BY <1>0, <3>1, <3>2 DEF Rowed
      <4>2. StartOfDay(h[x].at) <= h[x].at
        BY <4>1, DaysPass
      <4>3. x \in R
        BY <3>2, <4>1, <4>2 DEF RowsSince
      <4> QED BY <4>3
    <3>3. CASE \E j \in 1 .. k : x = N + j
      BY <3>3
    <3> QED BY <1>0, <3>1, <3>2, <3>3
  <2>3. U \subseteq DOMAIN after
    BY <1>0, <2>1
  <2>4. IsFiniteSet(U) /\ \A x \in U : Moved(after)[x] \in Nat
    <3> HIDE DEF U
    <3> QED BY <1>1, <1>4, <2>3, FS_Subset
  <2>5. SumOver(Moved(after), D) \in Nat /\ SumOver(Moved(after), D) <= SumOver(Moved(after), U)
    <3> HIDE DEF U, D
    <3> QED BY <2>2, <2>4, SumPart
  <2>6. SumOver(Moved(after), U) = SumOver(Moved(after), R) + SumOver(Moved(plan), 1 .. k)
    <3>1. \A j \in 1 .. k : Moved(plan)[j] \in Nat /\ Moved(after)[N + j] = Moved(plan)[j]
      <4> SUFFICES ASSUME NEW j \in 1 .. k
                   PROVE  Moved(plan)[j] \in Nat /\ Moved(after)[N + j] = Moved(plan)[j]
        OBVIOUS
      <4>1. N + j \in DOMAIN after /\ j \in 1 .. n
        BY <1>0
      <4>2. after[N + j].amount = plan[j].amount
        BY DEF Grown
      <4> QED BY <1>1, <1>3, <4>1, <4>2
    <3>2. k \in Nat
      OBVIOUS
    <3> DEFINE by == Moved(after)
               at == Moved(plan)
    <3> HIDE DEF R, by, at
    <3>3. IsFiniteSet(R) /\ R \subseteq 1 .. N /\ \A x \in R : by[x] \in Nat
      BY <2>1 DEF by
    <3>4. \A j \in 1 .. k : at[j] \in Nat /\ by[N + j] = at[j]
      BY <3>1 DEF by, at
    <3>4a. Beside(by, R, N, at, k)
      BY <3>2, <3>3, <3>4 DEF Beside
    <3>5. SumOver(by, R \cup ((N + 1) .. (N + k))) = SumOver(by, R) + SumOver(at, 1 .. k)
      BY <3>4a, SumBeside
    <3> QED BY <3>5 DEF by, at
  <2>7. SumOver(Moved(after), R) = SumOver(Moved(h), R)
    <3>1. \A x \in R : Moved(after)[x] \in Int /\ Moved(after)[x] = Moved(h)[x]
      BY <1>2, <2>1
    <3> HIDE DEF R
    <3> QED BY <2>1, <3>1, SumSame
  <2>8. /\ SumOver(Moved(plan), 1 .. k) \in Nat
        /\ SumOver(Moved(plan), 1 .. k) <= SumOver(Moved(plan), 1 .. n)
    <3>1. IsFiniteSet(1 .. n) /\ 1 .. k \subseteq 1 .. n
      <4>1. 1 \in Int /\ n \in Int
        OBVIOUS
      <4> QED BY <4>1, FS_Interval
    <3> QED BY <1>3, <3>1, SumPart
  <2>9. SumOver(Moved(plan), 1 .. n) \in Nat
    <3>1. IsFiniteSet(1 .. n)
      <4>1. 1 \in Int /\ n \in Int
        OBVIOUS
      <4> QED BY <4>1, FS_Interval
    <3> QED BY <1>3, <3>1, SumNat
  <2>10. SpentSince(h, StartOfDay(time)) + SumOver(Moved(plan), 1 .. n) <= Daily
    <3>1. 1 \in 1 .. n
      BY <1>5
    <3> QED BY <3>1 DEF Fits
  <2>11. SumOver(Moved(h), R) \in Nat /\ SumOver(Moved(h), R) = SpentSince(h, StartOfDay(time))
    BY SinceType
  <2> DEFINE a == SumOver(Moved(after), D)
             b == SumOver(Moved(after), U)
             c == SumOver(Moved(h), R)
             e == SumOver(Moved(plan), 1 .. k)
             f == SumOver(Moved(plan), 1 .. n)
  <2>12. /\ a <= b /\ b = c + e /\ e <= f /\ c + f <= Daily
         /\ a \in Nat /\ c \in Nat /\ e \in Nat /\ f \in Nat
    BY <2>5, <2>6, <2>7, <2>8, <2>9, <2>10, <2>11
  <2> HIDE DEF a, b, c, e, f
  <2>13. a <= Daily
    BY <2>12, LimitsAssumption
  <2> QED BY <2>13 DEF a, D
<1>6. CASE k = 0 \/ StartOfDay(after[i].at) # StartOfDay(time)
  <2>1. \A j \in 1 .. k : after[N + j].at = time
    BY DEF Grown
  <2>2. i \in 1 .. N
    <3> SUFFICES ASSUME NEW j \in 1 .. k, i = N + j PROVE FALSE
      BY <1>0
    <3>1. k # 0 /\ after[i].at = time
      BY <2>1
    <3> QED BY <1>6, <3>1
  <2>3. DayRows(after, i) = DayRows(h, i)
    <3>1. ASSUME NEW x \in DayRows(after, i) PROVE x \in DayRows(h, i)
      <4>1. x \in DOMAIN after /\ StartOfDay(after[x].at) = StartOfDay(after[i].at)
        BY DEF DayRows
      <4>2. x \in 1 .. N
        <5> SUFFICES ASSUME NEW j \in 1 .. k, x = N + j PROVE FALSE
          BY <1>0, <4>1
        <5>1. k # 0 /\ after[x].at = time
          BY <2>1
        <5> QED BY <1>6, <4>1, <5>1
      <4> QED BY <1>0, <2>2, <4>1, <4>2 DEF DayRows
    <3>2. ASSUME NEW x \in DayRows(h, i) PROVE x \in DayRows(after, i)
      BY <1>0, <2>2 DEF DayRows
    <3> QED BY <3>1, <3>2
  <2>4. DayRows(h, i) \subseteq 1 .. N /\ IsFiniteSet(DayRows(h, i))
    <3>1. DayRows(h, i) \subseteq 1 .. N
      BY DEF DayRows
    <3> QED BY <1>4, <3>1, FS_Subset
  <2>5. SumOver(Moved(after), DayRows(h, i)) = SumOver(Moved(h), DayRows(h, i))
    <3>1. \A x \in DayRows(h, i) : Moved(after)[x] \in Int /\ Moved(after)[x] = Moved(h)[x]
      BY <1>2, <2>4
    <3> QED BY <2>4, <3>1, SumSame
  <2>6. SumOver(Moved(h), DayRows(h, i)) <= Daily
    BY <2>2 DEF Limited
  <2> QED BY <2>3, <2>5, <2>6
<1> QED BY <1>5, <1>6

LEMMA ShiftedSet ==
  ASSUME NEW J, IsFiniteSet(J), NEW N
  PROVE  LET K == {N + j : j \in J} IN IsFiniteSet(K) /\ Cardinality(K) <= Cardinality(J)
<1> DEFINE K == {N + j : j \in J}
           f == [j \in J |-> N + j]
<1>1. f \in Surjection(J, K)
  BY DEF Surjection
<1> HIDE DEF K, f
<1>2. IsFiniteSet(K) /\ Cardinality(K) <= Cardinality(J)
  BY <1>1, FS_Surjection
<1> QED BY <1>2 DEF K

LEMMA GrownVelocity ==
  ASSUME NEW h, NEW N, NEW plan, NEW n, NEW k, NEW time, NEW after,
         Grown(h, N, plan, n, k, time, after),
         Fits(plan, h, time), Limited(h), VelocityCount # 0, NEW i \in DOMAIN after, i > Len(Past),
         IsTransfer(after[i])
  PROVE  Cardinality(SentTo(after, i)) <= VelocityCount
<1>h. /\ N \in Nat /\ n \in Nat /\ k \in 0 .. n /\ time \in Nat
      /\ DOMAIN h = 1 .. N /\ Rowed(h) /\ \A x \in DOMAIN h : h[x].at <= time
      /\ DOMAIN plan = 1 .. n /\ \A j \in 1 .. n : plan[j].amount \in Nat
  BY DEF Grown
<1>r. Rowed(after) /\ \A x \in DOMAIN after : x \in 1 .. N \/ \E j \in 1 .. k : x = N + j
  BY GrownRows
<1> USE <1>h
<1>0. /\ Rowed(after) /\ \A x \in DOMAIN after : x \in 1 .. N \/ \E j \in 1 .. k : x = N + j
      /\ \A x \in 1 .. N : after[x] = h[x] /\ x \in DOMAIN after
  <2>2. DOMAIN after = 1 .. (N + k) /\ \A x \in 1 .. N : after[x] = h[x]
    BY DEF Grown
  <2>3. 1 .. N \subseteq 1 .. (N + k)
    OBVIOUS
  <2> QED BY <1>r, <2>2, <2>3
<1>1. \A j \in 1 .. k : after[N + j].type = plan[j].type /\ after[N + j].at = time
  BY DEF Grown
<1>2. CASE i \in 1 .. N
  <2>1. SentTo(after, i) = SentTo(h, i)
    <3>1. ASSUME NEW x \in SentTo(after, i) PROVE x \in SentTo(h, i)
      <4>1. x \in DOMAIN after /\ after[x].at >= after[i].at - VelocityWindow /\ x <= i
            /\ IsTransfer(after[x])
        BY DEF SentTo, RowsSince
      <4>2. x \in 1 .. N
        <5> SUFFICES ASSUME NEW j \in 1 .. k, x = N + j PROVE FALSE
          BY <1>0, <4>1
        <5> QED BY <1>2, <4>1
      <4> QED BY <1>0, <1>2, <4>1, <4>2 DEF SentTo, RowsSince
    <3>2. ASSUME NEW x \in SentTo(h, i) PROVE x \in SentTo(after, i)
      BY <1>0, <1>2 DEF SentTo, RowsSince
    <3> QED BY <3>1, <3>2
  <2>2. IsTransfer(h[i])
    BY <1>0, <1>2
  <2> QED BY <1>2, <2>1, <2>2 DEF Limited
<1>3. CASE \E m \in 1 .. k : i = N + m
  <2>1. PICK m \in 1 .. k : i = N + m
    BY <1>3
  <2>2. after[i].at = time /\ IsTransfer(plan[m]) /\ m \in Sent(plan)
    BY <1>1, <2>1 DEF IsTransfer, Sent
  <2> DEFINE S == SentTo(after, i)
             J == Sent(plan)
             K == {N + j : j \in J}
             R == RowsSince(h, time - VelocityWindow)
  <2>3. S \subseteq R \cup K
    <3> SUFFICES ASSUME NEW x \in S PROVE x \in R \cup K
      OBVIOUS
    <3>1. x \in DOMAIN after /\ after[x].at >= time - VelocityWindow /\ IsTransfer(after[x])
      BY <2>2 DEF SentTo, RowsSince
    <3>2. CASE x \in 1 .. N
      BY <1>0, <3>1, <3>2 DEF RowsSince
    <3>3. CASE \E j \in 1 .. k : x = N + j
      <4>1. PICK j \in 1 .. k : x = N + j
        BY <3>3
      <4>2. j \in 1 .. n /\ IsTransfer(plan[j])
        BY <1>1, <3>1, <4>1 DEF IsTransfer
      <4> QED BY <4>1, <4>2 DEF Sent
    <3> QED BY <1>0, <3>1, <3>2, <3>3
  <2>4. IsFiniteSet(J)
    <3>1. J \subseteq 1 .. n
      BY DEF Sent
    <3>2. 1 \in Int /\ n \in Int
      OBVIOUS
    <3> QED BY <3>1, <3>2, FS_Interval, FS_Subset
  <2>5. IsFiniteSet(K) /\ Cardinality(K) <= Cardinality(J)
    <3> HIDE DEF J
    <3> QED BY <2>4, ShiftedSet
  <2>6. IsFiniteSet(R) /\ Cardinality(R) = CountSince(h, time - VelocityWindow)
    BY SinceType DEF CountSince
  <2>7. J # {} /\ CountSince(h, time - VelocityWindow) + Cardinality(J) <= VelocityCount
    BY <2>2 DEF Fits
  <2> HIDE DEF S, J, K, R
  <2>8. /\ IsFiniteSet(R \cup K)
        /\ Cardinality(R \cup K) = Cardinality(R) + Cardinality(K) - Cardinality(R \cap K)
    BY <2>5, <2>6, FS_Union
  <2>9. IsFiniteSet(S) /\ Cardinality(S) <= Cardinality(R \cup K)
    BY <2>3, <2>8, FS_Subset
  <2>10. IsFiniteSet(R \cap K)
    BY <2>6, FS_Subset
  <2>11. /\ Cardinality(S) \in Nat /\ Cardinality(R) \in Nat /\ Cardinality(K) \in Nat
         /\ Cardinality(J) \in Nat /\ Cardinality(R \cap K) \in Nat /\ Cardinality(R \cup K) \in Nat
    BY <2>4, <2>5, <2>6, <2>8, <2>9, <2>10, FS_CardinalityType
  <2>12. Cardinality(S) <= VelocityCount
    BY <2>5, <2>6, <2>7, <2>8, <2>9, <2>11, LimitsAssumption
  <2> QED BY <2>12 DEF S
<1> QED BY <1>0, <1>2, <1>3

\* Paying part of what fits keeps the limits.
LEMMA GrownLimited ==
  ASSUME NEW h, NEW N, NEW plan, NEW n, NEW k, NEW time, NEW after,
         Grown(h, N, plan, n, k, time, after), Fits(plan, h, time), Limited(h)
  PROVE  Rowed(after) /\ (\A i \in DOMAIN after : after[i].at <= time) /\ Limited(after)
<1>1. Rowed(after) /\ \A i \in DOMAIN after : after[i].at <= time
  BY GrownRows
<1>2. ASSUME NEW i \in DOMAIN after, i > Len(Past)
      PROVE  /\ Daily # 0 => SumOver(Moved(after), DayRows(after, i)) <= Daily
             /\ VelocityCount # 0 /\ IsTransfer(after[i])
                  => Cardinality(SentTo(after, i)) <= VelocityCount
  BY <1>2, GrownDaily, GrownVelocity
<1> QED BY <1>1, <1>2 DEF Limited

-----------------------------------------------------------------------------
(* The limits, over the steps.                                               *)

MayPay == {"checked", "releasing"}

\* What is between its check and its debit fits what the rows leave of the
\* limits.
LimitInv ==
  /\ Rowed(history) /\ \A i \in DOMAIN history : history[i].at <= now
  /\ Limited(history)
  /\ \A d \in Paying : Fits(drafts[d].plan, history, now)

LEMMA PayingIs ==
  /\ \A d : d \in Paying <=> d \in Drafts /\ drafts[d].status \in MayPay
  /\ \A d : d \in Paying' <=> d \in Drafts /\ drafts'[d].status \in MayPay
BY DEF Paying, MayPay

LEMMA AppendGrows ==
  ASSUME NEW h, Rowed(h), NEW time \in Nat, \A i \in DOMAIN h : h[i].at <= time,
         NEW plan, NEW n \in Nat, DOMAIN plan = 1 .. n, \A j \in 1 .. n : plan[j].amount \in Nat,
         NEW k \in 0 .. n, NEW rows, rows = [j \in 1 .. k |-> rows[j]],
         \A j \in 1 .. k : /\ rows[j].amount = plan[j].amount /\ rows[j].type = plan[j].type
                           /\ rows[j].at = time
  PROVE  \E N : Grown(h, N, plan, n, k, time, h \o rows)
<1>1. PICK N \in Nat : DOMAIN h = 1 .. N /\ h = [i \in 1 .. N |-> h[i]]
  BY DEF Rowed
<1> DEFINE S == {h[i] : i \in 1 .. N} \union {rows[j] : j \in 1 .. k}
           after == h \o rows
<1>2. h \in [1 .. N -> S] /\ rows \in [1 .. k -> S] /\ k \in Nat
  BY <1>1
<1> HIDE DEF S
<1>3. h \in Seq(S) /\ rows \in Seq(S) /\ Len(h) = N /\ Len(rows) = k
  BY <1>2
<1>4. /\ after \in Seq(S) /\ Len(after) = N + k
      /\ \A i \in 1 .. N + k : after[i] = IF i <= N THEN h[i] ELSE rows[i - N]
  BY <1>3, ConcatProperties
<1> HIDE DEF after
<1>5. DOMAIN after = 1 .. (N + k) /\ after = [i \in 1 .. (N + k) |-> after[i]]
  <2>1. after \in [1 .. Len(after) -> S]
    BY <1>4, LenProperties
  <2> QED BY <1>4, <2>1
<1>6. \A i \in 1 .. N : after[i] = h[i]
  <2> SUFFICES ASSUME NEW i \in 1 .. N PROVE after[i] = h[i]
    OBVIOUS
  <2>1. i \in 1 .. N + k /\ i <= N
    OBVIOUS
  <2> QED BY <1>4, <2>1
<1>7. \A j \in 1 .. k : after[N + j] = rows[j]
  <2> SUFFICES ASSUME NEW j \in 1 .. k PROVE after[N + j] = rows[j]
    OBVIOUS
  <2>1. N + j \in 1 .. N + k /\ ~(N + j <= N) /\ (N + j) - N = j
    OBVIOUS
  <2> QED BY <1>4, <2>1
<1>8. Grown(h, N, plan, n, k, time, after)
  BY <1>1, <1>5, <1>6, <1>7 DEF Grown
<1> QED BY <1>8 DEF after

LEMMA CoveredIs ==
  ASSUME NEW n \in Nat, NEW plan, DOMAIN plan = 1 .. n PROVE Covered(plan) \in 0 .. n
<1> DEFINE C == {0} \union {k \in DOMAIN plan : \A a \in Accounts : OutOf(plan, k, a) <= balances[a]}
           at == [k \in 0 .. n |-> k]
<1>1. C \subseteq 0 .. n /\ 0 \in C
  OBVIOUS
<1>2. Covered(plan) = Max(C)
  BY DEF Covered
<1> HIDE DEF C
<1>3. IsFiniteSet(C)
  <2>1. 0 \in Int /\ n \in Int
    OBVIOUS
  <2> QED BY <1>1, <2>1, FS_Interval, FS_Subset
<1>4. \A k \in C : at[k] = k /\ at[k] \in Nat
  BY <1>1
<1> HIDE DEF at
<1>5. PICK k \in C : \A j \in C : at[k] >= at[j]
  BY <1>1, <1>3, <1>4, SomeMost
<1>6. \A j \in C : k >= j
  BY <1>4, <1>5
<1>7. Max(C) \in C
  BY <1>6 DEF Max
<1> QED BY <1>1, <1>2, <1>7

\* Steps that pay nothing and let nothing more pay.
LEMMA NoneMore ==
  ASSUME LimitInv, UNCHANGED <<now, history>>,
         \A d \in Drafts : drafts'[d].status \in MayPay =>
           drafts[d].status \in MayPay /\ drafts'[d].plan = drafts[d].plan
  PROVE  LimitInv'
<1>1. \A d : d \in Paying' => d \in Paying /\ drafts'[d].plan = drafts[d].plan
  BY PayingIs
<1> QED BY <1>1 DEF LimitInv

LEMMA OneNotPaying ==
  ASSUME LimitInv, UNCHANGED <<now, history>>, NEW d \in Drafts, NEW next,
         drafts = [e \in Drafts |-> drafts[e]],
         drafts' = [drafts EXCEPT ![d] = next], next.status \notin MayPay
  PROVE  LimitInv'
<1>1. ASSUME NEW e \in Drafts, drafts'[e].status \in MayPay
      PROVE  drafts[e].status \in MayPay /\ drafts'[e].plan = drafts[e].plan
  BY <1>1
<1> QED BY <1>1, NoneMore

LEMMA ClosedNotPaying == \A status : Closed(status).status = status
BY DEF Closed, Blank

LEMMA PipelineLimits ==
  ASSUME IInv, LimitInv, NEW d \in Drafts, NEW given, Fields \subseteq DOMAIN given,
         Pipeline(d, given), UNCHANGED Ledger
  PROVE  LimitInv'
<1>1. PICK dr, ruling, fresh : /\ dr = [given EXCEPT !.plan = Bind(given.plan), !.created = now,
                                          !.questions = <<>>]
                               /\ Screened(d, dr, ruling, fresh)
  BY DEF Pipeline
<1>2. "status" \in DOMAIN dr
  BY <1>1 DEF Fields
<1>3. PICK next : drafts' = [drafts EXCEPT ![d] = next] /\ next.status \notin MayPay
  <2>1. CASE ruling = "BLOCK"
    BY <1>1, <2>1, ClosedNotPaying DEF Screened, MayPay
  <2>2. CASE ruling # "BLOCK"
    <3> DEFINE outcome == Scam!Stricter(dr.floor, fresh.outcome)
               asking  == ~dr.purpose /\ fresh.asks /\ outcome # "BLOCK"
               status  == IF outcome = "BLOCK" THEN "blocked" ELSE IF asking THEN "asking" ELSE "ready"
               coded   == ruling = "REQUIRE_EXTRA_CONFIRMATION" \/ outcome = "HOLD_STEP_UP"
               passed  == [dr EXCEPT !.status = status, !.floor = outcome,
                              !.questions = IF asking THEN fresh.questions ELSE <<>>,
                              !.heldUntil = IF status = "ready" /\ Scam!NeedsHold(outcome)
                                            THEN now + HoldSeconds ELSE 0,
                              !.code = IF status = "ready" /\ coded THEN "sent" ELSE "none"]
               next    == IF status = "blocked" THEN Closed("blocked") ELSE passed
    <3>1. drafts' = [drafts EXCEPT ![d] = next]
      BY <1>1, <2>2 DEF Screened
    <3>2. passed.status = status /\ status \notin MayPay
      BY <1>2 DEF MayPay
    <3> HIDE DEF passed, status
    <3>3. next.status \notin MayPay
      BY <3>2, ClosedNotPaying DEF MayPay
    <3> HIDE DEF next
    <3> QED BY <3>1, <3>3
  <2> QED BY <2>1, <2>2
<1>4. UNCHANGED <<now, history>> /\ drafts = [e \in Drafts |-> drafts[e]]
  BY DEF Ledger, IInv
<1> QED BY <1>3, <1>4, OneNotPaying

LEMMA SubmitLimits ==
  ASSUME IInv, Shown, LimitInv, NEW d \in Drafts, Submit(d) \/ Release(d)
  PROVE  LimitInv'
<1>1. UNCHANGED <<now, history>> /\ drafts = [e \in Drafts |-> drafts[e]]
      /\ Fields \subseteq DOMAIN drafts[d]
  BY DEF Submit, Release, Ledger, IInv, DraftInv, DraftShape
<1>2. CASE drafts' = [drafts EXCEPT ![d] = Closed("cancelled")]
  BY <1>1, <1>2, ClosedNotPaying, OneNotPaying DEF MayPay
<1>3. CASE ~(drafts' = [drafts EXCEPT ![d] = Closed("cancelled")])
  <2>1. /\ Ruling(drafts[d].plan) # "BLOCK"
        /\ \A e \in Drafts : e # d => drafts'[e] = drafts[e]
        /\ drafts'[d].plan = drafts[d].plan
    <3>1. CASE Submit(d)
      <4>1. Ruling(drafts[d].plan) # "BLOCK"
        BY <3>1 DEF Submit, PolicyAllows
      <4>2. PICK status, at : drafts' = [drafts EXCEPT ![d].status = status, ![d].signedAt = now,
                                                       ![d].releaseAt = at]
        BY <3>1 DEF Submit
      <4> QED BY <1>1, <4>1, <4>2 DEF Fields
    <3>2. CASE Release(d)
      <4>1. /\ Ruling(drafts[d].plan) # "BLOCK"
            /\ drafts' = [drafts EXCEPT ![d].status = "releasing"]
        BY <1>3, <3>2 DEF Release
      <4> QED BY <1>1, <4>1 DEF Fields
    <3> QED BY <3>1, <3>2
  <2>2. \A e : e \in Paying' /\ e # d => e \in Paying /\ drafts'[e] = drafts[e]
    BY <2>1, PayingIs
  <2>3. Fits(drafts[d].plan, history, now)
    <3> DEFINE plan == drafts[d].plan
               ctx == PolicyContext(User, history, <<>>, {}, now)
    <3>1. PICK n \in Nat : DOMAIN plan = 1 .. n
      BY DEF Shown, SoundDraft, SoundPlan
    <3>2. \A i \in 1 .. n : plan[i].amount \in Nat
      BY <3>1 DEF Shown, SoundDraft, SoundPlan
    <3>3. ctx.history = history /\ ctx.now = now
      BY DEF PolicyContext
    <3>4. PolicyDecision(plan, ctx) # "BLOCK"
      BY <2>1 DEF Ruling
    <3> HIDE DEF plan, ctx
    <3>5. Fits(plan, ctx.history, ctx.now)
      BY <3>1, <3>2, <3>3, <3>4, AllowedFits DEF LimitInv
    <3> QED BY <3>3, <3>5 DEF plan
  <2> QED BY <1>1, <2>1, <2>2, <2>3 DEF LimitInv
<1> QED BY <1>2, <1>3

LEMMA PayLimits ==
  ASSUME IInv, Shown, LimitInv, DebitsAlone, NEW d \in Drafts, Pay(d) PROVE LimitInv'
<1> DEFINE plan == drafts[d].plan
           k    == Covered(plan)
           rows == [j \in 1 .. k |-> PaidRow(plan[j])]
           next == [Closed("executed") EXCEPT !.code = drafts[d].code,
                      !.signedAt = drafts[d].signedAt, !.paidAt = now]
<1>1. /\ history' = history \o rows /\ drafts' = [drafts EXCEPT ![d] = next] /\ now' = now
      /\ d \in Paying /\ now \in Nat
  BY DEF Pay, Paying, IInv, Counters
<1>2. PICK n \in Nat : DOMAIN plan = 1 .. n
  BY DEF Shown, SoundDraft, SoundPlan
<1>3. \A i \in 1 .. n : plan[i].amount \in Nat
  BY <1>2 DEF Shown, SoundDraft, SoundPlan
<1>4. next.status \notin MayPay
  BY DEF Closed, Blank, MayPay
<1> HIDE DEF next
<1>5. \A e : e \in Paying' => e # d /\ e \in Paying /\ drafts'[e] = drafts[e]
  <2> SUFFICES ASSUME NEW e, e \in Paying' PROVE e # d /\ e \in Paying /\ drafts'[e] = drafts[e]
    OBVIOUS
  <2>1. drafts'[d] = next /\ (e # d => drafts'[e] = drafts[e])
    BY <1>1, PayingIs DEF IInv
  <2> QED BY <1>4, <2>1, PayingIs
<1>a. CASE history' = history
  BY <1>1, <1>5, <1>a DEF LimitInv
<1>b. CASE history' # history
  <2>1. \A e : e \notin Paying'
    BY <1>1, <1>5, <1>b DEF DebitsAlone
  <2> HIDE DEF plan
  <2>6. k \in 0 .. n
    BY <1>2, CoveredIs
  <2> HIDE DEF k
  <2>7. /\ rows = [j \in 1 .. k |-> rows[j]]
        /\ \A j \in 1 .. k : /\ rows[j].amount = plan[j].amount /\ rows[j].type = plan[j].type
                             /\ rows[j].at = now
    BY DEF PaidRow
  <2> HIDE DEF rows
  <2>8. Rowed(history) /\ \A i \in DOMAIN history : history[i].at <= now
    BY DEF LimitInv
  <2>9. PICK N : Grown(history, N, plan, n, k, now, history \o rows)
    BY <1>1, <1>2, <1>3, <2>6, <2>7, <2>8, AppendGrows
  <2>10. Fits(plan, history, now) /\ Limited(history)
    BY <1>1 DEF LimitInv, plan
  <2>11. /\ Rowed(history') /\ (\A i \in DOMAIN history' : history'[i].at <= now)
         /\ Limited(history')
    BY <1>1, <2>9, <2>10, GrownLimited
  <2> QED BY <1>1, <2>1, <2>11 DEF LimitInv
<1> QED BY <1>a, <1>b

LEMMA TickLimits == ASSUME IInv, Shown, LimitInv, Tick PROVE LimitInv'
<1>1. now \in Nat /\ now' \in Nat /\ now <= now' /\ UNCHANGED <<history, drafts>>
  BY Bounds DEF Tick, IInv, Counters
<1>2. \A i \in DOMAIN history : history[i].at <= now'
  BY <1>1 DEF LimitInv, Rowed
<1>3. ASSUME NEW d \in Paying PROVE Fits(drafts[d].plan, history, now')
  <2> DEFINE plan == drafts[d].plan
  <2>1. d \in Drafts
    BY DEF Paying
  <2>2. PICK n \in Nat : DOMAIN plan = 1 .. n
    BY <2>1 DEF Shown, SoundDraft, SoundPlan
  <2>3. \A i \in 1 .. n : Moved(plan)[i] \in Nat
    BY <2>1, <2>2 DEF Shown, SoundDraft, SoundPlan, Moved
  <2>4. Fits(plan, history, now) /\ Rowed(history)
    BY DEF LimitInv
  <2>5. Sent(plan) \subseteq 1 .. n
    BY <2>2 DEF Sent
  <2> HIDE DEF plan
  <2>6. IsFiniteSet(1 .. n)
    <3>1. 1 \in Int /\ n \in Int
      OBVIOUS
    <3> QED BY <3>1, FS_Interval
  <2>7. SumOver(Moved(plan), DOMAIN plan) \in Nat
    BY <2>2, <2>3, <2>6, SumNat
  <2>8. Cardinality(Sent(plan)) \in Nat
    BY <2>5, <2>6, FS_Subset, FS_CardinalityType
  <2>9. Fits(plan, history, now')
    BY <1>1, <2>4, <2>7, <2>8, FitsLater
  <2> QED BY <2>9 DEF plan
<1>4. Paying' = Paying
  BY <1>1 DEF Paying
<1> QED BY <1>1, <1>2, <1>3, <1>4 DEF LimitInv

LEMMA StepLimits ==
  ASSUME IInv, Shown, LimitInv, [Next]_vars, [DebitsAlone]_vars PROVE LimitInv'
<1>0. /\ drafts = [e \in Drafts |-> drafts[e]] /\ \A d \in Drafts : Fields \subseteq DOMAIN drafts[d]
      /\ Fields \subseteq DOMAIN Blank
  BY DEF IInv, DraftInv, DraftShape, Blank, Fields
<1>1. ASSUME NEW d \in Drafts, Ask(d) PROVE LimitInv'
  <2>1. PICK request, text :
          Pipeline(d, [Blank EXCEPT !.plan = request, !.text = text, !.started = now])
    BY <1>1 DEF Ask
  <2> DEFINE given == [Blank EXCEPT !.plan = request, !.text = text, !.started = now]
  <2>2. Fields \subseteq DOMAIN given /\ UNCHANGED Ledger /\ Pipeline(d, given)
    BY <1>0, <1>1, <2>1 DEF Ask, Ledger
  <2> HIDE DEF given
  <2> QED BY <2>2, PipelineLimits
<1>2. ASSUME NEW d \in Drafts, Answer(d) PROVE LimitInv'
  <2>0. UNCHANGED Ledger /\ UNCHANGED <<now, history>>
    BY <1>2 DEF Answer, Ledger
  <2>1. CASE \E missing, tries :
               drafts' = [drafts EXCEPT ![d].questions = missing, ![d].tries = tries]
    <3>1. PICK missing, tries :
            drafts' = [drafts EXCEPT ![d].questions = missing, ![d].tries = tries]
      BY <2>1
    <3> DEFINE next == [drafts[d] EXCEPT !.questions = missing, !.tries = tries]
    <3>2. drafts' = [drafts EXCEPT ![d] = next] /\ next.status = "asking"
      BY <1>0, <1>2, <3>1 DEF Answer, Fields
    <3> HIDE DEF next
    <3> QED BY <1>0, <2>0, <3>2, OneNotPaying DEF MayPay
  <2>2. CASE \E text, tries, unanswered :
               Pipeline(d, [drafts[d] EXCEPT !.text = text, !.tries = tries, !.purpose = TRUE,
                                             !.unanswered = unanswered])
    <3>1. PICK text, tries, unanswered :
            Pipeline(d, [drafts[d] EXCEPT !.text = text, !.tries = tries, !.purpose = TRUE,
                                          !.unanswered = unanswered])
      BY <2>2
    <3> DEFINE given == [drafts[d] EXCEPT !.text = text, !.tries = tries, !.purpose = TRUE,
                                          !.unanswered = unanswered]
    <3>2. Fields \subseteq DOMAIN given /\ Pipeline(d, given)
      BY <1>0, <3>1
    <3> HIDE DEF given
    <3> QED BY <2>0, <3>2, PipelineLimits
  <2>3. \/ \E missing, tries :
             drafts' = [drafts EXCEPT ![d].questions = missing, ![d].tries = tries]
        \/ \E text, tries, unanswered :
             Pipeline(d, [drafts[d] EXCEPT !.text = text, !.tries = tries, !.purpose = TRUE,
                                           !.unanswered = unanswered])
    BY <1>2 DEF Answer
  <2> QED BY <2>1, <2>2, <2>3
<1>3. ASSUME NEW d \in Drafts, StopBeforeAsking(d) \/ Cancel(d) PROVE LimitInv'
  <2>1. PICK status \in {"blocked", "cancelled"} : drafts' = [drafts EXCEPT ![d] = Closed(status)]
    BY <1>3 DEF StopBeforeAsking, Cancel
  <2>2. UNCHANGED <<now, history>>
    BY <1>3 DEF StopBeforeAsking, Cancel, Ledger
  <2>3. Closed(status).status \notin MayPay
    BY ClosedNotPaying DEF MayPay
  <2> QED BY <1>0, <2>1, <2>2, <2>3, OneNotPaying
<1>4. ASSUME NEW d \in Drafts, ConfirmCode(d) \/ Superseded(d) PROVE LimitInv'
  <2>0. UNCHANGED <<now, history>>
    BY <1>4 DEF ConfirmCode, Superseded, Ledger
  <2>1. PICK next : drafts' = [drafts EXCEPT ![d] = next] /\ next.status \notin MayPay
    <3>1. CASE ConfirmCode(d)
      <4> DEFINE next == [drafts[d] EXCEPT !.code = "confirmed"]
      <4>1. drafts' = [drafts EXCEPT ![d] = next] /\ next.status = "ready"
        BY <1>0, <3>1 DEF ConfirmCode, Fields
      <4> QED BY <4>1 DEF MayPay
    <3>2. CASE drafts' = [drafts EXCEPT ![d] = Closed("cancelled")]
      <4>1. Closed("cancelled").status \notin MayPay
        BY ClosedNotPaying DEF MayPay
      <4> QED BY <3>2, <4>1
    <3>3. CASE drafts' = [drafts EXCEPT ![d].status = "ready"]
      <4> DEFINE next == [drafts[d] EXCEPT !.status = "ready"]
      <4>1. drafts' = [drafts EXCEPT ![d] = next] /\ next.status = "ready"
        BY <1>0, <3>3 DEF Fields
      <4> QED BY <4>1 DEF MayPay
    <3> QED BY <1>4, <3>1, <3>2, <3>3 DEF Superseded
  <2> QED BY <1>0, <2>0, <2>1, OneNotPaying
<1>5. ASSUME Unfreeze PROVE LimitInv'
  <2>1. ASSUME NEW e \in Drafts, drafts'[e].status \in MayPay
        PROVE  drafts[e].status \in MayPay /\ drafts'[e].plan = drafts[e].plan
    <3>1. drafts'[e] = Closed("cancelled") \/ drafts'[e] = drafts[e]
      BY <1>5 DEF Unfreeze
    <3> QED BY <2>1, <3>1, ClosedNotPaying DEF MayPay
  <2> QED BY <1>5, <2>1, NoneMore DEF Unfreeze
<1>6. ASSUME (\E p \in Payees : ChangeNumber(p)) \/ AddPasskey \/ UNCHANGED vars PROVE LimitInv'
  <2>1. UNCHANGED <<now, history, drafts>>
    BY <1>6 DEF ChangeNumber, AddPasskey, vars
  <2> QED BY <2>1, NoneMore
<1>7. ASSUME NEW d \in Drafts, Pay(d) PROVE LimitInv'
  <2>1. DebitsAlone
    BY <1>7 DEF Pay, DebitsAlone, vars
  <2> QED BY <1>7, <2>1, PayLimits
<1> QED BY <1>1, <1>2, <1>3, <1>4, <1>5, <1>6, <1>7, SubmitLimits, TickLimits DEF Next

LEMMA InitLimits == Init => LimitInv
<1> SUFFICES ASSUME Init PROVE LimitInv
  OBVIOUS
<1>1. history = Past /\ now = Start /\ Paying = {}
  BY DEF Init, Paying, Blank
<1>2. Past \in Seq(Row_) /\ Start \in Nat
  BY ClearanceAssumption
<1>3. /\ Len(Past) \in Nat /\ DOMAIN Past = 1 .. Len(Past)
      /\ Past = [i \in 1 .. Len(Past) |-> Past[i]] /\ \A i \in DOMAIN Past : Past[i] \in Row_
  BY <1>2
<1>4. \A i \in DOMAIN Past : /\ Past[i].amount \in Nat /\ Past[i].at \in Nat /\ Past[i].at <= Start
                             /\ ~(i > Len(Past))
  BY <1>2, <1>3 DEF Row_
<1>5. Rowed(Past)
  BY <1>3, <1>4 DEF Rowed
<1> QED BY <1>1, <1>4, <1>5 DEF LimitInv, Limited

\* engine.py, README: a day moves more than the daily limit, or a transfer is one
\* too many for its window, only in a behaviour in which money was debited while
\* another payment stood between its policy check and its own debit (no lock of
\* the code excludes it).  One that waited meanwhile, was refused or was
\* cancelled is no such payment.
THEOREM LimitsTheorem == Spec => ([][DebitsAlone]_vars => []WithinLimits)
<1>1. IInv /\ Shown /\ LimitInv /\ [Next]_vars /\ [DebitsAlone]_vars => LimitInv'
  BY StepLimits
<1>2. LimitInv => WithinLimits
  BY LimitedIs DEF LimitInv
<1> QED BY <1>1, <1>2, InitLimits, Invariant, ShownTheorem, PTL DEF Spec
=============================================================================
