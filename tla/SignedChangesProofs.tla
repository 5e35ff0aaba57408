------------------------- MODULE SignedChangesProofs -------------------------
(***************************************************************************)
(* Proofs about SignedChanges, for any drafts, requests, contacts, forms   *)
(* and finitely many request threads: the types, one outcome for each      *)
(* draft, a bound on the guesses at a phone code whatever the              *)
(* interleaving, that the rows of payees change only under the code of     *)
(* that payload, that a change is made whole or not at all over rows that  *)
(* others change, and that every arrangement falls due as its form says.   *)
(*                                                                         *)
(* To the first invariants (IInv, Rest) a payload is any value; Resolved   *)
(* says what the resolvers made it.                                        *)
(***************************************************************************)
EXTENDS SignedChanges, SumTheorems, SequenceTheorems, FiniteSetTheorems, TLAPS

CodeShape(code) ==
  /\ {"payload", "attempts", "confirmed", "used", "serial"} \subseteq DOMAIN code
  /\ code.attempts \in Nat /\ code.serial \in Nat
  /\ code.confirmed \in BOOLEAN /\ code.used \in BOOLEAN

CallShape(call) ==
  \/ call = Idle
  \/ call.pc = "guessed" /\ call.draft \in Drafts
  \/ /\ call.pc \in {"burning", "cleared"} /\ call.draft \in Drafts
     /\ {"pc", "draft", "payload"} \subseteq DOMAIN call

Statuses == {"none", "clarify", "ready", "frozen", "blocked"} \union Final
Results  == {"none", "UPDATED", "ADDED", "CREATED", "FAILED", "DECLINED"}

DraftShape(dr) ==
  /\ {"status", "payload"} \subseteq DOMAIN dr
  /\ dr.status \in Statuses
  /\ dr.status = "ready" => dr.payload # NoPayload

\* What kind of values the rows hold.
Shapes ==
  /\ challenges = [d \in Drafts |-> challenges[d]]
  /\ \A d \in Drafts : CodeShape(challenges[d])
  /\ callers = [c \in Callers |-> callers[c]]
  /\ \A c \in Callers : CallShape(callers[c])
  /\ executions \in [Drafts -> Results]

\* The guesses at the code a draft has now that are past the count's check and
\* not yet counted.
InFlight(d) == {c \in Callers : /\ callers[c].pc = "guessed" /\ callers[c].draft = d
                                /\ callers[c].serial = challenges[d].serial}

\* A counted guess and one in flight weigh the same: counting moves it from one
\* to the other, and one begins only while fewer than MaxAttempts are counted.
GuessesAllowed ==
  \A d \in Drafts :
    challenges[d].attempts + Cardinality(InFlight(d)) <= MaxAttempts - 1 + Cardinality(Callers)

\* A confirmation on a draft without an outcome is for the payload it names,
\* and a request that passed the gateway's check carries a confirmed payload.
CodesProven ==
  /\ \A d \in Drafts :
       executions[d] = "none" /\ challenges[d].confirmed /\ ~challenges[d].used
         => <<d, challenges[d].payload>> \in proven
  /\ \A c \in Callers :
       /\ callers[c].pc = "cleared" /\ NeedsCode(callers[c].payload)
       /\ executions[callers[c].draft] = "none"
       => <<callers[c].draft, callers[c].payload>> \in proven

IInv == Shapes /\ GuessesAllowed /\ CodesProven

-----------------------------------------------------------------------------
\* However many threads guess, they are some of the threads.
LEMMA SomeCallers ==
  ASSUME NEW S \in SUBSET Callers
  PROVE  /\ IsFiniteSet(S)
         /\ Cardinality(S) \in Nat /\ Cardinality(Callers) \in Nat
         /\ Cardinality(S) <= Cardinality(Callers)
  BY SignedAssumption, FS_Subset, FS_CardinalityType

\* A new record has no guesses counted: any threads may be guessing.
LEMMA FreshCode ==
  ASSUME NEW S \in SUBSET Callers
  PROVE  0 + Cardinality(S) <= MaxAttempts - 1 + Cardinality(Callers)
  BY SignedAssumption, SomeCallers

\* The shapes of what the actions write.
LEMMA Written ==
  /\ CodeShape(NoCode) /\ CodeShape([NoCode EXCEPT !.used = TRUE])
  /\ NoCode.attempts = 0 /\ NoCode.serial = 0 /\ NoCode.confirmed = FALSE
  /\ CallShape(Idle) /\ Idle.pc = "idle"
  BY DEF CodeShape, NoCode, CallShape, Idle

\* Issue writes a record of its own for the draft, without guesses or proof.
LEMMA Issued ==
  ASSUME Shapes, NEW d \in Drafts, NEW p
  PROVE  /\ Issue(d, p) = [e \in Drafts |-> Issue(d, p)[e]]
         /\ \A e \in Drafts : e # d => Issue(d, p)[e] = challenges[e]
         /\ CodeShape(Issue(d, p)[d])
         /\ Issue(d, p)[d].attempts = 0 /\ Issue(d, p)[d].confirmed = FALSE
<1> DEFINE new == [NoCode EXCEPT !.payload = p, !.issued = now,
                                 !.serial = challenges[d].serial + 1]
<1>1. CodeShape(new) /\ new.attempts = 0 /\ new.confirmed = FALSE
  <2>1. challenges[d].serial + 1 \in Nat
    BY DEF Shapes, CodeShape
  <2> QED BY <2>1 DEF CodeShape, NoCode
<1>2. Issue(d, p) = [challenges EXCEPT ![d] = new]
  BY DEF Issue
<1> HIDE DEF new
<1>3. /\ challenges = [e \in Drafts |-> challenges[e]]
  BY DEF Shapes
<1>4. Issue(d, p) = [e \in Drafts |-> IF e = d THEN new ELSE challenges[e]]
  BY <1>2, <1>3
<1> QED BY <1>1, <1>4

\* Init establishes the inductive invariant.
LEMMA InitIInv == Init => IInv
<1> SUFFICES ASSUME Init PROVE IInv
  OBVIOUS
<1>1. Shapes
  BY Written DEF Init, Shapes, Results
<1>2. GuessesAllowed
  <2> SUFFICES ASSUME NEW d \in Drafts
               PROVE  challenges[d].attempts + Cardinality(InFlight(d))
                        <= MaxAttempts - 1 + Cardinality(Callers)
    BY DEF GuessesAllowed
  <2>1. challenges[d].attempts = 0
    BY Written DEF Init
  <2>2. InFlight(d) \in SUBSET Callers
    BY DEF InFlight
  <2> QED BY <2>1, <2>2, FreshCode
<1>3. CodesProven
  BY Written DEF Init, CodesProven
<1> QED BY <1>1, <1>2, <1>3 DEF IInv

\* A run of a pipeline, whatever it decides, keeps the inductive invariant.
LEMMA PipelineKeeps ==
  ASSUME IInv, NEW d \in Drafts, NEW dr, NEW outcome, Arrives(d, dr, outcome),
         UNCHANGED <<executions, callers, proven>>
  PROVE  IInv'
<1>1. CASE challenges' = challenges
  BY <1>1 DEF IInv, Shapes, GuessesAllowed, InFlight, CodesProven
<1>2. CASE challenges' = Issue(d, outcome.payload)
  <2>1. /\ challenges' = [e \in Drafts |-> challenges'[e]]
        /\ \A e \in Drafts : e # d => challenges'[e] = challenges[e]
        /\ CodeShape(challenges'[d])
        /\ challenges'[d].attempts = 0 /\ challenges'[d].confirmed = FALSE
    BY <1>2, Issued DEF IInv
  <2>2. Shapes'
    BY <2>1 DEF IInv, Shapes, CodeShape
  <2>3. ASSUME NEW e \in Drafts
        PROVE  (challenges[e].attempts + Cardinality(InFlight(e))
                 <= MaxAttempts - 1 + Cardinality(Callers))'
    <3>1. CASE e = d
      <4>1. InFlight(d)' \in SUBSET Callers
        BY DEF InFlight
      <4> QED BY <3>1, <4>1, <2>1, FreshCode
    <3>2. CASE e # d
      <4>1. InFlight(e)' = InFlight(e)
        BY <3>2, <2>1 DEF InFlight
      <4> QED BY <3>2, <4>1, <2>1 DEF IInv, GuessesAllowed
    <3> QED BY <3>1, <3>2
  <2>4. CodesProven'
    BY <2>1 DEF IInv, CodesProven
  <2> QED BY <2>2, <2>3, <2>4 DEF IInv, GuessesAllowed
<1> QED BY <1>1, <1>2 DEF Arrives

\* So do the actions that leave the codes, the calls and the outcomes alone.
LEMMA OthersKeep ==
  ASSUME IInv, UNCHANGED <<challenges, executions, callers, proven>>
  PROVE  IInv'
  BY DEF IInv, Shapes, GuessesAllowed, InFlight, CodesProven

\* A draft that is declined has an outcome, and needs no proof from then on.
LEMMA DeclineKeeps == ASSUME IInv, NEW d \in Drafts, Decline(d) PROVE IInv'
<1>1. Shapes'
  BY DEF IInv, Shapes, Decline, Results
<1>2. GuessesAllowed'
  BY DEF IInv, GuessesAllowed, InFlight, Decline
<1>3. CodesProven'
  <2>1. \A e \in Drafts : executions'[e] = "none" => executions[e] = "none"
    BY DEF Decline, IInv, Shapes
  <2>2. \A c \in Callers : callers[c].pc = "cleared" => callers[c].draft \in Drafts
    BY DEF IInv, Shapes, CallShape, Idle
  <2> QED BY <2>1, <2>2 DEF IInv, CodesProven, Decline
<1> QED BY <1>1, <1>2, <1>3 DEF IInv

\* A guess begins while fewer than MaxAttempts are counted.
LEMMA GuessKeeps ==
  ASSUME IInv, NEW c \in Callers, NEW d \in Drafts, Guess(c, d)
  PROVE  IInv'
<1>0. PICK right \in BOOLEAN :
        callers' = [callers EXCEPT ![c] = [pc |-> "guessed", draft |-> d, right |-> right,
                                           serial |-> challenges[d].serial]]
  BY DEF Guess
<1>a. /\ callers'[c].pc = "guessed" /\ callers'[c].draft = d
      /\ \A b \in Callers : b # c => callers'[b] = callers[b]
      /\ callers' = [b \in Callers |-> callers'[b]]
      /\ callers[c].pc = "idle"
      /\ UNCHANGED <<challenges, executions, proven>>
  BY <1>0 DEF IInv, Shapes, Guess, Idle
<1>1. Shapes'
  BY <1>a DEF IInv, Shapes, CallShape
<1>2. ASSUME NEW e \in Drafts
      PROVE  (challenges[e].attempts + Cardinality(InFlight(e))
                <= MaxAttempts - 1 + Cardinality(Callers))'
  <2>0. InFlight(e)' \in SUBSET Callers
    BY DEF InFlight
  <2>1. CASE e = d
    <3>1. challenges[d].attempts \in Nat /\ challenges[d].attempts < MaxAttempts
      BY DEF Guess, TriesLeft, IInv, Shapes, CodeShape
    <3>2. challenges[d].attempts <= MaxAttempts - 1
      BY <3>1, SignedAssumption
    <3> QED BY <2>0, <2>1, <3>1, <3>2, <1>a, SomeCallers, SignedAssumption
  <2>2. CASE e # d
    <3>1. InFlight(e)' = InFlight(e)
      BY <2>2, <1>a DEF InFlight
    <3> QED BY <3>1, <1>a DEF IInv, GuessesAllowed
  <2> QED BY <2>1, <2>2
<1>3. CodesProven'
  BY <1>a DEF IInv, CodesProven
<1> QED BY <1>1, <1>2, <1>3 DEF IInv, GuessesAllowed

\* Its end counts it, or proves the payload that the record names.
LEMMA GuessEndsKeeps == ASSUME IInv, NEW c \in Callers, GuessEnds(c) PROVE IInv'
<1> DEFINE d == callers[c].draft
           held == challenges[d].serial = callers[c].serial
<1>a. /\ callers' = [b \in Callers |-> callers'[b]]
      /\ callers'[c] = Idle /\ callers[c].pc = "guessed" /\ d \in Drafts
      /\ \A b \in Callers : b # c => callers'[b] = callers[b]
      /\ UNCHANGED executions
      /\ proven \subseteq proven'
  BY DEF GuessEnds, IInv, Shapes, CallShape, Idle
<1>b. /\ challenges = [e \in Drafts |-> challenges[e]]
      /\ \A e \in Drafts : CodeShape(challenges[e])
  BY DEF IInv, Shapes
<1>c. \A e \in Drafts : InFlight(e) \in SUBSET Callers
  BY DEF InFlight
<1>4. CASE ~held
  <2>1. challenges' = challenges
    BY <1>4 DEF GuessEnds
  <2>2. \A e \in Drafts : InFlight(e)' = InFlight(e)
    BY <1>4, <1>a, <2>1, Written DEF InFlight
  <2>3. Shapes' /\ GuessesAllowed' /\ CodesProven'
    BY <1>a, <2>1, <2>2, Written DEF IInv, Shapes, GuessesAllowed, CodesProven
  <2> QED BY <2>3 DEF IInv
<1>5. CASE held /\ callers[c].right
  <2>1. challenges' = [challenges EXCEPT ![d].confirmed = TRUE]
    BY <1>5 DEF GuessEnds
  <2>2. /\ challenges' = [e \in Drafts |-> challenges'[e]]
        /\ \A e \in Drafts : e # d => challenges'[e] = challenges[e]
        /\ CodeShape(challenges'[d])
        /\ challenges'[d].attempts = challenges[d].attempts
        /\ challenges'[d].serial = challenges[d].serial
        /\ challenges'[d].payload = challenges[d].payload
    BY <2>1, <1>a, <1>b DEF CodeShape
  <2>3. <<d, challenges[d].payload>> \in proven'
    BY <1>5 DEF GuessEnds
  <2>4. Shapes'
    BY <1>a, <1>b, <2>2, Written DEF IInv, Shapes
  <2>5. CodesProven'
    BY <1>a, <2>2, <2>3, Written DEF IInv, CodesProven
  <2>6. ASSUME NEW e \in Drafts
        PROVE  (challenges[e].attempts + Cardinality(InFlight(e))
                  <= MaxAttempts - 1 + Cardinality(Callers))'
    <3>1. InFlight(e)' \subseteq InFlight(e)
      BY <1>a, <2>2, Written DEF InFlight
    <3>2. /\ Cardinality(InFlight(e)') <= Cardinality(InFlight(e))
          /\ Cardinality(InFlight(e)') \in Nat /\ Cardinality(InFlight(e)) \in Nat
      BY <3>1, <1>c, SomeCallers, FS_Subset, FS_CardinalityType
    <3>3. challenges'[e].attempts = challenges[e].attempts /\ challenges[e].attempts \in Nat
      BY <2>2, <1>b DEF CodeShape
    <3>4. challenges[e].attempts + Cardinality(InFlight(e))
            <= MaxAttempts - 1 + Cardinality(Callers)
      BY DEF IInv, GuessesAllowed
    <3> QED BY <3>2, <3>3, <3>4, SomeCallers, SignedAssumption
  <2> QED BY <2>4, <2>5, <2>6 DEF IInv, GuessesAllowed
<1>6. CASE held /\ ~callers[c].right
  <2>1. challenges' = [challenges EXCEPT ![d].attempts = @ + 1]
    BY <1>6 DEF GuessEnds
  <2>2. /\ challenges' = [e \in Drafts |-> challenges'[e]]
        /\ \A e \in Drafts : e # d => challenges'[e] = challenges[e]
        /\ CodeShape(challenges'[d])
        /\ challenges'[d].attempts = challenges[d].attempts + 1
        /\ challenges'[d].serial = challenges[d].serial
        /\ challenges'[d].payload = challenges[d].payload
        /\ challenges'[d].confirmed = challenges[d].confirmed
        /\ challenges'[d].used = challenges[d].used
    <3>1. /\ challenges' = [e \in Drafts |-> challenges'[e]]
          /\ \A e \in Drafts : e # d => challenges'[e] = challenges[e]
          /\ challenges'[d] = [challenges[d] EXCEPT !.attempts = @ + 1]
      BY <2>1, <1>a, <1>b
    <3>2. CodeShape(challenges[d]) /\ challenges[d].attempts + 1 \in Nat
      BY <1>a, <1>b DEF CodeShape
    <3> QED BY <3>1, <3>2 DEF CodeShape
  <2>4. Shapes'
    BY <1>a, <1>b, <2>2, Written DEF IInv, Shapes
  <2>5. CodesProven'
    BY <1>a, <2>2, Written DEF IInv, CodesProven
  <2>6. ASSUME NEW e \in Drafts
        PROVE  (challenges[e].attempts + Cardinality(InFlight(e))
                  <= MaxAttempts - 1 + Cardinality(Callers))'
    <3>1. challenges[e].attempts + Cardinality(InFlight(e))
            <= MaxAttempts - 1 + Cardinality(Callers)
      BY DEF IInv, GuessesAllowed
    <3>2. challenges[e].attempts \in Nat
      BY <1>b DEF CodeShape
    <3>3. CASE e = d
      <4>1. InFlight(e)' = InFlight(e) \ {c} /\ c \in InFlight(e)
        BY <1>6, <1>a, <2>2, <3>3, Written DEF InFlight
      <4>2. /\ Cardinality(InFlight(e)') = Cardinality(InFlight(e)) - 1
            /\ Cardinality(InFlight(e)) \in Nat
        BY <4>1, <1>c, SomeCallers, FS_RemoveElement
      <4> QED BY <4>2, <3>1, <3>2, <3>3, <2>2, SomeCallers, SignedAssumption
    <3>4. CASE e # d
      <4>1. InFlight(e)' = InFlight(e)
        BY <3>4, <1>a, <2>2, Written DEF InFlight
      <4> QED BY <4>1, <3>4, <3>1, <2>2
    <3> QED BY <3>3, <3>4
  <2> QED BY <2>4, <2>5, <2>6 DEF IInv, GuessesAllowed
<1> QED BY <1>4, <1>5, <1>6 DEF GuessEnds, IInv, Shapes

\* What submissions have in common: no guess begins or ends.
LEMMA NoGuess ==
  ASSUME Shapes, NEW c \in Callers, NEW call, callers[c].pc # "guessed",
         callers' = [callers EXCEPT ![c] = call], call.pc # "guessed", CallShape(call)
  PROVE  /\ callers' = [b \in Callers |-> callers'[b]]
         /\ callers'[c] = call
         /\ \A b \in Callers : b # c => callers'[b] = callers[b]
         /\ \A b \in Callers : CallShape(callers'[b])
         /\ \A e \in Drafts : challenges'[e].serial = challenges[e].serial
                              => InFlight(e)' = InFlight(e)
<1>1. /\ callers' = [b \in Callers |-> callers'[b]]
      /\ callers'[c] = call
      /\ \A b \in Callers : b # c => callers'[b] = callers[b]
  BY DEF Shapes
<1>2. \A b \in Callers : CallShape(callers'[b])
  BY <1>1 DEF Shapes, CallShape
<1>3. ASSUME NEW e \in Drafts, challenges'[e].serial = challenges[e].serial
      PROVE  InFlight(e)' = InFlight(e)
  BY <1>1, <1>3 DEF InFlight
<1> QED BY <1>1, <1>2, <1>3

\* A submission carries the payload on, and proves nothing yet.
LEMMA SubmitKeeps ==
  ASSUME IInv, NEW c \in Callers, NEW d \in Drafts, Submit(c, d)
  PROVE  IInv'
<1> DEFINE call == [pc |-> "burning", draft |-> d, payload |-> drafts[d].payload]
<1>1. /\ callers[c].pc # "guessed" /\ callers' = [callers EXCEPT ![c] = call]
      /\ call.pc # "guessed" /\ call.pc # "cleared" /\ CallShape(call)
      /\ UNCHANGED <<challenges, executions, proven>>
  BY DEF Submit, Idle, CallShape
<1> HIDE DEF call
<1>2. /\ callers' = [b \in Callers |-> callers'[b]]
      /\ callers'[c] = call
      /\ \A b \in Callers : b # c => callers'[b] = callers[b]
      /\ \A b \in Callers : CallShape(callers'[b])
      /\ \A e \in Drafts : InFlight(e)' = InFlight(e)
  BY <1>1, NoGuess DEF IInv
<1>3. Shapes'
  BY <1>1, <1>2 DEF IInv, Shapes
<1>4. GuessesAllowed'
  BY <1>1, <1>2 DEF IInv, GuessesAllowed
<1>5. CodesProven'
  BY <1>1, <1>2 DEF IInv, CodesProven
<1> QED BY <1>3, <1>4, <1>5 DEF IInv

\* The gateway clears a payload that needs a code only if the draft's own code
\* was confirmed for that very payload.
LEMMA CheckKeeps == ASSUME IInv, NEW c \in Callers, Check(c) PROVE IInv'
<1> DEFINE old == callers[c]
           call == IF Passes(old.draft, old.payload) THEN [old EXCEPT !.pc = "cleared"] ELSE Idle
<1>1. /\ old.pc = "burning" /\ old.draft \in Drafts
      /\ {"pc", "draft", "payload"} \subseteq DOMAIN old
  BY DEF Check, IInv, Shapes, CallShape, Idle
<1>2. callers' = [callers EXCEPT ![c] = call] /\ UNCHANGED <<challenges, executions, proven>>
  BY DEF Check
<1>3. CASE Passes(old.draft, old.payload)
  <2>1. /\ call.pc = "cleared" /\ call.draft = old.draft /\ call.payload = old.payload
        /\ CallShape(call)
    BY <1>1, <1>3 DEF CallShape
  <2> HIDE DEF call
  <2>2. /\ callers' = [b \in Callers |-> callers'[b]]
        /\ callers'[c] = call
        /\ \A b \in Callers : b # c => callers'[b] = callers[b]
        /\ \A b \in Callers : CallShape(callers'[b])
        /\ \A e \in Drafts : InFlight(e)' = InFlight(e)
    BY <1>1, <1>2, <2>1, NoGuess DEF IInv
  <2>3. Shapes' /\ GuessesAllowed'
    BY <1>2, <2>2 DEF IInv, Shapes, GuessesAllowed
  <2>4. NeedsCode(old.payload) => <<old.draft, old.payload>> \in proven
    BY <1>1, <1>3 DEF Passes, Confirmed, IInv, CodesProven
  <2>5. CodesProven'
    BY <1>2, <2>1, <2>2, <2>4 DEF IInv, CodesProven
  <2> QED BY <2>3, <2>5 DEF IInv
<1>4. CASE ~Passes(old.draft, old.payload)
  <2>1. call = Idle /\ call.pc = "idle" /\ CallShape(call)
    BY <1>4, Written
  <2> HIDE DEF call
  <2>2. /\ callers' = [b \in Callers |-> callers'[b]]
        /\ callers'[c] = call
        /\ \A b \in Callers : b # c => callers'[b] = callers[b]
        /\ \A b \in Callers : CallShape(callers'[b])
        /\ \A e \in Drafts : InFlight(e)' = InFlight(e)
    BY <1>1, <1>2, <2>1, NoGuess DEF IInv
  <2>3. Shapes' /\ GuessesAllowed' /\ CodesProven'
    BY <1>2, <2>1, <2>2 DEF IInv, Shapes, GuessesAllowed, CodesProven
  <2> QED BY <2>3 DEF IInv
<1> QED BY <1>3, <1>4

\* What Execute writes: nothing but the draft's row, or an outcome on a draft
\* that had none, its code spent or left alone.
LEMMA ExecuteWrites ==
  ASSUME IInv, NEW c \in Callers, Execute(c)
  PROVE  LET d == callers[c].draft IN
         /\ callers[c].pc = "cleared" /\ d \in Drafts
         /\ callers' = [callers EXCEPT ![c] = Idle]
         /\ \/ UNCHANGED <<payees, mandates, executions, challenges, proven>>
            \/ /\ executions[d] = "none"
               /\ \E outcome \in Results \ {"none"} :
                    executions' = [executions EXCEPT ![d] = outcome]
               /\ \/ challenges' = challenges
                  \/ challenges' = [challenges EXCEPT ![d] = [NoCode EXCEPT !.used = TRUE]]
               /\ proven' = {p \in proven : p[1] # d}
               /\ \A m \in mandates' \ mandates : m.draft = d
<1> DEFINE d == callers[c].draft
           payload == callers[c].payload
<1>1. callers[c].pc = "cleared" /\ d \in Drafts /\ callers' = [callers EXCEPT ![c] = Idle]
  BY DEF Execute, IInv, Shapes, CallShape, Idle
<1>2. CASE ~Claimable(d)
  BY <1>1, <1>2 DEF Execute, Refused
<1>3. CASE Claimable(d)
  <2>1. executions[d] = "none"
    BY <1>3 DEF Claimable
  <2>2. ASSUME NEW outcome \in Results \ {"none"}, Records(c, outcome),
               \A m \in mandates' \ mandates : m.draft = d
        PROVE  /\ \E o \in Results \ {"none"} : executions' = [executions EXCEPT ![d] = o]
               /\ \/ challenges' = challenges
                  \/ challenges' = [challenges EXCEPT ![d] = [NoCode EXCEPT !.used = TRUE]]
               /\ proven' = {p \in proven : p[1] # d}
               /\ \A m \in mandates' \ mandates : m.draft = d
    BY <2>2 DEF Records
  <2>3. CASE payload.kind = "contact_edit"
    <3>1. Edit(c, payload)
      BY <1>3, <2>3 DEF Execute
    <3>2. PICK outcome \in {"FAILED", "UPDATED"} : Records(c, outcome)
      BY <3>1 DEF Edit
    <3>3. mandates' = mandates
      BY <3>1 DEF Edit
    <3> QED BY <1>1, <2>1, <2>2, <3>2, <3>3 DEF Results
  <2>4. CASE payload.kind = "contact_add"
    <3>1. Add(c, payload)
      BY <1>3, <2>4 DEF Execute
    <3>2. PICK outcome \in {"FAILED", "ADDED"} : Records(c, outcome)
      BY <3>1 DEF Add
    <3>3. mandates' = mandates
      BY <3>1 DEF Add
    <3> QED BY <1>1, <2>1, <2>2, <3>2, <3>3 DEF Results
  <2>5. CASE payload.kind \notin {"contact_edit", "contact_add"}
    <3>1. Enroll(c, d, payload)
      BY <1>3, <2>5 DEF Execute
    <3>2. CASE RefHolds(payload)
      <4>1. Records(c, "CREATED") /\ mandates' = mandates \union {[draft |-> d, terms |-> payload]}
        BY <3>1, <3>2 DEF Enroll
      <4>2. \A m \in mandates' \ mandates : m.draft = d
        BY <4>1
      <4> QED BY <1>1, <2>1, <2>2, <4>1, <4>2 DEF Results
    <3>3. CASE ~RefHolds(payload)
      BY <1>1, <3>1, <3>3 DEF Enroll, Refused
    <3> QED BY <3>2, <3>3
  <2> QED BY <2>3, <2>4, <2>5
<1> QED BY <1>2, <1>3

\* An outcome ends what its draft had to prove.
LEMMA ExecuteKeeps == ASSUME IInv, NEW c \in Callers, Execute(c) PROVE IInv'
<1>0. PICK d \in Drafts :
        /\ callers[c].pc = "cleared" /\ callers[c].draft = d
        /\ callers' = [callers EXCEPT ![c] = Idle]
        /\ \/ UNCHANGED <<executions, challenges, proven>>
           \/ /\ executions[d] = "none"
              /\ \E outcome \in Results \ {"none"} :
                   executions' = [executions EXCEPT ![d] = outcome]
              /\ \/ challenges' = challenges
                 \/ challenges' = [challenges EXCEPT ![d] = [NoCode EXCEPT !.used = TRUE]]
              /\ proven' = {p \in proven : p[1] # d}
  BY ExecuteWrites
<1>1. /\ callers' = [b \in Callers |-> callers'[b]]
      /\ callers'[c] = Idle
      /\ \A b \in Callers : b # c => callers'[b] = callers[b]
      /\ \A b \in Callers : CallShape(callers'[b])
      /\ \A e \in Drafts : challenges'[e].serial = challenges[e].serial
                           => InFlight(e)' = InFlight(e)
  BY <1>0, NoGuess, Written DEF IInv
<1>2. \A b \in Callers : callers'[b].pc = "cleared" =>
        /\ callers[b].pc = "cleared" /\ callers'[b] = callers[b]
        /\ callers[b].draft \in Drafts
  BY <1>1, Written DEF IInv, Shapes, CallShape, Idle
<1>3. CASE UNCHANGED <<executions, challenges, proven>>
  <2>1. Shapes' /\ GuessesAllowed' /\ CodesProven'
    BY <1>1, <1>2, <1>3 DEF IInv, Shapes, GuessesAllowed, CodesProven
  <2> QED BY <2>1 DEF IInv
<1>4. CASE /\ executions[d] = "none"
           /\ \E outcome \in Results \ {"none"} :
                executions' = [executions EXCEPT ![d] = outcome]
           /\ \/ challenges' = challenges
              \/ challenges' = [challenges EXCEPT ![d] = [NoCode EXCEPT !.used = TRUE]]
           /\ proven' = {p \in proven : p[1] # d}
  <2>1. /\ executions' \in [Drafts -> Results] /\ executions'[d] # "none"
        /\ \A e \in Drafts : e # d => executions'[e] = executions[e]
    BY <1>4 DEF IInv, Shapes
  <2>2. /\ challenges' = [e \in Drafts |-> challenges'[e]]
        /\ \A e \in Drafts : e # d => challenges'[e] = challenges[e]
        /\ CodeShape(challenges'[d])
        /\ challenges'[d] = challenges[d] \/ challenges'[d].attempts = 0
    BY <1>4, Written DEF IInv, Shapes, NoCode
  <2>3. Shapes'
    BY <1>1, <2>1, <2>2 DEF IInv, Shapes
  <2>4. ASSUME NEW e \in Drafts
        PROVE  (challenges[e].attempts + Cardinality(InFlight(e))
                  <= MaxAttempts - 1 + Cardinality(Callers))'
    <3>1. CASE challenges'[e] = challenges[e]
      BY <1>1, <3>1 DEF IInv, GuessesAllowed
    <3>2. CASE challenges'[e].attempts = 0
      <4>1. InFlight(e)' \in SUBSET Callers
        BY DEF InFlight
      <4> QED BY <3>2, <4>1, FreshCode
    <3> QED BY <2>2, <3>1, <3>2
  <2>5. \A e \in Drafts : \A x : e # d /\ <<e, x>> \in proven => <<e, x>> \in proven'
    BY <1>4
  <2>6. CodesProven'
    BY <1>2, <2>1, <2>2, <2>5 DEF IInv, CodesProven
  <2> QED BY <2>3, <2>4, <2>6 DEF IInv, GuessesAllowed
<1> QED BY <1>0, <1>3, <1>4

\* A pipeline of either kind ends by Arrives.
LEMMA RunsArrives ==
  ASSUME NEW d \in Drafts, NEW dr, Runs(d, dr)
  PROVE  \E outcome : Arrives(d, dr, outcome)
  BY DEF Runs

\* Every step keeps the inductive invariant.
LEMMA NextIInv == IInv /\ [Next]_vars => IInv'
<1> SUFFICES ASSUME IInv, [Next]_vars PROVE IInv'
  OBVIOUS
<1>1. ASSUME NEW d \in Drafts, Ask(d) PROVE IInv'
  <2>0. UNCHANGED <<executions, callers, proven>>
    BY <1>1 DEF Ask
  <2>1. challenges' = challenges \/ \E dr : Runs(d, dr)
    BY <1>1 DEF Ask
  <2>2. challenges' = challenges \/ \E dr, outcome : Arrives(d, dr, outcome)
    BY <2>1, RunsArrives
  <2> QED BY <2>0, <2>2, PipelineKeeps, OthersKeep
<1>2. ASSUME NEW d \in Drafts, Answer(d) PROVE IInv'
  <2>0. UNCHANGED <<executions, callers, proven>>
    BY <1>2 DEF Answer
  <2>1. \E dr : Runs(d, dr)
    BY <1>2 DEF Answer
  <2>2. \E dr, outcome : Arrives(d, dr, outcome)
    BY <2>1, RunsArrives
  <2> QED BY <2>0, <2>2, PipelineKeeps
<1>3. ASSUME NEW d \in Drafts, SendForm(d) PROVE IInv'
  BY <1>3, PipelineKeeps DEF SendForm
<1>4. ASSUME NEW d \in Drafts, Decline(d) PROVE IInv'
  BY <1>4, DeclineKeeps
<1>5. ASSUME NEW d \in Drafts, IssueNonce(d) PROVE IInv'
  BY <1>5, OthersKeep DEF IssueNonce
<1>6. ASSUME NEW c \in Callers, NEW d \in Drafts, Guess(c, d) \/ Submit(c, d) PROVE IInv'
  BY <1>6, GuessKeeps, SubmitKeeps
<1>7. ASSUME NEW c \in Callers, GuessEnds(c) \/ Check(c) \/ Execute(c) PROVE IInv'
  BY <1>7, GuessEndsKeeps, CheckKeeps, ExecuteKeeps
<1>8. ASSUME NEW r, RemoveContact(r) PROVE IInv'
  BY <1>8, OthersKeep DEF RemoveContact
<1>9. CASE ChangeBiller \/ Tick \/ UNCHANGED vars
  BY <1>9, OthersKeep DEF ChangeBiller, Tick, vars
<1> QED
  BY <1>1, <1>2, <1>3, <1>4, <1>5, <1>6, <1>7, <1>8, <1>9 DEF Next

-----------------------------------------------------------------------------
\* Parallel guesses: at most one beyond MaxAttempts for each further thread,
\* whatever their interleaving (stepup.py:87-97).
THEOREM GuessesTheorem == Spec => []GuessesBounded
<1>1. IInv => GuessesBounded
  <2> SUFFICES ASSUME IInv, NEW d \in Drafts
               PROVE  challenges[d].attempts <= MaxAttempts + Cardinality(Callers) - 1
    BY DEF GuessesBounded
  <2>1. InFlight(d) \in SUBSET Callers
    BY DEF InFlight
  <2>2. /\ challenges[d].attempts \in Nat /\ Cardinality(InFlight(d)) \in Nat
        /\ Cardinality(Callers) \in Nat
        /\ challenges[d].attempts + Cardinality(InFlight(d))
             <= MaxAttempts - 1 + Cardinality(Callers)
    BY <2>1, SomeCallers DEF IInv, Shapes, CodeShape, GuessesAllowed
  <2> QED BY <2>2, SignedAssumption
<1> QED
  BY InitIInv, NextIInv, <1>1, PTL DEF Spec

\* A signed draft has one outcome and at most the one arrangement written with
\* it, for any number of racing requests (executor.py:72-130, 214-344).
THEOREM OneOutcomeTheorem == Spec => OneOutcome
<1> DEFINE Once == \A d \in Drafts : executions[d] # "none" =>
                     /\ executions'[d] = executions[d]
                     /\ \A m \in mandates' \ mandates : m.draft # d
<1>1. IInv /\ [Next]_vars => [Once]_vars
  <2> SUFFICES ASSUME IInv, Next PROVE Once
    OBVIOUS
  <2>1. ASSUME NEW d \in Drafts, Decline(d) PROVE Once
    BY <2>1 DEF Decline, IInv, Shapes
  <2>2. ASSUME NEW c \in Callers, Execute(c) PROVE Once
    <3>1. PICK d \in Drafts :
            \/ UNCHANGED <<mandates, executions>>
            \/ /\ executions[d] = "none"
               /\ \E outcome \in Results \ {"none"} :
                    executions' = [executions EXCEPT ![d] = outcome]
               /\ \A m \in mandates' \ mandates : m.draft = d
      BY <2>2, ExecuteWrites
    <3> QED BY <3>1 DEF IInv, Shapes
  <2>3. ASSUME UNCHANGED <<executions, mandates>> PROVE Once
    BY <2>3
  <2> QED
    BY <2>1, <2>2, <2>3
    DEF Next, Ask, Answer, SendForm, IssueNonce, Guess, Submit, GuessEnds, Check,
        RemoveContact, ChangeBiller, Tick
<1> QED
  BY InitIInv, NextIInv, <1>1, PTL DEF Spec, OneOutcome

\* The rows that say where money goes change under a payload that needs a code
\* only after the code sent for that payload was entered (gateway.py:820-860,
\* stepup.py:99-117).
THEOREM CodeTheorem == Spec => CodeForThisPayload
<1> DEFINE Coded == \A c \in Callers :
                      /\ callers[c].pc = "cleared" /\ callers'[c] = Idle /\ payees' # payees
                      /\ NeedsCode(callers[c].payload)
                      => <<callers[c].draft, callers[c].payload>> \in proven
<1>1. IInv /\ [Next]_vars => [Coded]_vars
  <2> SUFFICES ASSUME IInv, Next,
                      NEW c \in Callers, callers[c].pc = "cleared", callers'[c] = Idle,
                      payees' # payees, NeedsCode(callers[c].payload)
               PROVE  <<callers[c].draft, callers[c].payload>> \in proven
    OBVIOUS
  <2>1. callers'[c] # callers[c]
    BY Written
  <2>2. PICK b \in Callers : Execute(b)
    BY <2>1
    DEF Next, Ask, Answer, SendForm, IssueNonce, Decline, Guess, Submit, GuessEnds, Check,
        RemoveContact, ChangeBiller, Tick
  <2>3. b = c
    BY <2>1, <2>2, ExecuteWrites DEF IInv, Shapes
  <2>4. executions[callers[c].draft] = "none"
    BY <2>2, <2>3, ExecuteWrites
  <2> QED BY <2>4 DEF IInv, CodesProven
<1> QED
  BY InitIInv, NextIInv, <1>1, PTL DEF Spec, CodeForThisPayload

-----------------------------------------------------------------------------
\* What a resolver's outcome is: a status, and a payload if it is ready.
OutcomeShape(outcome) ==
  /\ outcome.status \in {"clarify", "ready", "frozen", "blocked"}
  /\ outcome.status = "ready" => outcome.payload # NoPayload

LEMMA OutcomesShaped ==
  /\ \A request, answers : OutcomeShape(EditOutcome(request, answers))
  /\ \A request, ai : OutcomeShape(AddOutcome(request, ai))
  /\ \A form : OutcomeShape(FormOutcome(form))
<1>1. OutcomeShape(Clarify) /\ OutcomeShape(Blocked)
  BY DEF OutcomeShape, Clarify, Blocked
<1>2. ASSUME NEW said, NEW p, p # NoPayload
      PROVE  OutcomeShape([status |-> Validated(said), payload |-> p])
  BY <1>2 DEF OutcomeShape, Validated
<1>3. ASSUME NEW request, NEW answers PROVE OutcomeShape(EditOutcome(request, answers))
  <2> DEFINE outcome == EditOutcome(request, answers)
  <2>1. \/ outcome = Clarify \/ outcome = Blocked
        \/ \E edits : outcome = [status  |-> Validated(request.said),
                                payload |-> [kind |-> "contact_edit", edits |-> edits,
                                             created |-> now]]
    BY DEF EditOutcome
  <2>2. \A edits : [kind |-> "contact_edit", edits |-> edits, created |-> now] # NoPayload
    BY DEF NoPayload
  <2> QED BY <2>1, <2>2, <1>1, <1>2
<1>4. ASSUME NEW request, NEW ai PROVE OutcomeShape(AddOutcome(request, ai))
  <2> DEFINE outcome == AddOutcome(request, ai)
  <2>1. \/ outcome = Clarify \/ outcome = Blocked
        \/ \E safeguards, hold :
             outcome = [status  |-> Validated(request.said),
                        payload |-> [kind |-> "contact_add", nickname |-> request.nickname,
                                     phone |-> request.phone, safeguards |-> safeguards,
                                     hold |-> hold, created |-> now]]
    <3> DEFINE facts == [nickname |-> request.nickname, phone |-> request.phone,
                         existing |-> ToSet(payees), words |-> request.words,
                         recent |-> Cardinality({r \in DOMAIN payees : payees[r].added > now - 86400}),
                         pending |-> request.pending, forPayment |-> request.forPayment]
               rung  == New!Decide(facts, ai)
               guards == New!Safeguards(rung)
               hold   == IF rung = "HOLD" THEN HoldMinutes ELSE 0
               saved  == AlreadySaved(request.phone)
    <3>1. AddOutcome(request, ai)
            = IF saved THEN Clarify
              ELSE IF rung = "REFUSE" THEN Blocked
              ELSE [status  |-> Validated(request.said),
                    payload |-> [kind |-> "contact_add", nickname |-> request.nickname,
                                 phone |-> request.phone, safeguards |-> guards,
                                 hold |-> hold, created |-> now]]
      BY DEF AddOutcome
    <3> HIDE DEF facts, rung, guards, hold, saved
    <3> QED BY <3>1
  <2>2. \A safeguards, hold :
          [kind |-> "contact_add", nickname |-> request.nickname, phone |-> request.phone,
           safeguards |-> safeguards, hold |-> hold, created |-> now] # NoPayload
    BY DEF NoPayload
  <2> QED BY <2>1, <2>2, <1>1, <1>2
<1>5. ASSUME NEW form PROVE OutcomeShape(FormOutcome(form))
  <2> DEFINE outcome == FormOutcome(form)
  <2>1. \/ outcome = Clarify
        \/ \E count, until :
             outcome = [status  |-> "ready",
                        payload |-> [kind |-> "mandate", form |-> form, ref |-> billerVersion,
                                     count |-> count, until |-> until, created |-> now]]
    BY DEF FormOutcome
  <2>2. \A count, until :
          [kind |-> "mandate", form |-> form, ref |-> billerVersion, count |-> count,
           until |-> until, created |-> now] # NoPayload
    BY DEF NoPayload
  <2> QED BY <2>1, <2>2, <1>1 DEF OutcomeShape
<1> QED BY <1>3, <1>4, <1>5

\* The shapes of the rest of the state.
Rest ==
  /\ now \in Nat /\ events \in 0 .. MaxEvents /\ billerVersion \in Nat \ {0}
  /\ drafts = [d \in Drafts |-> drafts[d]]
  /\ \A d \in Drafts : DraftShape(drafts[d])

\* What a draft becomes keeps its shape.
LEMMA DraftsKept ==
  ASSUME Rest, NEW d \in Drafts, NEW dr, DraftShape(dr), drafts' = [drafts EXCEPT ![d] = dr]
  PROVE  /\ drafts' = [e \in Drafts |-> drafts'[e]]
         /\ \A e \in Drafts : DraftShape(drafts'[e])
<1>1. drafts' = [e \in Drafts |-> IF e = d THEN dr ELSE drafts[e]]
  BY DEF Rest
<1> QED BY <1>1 DEF Rest

LEMMA ArrivesShaped ==
  ASSUME Rest, NEW d \in Drafts, NEW dr, {"status", "payload"} \subseteq DOMAIN dr,
         NEW outcome, OutcomeShape(outcome), Arrives(d, dr, outcome)
  PROVE  /\ drafts' = [e \in Drafts |-> drafts'[e]]
         /\ \A e \in Drafts : DraftShape(drafts'[e])
<1> DEFINE new == [dr EXCEPT !.status = outcome.status, !.payload = outcome.payload]
<1>1. DraftShape(new)
  BY DEF DraftShape, OutcomeShape, Statuses
<1>2. drafts' = [drafts EXCEPT ![d] = new]
  BY DEF Arrives
<1> QED BY <1>1, <1>2, DraftsKept

LEMMA RunsShaped ==
  ASSUME Rest, NEW d \in Drafts, NEW dr, {"status", "payload"} \subseteq DOMAIN dr, Runs(d, dr)
  PROVE  /\ drafts' = [e \in Drafts |-> drafts'[e]]
         /\ \A e \in Drafts : DraftShape(drafts'[e])
<1>1. PICK outcome : OutcomeShape(outcome) /\ Arrives(d, dr, outcome)
  BY OutcomesShaped DEF Runs
<1> QED BY <1>1, ArrivesShaped

\* A draft that ends, or follows the ledger.
LEMMA ClosedShaped ==
  \A status \in Final : DraftShape(Closed(status))
  BY DEF DraftShape, Closed, NoDraft, Statuses, Final

LEMMA FollowsShaped ==
  ASSUME Rest, NEW d \in Drafts,
         drafts' = Follows(d) \/ drafts' = drafts \/ drafts' = [drafts EXCEPT ![d] = Closed("executed")]
  PROVE  /\ drafts' = [e \in Drafts |-> drafts'[e]]
         /\ \A e \in Drafts : DraftShape(drafts'[e])
<1>1. DraftShape(Closed("executed"))
  BY ClosedShaped DEF Final
<1> QED BY <1>1, DraftsKept DEF Follows, Rest

\* Init and every step keep them.
LEMMA InitRest == Init => Rest
  BY SignedAssumption DEF Init, Rest, DraftShape, NoDraft, Statuses

LEMMA NextRest == IInv /\ Rest /\ [Next]_vars => Rest'
<1> SUFFICES ASSUME IInv, Rest, [Next]_vars PROVE Rest'
  OBVIOUS
<1> DEFINE Kept_ == /\ drafts' = [e \in Drafts |-> drafts'[e]]
                    /\ \A e \in Drafts : DraftShape(drafts'[e])
<1>a. ASSUME Kept_, UNCHANGED <<now, billerVersion>>, UNCHANGED events \/ Event PROVE Rest'
  BY <1>a, SignedAssumption DEF Rest, Event
<1>b. \A d \in Drafts : {"status", "payload"} \subseteq DOMAIN drafts[d]
  BY DEF Rest, DraftShape
<1>1. ASSUME NEW d \in Drafts, Ask(d) PROVE Rest'
  <2>1. PICK request \in Requests :
          LET dr == [NoDraft EXCEPT !.request = request, !.created = now, !.status = "clarify",
                       !.answers = IF request.kind = "contact_edit"
                                   THEN [i \in DOMAIN request.edits |-> NoRow] ELSE <<>>]
          IN IF request.kind = "setup"
             THEN drafts' = [drafts EXCEPT ![d] = dr]
             ELSE Runs(d, dr)
    BY <1>1 DEF Ask
  <2> DEFINE answers == IF request.kind = "contact_edit"
                        THEN [i \in DOMAIN request.edits |-> NoRow] ELSE <<>>
             dr == [NoDraft EXCEPT !.request = request, !.created = now, !.status = "clarify",
                      !.answers = answers]
  <2> HIDE DEF answers
  <2>2. DraftShape(dr)
    BY DEF DraftShape, NoDraft, Statuses
  <2>3. drafts' = [drafts EXCEPT ![d] = dr] \/ Runs(d, dr)
    BY <2>1 DEF answers
  <2> HIDE DEF dr
  <2>4. {"status", "payload"} \subseteq DOMAIN dr
    BY <2>2 DEF DraftShape
  <2>5. Kept_
    BY <2>2, <2>3, <2>4, DraftsKept, RunsShaped
  <2> QED BY <1>1, <2>5, <1>a DEF Ask
<1>2. ASSUME NEW d \in Drafts, Answer(d) PROVE Rest'
  <2>1. \/ Runs(d, drafts[d])
        \/ \E i, r : Runs(d, [drafts[d] EXCEPT !.answers[i] = r])
    BY <1>2 DEF Answer
  <2>2. \A i, r : {"status", "payload"} \subseteq DOMAIN [drafts[d] EXCEPT !.answers[i] = r]
    BY <1>b
  <2>3. Kept_
    BY <2>1, <2>2, <1>b, RunsShaped
  <2> QED BY <1>2, <2>3, <1>a DEF Answer
<1>3. ASSUME NEW d \in Drafts, SendForm(d) PROVE Rest'
  <2>1. PICK form \in Forms : Arrives(d, drafts[d], FormOutcome(form))
    BY <1>3 DEF SendForm
  <2>2. Kept_
    BY <2>1, <1>b, OutcomesShaped, ArrivesShaped
  <2> QED BY <1>3, <2>2, <1>a DEF SendForm
<1>4. ASSUME NEW d \in Drafts, Decline(d) PROVE Rest'
  <2>1. Kept_
    BY <1>4, ClosedShaped, DraftsKept DEF Decline, Final
  <2> QED BY <1>4, <2>1, <1>a DEF Decline
<1>5. ASSUME NEW c \in Callers, Check(c) PROVE Rest'
  <2>1. callers[c].draft \in Drafts
    BY <1>5 DEF Check, IInv, Shapes, CallShape, Idle
  <2>2. Kept_
    BY <1>5, <2>1, FollowsShaped DEF Check
  <2> QED BY <1>5, <2>2, <1>a DEF Check
<1>6. ASSUME NEW c \in Callers, Execute(c) PROVE Rest'
  <2>1. callers[c].draft \in Drafts
    BY <1>6, ExecuteWrites
  <2>2. \/ drafts' = Follows(callers[c].draft) \/ drafts' = drafts
        \/ drafts' = [drafts EXCEPT ![callers[c].draft] = Closed("executed")]
    BY <1>6 DEF Execute, Edit, Add, Enroll, Refused, Records
  <2>3. Kept_
    BY <2>1, <2>2, FollowsShaped
  <2> QED BY <1>6, <2>3, <1>a DEF Execute
<1>7. ASSUME UNCHANGED <<drafts, now, billerVersion>>, UNCHANGED events \/ Event PROVE Rest'
  BY <1>7, <1>a DEF Rest
<1>8. CASE ChangeBiller
  BY <1>8, SignedAssumption DEF ChangeBiller, Event, Rest
<1>9. CASE Tick
  BY <1>9, SignedAssumption DEF Tick, Event, Rest
<1> QED
  BY <1>1, <1>2, <1>3, <1>4, <1>5, <1>6, <1>7, <1>8, <1>9
  DEF Next, vars, IssueNonce, Guess, Submit, GuessEnds, RemoveContact

\* Every reachable state of the signed changes is well typed.
THEOREM TypeTheorem == Spec => []TypeOK
<1>1. IInv /\ Rest => TypeOK
  BY DEF IInv, Rest, TypeOK, Shapes, CodeShape, CallShape, DraftShape, Statuses, Results, Idle
<1> QED
  BY InitIInv, NextIInv, InitRest, NextRest, <1>1, PTL DEF Spec

-----------------------------------------------------------------------------
\* Edits as a draft carries them: of rows of the table, a value another than the
\* one it replaces, each field of a row once.
EditsSound(edits, table) ==
  /\ Len(edits) \in Nat /\ DOMAIN edits = 1 .. Len(edits)
  /\ \A i \in DOMAIN edits : /\ edits[i].payee \in table
                             /\ edits[i].field \in {"phone", "nickname"}
                             /\ edits[i].old # edits[i].new
  /\ \A i, j \in DOMAIN edits :
       i # j => edits[i].payee # edits[j].payee \/ edits[i].field # edits[j].field

Touches(edits, k, r, field) ==
  \E j \in 1 .. k : edits[j].payee = r /\ edits[j].field = field

\* What the first k edits leave of the rows when none of them failed.
Leaves(edits, k, rows) ==
  /\ rows = [r \in DOMAIN payees |-> rows[r]]
  /\ \A r \in DOMAIN payees :
       /\ IsRow(rows[r])
       /\ rows[r].removed = payees[r].removed
       /\ rows[r].added = payees[r].added /\ rows[r].hold = payees[r].hold
       /\ IF Touches(edits, k, r, "phone")
          THEN rows[r].version = payees[r].version + 1 /\ rows[r].changed = now
          ELSE /\ rows[r].phone = payees[r].phone
               /\ rows[r].version = payees[r].version /\ rows[r].changed = payees[r].changed
       /\ ~Touches(edits, k, r, "nickname") => rows[r].nickname = payees[r].nickname
  /\ \A j \in 1 .. k :
       /\ payees[edits[j].payee].removed = 0
       /\ Shows(payees[edits[j].payee], edits[j]) = edits[j].old
       /\ Shows(rows[edits[j].payee], edits[j]) = edits[j].new

LEMMA NoneLeft ==
  ASSUME NEW edits, \A r \in DOMAIN payees : IsRow(payees[r]),
         payees = [r \in DOMAIN payees |-> payees[r]]
  PROVE  Leaves(edits, 0, payees)
<1>1. \A r, field : ~Touches(edits, 0, r, field)
  BY DEF Touches
<1> QED BY <1>1 DEF Leaves

\* One more edit that finds the value it replaces.
LEMMA EditLeaves ==
  ASSUME NEW edits, EditsSound(edits, DOMAIN payees), NEW k \in Nat, k + 1 \in DOMAIN edits,
         NEW rows, Leaves(edits, k, rows), \A r \in DOMAIN payees : IsRow(payees[r]),
         EditsRow(rows[edits[k + 1].payee], edits[k + 1])
  PROVE  Leaves(edits, k + 1, [rows EXCEPT ![edits[k + 1].payee] = Edited(@, edits[k + 1])])
<1> DEFINE e == edits[k + 1]
           p == e.payee
           new == Edited(rows[p], e)
           after == [rows EXCEPT ![p] = new]
<1>1. /\ p \in DOMAIN payees /\ e.field \in {"phone", "nickname"} /\ e.old # e.new
      /\ 1 .. k \subseteq DOMAIN edits /\ k + 1 \notin 1 .. k
  BY DEF EditsSound
<1>2. ~Touches(edits, k, p, e.field)
  BY <1>1 DEF Touches, EditsSound
<1>3. \A r \in DOMAIN payees, field \in {"phone", "nickname"} :
        Touches(edits, k + 1, r, field)
          <=> Touches(edits, k, r, field) \/ (r = p /\ field = e.field)
  <2>1. 1 .. k + 1 = 1 .. k \cup {k + 1}
    OBVIOUS
  <2> QED BY <2>1 DEF Touches
<1>4. /\ IsRow(rows[p]) /\ rows[p].removed = payees[p].removed
      /\ rows[p].added = payees[p].added /\ rows[p].hold = payees[p].hold
      /\ rows[p].removed = 0 /\ Shows(rows[p], e) = e.old
      /\ rows = [r \in DOMAIN payees |-> rows[r]]
  BY <1>1 DEF Leaves, EditsRow, Shows
<1>5. /\ after = [r \in DOMAIN payees |-> after[r]]
      /\ after[p] = new
      /\ \A r \in DOMAIN payees : r # p => after[r] = rows[r]
  BY <1>1, <1>4
<1>6. /\ IsRow(new) /\ new.removed = payees[p].removed
      /\ new.added = payees[p].added /\ new.hold = payees[p].hold
      /\ Shows(new, e) = e.new
      /\ IF e.field = "phone"
         THEN /\ new.version = rows[p].version + 1 /\ new.changed = now
              /\ new.nickname = rows[p].nickname
         ELSE /\ new.phone = rows[p].phone /\ new.version = rows[p].version
              /\ new.changed = rows[p].changed
  <2>1. CASE e.field = "phone"
    <3> DEFINE row == rows[p]
    <3>1. /\ row = [nickname |-> row.nickname, phone |-> row.phone, version |-> row.version,
                    changed |-> row.changed, added |-> row.added, hold |-> row.hold,
                    removed |-> row.removed]
          /\ row.version \in Nat
      BY <1>4 DEF IsRow
    <3>2. new = [row EXCEPT !.phone = e.new, !.version = @ + 1, !.changed = now]
      BY <2>1 DEF Edited
    <3> HIDE DEF row, new
    <3>3. new = [nickname |-> row.nickname, phone |-> e.new, version |-> row.version + 1,
                 changed |-> now, added |-> row.added, hold |-> row.hold,
                 removed |-> row.removed]
      BY <3>1, <3>2
    <3>4. row.version + 1 \in Nat
      BY <3>1
    <3>5. IsRow(new) /\ Shows(new, e) = e.new
      BY <2>1, <3>3, <3>4 DEF IsRow, Shows
    <3> QED BY <1>4, <2>1, <3>3, <3>5 DEF row
  <2>2. CASE e.field # "phone"
    BY <1>4, <2>2 DEF Edited, IsRow, Shows
  <2> QED BY <2>1, <2>2
<1>7. Shows(payees[p], e) = e.old
  BY <1>1, <1>2, <1>4 DEF Leaves, Shows
<1> HIDE DEF new, after
<1>8. ASSUME NEW r \in DOMAIN payees
      PROVE  /\ IsRow(after[r])
             /\ after[r].removed = payees[r].removed
             /\ after[r].added = payees[r].added /\ after[r].hold = payees[r].hold
             /\ IF Touches(edits, k + 1, r, "phone")
                THEN after[r].version = payees[r].version + 1 /\ after[r].changed = now
                ELSE /\ after[r].phone = payees[r].phone
                     /\ after[r].version = payees[r].version /\ after[r].changed = payees[r].changed
             /\ ~Touches(edits, k + 1, r, "nickname") => after[r].nickname = payees[r].nickname
  <2>1. CASE r # p
    BY <1>3, <1>5, <2>1 DEF Leaves
  <2>2. CASE r = p /\ e.field = "phone"
    BY <1>1, <1>2, <1>3, <1>5, <1>6, <2>2 DEF Leaves
  <2>3. CASE r = p /\ e.field = "nickname"
    BY <1>1, <1>2, <1>3, <1>5, <1>6, <2>3 DEF Leaves
  <2> QED BY <1>1, <2>1, <2>2, <2>3
<1>9. ASSUME NEW j \in 1 .. k + 1
      PROVE  /\ payees[edits[j].payee].removed = 0
             /\ Shows(payees[edits[j].payee], edits[j]) = edits[j].old
             /\ Shows(after[edits[j].payee], edits[j]) = edits[j].new
  <2>1. CASE j = k + 1
    BY <1>4, <1>5, <1>6, <1>7, <2>1
  <2>2. CASE j # k + 1
    <3>1. j \in 1 .. k /\ j \in DOMAIN edits
      BY <1>1, <2>2
    <3>2. /\ payees[edits[j].payee].removed = 0
          /\ Shows(payees[edits[j].payee], edits[j]) = edits[j].old
          /\ Shows(rows[edits[j].payee], edits[j]) = edits[j].new
      BY <3>1 DEF Leaves
    <3>3. edits[j].payee # p \/ edits[j].field # e.field
      BY <1>1, <3>1 DEF EditsSound
    <3>4. edits[j].payee \in DOMAIN payees /\ edits[j].field \in {"phone", "nickname"}
      BY <3>1 DEF EditsSound
    <3>5. Shows(after[edits[j].payee], edits[j]) = Shows(rows[edits[j].payee], edits[j])
      BY <1>1, <1>5, <1>6, <3>3, <3>4 DEF Shows
    <3> QED BY <3>2, <3>5
  <2> QED BY <2>1, <2>2
<1> QED BY <1>5, <1>8, <1>9 DEF Leaves, after, new

\* The runs of the edits, each from the one before.
NextRun(run, e) ==
  IF run.failed \/ ~EditsRow(run.rows[e.payee], e)
  THEN [rows |-> payees, failed |-> TRUE]
  ELSE [run EXCEPT !.rows[e.payee] = Edited(@, e)]
RunsEdits(run, edits, n) ==
  run = [i \in 0 .. n |-> IF i = 0 THEN [rows |-> payees, failed |-> FALSE]
                          ELSE NextRun(run[i - 1], edits[i])]

LEMMA RunExists ==
  ASSUME NEW edits, NEW n \in Nat
  PROVE  \E run : RunsEdits(run, edits, n)
<1> DEFINE Found == {k \in Nat : \E run : RunsEdits(run, edits, k)}
           first == [rows |-> payees, failed |-> FALSE]
<1>1. 0 \in Found
  <2>1. RunsEdits([i \in 0 .. 0 |-> first], edits, 0)
    BY DEF RunsEdits
  <2> QED BY <2>1
<1>2. ASSUME NEW k \in Nat, k \in Found PROVE k + 1 \in Found
  <2>1. PICK g : RunsEdits(g, edits, k)
    BY <1>2
  <2> DEFINE last == NextRun(g[k], edits[k + 1])
             h == [i \in 0 .. k + 1 |-> IF i = k + 1 THEN last ELSE g[i]]
  <2>2. \A i \in 0 .. k : h[i] = g[i]
    OBVIOUS
  <2>3. h[k + 1] = last /\ h = [i \in 0 .. k + 1 |-> h[i]]
    OBVIOUS
  <2>4. g[0] = first /\ \A i \in 1 .. k : g[i] = NextRun(g[i - 1], edits[i])
    <3>1. \A i \in 0 .. k : g[i] = IF i = 0 THEN first ELSE NextRun(g[i - 1], edits[i])
      BY <2>1 DEF RunsEdits
    <3>2. 0 \in 0 .. k /\ \A i \in 1 .. k : i \in 0 .. k /\ i # 0
      OBVIOUS
    <3> HIDE DEF first
    <3> QED BY <3>1, <3>2
  <2> HIDE DEF h, first
  <2>5. ASSUME NEW i \in 0 .. k + 1
        PROVE  h[i] = IF i = 0 THEN first ELSE NextRun(h[i - 1], edits[i])
    <3>1. CASE i = 0
      BY <2>2, <2>4, <3>1
    <3>2. CASE i = k + 1
      <4>1. i - 1 = k /\ k \in 0 .. k /\ i # 0
        BY <3>2
      <4> QED BY <2>2, <2>3, <3>2, <4>1
    <3>3. CASE i # 0 /\ i # k + 1
      <4>1. i \in 1 .. k /\ i \in 0 .. k /\ i - 1 \in 0 .. k
        BY <3>3
      <4> QED BY <2>2, <2>4, <3>3, <4>1
    <3> QED BY <3>1, <3>2, <3>3
  <2>6. h = [i \in 0 .. k + 1 |-> IF i = 0 THEN first ELSE NextRun(h[i - 1], edits[i])]
    BY <2>3, <2>5
  <2>7. RunsEdits(h, edits, k + 1)
    BY <2>6, Zenon DEF RunsEdits, first
  <2> QED BY <2>7
<1> HIDE DEF Found
<1>3. \A k \in Nat : k \in Found
  BY <1>1, <1>2, Induction
<1> QED BY <1>3 DEF Found

LEMMA OneEdit ==
  ASSUME NEW run, DOMAIN run = {"rows", "failed"}, NEW p, NEW e
  PROVE  LET next == [run EXCEPT !.rows[p] = Edited(@, e)]
         IN /\ next.rows = [run.rows EXCEPT ![p] = Edited(@, e)]
            /\ next.failed = run.failed /\ DOMAIN next = {"rows", "failed"}
<1> DEFINE rows == [run.rows EXCEPT ![p] = Edited(run.rows[p], e)]
<1>1. [run EXCEPT !.rows[p] = Edited(@, e)] = [run EXCEPT !.rows = rows]
  OBVIOUS
<1>2. rows = [run.rows EXCEPT ![p] = Edited(@, e)]
  OBVIOUS
<1> HIDE DEF rows
<1> QED BY <1>1, <1>2

\* All edits, or the rows there were.
LEMMA EditsApplied ==
  ASSUME NEW edits, EditsSound(edits, DOMAIN payees), \A r \in DOMAIN payees : IsRow(payees[r]),
         payees = [r \in DOMAIN payees |-> payees[r]]
  PROVE  LET run == ApplyEdits(edits)
         IN /\ run.failed \in BOOLEAN
            /\ run.failed => run.rows = payees
            /\ ~run.failed => Leaves(edits, Len(edits), run.rows)
<1> DEFINE n == Len(edits)
           run[i \in 0 .. Len(edits)] ==
             IF i = 0 THEN [rows |-> payees, failed |-> FALSE]
             ELSE LET e == edits[i]
                  IN IF run[i - 1].failed \/ ~EditsRow(run[i - 1].rows[e.payee], e)
                     THEN [rows |-> payees, failed |-> TRUE]
                     ELSE [run[i - 1] EXCEPT !.rows[e.payee] = Edited(@, e)]
<1>1. ApplyEdits(edits) = run[n]
  BY Zenon DEF ApplyEdits
<1>2. run = CHOOSE g : RunsEdits(g, edits, n)
  BY DEF RunsEdits, NextRun
<1>3. n \in Nat /\ DOMAIN edits = 1 .. n
  BY DEF EditsSound
<1> HIDE DEF run, n
<1>4. RunsEdits(run, edits, n)
  BY <1>2, <1>3, RunExists
<1>5. /\ run[0] = [rows |-> payees, failed |-> FALSE]
      /\ \A i \in 1 .. n : run[i] = NextRun(run[i - 1], edits[i])
  <2>1. \A i \in 0 .. n : run[i] = IF i = 0 THEN [rows |-> payees, failed |-> FALSE]
                                     ELSE NextRun(run[i - 1], edits[i])
    BY <1>4 DEF RunsEdits
  <2>2. 0 \in 0 .. n /\ \A i \in 1 .. n : i \in 0 .. n /\ i # 0
    BY <1>3
  <2> QED BY <2>1, <2>2
<1> DEFINE Fine(k) == /\ DOMAIN run[k] = {"rows", "failed"}
                      /\ run[k].failed \in BOOLEAN
                      /\ run[k].failed => run[k].rows = payees
                      /\ ~run[k].failed => Leaves(edits, k, run[k].rows)
           Good == {k \in Nat : k <= n => Fine(k)}
<1>6. 0 \in Good
  <2>1. run[0].rows = payees /\ run[0].failed = FALSE
    BY <1>5
  <2>2. Leaves(edits, 0, run[0].rows)
    BY <2>1, NoneLeft
  <2>3. DOMAIN run[0] = {"rows", "failed"}
    BY <1>5
  <2>4. Fine(0)
    BY <2>1, <2>2, <2>3
  <2> HIDE DEF Fine
  <2> QED BY <2>4
<1>7. ASSUME NEW k \in Nat, k \in Good PROVE k + 1 \in Good
  <2> SUFFICES ASSUME k + 1 <= n PROVE Fine(k + 1)
    OBVIOUS
  <2>1. Fine(k) /\ k + 1 \in DOMAIN edits /\ k + 1 - 1 = k /\ k + 1 \in 1 .. n
    BY <1>3, <1>7
  <2>2. run[k + 1] = NextRun(run[k], edits[k + 1])
    BY <1>5, <2>1
  <2> DEFINE e == edits[k + 1]
  <2>3. CASE run[k].failed \/ ~EditsRow(run[k].rows[e.payee], e)
    <3>1. run[k + 1] = [rows |-> payees, failed |-> TRUE]
      BY <2>2, <2>3 DEF NextRun
    <3> QED BY <3>1
  <2>4. CASE ~run[k].failed /\ EditsRow(run[k].rows[e.payee], e)
    <3> DEFINE rows == run[k].rows
               after == [rows EXCEPT ![e.payee] = Edited(@, e)]
    <3>1. run[k + 1] = [run[k] EXCEPT !.rows[e.payee] = Edited(@, e)]
      BY <2>2, <2>4 DEF NextRun
    <3>2. /\ run[k + 1].rows = after /\ run[k + 1].failed = run[k].failed
          /\ DOMAIN run[k + 1] = {"rows", "failed"}
      BY <2>1, <3>1, OneEdit
    <3>3. Leaves(edits, k + 1, after)
      BY <2>1, <2>4, EditLeaves
    <3> HIDE DEF after
    <3> QED BY <2>1, <2>4, <3>2, <3>3
  <2> QED BY <2>3, <2>4
<1> HIDE DEF Fine, Good
<1>8. \A k \in Nat : k \in Good
  BY <1>6, <1>7, Induction
<1>9. Fine(n)
  BY <1>3, <1>8 DEF Good
<1> QED BY <1>1, <1>9 DEF Fine, n

-----------------------------------------------------------------------------
\* What a signed form asks for.
TermsSound(terms) ==
  LET form == terms.form
  IN /\ form \in Forms
     /\ terms.count = Occurrences(form) /\ terms.count # 0
     /\ terms.until = Cal!ReviewUntil(
          Cal!OccurrenceDates(form.frequency, form.start, terms.count)[terms.count])

\* What a payload was resolved to, for a table of contacts that has grown since.
PayloadSound(payload, table) ==
  \/ payload = NoPayload
  \/ payload.kind = "contact_edit" /\ EditsSound(payload.edits, table)
  \/ payload.kind = "contact_add"
  \/ payload.kind = "mandate" /\ TermsSound(payload)

\* The table of contacts is one, and every payload on its way was resolved over it.
Table ==
  /\ Len(payees) \in Nat /\ payees = [r \in 1 .. Len(payees) |-> payees[r]]
  /\ \A r \in DOMAIN payees : IsRow(payees[r])
Resolved ==
  /\ Table
  /\ \A d \in Drafts :
       /\ "request" \in DOMAIN drafts[d]
       /\ drafts[d].request.kind = "contact_edit" => drafts[d].request \in Requests
       /\ PayloadSound(drafts[d].payload, DOMAIN payees)
  /\ \A c \in Callers : callers[c].pc \in {"burning", "cleared"} =>
       callers[c].payload # NoPayload /\ PayloadSound(callers[c].payload, DOMAIN payees)
  /\ \A m \in mandates : TermsSound(m.terms)

LEMMA GrownTable ==
  ASSUME NEW table, NEW grown, table \subseteq grown, NEW payload, PayloadSound(payload, table)
  PROVE  PayloadSound(payload, grown)
  BY DEF PayloadSound, EditsSound

LEMMA NothingSound ==
  \A table : PayloadSound(Clarify.payload, table) /\ PayloadSound(Blocked.payload, table)
  BY DEF PayloadSound, Clarify, Blocked

\* A contact picked for a name is one of the table's.
LEMMA Picked ==
  ASSUME Resolved, NEW name, NEW answer, Pick(name, answer) # NoRow
  PROVE  Pick(name, answer) \in DOMAIN payees
<1> DEFINE matching == {r \in LiveRows : payees[r].nickname = name}
<1>1. LiveRows \subseteq DOMAIN payees /\ matching \subseteq LiveRows
  BY DEF LiveRows
<1>2. Pick(name, answer) = IF Cardinality(matching) = 1 THEN CHOOSE r \in matching : TRUE
     ELSE IF answer \in (IF matching = {} THEN LiveRows ELSE matching) THEN answer
     ELSE NoRow
  BY DEF Pick
<1> HIDE DEF matching
<1>3. Cardinality(matching) = 1 => matching # {}
  BY FS_EmptySet
<1> QED BY <1>1, <1>2, <1>3

LEMMA EditResolved ==
  ASSUME Resolved, NEW request \in Requests, request.kind = "contact_edit", NEW answers
  PROVE  PayloadSound(EditOutcome(request, answers).payload, DOMAIN payees)
<1> DEFINE asked == request.edits
           rows  == [i \in DOMAIN asked |-> Pick(asked[i].target, answers[i])]
           Unclear(i) == rows[i] = NoRow \/ Stored(rows[i], asked[i].field) = asked[i].new
           edits == [i \in DOMAIN asked |->
                       [payee |-> rows[i], field |-> asked[i].field, new |-> asked[i].new,
                        old |-> Stored(rows[i], asked[i].field)]]
           Twice == \E i, j \in DOMAIN asked : /\ i # j /\ rows[i] = rows[j]
                                               /\ asked[i].field = asked[j].field
           outcome == EditOutcome(request, answers)
           vague == asked = <<>> \/ (\E i \in DOMAIN asked : Unclear(i)) \/ Twice
<1>1. outcome = IF vague THEN Clarify
                ELSE IF New!ChangeRefused(edits) THEN Blocked
                ELSE [status  |-> Validated(request.said),
                      payload |-> [kind |-> "contact_edit", edits |-> edits, created |-> now]]
  BY DEF EditOutcome
<1>2. /\ Len(asked) \in Nat /\ DOMAIN asked = 1 .. Len(asked)
      /\ \A i \in DOMAIN asked : asked[i].field \in {"phone", "nickname"}
  BY RequestsAssumption DEF IsSequence
<1>3. \A i \in DOMAIN asked : rows[i] # NoRow => rows[i] \in DOMAIN payees
  BY Picked
<1>4. /\ DOMAIN edits = DOMAIN asked
      /\ \A i \in DOMAIN asked :
           /\ edits[i].payee = rows[i] /\ edits[i].field = asked[i].field
           /\ edits[i].new = asked[i].new /\ edits[i].old = Stored(rows[i], asked[i].field)
  OBVIOUS
<1>5. Len(edits) = Len(asked)
  <2> DEFINE n == Len(asked)
             values == {edits[i] : i \in DOMAIN asked}
  <2>1. edits \in [1 .. n -> values]
    BY <1>2
  <2> HIDE DEF edits, values
  <2>2. edits \in Seq(values) /\ n \in Nat /\ DOMAIN edits = 1 .. n
    BY <1>2, <2>1
  <2> QED BY <2>2
<1>0. ~vague => \A i \in DOMAIN asked : rows[i] # NoRow
  OBVIOUS
<1> HIDE DEF rows, edits
<1>6. CASE vague
  <2> HIDE DEF vague
  <2> QED BY <1>1, <1>6, NothingSound
<1>7. CASE ~vague
  <2>1. EditsSound(edits, DOMAIN payees)
    BY <1>2, <1>3, <1>4, <1>5, <1>7 DEF EditsSound
  <2>2. CASE New!ChangeRefused(edits)
    BY <1>1, <1>7, <2>2, NothingSound
  <2>3. CASE ~New!ChangeRefused(edits)
    <3>1. outcome.payload = [kind |-> "contact_edit", edits |-> edits, created |-> now]
      BY <1>1, <1>7, <2>3
    <3> QED BY <2>1, <3>1 DEF PayloadSound
  <2> QED BY <2>2, <2>3
<1> QED BY <1>6, <1>7

LEMMA AddResolved ==
  ASSUME NEW request, NEW ai, NEW table
  PROVE  PayloadSound(AddOutcome(request, ai).payload, table)
<1>1. \/ AddOutcome(request, ai).payload.kind = "contact_add"
      \/ AddOutcome(request, ai) = Clarify \/ AddOutcome(request, ai) = Blocked
  <2> DEFINE facts == [nickname |-> request.nickname, phone |-> request.phone,
                       existing |-> ToSet(payees), words |-> request.words,
                       recent |-> Cardinality({r \in DOMAIN payees : payees[r].added > now - 86400}),
                       pending |-> request.pending, forPayment |-> request.forPayment]
             rung  == New!Decide(facts, ai)
             guards == New!Safeguards(rung)
             hold   == IF rung = "HOLD" THEN HoldMinutes ELSE 0
             saved  == AlreadySaved(request.phone)
  <2>1. AddOutcome(request, ai)
          = IF saved THEN Clarify
            ELSE IF rung = "REFUSE" THEN Blocked
            ELSE [status  |-> Validated(request.said),
                  payload |-> [kind |-> "contact_add", nickname |-> request.nickname,
                               phone |-> request.phone, safeguards |-> guards,
                               hold |-> hold, created |-> now]]
    BY DEF AddOutcome
  <2> HIDE DEF facts, rung, guards, hold, saved
  <2> QED BY <2>1
<1> QED BY <1>1, NothingSound DEF PayloadSound

LEMMA FormResolved ==
  ASSUME NEW form \in Forms, NEW table
  PROVE  PayloadSound(FormOutcome(form).payload, table)
<1> DEFINE n   == Occurrences(form)
           due == Cal!OccurrenceDates(form.frequency, form.start, n)
           until == Cal!ReviewUntil(due[n])
           wrong == \/ form.amount > PerTransaction \/ form.auto = "missing"
                    \/ Cal!DueAt(form.start) <= now
                    \/ "end" \in form.gives
                         /\ Cal!DayNumber(form.end) < Cal!DayNumber(form.start)
                    \/ n = 0
           terms == [kind |-> "mandate", form |-> form, ref |-> billerVersion,
                     count |-> n, until |-> until, created |-> now]
<1>1. FormOutcome(form) = IF wrong THEN Clarify ELSE [status |-> "ready", payload |-> terms]
  BY DEF FormOutcome
<1>2. wrong \/ n # 0
  OBVIOUS
<1> HIDE DEF wrong
<1>3. CASE wrong
  BY <1>1, <1>3, NothingSound
<1>4. CASE ~wrong
  <2>1. /\ terms.kind = "mandate" /\ terms.form = form /\ terms.count = n
        /\ terms.until = until /\ n # 0
    BY <1>2, <1>4
  <2>2. FormOutcome(form).payload = terms
    BY <1>1, <1>4
  <2>3. TermsSound(terms)
    <3> HIDE DEF terms
    <3> QED BY <2>1 DEF TermsSound
  <2> HIDE DEF terms
  <2> QED BY <2>1, <2>2, <2>3 DEF PayloadSound
<1> QED BY <1>3, <1>4

\* A pipeline's end: what it resolved is sound over the table as it is.
LEMMA ArrivesResolved ==
  ASSUME Rest, Resolved, NEW d \in Drafts, NEW dr, NEW outcome, Arrives(d, dr, outcome),
         {"request", "status", "payload"} \subseteq DOMAIN dr,
         dr.request.kind = "contact_edit" => dr.request \in Requests,
         PayloadSound(outcome.payload, DOMAIN payees),
         UNCHANGED <<payees, callers, mandates>>
  PROVE  Resolved'
<1> DEFINE new == [dr EXCEPT !.status = outcome.status, !.payload = outcome.payload]
<1>1. "request" \in DOMAIN new /\ new.request = dr.request /\ new.payload = outcome.payload
  OBVIOUS
<1>2. drafts' = [drafts EXCEPT ![d] = new]
  BY DEF Arrives
<1> HIDE DEF new
<1>3. drafts' = [e \in Drafts |-> IF e = d THEN new ELSE drafts[e]]
  BY <1>2 DEF Rest
<1>4. \A e \in Drafts :
        /\ "request" \in DOMAIN drafts'[e]
        /\ drafts'[e].request.kind = "contact_edit" => drafts'[e].request \in Requests
        /\ PayloadSound(drafts'[e].payload, DOMAIN payees')
  BY <1>1, <1>3 DEF Resolved
<1> QED BY <1>4 DEF Resolved, Table

\* What a draft is replaced by when it ends.
LEMMA DraftsResolved ==
  ASSUME Rest, Resolved, NEW d \in Drafts, NEW dr, drafts' = [drafts EXCEPT ![d] = dr],
         "request" \in DOMAIN dr, dr.request.kind = "contact_edit" => dr.request \in Requests,
         PayloadSound(dr.payload, DOMAIN payees)
  PROVE  \A e \in Drafts :
           /\ "request" \in DOMAIN drafts'[e]
           /\ drafts'[e].request.kind = "contact_edit" => drafts'[e].request \in Requests
           /\ PayloadSound(drafts'[e].payload, DOMAIN payees)
<1>1. drafts' = [e \in Drafts |-> IF e = d THEN dr ELSE drafts[e]]
  BY DEF Rest
<1> QED BY <1>1 DEF Resolved

LEMMA ClosedResolved ==
  \A status : /\ "request" \in DOMAIN Closed(status)
              /\ Closed(status).request.kind # "contact_edit"
              /\ \A table : PayloadSound(Closed(status).payload, table)
  BY DEF Closed, NoDraft, PayloadSound

-----------------------------------------------------------------------------
\* What a step may do to the table of contacts.
TableStep ==
  /\ RemovedStaysPut /\ NumberHasVersion /\ AddedNumberIsNew
  /\ Table' /\ DOMAIN payees \subseteq DOMAIN payees'

LEMMA SameTable == ASSUME Table, UNCHANGED payees PROVE TableStep
<1>1. \A r \in DOMAIN payees : payees[r].version \in Nat
  BY DEF Table, IsRow
<1>2. NumberHasVersion
  BY <1>1 DEF NumberHasVersion
<1> QED BY <1>2 DEF TableStep, RemovedStaysPut, AddedNumberIsNew, Table

\* A change of contacts: all its edits, or the rows there were.
LEMMA EditTable ==
  ASSUME Table, UNCHANGED now, NEW edits, EditsSound(edits, DOMAIN payees),
         payees' = ApplyEdits(edits).rows
  PROVE  /\ TableStep
         /\ ApplyEdits(edits).failed => payees' = payees
         /\ ~ApplyEdits(edits).failed =>
              \A i \in DOMAIN edits : /\ Shows(payees[edits[i].payee], edits[i]) = edits[i].old
                                      /\ Shows(payees'[edits[i].payee], edits[i]) = edits[i].new
<1> DEFINE run == ApplyEdits(edits)
           n == Len(edits)
<1>1. /\ run.failed \in BOOLEAN
      /\ run.failed => run.rows = payees
      /\ ~run.failed => Leaves(edits, n, run.rows)
  BY EditsApplied DEF Table
<1>2. n \in Nat /\ DOMAIN edits = 1 .. n
  BY DEF EditsSound
<1> HIDE DEF run, n
<1>3. payees' = run.rows
  BY DEF run
<1>4. CASE run.failed
  <2>1. payees' = payees
    BY <1>1, <1>3, <1>4
  <2> QED BY <2>1, <1>4, SameTable DEF run
<1>5. CASE ~run.failed
  <2>1. Leaves(edits, n, payees')
    BY <1>1, <1>3, <1>5
  <2>2. payees' = [r \in DOMAIN payees |-> payees'[r]]
    BY <2>1 DEF Leaves
  <2>3. ASSUME NEW r \in DOMAIN payees
        PROVE  /\ IsRow(payees'[r])
               /\ payees[r].removed # 0 => payees'[r] = payees[r]
               /\ payees'[r].phone # payees[r].phone <=> payees'[r].version = payees[r].version + 1
               /\ payees'[r].version # payees[r].version => payees'[r].changed = now
    <3>1. /\ IsRow(payees'[r]) /\ IsRow(payees[r])
          /\ payees'[r].removed = payees[r].removed
          /\ payees'[r].added = payees[r].added /\ payees'[r].hold = payees[r].hold
          /\ IF Touches(edits, n, r, "phone")
             THEN payees'[r].version = payees[r].version + 1 /\ payees'[r].changed = now
             ELSE /\ payees'[r].phone = payees[r].phone
                  /\ payees'[r].version = payees[r].version
                  /\ payees'[r].changed = payees[r].changed
          /\ ~Touches(edits, n, r, "nickname") => payees'[r].nickname = payees[r].nickname
      BY <2>1 DEF Leaves, Table
    <3>2. \A j \in 1 .. n :
            /\ payees[edits[j].payee].removed = 0
            /\ Shows(payees[edits[j].payee], edits[j]) = edits[j].old
            /\ Shows(payees'[edits[j].payee], edits[j]) = edits[j].new
            /\ edits[j].old # edits[j].new
      BY <2>1, <1>2 DEF Leaves, EditsSound
    <3>3. payees[r].version \in Nat
      BY <3>1 DEF IsRow
    <3>4. Touches(edits, n, r, "phone") => payees'[r].phone # payees[r].phone
      BY <3>2 DEF Touches, Shows
    <3>5. payees[r].removed # 0 => ~Touches(edits, n, r, "phone") /\ ~Touches(edits, n, r, "nickname")
      BY <3>2 DEF Touches
    <3>6. payees[r].removed # 0 => payees'[r] = payees[r]
      BY <3>1, <3>5 DEF IsRow
    <3> QED BY <3>1, <3>3, <3>4, <3>6
  <2>4. Len(payees') = Len(payees) /\ DOMAIN payees' = DOMAIN payees
    <3> DEFINE values == {payees'[r] : r \in DOMAIN payees}
    <3>1. Len(payees) \in Nat /\ DOMAIN payees = 1 .. Len(payees)
      BY DEF Table
    <3>2. payees' \in [1 .. Len(payees) -> values]
      BY <2>2, <3>1
    <3> HIDE DEF values
    <3>3. payees' \in Seq(values)
      BY <3>1, <3>2
    <3> QED BY <3>1, <3>2, <3>3
  <2>5. Table'
    BY <2>2, <2>3, <2>4 DEF Table
  <2>6. TableStep
    BY <2>3, <2>4, <2>5 DEF TableStep, RemovedStaysPut, NumberHasVersion, AddedNumberIsNew
  <2>7. \A i \in DOMAIN edits : /\ Shows(payees[edits[i].payee], edits[i]) = edits[i].old
                                /\ Shows(payees'[edits[i].payee], edits[i]) = edits[i].new
    BY <1>2, <2>1 DEF Leaves
  <2> QED BY <1>5, <2>6, <2>7 DEF run
<1> QED BY <1>1, <1>4, <1>5

\* A new row is the last one, and its number no live row has.
LEMMA AddTable ==
  ASSUME Table, NEW payload, ~Taken(payload.phone), payees' = Append(payees, Added(payload))
  PROVE  TableStep
<1> DEFINE new == Added(payload)
           n == Len(payees)
           values == {payees[r] : r \in DOMAIN payees} \cup {new}
<1>1. n \in Nat /\ DOMAIN payees = 1 .. n
  BY DEF Table
<1>2. IsRow(new) /\ new.phone = payload.phone
  BY DEF Added, IsRow
<1> HIDE DEF new
<1>3. payees \in Seq(values) /\ new \in values
  <2>1. payees \in [1 .. n -> values]
    BY <1>1 DEF Table
  <2> QED BY <1>1, <2>1
<1>4. payees' = Append(payees, new)
  BY DEF new
<1> HIDE DEF values
<1>5. /\ Len(payees') = n + 1 /\ DOMAIN payees' = 1 .. n + 1
      /\ payees' = [r \in 1 .. n + 1 |-> payees'[r]]
      /\ payees'[n + 1] = new
      /\ \A r \in 1 .. n : payees'[r] = payees[r]
  <2>1. /\ payees' \in Seq(values) /\ Len(payees') = n + 1 /\ payees'[n + 1] = new
        /\ \A r \in 1 .. n : payees'[r] = payees[r]
    BY <1>3, <1>4, AppendProperties
  <2>2. payees' \in [1 .. Len(payees') -> values]
    BY <2>1, LenProperties
  <2> QED BY <2>1, <2>2
<1>6. /\ DOMAIN payees \subseteq DOMAIN payees'
      /\ \A r \in DOMAIN payees' : r \in DOMAIN payees \/ r = n + 1
      /\ \A r \in DOMAIN payees : payees'[r] = payees[r]
      /\ n + 1 \in Nat
  BY <1>1, <1>5
<1>7. Table'
  <2>1. \A r \in DOMAIN payees' : IsRow(payees'[r])
    BY <1>2, <1>5, <1>6 DEF Table
  <2> QED BY <1>5, <1>6, <2>1 DEF Table
<1>8. \A r \in DOMAIN payees : payees[r].version \in Nat
  BY DEF Table, IsRow
<1>9. RemovedStaysPut /\ NumberHasVersion
  BY <1>6, <1>8 DEF RemovedStaysPut, NumberHasVersion
<1>10. AddedNumberIsNew
  BY <1>2, <1>5, <1>6 DEF AddedNumberIsNew, Taken
<1> QED BY <1>6, <1>7, <1>9, <1>10 DEF TableStep

LEMMA RemoveTable ==
  ASSUME Table, NEW r \in DOMAIN payees, RemoveContact(r)
  PROVE  TableStep
<1> DEFINE row == payees[r]
           new == [row EXCEPT !.removed = now]
<1>1. payees' = [payees EXCEPT ![r] = new] /\ row.removed = 0
  BY DEF RemoveContact, Live
<1>2. IsRow(row)
  BY DEF Table
<1>3. IsRow(new) /\ new.phone = row.phone /\ new.version = row.version /\ row.version \in Nat
  BY <1>2 DEF IsRow
<1> HIDE DEF new
<1>4. /\ payees' = [q \in DOMAIN payees |-> IF q = r THEN new ELSE payees[q]]
      /\ DOMAIN payees' = DOMAIN payees
      /\ payees'[r] = new /\ \A q \in DOMAIN payees : q # r => payees'[q] = payees[q]
  BY <1>1
<1>5. Len(payees') = Len(payees) /\ payees' = [q \in 1 .. Len(payees') |-> payees'[q]]
  <2> DEFINE values == {payees'[q] : q \in DOMAIN payees}
  <2>1. Len(payees) \in Nat /\ DOMAIN payees = 1 .. Len(payees)
    BY DEF Table
  <2>2. payees' \in [1 .. Len(payees) -> values]
    BY <1>4, <2>1
  <2> HIDE DEF values
  <2>3. payees' \in Seq(values)
    BY <2>1, <2>2
  <2> QED BY <2>1, <2>2, <2>3
<1>6. Table'
  <2>1. \A q \in DOMAIN payees' : IsRow(payees'[q])
    BY <1>3, <1>4 DEF Table
  <2> QED BY <1>5, <2>1 DEF Table
<1>7. \A q \in DOMAIN payees : payees[q].version \in Nat
  BY DEF Table, IsRow
<1>8. NumberHasVersion
  BY <1>3, <1>4, <1>7 DEF NumberHasVersion
<1>9. RemovedStaysPut
  BY <1>1, <1>4 DEF RemovedStaysPut
<1> QED BY <1>4, <1>6, <1>8, <1>9 DEF TableStep, AddedNumberIsNew

\* What the executor does to a change: all of it, or nothing and FAILED.
Whole(c) ==
  callers[c].payload.kind = "contact_edit"
    => LET d == callers[c].draft
           edits == callers[c].payload.edits
       IN /\ executions[d] = "none" /\ executions'[d] = "UPDATED" =>
               \A i \in DOMAIN edits : /\ Shows(payees[edits[i].payee], edits[i]) = edits[i].old
                                       /\ Shows(payees'[edits[i].payee], edits[i]) = edits[i].new
          /\ executions'[d] = "FAILED" => payees' = payees

LEMMA ExecuteTable ==
  ASSUME IInv, Resolved, NEW c \in Callers, Execute(c)
  PROVE  TableStep /\ Whole(c) /\ \A m \in mandates' : TermsSound(m.terms)
<1> DEFINE d == callers[c].draft
           payload == callers[c].payload
           edits == payload.edits
<1>1. /\ callers[c].pc = "cleared" /\ d \in Drafts /\ now' = now
      /\ payload # NoPayload /\ PayloadSound(payload, DOMAIN payees)
      /\ executions \in [Drafts -> Results]
      /\ Table /\ \A m \in mandates : TermsSound(m.terms)
  BY ExecuteWrites DEF Execute, Resolved, IInv, Shapes
<1>2. CASE executions[d] # "none"
  <2>1. UNCHANGED <<payees, mandates, executions>>
    BY <1>2 DEF Execute, Refused, Claimable
  <2> QED BY <1>1, <1>2, <2>1, SameTable DEF Whole
<1>3. CASE executions[d] = "none" /\ payload.kind = "contact_edit"
  <2> DEFINE run == ApplyEdits(edits)
  <2>1. Edit(c, payload)
    BY <1>3 DEF Execute, Claimable
  <2>2. /\ payees' = run.rows /\ UNCHANGED mandates
        /\ executions' = [executions EXCEPT ![d] = IF run.failed THEN "FAILED" ELSE "UPDATED"]
    BY <2>1 DEF Edit, Records
  <2>3. EditsSound(edits, DOMAIN payees)
    BY <1>1, <1>3 DEF PayloadSound
  <2>4. run.failed \in BOOLEAN
    BY <1>1, <2>3, EditsApplied DEF Table
  <2>5. /\ TableStep
        /\ run.failed => payees' = payees
        /\ ~run.failed =>
             \A i \in DOMAIN edits : /\ Shows(payees[edits[i].payee], edits[i]) = edits[i].old
                                     /\ Shows(payees'[edits[i].payee], edits[i]) = edits[i].new
    BY <1>1, <2>2, <2>3, EditTable
  <2> HIDE DEF run
  <2>6. executions'[d] = IF run.failed THEN "FAILED" ELSE "UPDATED"
    BY <1>1, <2>2
  <2>7. Whole(c)
    BY <2>5, <2>6 DEF Whole
  <2> QED BY <1>1, <2>2, <2>5, <2>7
<1>4. CASE executions[d] = "none" /\ payload.kind = "contact_add"
  <2>1. Add(c, payload)
    BY <1>4 DEF Execute, Claimable
  <2>2. UNCHANGED mandates
    BY <2>1 DEF Add
  <2>3. TableStep
    BY <1>1, <2>1, AddTable, SameTable DEF Add
  <2> QED BY <1>1, <1>4, <2>2, <2>3 DEF Whole
<1>5. CASE executions[d] = "none" /\ payload.kind \notin {"contact_edit", "contact_add"}
  <2>1. Enroll(c, d, payload)
    BY <1>5 DEF Execute, Claimable
  <2>2. TermsSound(payload)
    BY <1>1, <1>5 DEF PayloadSound
  <2>3. payees' = payees
    BY <2>1 DEF Enroll, Refused
  <2>4. mandates' = mandates \/ mandates' = mandates \union {[draft |-> d, terms |-> payload]}
    BY <2>1 DEF Enroll, Refused
  <2>5. \A m \in mandates' : TermsSound(m.terms)
    BY <1>1, <2>2, <2>4
  <2> QED BY <1>1, <1>5, <2>3, <2>5, SameTable DEF Whole
<1> QED BY <1>2, <1>3, <1>4, <1>5

\* Init and every step keep the payloads resolved.
LEMMA InitResolved == Init => Resolved
<1> SUFFICES ASSUME Init PROVE Resolved
  OBVIOUS
<1>1. Table
  <2> DEFINE n == Len(Contacts)
  <2>1. Contacts \in Seq(Range(Contacts)) /\ \A r \in DOMAIN Contacts : IsRow(Contacts[r])
    BY RequestsAssumption DEF IsSequence
  <2>2. n \in Nat /\ Contacts \in [1 .. n -> Range(Contacts)]
    BY <2>1, LenProperties
  <2> QED BY <2>1, <2>2 DEF Init, Table
<1>2. \A d \in Drafts : /\ "request" \in DOMAIN drafts[d]
                        /\ drafts[d].request.kind # "contact_edit"
                        /\ drafts[d].payload = NoPayload
  BY DEF Init, NoDraft
<1>3. (\A c \in Callers : callers[c].pc = "idle") /\ mandates = {}
  BY Written DEF Init
<1> QED BY <1>1, <1>2, <1>3 DEF Resolved, PayloadSound

\* A step that moves no payload and forgets none.
LEMMA FramedResolved ==
  ASSUME Resolved, Table', DOMAIN payees \subseteq DOMAIN payees', UNCHANGED drafts,
         \A c \in Callers : \/ callers'[c].pc \notin {"burning", "cleared"}
                            \/ callers'[c] = callers[c],
         \A m \in mandates' : TermsSound(m.terms)
  PROVE  Resolved'
<1>1. \A payload : PayloadSound(payload, DOMAIN payees) => PayloadSound(payload, DOMAIN payees')
  BY GrownTable
<1> QED BY <1>1 DEF Resolved

LEMMA RunsResolved ==
  ASSUME Rest, Resolved, NEW d \in Drafts, NEW dr, Runs(d, dr),
         {"request", "status", "payload"} \subseteq DOMAIN dr,
         dr.request.kind = "contact_edit" => dr.request \in Requests,
         UNCHANGED <<payees, callers, mandates>>
  PROVE  Resolved'
<1>1. CASE dr.request.kind = "contact_edit"
  <2>1. Arrives(d, dr, EditOutcome(dr.request, dr.answers))
    BY <1>1 DEF Runs
  <2>2. PayloadSound(EditOutcome(dr.request, dr.answers).payload, DOMAIN payees)
    BY <1>1, EditResolved
  <2> QED BY <2>1, <2>2, ArrivesResolved
<1>2. CASE dr.request.kind # "contact_edit"
  <2>1. PICK ai \in AiReads : Arrives(d, dr, AddOutcome(dr.request, ai))
    BY <1>2 DEF Runs
  <2>2. PayloadSound(AddOutcome(dr.request, ai).payload, DOMAIN payees)
    BY AddResolved
  <2> QED BY <2>1, <2>2, ArrivesResolved
<1> QED BY <1>1, <1>2

LEMMA AskResolved == ASSUME Rest, Resolved, NEW d \in Drafts, Ask(d) PROVE Resolved'
<1>1. PICK request \in Requests :
        LET dr == [NoDraft EXCEPT !.request = request, !.created = now, !.status = "clarify",
                     !.answers = IF request.kind = "contact_edit"
                                 THEN [i \in DOMAIN request.edits |-> NoRow] ELSE <<>>]
        IN IF request.kind = "setup"
           THEN drafts' = [drafts EXCEPT ![d] = dr]
           ELSE Runs(d, dr)
  BY DEF Ask
<1>2. UNCHANGED <<payees, callers, mandates>>
  BY DEF Ask
<1> DEFINE answers == IF request.kind = "contact_edit"
                      THEN [i \in DOMAIN request.edits |-> NoRow] ELSE <<>>
           dr == [NoDraft EXCEPT !.request = request, !.created = now, !.status = "clarify",
                    !.answers = answers]
<1> HIDE DEF answers
<1>3. /\ dr.request = request /\ dr.payload = NoPayload
      /\ {"request", "status", "payload"} \subseteq DOMAIN dr
  BY DEF NoDraft
<1>4. drafts' = [drafts EXCEPT ![d] = dr] \/ Runs(d, dr)
  BY <1>1 DEF answers
<1> HIDE DEF dr
<1>5. CASE Runs(d, dr)
  BY <1>2, <1>3, <1>5, RunsResolved
<1>6. CASE drafts' = [drafts EXCEPT ![d] = dr]
  <2>1. PayloadSound(dr.payload, DOMAIN payees)
    BY <1>3 DEF PayloadSound
  <2>2. \A e \in Drafts :
          /\ "request" \in DOMAIN drafts'[e]
          /\ drafts'[e].request.kind = "contact_edit" => drafts'[e].request \in Requests
          /\ PayloadSound(drafts'[e].payload, DOMAIN payees)
    BY <1>3, <1>6, <2>1, DraftsResolved
  <2> QED BY <1>2, <2>2 DEF Resolved, Table
<1> QED BY <1>4, <1>5, <1>6

LEMMA AnswerResolved == ASSUME Rest, Resolved, NEW d \in Drafts, Answer(d) PROVE Resolved'
<1>1. UNCHANGED <<payees, callers, mandates>>
  BY DEF Answer
<1>2. \/ Runs(d, drafts[d])
      \/ \E i, r : Runs(d, [drafts[d] EXCEPT !.answers[i] = r])
  BY DEF Answer
<1>3. /\ {"request", "status", "payload"} \subseteq DOMAIN drafts[d]
      /\ drafts[d].request.kind = "contact_edit" => drafts[d].request \in Requests
  BY DEF Rest, DraftShape, Resolved
<1>4. \A i, r : /\ DOMAIN [drafts[d] EXCEPT !.answers[i] = r] = DOMAIN drafts[d]
                /\ [drafts[d] EXCEPT !.answers[i] = r].request = drafts[d].request
  BY <1>3
<1> QED BY <1>1, <1>2, <1>3, <1>4, RunsResolved

LEMMA SubmitResolved ==
  ASSUME IInv, Resolved, NEW c \in Callers, NEW d \in Drafts, Submit(c, d)
  PROVE  Resolved'
<1> DEFINE call == [pc |-> "burning", draft |-> d, payload |-> drafts[d].payload]
<1>1. /\ callers' = [callers EXCEPT ![c] = call] /\ drafts[d].payload # NoPayload
      /\ UNCHANGED <<payees, drafts, mandates>>
  BY DEF Submit
<1>2. call.payload = drafts[d].payload
  OBVIOUS
<1> HIDE DEF call
<1>3. callers' = [b \in Callers |-> IF b = c THEN call ELSE callers[b]]
  BY <1>1 DEF IInv, Shapes
<1>4. \A b \in Callers : callers'[b].pc \in {"burning", "cleared"} =>
        callers'[b].payload # NoPayload /\ PayloadSound(callers'[b].payload, DOMAIN payees)
  BY <1>1, <1>2, <1>3 DEF Resolved
<1> QED BY <1>1, <1>4 DEF Resolved, Table

LEMMA CheckResolved ==
  ASSUME IInv, Rest, Resolved, NEW c \in Callers, Check(c)
  PROVE  Resolved'
<1> DEFINE old == callers[c]
           d == old.draft
           call == IF Passes(d, old.payload) THEN [old EXCEPT !.pc = "cleared"] ELSE Idle
<1>1. /\ old.pc = "burning" /\ d \in Drafts
      /\ {"pc", "draft", "payload"} \subseteq DOMAIN old
      /\ callers' = [callers EXCEPT ![c] = call] /\ drafts' = Follows(d)
      /\ UNCHANGED <<payees, mandates>>
  BY DEF Check, IInv, Shapes, CallShape, Idle
<1>2. call = Idle \/ call.payload = old.payload
  BY <1>1
<1> HIDE DEF call
<1>3. callers' = [b \in Callers |-> IF b = c THEN call ELSE callers[b]]
  BY <1>1 DEF IInv, Shapes
<1>4. \A b \in Callers : callers'[b].pc \in {"burning", "cleared"} =>
        callers'[b].payload # NoPayload /\ PayloadSound(callers'[b].payload, DOMAIN payees)
  BY <1>1, <1>2, <1>3, Written DEF Resolved
<1>5. \A e \in Drafts :
        /\ "request" \in DOMAIN drafts'[e]
        /\ drafts'[e].request.kind = "contact_edit" => drafts'[e].request \in Requests
        /\ PayloadSound(drafts'[e].payload, DOMAIN payees)
  BY <1>1, ClosedResolved, DraftsResolved DEF Follows, Resolved
<1> QED BY <1>1, <1>4, <1>5 DEF Resolved, Table

LEMMA ExecuteResolved ==
  ASSUME IInv, Rest, Resolved, NEW c \in Callers, Execute(c)
  PROVE  Resolved'
<1> DEFINE d == callers[c].draft
<1>1. TableStep /\ \A m \in mandates' : TermsSound(m.terms)
  BY ExecuteTable
<1>2. d \in Drafts /\ callers' = [callers EXCEPT ![c] = Idle]
  BY ExecuteWrites
<1>3. \/ drafts' = drafts \/ drafts' = Follows(d)
      \/ drafts' = [drafts EXCEPT ![d] = Closed("executed")]
  BY DEF Execute, Edit, Add, Enroll, Refused, Records
<1>4. callers' = [b \in Callers |-> IF b = c THEN Idle ELSE callers[b]]
  BY <1>2 DEF IInv, Shapes
<1>5. \A e \in Drafts :
        /\ "request" \in DOMAIN drafts'[e]
        /\ drafts'[e].request.kind = "contact_edit" => drafts'[e].request \in Requests
        /\ PayloadSound(drafts'[e].payload, DOMAIN payees)
  BY <1>2, <1>3, ClosedResolved, DraftsResolved DEF Follows, Resolved
<1>6. \A payload : PayloadSound(payload, DOMAIN payees) => PayloadSound(payload, DOMAIN payees')
  BY <1>1, GrownTable DEF TableStep
<1>7. \A b \in Callers : callers'[b].pc \in {"burning", "cleared"} =>
        callers'[b].payload # NoPayload /\ PayloadSound(callers'[b].payload, DOMAIN payees)
  BY <1>4, Written DEF Resolved
<1> QED BY <1>1, <1>5, <1>6, <1>7 DEF Resolved, TableStep

LEMMA NextResolved == IInv /\ Rest /\ Resolved /\ [Next]_vars => Resolved'
<1> SUFFICES ASSUME IInv, Rest, Resolved, [Next]_vars PROVE Resolved'
  OBVIOUS
<1>1. ASSUME NEW d \in Drafts, Ask(d) \/ Answer(d) PROVE Resolved'
  BY <1>1, AskResolved, AnswerResolved
<1>2. ASSUME NEW d \in Drafts, SendForm(d) PROVE Resolved'
  <2>1. PICK form \in Forms : Arrives(d, drafts[d], FormOutcome(form))
    BY <1>2 DEF SendForm
  <2>2. UNCHANGED <<payees, callers, mandates>>
    BY <1>2 DEF SendForm
  <2>3. /\ {"request", "status", "payload"} \subseteq DOMAIN drafts[d]
        /\ drafts[d].request.kind = "contact_edit" => drafts[d].request \in Requests
    BY DEF Rest, DraftShape, Resolved
  <2>4. PayloadSound(FormOutcome(form).payload, DOMAIN payees)
    BY FormResolved
  <2> QED BY <2>1, <2>2, <2>3, <2>4, ArrivesResolved
<1>3. ASSUME NEW d \in Drafts, Decline(d) PROVE Resolved'
  <2>1. drafts' = [drafts EXCEPT ![d] = Closed("declined")] /\ UNCHANGED <<payees, callers, mandates>>
    BY <1>3 DEF Decline
  <2>2. \A e \in Drafts :
          /\ "request" \in DOMAIN drafts'[e]
          /\ drafts'[e].request.kind = "contact_edit" => drafts'[e].request \in Requests
          /\ PayloadSound(drafts'[e].payload, DOMAIN payees)
    BY <2>1, ClosedResolved, DraftsResolved
  <2> QED BY <2>1, <2>2 DEF Resolved, Table
<1>4. ASSUME NEW c \in Callers, NEW d \in Drafts, Submit(c, d) PROVE Resolved'
  BY <1>4, SubmitResolved
<1>5. ASSUME NEW c \in Callers, Check(c) \/ Execute(c) PROVE Resolved'
  BY <1>5, CheckResolved, ExecuteResolved
<1>6. ASSUME NEW c \in Callers, GuessEnds(c) \/ \E d \in Drafts : Guess(c, d) PROVE Resolved'
  <2>1. \A b \in Callers : callers'[b].pc \notin {"burning", "cleared"} \/ callers'[b] = callers[b]
    BY <1>6, Written DEF GuessEnds, Guess, IInv, Shapes
  <2>2. UNCHANGED <<payees, drafts, mandates>>
    BY <1>6 DEF GuessEnds, Guess
  <2> QED BY <2>1, <2>2, FramedResolved DEF Resolved, Table
<1>7. ASSUME NEW r \in DOMAIN payees, RemoveContact(r) PROVE Resolved'
  <2>1. TableStep
    BY <1>7, RemoveTable DEF Resolved
  <2>2. UNCHANGED <<drafts, callers, mandates>>
    BY <1>7 DEF RemoveContact
  <2> QED BY <2>1, <2>2, FramedResolved DEF TableStep, Resolved
<1>8. ASSUME UNCHANGED <<payees, drafts, callers, mandates>> PROVE Resolved'
  BY <1>8, FramedResolved DEF Resolved, Table
<1> QED
  BY <1>1, <1>2, <1>3, <1>4, <1>5, <1>6, <1>7, <1>8
  DEF Next, vars, IssueNonce, ChangeBiller, Tick

-----------------------------------------------------------------------------
\* The rows of payees over every order of edits, additions and removals
\* (executor.py:250-344; main.py:2267-2292): a removed row stays as it was, a
\* number changes exactly with its version, a new number is no live contact's.
THEOREM ContactsTheorem == Spec => ContactsSound
<1> DEFINE Sound == RemovedStaysPut /\ NumberHasVersion /\ AddedNumberIsNew
<1>1. IInv /\ Resolved /\ [Next]_vars => [Sound]_vars
  <2> SUFFICES ASSUME IInv, Resolved, Next PROVE TableStep
    BY DEF TableStep
  <2>1. ASSUME NEW c \in Callers, Execute(c) PROVE TableStep
    BY <2>1, ExecuteTable
  <2>2. ASSUME NEW r \in DOMAIN payees, RemoveContact(r) PROVE TableStep
    BY <2>2, RemoveTable DEF Resolved
  <2>3. ASSUME UNCHANGED payees PROVE TableStep
    BY <2>3, SameTable DEF Resolved
  <2> QED
    BY <2>1, <2>2, <2>3
    DEF Next, Ask, Answer, SendForm, Decline, IssueNonce, Guess, Submit, GuessEnds, Check,
        ChangeBiller, Tick
<1> QED
  BY InitIInv, NextIInv, InitRest, NextRest, InitResolved, NextResolved, <1>1, PTL
  DEF Spec, ContactsSound

\* "All edits or none", for changes of any length (executor.py:250-305).
THEOREM AllOrNoneTheorem == Spec => AllOrNone
<1> DEFINE All == \A c \in Callers :
                    /\ callers[c].pc = "cleared" /\ callers'[c] = Idle
                    /\ callers[c].payload.kind = "contact_edit"
                    => LET d == callers[c].draft
                           edits == callers[c].payload.edits
                       IN /\ executions[d] = "none" /\ executions'[d] = "UPDATED" =>
                               \A i \in DOMAIN edits :
                                 /\ Shows(payees[edits[i].payee], edits[i]) = edits[i].old
                                 /\ Shows(payees'[edits[i].payee], edits[i]) = edits[i].new
                          /\ executions'[d] = "FAILED" => payees' = payees
<1>1. IInv /\ Resolved /\ [Next]_vars => [All]_vars
  <2> SUFFICES ASSUME IInv, Resolved, Next,
                      NEW c \in Callers, callers[c].pc = "cleared", callers'[c] = Idle
               PROVE  Whole(c)
    BY DEF Whole
  <2>1. callers'[c] # callers[c]
    BY Written
  <2>a. ASSUME NEW b \in Callers,
               GuessEnds(b) \/ Check(b) \/ \E d \in Drafts : Guess(b, d) \/ Submit(b, d)
        PROVE  callers'[c] = callers[c]
    <3>1. callers[b].pc # "cleared" /\ \E call : callers' = [callers EXCEPT ![b] = call]
      BY <2>a, Written DEF GuessEnds, Check, Guess, Submit
    <3> QED BY <3>1 DEF IInv, Shapes
  <2>2. PICK b \in Callers : Execute(b)
    BY <2>1, <2>a
    DEF Next, Ask, Answer, SendForm, IssueNonce, Decline, RemoveContact, ChangeBiller, Tick
  <2>3. b = c
    BY <2>1, <2>2, ExecuteWrites DEF IInv, Shapes
  <2> QED BY <2>2, <2>3, ExecuteTable
<1> QED
  BY InitIInv, NextIInv, InitRest, NextRest, InitResolved, NextResolved, <1>1, PTL
  DEF Spec, AllOrNone

-----------------------------------------------------------------------------
\* The calendar.
LEMMA Division ==
  ASSUME NEW m \in Nat
  PROVE  /\ m \div 12 \in Nat /\ m % 12 \in 0 .. 11
         /\ m = 12 * (m \div 12) + (m % 12)
         /\ m % 12 < 11 => (m + 1) \div 12 = m \div 12 /\ (m + 1) % 12 = (m % 12) + 1
         /\ m % 12 = 11 => (m + 1) \div 12 = m \div 12 + 1 /\ (m + 1) % 12 = 0
<1> DEFINE q == m \div 12
           r == m % 12
<1>1. q \in Int /\ r \in 0 .. 11 /\ m = 12 * q + r
  OBVIOUS
<1>2. q \in Nat
  <2> HIDE DEF q, r
  <2> QED BY <1>1
<1>3. r < 11 => (m + 1) \div 12 = q /\ (m + 1) % 12 = r + 1
  <2>1. r < 11 => (m + 1) \div 12 = q
    OBVIOUS
  <2>2. r < 11 => (m + 1) % 12 = r + 1
    OBVIOUS
  <2> QED BY <2>1, <2>2
<1>4. r = 11 => (m + 1) \div 12 = q + 1 /\ (m + 1) % 12 = 0
  <2>1. r = 11 => (m + 1) \div 12 = q + 1
    OBVIOUS
  <2>2. r = 11 => (m + 1) % 12 = 0
    OBVIOUS
  <2> QED BY <2>1, <2>2
<1> QED BY <1>1, <1>2, <1>3, <1>4

LEMMA MonthLength ==
  ASSUME NEW m \in Nat
  PROVE  Cal!DaysIn(m) \in 28 .. 31
  BY Division DEF Cal!DaysIn

Leaps(y) == IF y = 0 THEN 0 ELSE 1 + ((y - 1) \div 4) - ((y - 1) \div 100) + ((y - 1) \div 400)
LEMMA LeapYears ==
  ASSUME NEW y \in Nat
  PROVE  Leaps(y) \in Int /\ Leaps(y + 1) = Leaps(y) + IF Cal!Leap(y) THEN 1 ELSE 0
<1>1. CASE y = 0
  BY <1>1 DEF Leaps, Cal!Leap
<1>2. CASE y # 0
  <2> DEFINE x == y - 1
  <2>1. x \in Nat /\ y = x + 1 /\ y + 1 # 0 /\ y + 1 - 1 = y
    BY <1>2
  <2>2. /\ x \div 4 \in Int /\ y \div 4 = x \div 4 + IF y % 4 = 0 THEN 1 ELSE 0
    BY <2>1
  <2>3. /\ x \div 100 \in Int /\ y \div 100 = x \div 100 + IF y % 100 = 0 THEN 1 ELSE 0
    BY <2>1
  <2>4. /\ x \div 400 \in Int /\ y \div 400 = x \div 400 + IF y % 400 = 0 THEN 1 ELSE 0
    BY <2>1
  <2>5. (y % 400 = 0 => y % 100 = 0) /\ (y % 100 = 0 => y % 4 = 0)
    OBVIOUS
  <2> QED BY <1>2, <2>1, <2>2, <2>3, <2>4, <2>5 DEF Leaps, Cal!Leap
<1> QED BY <1>1, <1>2

First(m) == Cal!DayNumber([month |-> m, day |-> 1])
Before_(k, leap) == Cal!Before[1 + k] + (IF leap /\ k > 1 THEN 1 ELSE 0)

FirstOf(year, place) == 365 * year + Leaps(year) + Before_(place, Cal!Leap(year))
LEMMA FirstIs ==
  ASSUME NEW m \in Nat
  PROVE  First(m) = FirstOf(m \div 12, m % 12) /\ First(m) \in Int
<1> DEFINE y == m \div 12
           k == m % 12
<1>1. k \in 0 .. 11 /\ y \in Nat
  BY Division
<1>2. Cal!Before[1 + k] \in Int /\ Leaps(y) \in Int
  BY <1>1, LeapYears DEF Cal!Before
<1>3. First(m) = 365 * y + Leaps(y) + Cal!Before[1 + k]
                   + (IF Cal!Leap(y) /\ k > 1 THEN 1 ELSE 0) + 1 - 1
  BY DEF Cal!DayNumber, Cal!Year, Leaps, First
<1> HIDE DEF y, k
<1>4. First(m) = FirstOf(y, k) /\ FirstOf(y, k) \in Int
  BY <1>1, <1>2, <1>3 DEF FirstOf, Before_
<1> QED BY <1>4 DEF y, k

\* The number of a day is that of the first of its month, and the days since.
LEMMA DayNumberIs ==
  ASSUME NEW d, d.month \in Nat, d.day \in Int
  PROVE  /\ First(d.month) \in Int
         /\ Cal!DayNumber(d) = First(d.month) + d.day - 1
<1> DEFINE y == Cal!Year(d.month)
           k == d.month % 12
           leaps == IF y = 0 THEN 0
                    ELSE 1 + ((y - 1) \div 4) - ((y - 1) \div 100) + ((y - 1) \div 400)
           before == 365 * y + leaps + Cal!Before[1 + k] + (IF Cal!Leap(y) /\ k > 1 THEN 1 ELSE 0)
<1>1. Cal!DayNumber(d) = before + d.day - 1 /\ First(d.month) = before + 1 - 1
  BY DEF Cal!DayNumber, First
<1>2. First(d.month) \in Int
  BY FirstIs
<1>3. before \in Int
  <2>1. k \in 0 .. 11 /\ y \in Nat
    BY Division DEF Cal!Year
  <2>2. Cal!Before[1 + k] \in Int /\ leaps \in Int
    BY <2>1, LeapYears DEF Cal!Before, Leaps
  <2> HIDE DEF y, k, leaps
  <2> QED BY <2>1, <2>2
<1> HIDE DEF before
<1> QED BY <1>1, <1>2, <1>3

\* Month after month.
LEMMA NextMonth ==
  ASSUME NEW m \in Nat
  PROVE  First(m + 1) = First(m) + Cal!DaysIn(m)
<1> DEFINE y == m \div 12
           k == m % 12
<1>1. k \in 0 .. 11 /\ y \in Nat
  BY Division
<1>2. First(m) = FirstOf(y, k) /\ First(m + 1) = FirstOf((m + 1) \div 12, (m + 1) % 12)
  BY FirstIs
<1>3. Leaps(y) \in Int /\ Leaps(y + 1) = Leaps(y) + IF Cal!Leap(y) THEN 1 ELSE 0
  BY <1>1, LeapYears
<1>4. Cal!DaysIn(m) = IF k = 1 THEN IF Cal!Leap(y) THEN 29 ELSE 28
                      ELSE IF k \in {3, 5, 8, 10} THEN 30 ELSE 31
  BY DEF Cal!DaysIn, Cal!Year
<1>5. CASE k < 11
  <2>1. (m + 1) \div 12 = y /\ (m + 1) % 12 = k + 1
    BY <1>5, Division
  <2>2. Before_(k + 1, Cal!Leap(y)) = Before_(k, Cal!Leap(y)) + Cal!DaysIn(m)
    <3> HIDE DEF y, k
    <3> QED BY <1>1, <1>4, <1>5 DEF Before_, Cal!Before
  <2>3. Before_(k, Cal!Leap(y)) \in Int /\ Cal!DaysIn(m) \in Int
    BY <1>1, MonthLength DEF Before_, Cal!Before
  <2> HIDE DEF y, k
  <2> QED BY <1>1, <1>2, <1>3, <2>1, <2>2, <2>3 DEF FirstOf
<1>6. CASE k = 11
  <2>1. (m + 1) \div 12 = y + 1 /\ (m + 1) % 12 = 0
    BY <1>6, Division
  <2>2. /\ Before_(0, Cal!Leap(y + 1)) = 0
        /\ Before_(11, Cal!Leap(y)) = 334 + IF Cal!Leap(y) THEN 1 ELSE 0
    BY DEF Before_, Cal!Before
  <2>3. Cal!DaysIn(m) = 31
    BY <1>4, <1>6
  <2> HIDE DEF y, k
  <2> QED BY <1>1, <1>2, <1>3, <1>6, <2>1, <2>2, <2>3 DEF FirstOf
<1> QED BY <1>1, <1>5, <1>6

\* A week later.
LEMMA WeekLater ==
  ASSUME NEW d, Cal!IsDate(d)
  PROVE  /\ Cal!IsDate(Cal!PlusDays(d, 7))
         /\ Cal!DayNumber(Cal!PlusDays(d, 7)) = Cal!DayNumber(d) + 7
<1> DEFINE e == Cal!PlusDays(d, 7)
           length == Cal!DaysIn(d.month)
<1>1. /\ d.month \in Nat /\ d.month + 1 \in Nat /\ d.day \in 1 .. length
      /\ length \in 28 .. 31 /\ Cal!DaysIn(d.month + 1) \in 28 .. 31
  BY MonthLength DEF Cal!IsDate
<1>2. /\ First(d.month) \in Int /\ First(d.month + 1) = First(d.month) + length
      /\ Cal!DayNumber(d) = First(d.month) + d.day - 1
  BY <1>1, NextMonth, DayNumberIs
<1>3. CASE d.day + 7 <= length
  <2>1. e.month = d.month /\ e.day = d.day + 7
    BY <1>3 DEF Cal!PlusDays
  <2> HIDE DEF e, length
  <2>2. Cal!DayNumber(e) = First(d.month) + (d.day + 7) - 1
    BY <1>1, <2>1, DayNumberIs
  <2>3. Cal!DayNumber(e) = Cal!DayNumber(d) + 7
    BY <1>1, <1>2, <2>2
  <2>4. Cal!IsDate(e)
    BY <1>1, <1>3, <2>1 DEF Cal!IsDate, length
  <2> QED BY <2>3, <2>4 DEF e
<1>4. CASE ~(d.day + 7 <= length)
  <2>1. e.month = d.month + 1 /\ e.day = d.day + 7 - length
    BY <1>4 DEF Cal!PlusDays
  <2> HIDE DEF e, length
  <2>2. e.day \in 1 .. Cal!DaysIn(d.month + 1)
    BY <1>1, <1>4, <2>1
  <2>3. Cal!DayNumber(e) = First(d.month + 1) + (d.day + 7 - length) - 1
    BY <1>1, <2>1, <2>2, DayNumberIs
  <2>4. Cal!DayNumber(e) = Cal!DayNumber(d) + 7
    BY <1>1, <1>2, <2>3
  <2>5. Cal!IsDate(e)
    BY <1>1, <2>1, <2>2 DEF Cal!IsDate
  <2> QED BY <2>4, <2>5 DEF e
<1> QED BY <1>3, <1>4

\* A week after the one before, however many there are.
Weekly(due, start, n) ==
  due = [i \in 1 .. n |-> IF i = 1 THEN start ELSE Cal!PlusDays(due[i - 1], 7)]

LEMMA WeeklyExists ==
  ASSUME NEW start, NEW n \in Nat
  PROVE  \E due : Weekly(due, start, n)
<1> DEFINE Found == {k \in Nat : \E due : Weekly(due, start, k)}
<1>1. 0 \in Found
  <2>1. Weekly([i \in 1 .. 0 |-> 0], start, 0)
    BY DEF Weekly
  <2> QED BY <2>1
<1>2. ASSUME NEW k \in Nat, k \in Found PROVE k + 1 \in Found
  <2>1. PICK g : Weekly(g, start, k)
    BY <1>2
  <2> DEFINE last == IF k = 0 THEN start ELSE Cal!PlusDays(g[k], 7)
             h == [i \in 1 .. k + 1 |-> IF i = k + 1 THEN last ELSE g[i]]
  <2>2. \A i \in 1 .. k : h[i] = g[i]
    OBVIOUS
  <2>3. h[k + 1] = last /\ h = [i \in 1 .. k + 1 |-> h[i]]
    OBVIOUS
  <2>4. \A i \in 1 .. k : g[i] = IF i = 1 THEN start ELSE Cal!PlusDays(g[i - 1], 7)
    BY <2>1 DEF Weekly
  <2> HIDE DEF h
  <2>5. ASSUME NEW i \in 1 .. k + 1
        PROVE  h[i] = IF i = 1 THEN start ELSE Cal!PlusDays(h[i - 1], 7)
    <3>1. CASE i = k + 1
      <4>1. CASE k = 0
        BY <2>3, <3>1, <4>1
      <4>2. CASE k # 0
        <5>1. i - 1 = k /\ k \in 1 .. k /\ i # 1
          BY <3>1, <4>2
        <5> QED BY <2>2, <2>3, <3>1, <4>2, <5>1
      <4> QED BY <4>1, <4>2
    <3>2. CASE i # k + 1
      <4>1. i \in 1 .. k /\ (i # 1 => i - 1 \in 1 .. k)
        BY <3>2
      <4> QED BY <2>2, <2>4, <4>1
    <3> QED BY <3>1, <3>2
  <2>6. h = [i \in 1 .. k + 1 |-> IF i = 1 THEN start ELSE Cal!PlusDays(h[i - 1], 7)]
    BY <2>3, <2>5
  <2>7. Weekly(h, start, k + 1)
    BY <2>6, Zenon DEF Weekly
  <2> QED BY <2>7
<1> HIDE DEF Found
<1>3. \A k \in Nat : k \in Found
  BY <1>1, <1>2, Induction
<1> QED BY <1>3 DEF Found

\* Where the i-th payment of a schedule falls, and how far it is from the next.
Falls(due, frequency, start, i) ==
  /\ Cal!IsDate(due[i])
  /\ frequency = "WEEKLY" => Cal!DayNumber(due[i]) = Cal!DayNumber(start) + 7 * (i - 1)
  /\ frequency # "WEEKLY" =>
       /\ due[i].month = start.month + i - 1
       /\ due[i].day = IF start.day > Cal!DaysIn(due[i].month)
                       THEN Cal!DaysIn(due[i].month) ELSE start.day

LEMMA WeeklyFalls ==
  ASSUME NEW start, Cal!IsDate(start), NEW n \in Nat
  PROVE  \A i \in 1 .. n : Falls(Cal!WeeklyFrom(start, n), "WEEKLY", start, i)
<1> DEFINE due[i \in 1 .. n] == IF i = 1 THEN start ELSE Cal!PlusDays(due[i - 1], 7)
<1>1. Cal!WeeklyFrom(start, n) = due
  BY Zenon DEF Cal!WeeklyFrom
<1>2. due = CHOOSE g : Weekly(g, start, n)
  BY DEF Weekly
<1> HIDE DEF due
<1>3. Weekly(due, start, n)
  BY <1>2, WeeklyExists
<1>4. \A i \in 1 .. n : due[i] = IF i = 1 THEN start ELSE Cal!PlusDays(due[i - 1], 7)
  BY <1>3 DEF Weekly
<1> DEFINE Good == {k \in Nat : k + 1 <= n => Falls(due, "WEEKLY", start, k + 1)}
<1>5. Cal!DayNumber(start) \in Int
  BY DayNumberIs, MonthLength DEF Cal!IsDate
<1>6. 0 \in Good
  <2> SUFFICES ASSUME 1 <= n PROVE Falls(due, "WEEKLY", start, 1)
    OBVIOUS
  <2>1. 1 \in 1 .. n
    OBVIOUS
  <2>2. due[1] = start
    BY <1>4, <2>1
  <2> QED BY <2>2, <1>5 DEF Falls
<1>7. ASSUME NEW k \in Nat, k \in Good PROVE k + 1 \in Good
  <2> SUFFICES ASSUME k + 1 + 1 <= n PROVE Falls(due, "WEEKLY", start, k + 1 + 1)
    OBVIOUS
  <2>1. k + 2 \in 1 .. n /\ k + 2 # 1 /\ (k + 2) - 1 = k + 1 /\ k + 1 + 1 = k + 2
    OBVIOUS
  <2>2. due[k + 2] = Cal!PlusDays(due[k + 1], 7)
    BY <1>4, <2>1
  <2>3. /\ Cal!IsDate(due[k + 1])
        /\ Cal!DayNumber(due[k + 1]) = Cal!DayNumber(start) + 7 * ((k + 1) - 1)
    BY <1>7 DEF Falls
  <2>4. /\ Cal!IsDate(due[k + 2])
        /\ Cal!DayNumber(due[k + 2]) = Cal!DayNumber(due[k + 1]) + 7
    BY <2>2, <2>3, WeekLater
  <2>5. Cal!DayNumber(due[k + 2]) = Cal!DayNumber(start) + 7 * ((k + 2) - 1)
    BY <1>5, <2>3, <2>4
  <2>6. Falls(due, "WEEKLY", start, k + 2)
    BY <2>4, <2>5 DEF Falls
  <2> QED BY <2>1, <2>6
<1> HIDE DEF Good
<1>8. \A k \in Nat : k \in Good
  BY <1>6, <1>7, Induction
<1>9. ASSUME NEW i \in 1 .. n PROVE Falls(due, "WEEKLY", start, i)
  <2>1. i - 1 \in Nat /\ i - 1 + 1 = i /\ i <= n
    OBVIOUS
  <2>2. i - 1 \in Good
    BY <1>8, <2>1
  <2>3. i - 1 + 1 <= n => Falls(due, "WEEKLY", start, i - 1 + 1)
    BY <2>2 DEF Good
  <2> QED BY <2>1, <2>3
<1> QED BY <1>1, <1>9

LEMMA DatesFall ==
  ASSUME NEW frequency, NEW start, Cal!IsDate(start), NEW n \in Nat
  PROVE  \A i \in 1 .. n : Falls(Cal!OccurrenceDates(frequency, start, n), frequency, start, i)
<1>1. CASE frequency = "WEEKLY"
  BY <1>1, WeeklyFalls DEF Cal!OccurrenceDates
<1>2. CASE frequency # "WEEKLY"
  <2> SUFFICES ASSUME NEW i \in 1 .. n
               PROVE  Falls(Cal!OccurrenceDates(frequency, start, n), frequency, start, i)
    OBVIOUS
  <2> DEFINE due == Cal!OccurrenceDates(frequency, start, n)
             month == start.month + (i - 1)
  <2>1. due[i] = Cal!Clamped(month, start.day)
    BY <1>2 DEF Cal!OccurrenceDates, Cal!MonthAdd
  <2>2. /\ due[i].month = month
        /\ due[i].day = IF start.day > Cal!DaysIn(month) THEN Cal!DaysIn(month) ELSE start.day
    BY <2>1 DEF Cal!Clamped
  <2>3. start.month \in Nat /\ start.day \in 1 .. Cal!DaysIn(start.month)
    BY DEF Cal!IsDate
  <2>4. Cal!DaysIn(start.month) \in 28 .. 31
    BY <2>3, MonthLength
  <2>5. month \in Nat /\ month = start.month + i - 1
    BY <2>3
  <2>6. Cal!DaysIn(month) \in 28 .. 31
    BY <2>5, MonthLength
  <2> HIDE DEF due, month
  <2>7. Cal!IsDate(due[i])
    BY <2>2, <2>3, <2>4, <2>5, <2>6 DEF Cal!IsDate
  <2>8. Falls(due, frequency, start, i)
    BY <1>2, <2>2, <2>5, <2>7 DEF Falls
  <2> QED BY <2>8 DEF due
<1> QED BY <1>1, <1>2

\* Two payments of a schedule are a week apart or more.
LEMMA WeekBetween ==
  ASSUME NEW frequency, NEW start, Cal!IsDate(start), NEW due, NEW i \in Nat, i > 1,
         Falls(due, frequency, start, i - 1), Falls(due, frequency, start, i)
  PROVE  /\ Cal!DayNumber(due[i - 1]) \in Int /\ Cal!DayNumber(due[i]) \in Int
         /\ Cal!DayNumber(due[i]) >= Cal!DayNumber(due[i - 1]) + 7
<1> DEFINE a == due[i - 1]
           b == due[i]
<1>1. /\ a.month \in Nat /\ a.day \in 1 .. Cal!DaysIn(a.month)
      /\ b.month \in Nat /\ b.day \in 1 .. Cal!DaysIn(b.month)
      /\ start.month \in Nat /\ start.day \in 1 .. Cal!DaysIn(start.month)
  BY DEF Falls, Cal!IsDate
<1>2. /\ Cal!DaysIn(a.month) \in 28 .. 31 /\ Cal!DaysIn(b.month) \in 28 .. 31
      /\ Cal!DaysIn(start.month) \in 28 .. 31
  BY <1>1, MonthLength
<1>3. /\ First(a.month) \in Int /\ First(b.month) \in Int
      /\ Cal!DayNumber(a) = First(a.month) + a.day - 1
      /\ Cal!DayNumber(b) = First(b.month) + b.day - 1
  BY <1>1, <1>2, DayNumberIs
<1>4. Cal!DayNumber(a) \in Int /\ Cal!DayNumber(b) \in Int
  <2> HIDE DEF a, b
  <2> QED BY <1>1, <1>2, <1>3
<1>5. CASE frequency = "WEEKLY"
  <2>1. Cal!DayNumber(start) \in Int
    BY <1>1, <1>2, DayNumberIs
  <2>2. /\ Cal!DayNumber(a) = Cal!DayNumber(start) + 7 * ((i - 1) - 1)
        /\ Cal!DayNumber(b) = Cal!DayNumber(start) + 7 * (i - 1)
    BY <1>5 DEF Falls
  <2> HIDE DEF a, b
  <2>3. Cal!DayNumber(b) >= Cal!DayNumber(a) + 7
    BY <2>1, <2>2
  <2> QED BY <1>4, <2>3 DEF a, b
<1>6. CASE frequency # "WEEKLY"
  <2>1. /\ a.month = start.month + (i - 1) - 1 /\ b.month = start.month + i - 1
        /\ a.day = IF start.day > Cal!DaysIn(a.month) THEN Cal!DaysIn(a.month) ELSE start.day
        /\ b.day = IF start.day > Cal!DaysIn(b.month) THEN Cal!DaysIn(b.month) ELSE start.day
    BY <1>6 DEF Falls
  <2>2. b.month = a.month + 1
    BY <1>1, <2>1
  <2>3. First(b.month) = First(a.month) + Cal!DaysIn(a.month)
    BY <1>1, <2>2, NextMonth
  <2> HIDE DEF a, b
  <2>4. Cal!DayNumber(b) >= Cal!DayNumber(a) + 7
    BY <1>1, <1>2, <1>3, <2>1, <2>3
  <2> QED BY <1>4, <2>4 DEF a, b
<1> QED BY <1>5, <1>6

\* The review of a payment is over before the next is due.
LEMMA ReviewedInTime ==
  ASSUME NEW a, NEW b, Cal!DayNumber(a) \in Int, Cal!DayNumber(b) \in Int,
         Cal!DayNumber(b) >= Cal!DayNumber(a) + 7
  PROVE  Cal!ReviewUntil(a) < Cal!DueAt(b)
<1> DEFINE x == Cal!DayNumber(a)
           y == Cal!DayNumber(b)
<1>1. /\ Cal!ReviewUntil(a) = (x - 719528 + 1) * 86400 - 1 - UtcOffset + 3 * 86400
      /\ Cal!DueAt(b) = (y - 719528) * 86400 + 9 * 3600 - UtcOffset
  BY DEF Cal!ReviewUntil, Cal!DayEnd, Cal!UnixDay, Cal!Day, Cal!ReviewDays, Cal!DueAt
<1>2. UtcOffset \in Int
  BY RequestsAssumption
<1> HIDE DEF x, y
<1> QED BY <1>1, <1>2 DEF x, y

\* The least of some numbers.
LEMMA LeastOf ==
  ASSUME NEW n \in Nat, NEW S \in SUBSET (1 .. n), S # {}
  PROVE  \E k \in S : \A j \in 1 .. k - 1 : j \notin S
<1> DEFINE Good == {m \in Nat : \A j \in 1 .. m : j \notin S}
<1> SUFFICES ASSUME \A k \in S : \E j \in 1 .. k - 1 : j \in S PROVE FALSE
  OBVIOUS
<1>1. 0 \in Good
  OBVIOUS
<1>2. ASSUME NEW m \in Nat, m \in Good PROVE m + 1 \in Good
  <2> SUFFICES ASSUME NEW j \in 1 .. m + 1, j \in S PROVE FALSE
    OBVIOUS
  <2>1. \A i \in 1 .. m : i \notin S
    BY <1>2
  <2>2. PICK i \in 1 .. j - 1 : i \in S
    OBVIOUS
  <2>3. i \in 1 .. m
    OBVIOUS
  <2> QED BY <2>1, <2>2, <2>3
<1> HIDE DEF Good
<1>3. \A m \in Nat : m \in Good
  BY <1>1, <1>2, Induction
<1>4. \A j \in 1 .. n : j \notin S
  BY <1>3 DEF Good
<1> QED BY <1>4

\* Counted up to an end, none of the payments is after it.
LEMMA CountedUntil ==
  ASSUME NEW frequency, NEW start, NEW end, Cal!IsDate(start), Cal!IsDate(end),
         NEW limit \in Nat,
         Cal!CountUntil(frequency, start, end, limit) \in 1 .. limit
  PROVE  LET n == Cal!CountUntil(frequency, start, end, limit)
             due == Cal!OccurrenceDates(frequency, start, limit + 1)
         IN \A k \in 1 .. n : ~(Cal!DayNumber(due[k]) > Cal!DayNumber(end))
<1> DEFINE due == Cal!OccurrenceDates(frequency, start, limit + 1)
           After(n) == Cal!DayNumber(due[n]) > Cal!DayNumber(end)
           count == Cal!CountUntil(frequency, start, end, limit)
           late == {n \in 1 .. limit + 1 : After(n)}
<1>1. count = IF \E n \in 1 .. limit + 1 : After(n)
              THEN CHOOSE n \in 0 .. limit : After(n + 1) /\ \A k \in 1 .. n : ~After(k)
              ELSE limit + 1
  BY DEF Cal!CountUntil
<1> HIDE DEF After, count
<1>2. late # {}
  BY <1>1 DEF count
<1>3. PICK m \in late : \A j \in 1 .. m - 1 : j \notin late
  <2>1. limit + 1 \in Nat /\ late \in SUBSET (1 .. limit + 1)
    OBVIOUS
  <2> HIDE DEF late
  <2> QED BY <1>2, <2>1, LeastOf
<1>4. /\ m - 1 \in 0 .. limit /\ After((m - 1) + 1)
      /\ \A k \in 1 .. m - 1 : ~After(k)
  <2>1. m \in 1 .. limit + 1 /\ After(m)
    OBVIOUS
  <2>2. m - 1 \in 0 .. limit /\ (m - 1) + 1 = m
    BY <2>1
  <2>3. ASSUME NEW k \in 1 .. m - 1 PROVE ~After(k)
    <3>1. k \in 1 .. limit + 1 /\ k \notin late
      BY <1>3, <2>1
    <3> QED BY <3>1
  <2> QED BY <2>1, <2>2, <2>3
<1>5. \A k \in 1 .. count : ~After(k)
  <2>1. \E n \in 0 .. limit : After(n + 1) /\ \A k \in 1 .. n : ~After(k)
    BY <1>4
  <2>2. count = CHOOSE n \in 0 .. limit : After(n + 1) /\ \A k \in 1 .. n : ~After(k)
    BY <1>1, <1>2
  <2> QED BY <2>1, <2>2
<1> QED BY <1>5 DEF After, count

LEMMA DateNumber == ASSUME NEW d, Cal!IsDate(d) PROVE Cal!DayNumber(d) \in Int
<1>1. d.month \in Nat /\ d.day \in Int
  BY MonthLength DEF Cal!IsDate
<1>2. First(d.month) \in Int /\ Cal!DayNumber(d) = First(d.month) + d.day - 1
  BY <1>1, DayNumberIs
<1> QED BY <1>1, <1>2

LEMMA SameFall ==
  ASSUME NEW frequency, NEW start, NEW i \in Nat, NEW due, NEW other,
         Falls(due, frequency, start, i), Falls(other, frequency, start, i)
  PROVE  Cal!DayNumber(due[i]) = Cal!DayNumber(other[i])
<1>1. CASE frequency = "WEEKLY"
  BY <1>1 DEF Falls
<1>2. CASE frequency # "WEEKLY"
  <2>1. /\ due[i].month = other[i].month /\ due[i].day = other[i].day
        /\ due[i].month \in Nat /\ due[i].day \in 1 .. Cal!DaysIn(due[i].month)
    BY <1>2 DEF Falls, Cal!IsDate
  <2>2. due[i].day \in Int
    BY <2>1, MonthLength
  <2> QED BY <2>1, <2>2, DayNumberIs
<1> QED BY <1>1, <1>2

\* How many payments a form asks for.
LEMMA OccurrencesAre ==
  ASSUME NEW form \in Forms, Occurrences(form) # 0
  PROVE  LET n == Occurrences(form)
             last == Cal!OccurrenceDates(form.frequency, form.start, MaxOccurrences + 1)
         IN /\ n \in 1 .. MaxOccurrences
            /\ form.gives = {"end"} =>
                 \A k \in 1 .. n : ~(Cal!DayNumber(last[k]) > Cal!DayNumber(form.end))
<1> DEFINE until == Cal!CountUntil(form.frequency, form.start, form.end, MaxOccurrences)
           counted == CASE form.gives = {"count"} -> form.count
                        [] form.gives = {"end"} -> until
                        [] OTHER -> 0
           m == IF counted \in 1 .. MaxOccurrences THEN counted ELSE 0
           due == Cal!OccurrenceDates(form.frequency, form.start, m)
           long == m # 0 /\ Cal!DayNumber(due[m]) - Cal!DayNumber(due[1]) > MaxSpanDays
<1>1. Occurrences(form) = IF long THEN 0 ELSE m
  BY Zenon DEF Occurrences
<1> HIDE DEF long
<1>2. m # 0 /\ Occurrences(form) = m
  BY <1>1
<1>3. m = counted /\ counted \in 1 .. MaxOccurrences
  BY <1>2
<1>4. form.gives = {"end"} => counted = until
  <2> HIDE DEF until
  <2>1. MaxOccurrences = 60
    BY DEF MaxOccurrences
  <2>2. counted # 0
    BY <1>2, <1>3
  <2> QED BY <2>2
<1> HIDE DEF m, counted
<1>5. Cal!IsDate(form.start) /\ Cal!IsDate(form.end) /\ MaxOccurrences \in Nat
  BY RequestsAssumption DEF MaxOccurrences
<1> QED BY <1>2, <1>3, <1>4, <1>5, CountedUntil

\* Every arrangement in the books was signed over such terms.
LEMMA TermsFollowStart == ASSUME Resolved PROVE DatesFollowStart
<1> SUFFICES ASSUME NEW m \in mandates
             PROVE  LET form == m.terms.form
                        due  == Cal!OccurrenceDates(form.frequency, form.start, m.terms.count)
                    IN /\ \A i \in 1 .. m.terms.count :
                            /\ Cal!IsDate(due[i])
                            /\ form.frequency = "MONTHLY" =>
                                 /\ due[i].month = form.start.month + i - 1
                                 /\ due[i].day # form.start.day =>
                                      due[i].day = Cal!DaysIn(due[i].month) /\ due[i].day < form.start.day
                            /\ form.frequency = "WEEKLY" =>
                                 Cal!DayNumber(due[i]) = Cal!DayNumber(form.start) + 7 * (i - 1)
                            /\ i > 1 => Cal!ReviewUntil(due[i - 1]) < Cal!DueAt(due[i])
                            /\ form.gives = {"end"} => Cal!DayNumber(due[i]) <= Cal!DayNumber(form.end)
                       /\ Cal!ReviewUntil(due[m.terms.count]) = m.terms.until
  BY DEF DatesFollowStart
<1> DEFINE form == m.terms.form
           n == m.terms.count
           due == Cal!OccurrenceDates(form.frequency, form.start, n)
           last == Cal!OccurrenceDates(form.frequency, form.start, MaxOccurrences + 1)
<1>1. /\ form \in Forms /\ n = Occurrences(form) /\ n # 0
      /\ m.terms.until = Cal!ReviewUntil(due[n])
  BY DEF Resolved, TermsSound
<1>2. /\ n \in 1 .. MaxOccurrences
      /\ form.gives = {"end"} =>
           \A k \in 1 .. n : ~(Cal!DayNumber(last[k]) > Cal!DayNumber(form.end))
  BY <1>1, OccurrencesAre
<1>3. Cal!IsDate(form.start) /\ Cal!IsDate(form.end)
  BY <1>1, RequestsAssumption
<1>4. n \in Nat /\ n <= MaxOccurrences /\ MaxOccurrences + 1 \in Nat /\ MaxOccurrences = 60
  BY <1>2 DEF MaxOccurrences
<1>5. /\ \A i \in 1 .. n : Falls(due, form.frequency, form.start, i)
      /\ \A i \in 1 .. MaxOccurrences + 1 : Falls(last, form.frequency, form.start, i)
  BY <1>3, <1>4, DatesFall
<1> HIDE DEF due, last, n
<1>6. ASSUME NEW i \in 1 .. n
      PROVE  /\ Cal!IsDate(due[i])
             /\ form.frequency = "MONTHLY" =>
                  /\ due[i].month = form.start.month + i - 1
                  /\ due[i].day # form.start.day =>
                       due[i].day = Cal!DaysIn(due[i].month) /\ due[i].day < form.start.day
             /\ form.frequency = "WEEKLY" =>
                  Cal!DayNumber(due[i]) = Cal!DayNumber(form.start) + 7 * (i - 1)
             /\ i > 1 => Cal!ReviewUntil(due[i - 1]) < Cal!DueAt(due[i])
             /\ form.gives = {"end"} => Cal!DayNumber(due[i]) <= Cal!DayNumber(form.end)
  <2>0. i \in 1 .. MaxOccurrences + 1
    BY <1>4
  <2>1. Falls(due, form.frequency, form.start, i) /\ Falls(last, form.frequency, form.start, i)
    BY <1>5, <2>0
  <2>2. form.frequency = "MONTHLY" =>
          /\ due[i].month = form.start.month + i - 1
          /\ due[i].day # form.start.day =>
               due[i].day = Cal!DaysIn(due[i].month) /\ due[i].day < form.start.day
    <3>1. Cal!DaysIn(due[i].month) \in 28 .. 31 /\ form.start.day \in Int
      BY <1>3, <2>1, MonthLength DEF Falls, Cal!IsDate
    <3> QED BY <2>1, <1>3, <3>1 DEF Falls, Cal!IsDate
  <2>3. i > 1 => Cal!ReviewUntil(due[i - 1]) < Cal!DueAt(due[i])
    <3> SUFFICES ASSUME i > 1 PROVE Cal!ReviewUntil(due[i - 1]) < Cal!DueAt(due[i])
      OBVIOUS
    <3>1. i \in Nat /\ i - 1 \in 1 .. n
      BY <1>4
    <3>2. Falls(due, form.frequency, form.start, i - 1)
      BY <1>5, <3>1
    <3> QED BY <1>3, <2>1, <3>1, <3>2, WeekBetween, ReviewedInTime
  <2>4. Cal!DayNumber(due[i]) = Cal!DayNumber(last[i])
    BY <1>4, <2>1, SameFall
  <2>5. Cal!DayNumber(last[i]) \in Int /\ Cal!DayNumber(form.end) \in Int
    <3>1. Cal!IsDate(last[i])
      BY <2>1 DEF Falls
    <3> QED BY <1>3, <3>1, DateNumber
  <2>6. form.gives = {"end"} => Cal!DayNumber(due[i]) <= Cal!DayNumber(form.end)
    <3>1. form.gives = {"end"} => ~(Cal!DayNumber(last[i]) > Cal!DayNumber(form.end))
      BY <1>2 DEF n
    <3> QED BY <2>4, <2>5, <3>1
  <2> QED BY <2>1, <2>2, <2>3, <2>6 DEF Falls
<1> QED BY <1>1, <1>6 DEF n, due

\* "The day of the month they start on; shorter months use their last day"
\* (recurring/schedule.py): every arrangement ever written falls due so.
THEOREM DatesTheorem == Spec => []DatesFollowStart
  BY InitIInv, NextIInv, InitRest, NextRest, InitResolved, NextResolved, TermsFollowStart, PTL
  DEF Spec
=============================================================================
