----------------------------- MODULE TurnsProofs -----------------------------
(***************************************************************************)
(* Proofs about Turns, for any utterances, plans of theirs, contacts,      *)
(* accounts, answers and threads: its types, that a card that can be       *)
(* signed runs to its end on the ledger it was resolved on, that the       *)
(* validator's arithmetic is the resolver's, that a question does not      *)
(* come back with its answer among its choices; and that a signable card   *)
(* pays what was said, an amount said two ways is answered and a right     *)
(* plan is not frozen, of any utterances whose words, on a ledger that     *)
(* stands still, allow no other reading (the conditions of Utterances).    *)
(* What the words of a sentence come to is never opened.                   *)
(***************************************************************************)
EXTENDS Utterances, SumTheorems, SequenceTheorems, TLAPS

Rows_     == DOMAIN Contacts \cup DOMAIN Billers \cup DOMAIN Equities \cup DOMAIN Accounts
Ledgers   == [DOMAIN Accounts -> Int]
Resolved_ == {leg \in [kind : {"TRANSFER", "PAY_BILL", "BUY_EQUITY", "OWN_TRANSFER"},
                       source : DOMAIN Accounts, target : Rows_, amount : Int, shares : Int] :
                /\ leg.kind = "OWN_TRANSFER" => leg.target \in DOMAIN Accounts
                /\ leg.kind = "BUY_EQUITY" => leg.target \in DOMAIN Equities}

\* A question is about a field of the leg, and what was answered for it is not
\* among its choices.
Question_(q) == q = [field |-> q.field, kind |-> q.kind, choices |-> q.choices, unknown |-> q.unknown]
Fresh(question, answers) ==
  /\ Question_(question)
  /\ question.field \in Fields \cup {NoField}
  /\ answers[question.field] \notin question.choices \/ question.choices = {}

\* The simulation of a plan after some of its legs.
SoundSim(sim, n) ==
  /\ sim = [legs |-> sim.legs, balances |-> sim.balances, asks |-> sim.asks]
  /\ sim.legs \in Seq(Resolved_) /\ Len(sim.legs) = n
  /\ sim.balances \in Ledgers

-----------------------------------------------------------------------------
\* What is picked for a mention is a row of those that it matched, or if it matched
\* none the one answered for it; a question leaves out what was answered, and offers
\* rows that were matched, unless it says that the mention is nobody's.
PickedWell(p, rows, all, mention, field, answer) ==
  /\ p.asks = NoQuestion =>
       p.row \in rows \/ (rows = {} /\ p.row \in all /\ answer.row = p.row)
  /\ p.asks # NoQuestion =>
       /\ Question_(p.asks) /\ p.asks.field = field /\ answer \notin p.asks.choices
       /\ p.asks.unknown = mention \/ \A choice \in p.asks.choices : choice.row \in rows

LEMMA PickIs ==
  ASSUME NEW rows, NEW all, NEW mention, NEW kind, kind # NoQuestion.kind, NEW field, NEW answer
  PROVE  PickedWell(Pick(rows, all, mention, kind, field, answer), rows, all, mention, field, answer)
<1> DEFINE p == Pick(rows, all, mention, kind, field, answer)
           candidates == IF rows = {} THEN all ELSE rows
<1>1. CASE Cardinality(rows) = 1
  <2>1. rows # {}
    BY <1>1, FS_EmptySet
  <2>2. p = [row |-> CHOOSE r \in rows : TRUE, asks |-> NoQuestion]
    BY <1>1 DEF Pick
  <2> QED BY <2>1, <2>2 DEF PickedWell
<1>2. CASE Cardinality(rows) # 1 /\ answer.row \in candidates
  <2>1. p = [row |-> answer.row, asks |-> NoQuestion]
    BY <1>2 DEF Pick
  <2> QED BY <1>2, <2>1 DEF PickedWell
<1>3. CASE Cardinality(rows) # 1 /\ answer.row \notin candidates
  <2> DEFINE choices == {Choice(r) : r \in candidates}
             unknown == IF rows = {} THEN mention ELSE <<>>
  <2>1. p = [row |-> NoRow,
             asks |-> [field |-> field, kind |-> kind, choices |-> choices, unknown |-> unknown]]
    BY <1>3 DEF Pick, Clarify
  <2>2. /\ p.asks.field = field /\ p.asks.kind = kind /\ p.asks.choices = choices
        /\ p.asks.unknown = unknown /\ Question_(p.asks)
    <3> HIDE DEF choices, unknown, p
    <3> QED BY <2>1 DEF Question_
  <2>3. p.asks # NoQuestion
    BY <2>2 DEF NoQuestion
  <2>4. answer \notin choices
    BY <1>3 DEF Choice
  <2>5. unknown = mention \/ \A choice \in choices : choice.row \in rows
    BY DEF Choice
  <2> HIDE DEF choices, unknown, p
  <2> QED BY <2>2, <2>3, <2>4, <2>5 DEF PickedWell, p
<1> QED BY <1>1, <1>2, <1>3

LEMMA FieldIs ==
  ASSUME NEW i \in 1 .. MaxLegs, NEW what \in {"source_account", "target", "ticker", "amount"}
  PROVE  Field(i, what) \in Fields
BY DEF Fields

LEMMA AccountsAre == \A mention : AccountsCalled(mention) \subseteq DOMAIN Accounts
BY DEF AccountsCalled

LEMMA PayeesAre == \A live_, mention : PayeesCalled(live_, mention) \subseteq live_
BY DEF PayeesCalled, Nicknamed, Legally

\* A leg of a plan, and where it stands in it.
PlanLeg(leg, i) ==
  /\ Leg_(leg)
  /\ leg.amount.form = "shares" => leg.kind = "BUY_EQUITY"
  /\ leg.amount.form = "symbolic" => leg.amount.after \in 1 .. i - 1

\* Where a leg is paid from: what is called its source, or where the leg that it
\* refers to left the money.
From(before, leg, row) ==
  IF leg.amount.form = "symbolic" THEN row = SpentFrom(before[leg.amount.after])
  ELSE row \in SourcesCalled(leg.source) \/ SourcesCalled(leg.source) = {}

\* A question about a leg: of its payee, one of the rows that its mention calls
\* unless it is nobody's.
Guided(q, i, leg) ==
  \/ q.field \in {Field(i, "source_account"), Field(i, "amount")}
  \/ /\ q.field = TargetField(i, leg.kind)
     /\ q.unknown = leg.target \/ \A choice \in q.choices : choice.row \in EverCalled(leg)

LEMMA SourcesAre == \A mention : SourcesCalled(mention) \subseteq DOMAIN Accounts
BY AccountsAre DEF SourcesCalled

LEMMA SourceIs ==
  ASSUME NEW i \in 1 .. MaxLegs, NEW sim, SoundSim(sim, i - 1), NEW leg, PlanLeg(leg, i), NEW answers
  PROVE  LET s == SourceAccount(sim, i, leg, answers)
         IN /\ s.asks = NoQuestion => s.row \in DOMAIN Accounts /\ From(sim.legs, leg, s.row)
            /\ s.asks # NoQuestion => Fresh(s.asks, answers) /\ Guided(s.asks, i, leg)
<1> DEFINE s == SourceAccount(sim, i, leg, answers)
           ref == sim.legs[leg.amount.after]
<1>1. CASE leg.amount.form = "symbolic"
  <2>1. leg.amount.after \in 1 .. Len(sim.legs)
    BY <1>1 DEF PlanLeg, SoundSim
  <2>2. ref \in Resolved_
    BY <2>1 DEF SoundSim
  <2>3. s = Found(SpentFrom(ref))
    BY <1>1, Zenon DEF SourceAccount
  <2>4. s.row = SpentFrom(ref) /\ s.asks = NoQuestion
    BY <2>3 DEF Found
  <2> HIDE DEF s
  <2>5. SpentFrom(ref) \in DOMAIN Accounts
    <3> HIDE DEF ref
    <3> QED BY <2>2 DEF Resolved_, SpentFrom
  <2> QED BY <1>1, <2>4, <2>5 DEF From, s
<1>2. CASE leg.amount.form # "symbolic"
  <2> DEFINE field == Field(i, "source_account")
             rows == SourcesCalled(leg.source)
  <2>1. s = Pick(rows, DOMAIN Accounts, leg.source, "account", field, answers[field])
    BY <1>2, Zenon DEF SourceAccount
  <2>2. rows \subseteq DOMAIN Accounts
    BY SourcesAre
  <2>3. field \in Fields
    BY FieldIs
  <2>4. \A q : q.field = field => Guided(q, i, leg)
    BY DEF Guided
  <2>5. \A row : row \in rows \/ rows = {} => From(sim.legs, leg, row)
    BY <1>2 DEF From
  <2>6. "account" # NoQuestion.kind
    BY DEF NoQuestion
  <2> HIDE DEF rows, field
  <2>7. PickedWell(s, rows, DOMAIN Accounts, leg.source, field, answers[field])
    BY <2>1, <2>6, PickIs
  <2> HIDE DEF s
  <2> QED BY <2>2, <2>3, <2>4, <2>5, <2>7 DEF PickedWell, Fresh, s
<1> QED BY <1>1, <1>2

LEMMA OwnIs ==
  \A live_, leg : LET own == OwnAccount(live_, leg)
                  IN own # NoRow => /\ own \in DOMAIN Accounts /\ own \in AccountsCalled(leg.target)
                                    /\ leg.kind = "TRANSFER"
<1> SUFFICES ASSUME NEW live_, NEW leg, OwnAccount(live_, leg) # NoRow
             PROVE  /\ OwnAccount(live_, leg) \in DOMAIN Accounts
                    /\ OwnAccount(live_, leg) \in AccountsCalled(leg.target)
                    /\ leg.kind = "TRANSFER"
  OBVIOUS
<1> DEFINE own == AccountsCalled(leg.target)
<1>1. /\ leg.kind = "TRANSFER" /\ Cardinality(own) = 1
      /\ OwnAccount(live_, leg) = CHOOSE a \in own : TRUE
  BY Zenon DEF OwnAccount
<1>2. own # {} /\ own \subseteq DOMAIN Accounts
  BY <1>1, FS_EmptySet, AccountsAre
<1> HIDE DEF own
<1> QED BY <1>1, <1>2 DEF own

LEMMA NotFromItselfIs ==
  ASSUME NEW i \in 1 .. MaxLegs, NEW leg, NEW source, NEW own, NEW answers,
         source.asks = NoQuestion, source.row \in DOMAIN Accounts
  PROVE  LET s == NotFromItself(i, leg, source, own, answers)
         IN /\ s.asks = NoQuestion =>
                 s.row \in DOMAIN Accounts /\ (s.row = source.row \/ (own # NoRow /\ own = source.row))
            /\ s.asks # NoQuestion => Fresh(s.asks, answers) /\ Guided(s.asks, i, leg)
<1> DEFINE s == NotFromItself(i, leg, source, own, answers)
           field == Field(i, "source_account")
           others == DOMAIN Accounts \ {own}
           everyday == {a \in others : Accounts[a] # "settlement"}
           asked == Clarify(field, "account", {Choice(a) : a \in others})
<1>1. CASE own = NoRow \/ source.row # own
  <2>1. s = source
    BY <1>1, Zenon DEF NotFromItself
  <2> QED BY <2>1
<1>2. CASE ~(own = NoRow \/ source.row # own) /\ answers[field].row \in others
  <2>1. s = Found(answers[field].row)
    BY <1>2, Zenon DEF NotFromItself
  <2> QED BY <1>2, <2>1 DEF Found
<1>3. CASE /\ ~(own = NoRow \/ source.row # own) /\ answers[field].row \notin others
           /\ ~NamesAnAccount(leg.source) /\ Cardinality(everyday) = 1
  <2>1. s = Found(CHOOSE a \in everyday : TRUE)
    BY <1>3, Zenon DEF NotFromItself
  <2>2. everyday # {}
    BY <1>3, FS_EmptySet
  <2>3. (CHOOSE a \in everyday : TRUE) \in DOMAIN Accounts
    BY <2>2
  <2> QED BY <1>3, <2>1, <2>3 DEF Found
<1>4. CASE /\ ~(own = NoRow \/ source.row # own) /\ answers[field].row \notin others
           /\ ~(~NamesAnAccount(leg.source) /\ Cardinality(everyday) = 1)
  <2>1. s = [row |-> NoRow, asks |-> asked]
    BY <1>4, Zenon DEF NotFromItself
  <2>2. /\ asked.field = field /\ asked.choices = {Choice(a) : a \in others} /\ asked.kind = "account"
        /\ Question_(asked)
    BY DEF Clarify, Question_
  <2>3. asked # NoQuestion
    BY <2>2 DEF NoQuestion
  <2>4. answers[field] \notin {Choice(a) : a \in others}
    BY <1>4 DEF Choice
  <2>5. field \in Fields
    BY FieldIs
  <2>6. Guided(asked, i, leg)
    BY <2>2 DEF Guided
  <2> HIDE DEF asked, field, others
  <2> QED BY <2>1, <2>2, <2>3, <2>4, <2>5, <2>6 DEF Fresh
<1> QED BY <1>1, <1>2, <1>3, <1>4

\* Who a leg is paid to: a row that its mention calls, or if it calls none the one
\* that was answered.
To(live_, i, leg, answers, row) ==
  \/ row \in Called(leg, live_)
  \/ Called(leg, live_) = {} /\ row \in RowsOf(leg.kind) /\ answers[TargetField(i, leg.kind)].row = row

LEMMA CalledIs ==
  ASSUME NEW live_ \in SUBSET DOMAIN Contacts, NEW leg, Leg_(leg)
  PROVE  /\ Called(leg, live_) \subseteq RowsOf(leg.kind) /\ Called(leg, live_) \subseteq EverCalled(leg)
         /\ RowsOf(leg.kind) \subseteq Rows_
         /\ leg.kind = "BUY_EQUITY" => RowsOf(leg.kind) = DOMAIN Equities
<1>1. Called(leg, live_) \subseteq EverCalled(leg)
  BY DEF EverCalled
<1>2. CASE leg.kind = "TRANSFER"
  BY <1>1, <1>2, PayeesAre DEF Called, RowsOf, Rows_
<1>3. CASE leg.kind = "PAY_BILL"
  BY <1>1, <1>3 DEF Called, RowsOf, Rows_, BillersCalled
<1>4. CASE leg.kind = "BUY_EQUITY"
  BY <1>1, <1>4 DEF Called, RowsOf, Rows_, EquitiesCalled
<1> QED BY <1>2, <1>3, <1>4 DEF Leg_

LEMMA TargetIs ==
  ASSUME NEW i \in 1 .. MaxLegs, NEW live_ \in SUBSET DOMAIN Contacts, NEW leg, Leg_(leg),
         NEW own, own # NoRow => own \in DOMAIN Accounts, NEW answers
  PROVE  LET t == Target(live_, i, leg, own, answers)
         IN /\ t.asks = NoQuestion =>
                 IF own # NoRow THEN t.row = own
                 ELSE /\ t.row \in Rows_ /\ (leg.kind = "BUY_EQUITY" => t.row \in DOMAIN Equities)
                      /\ To(live_, i, leg, answers, t.row)
            /\ t.asks # NoQuestion => Fresh(t.asks, answers) /\ Guided(t.asks, i, leg)
<1> DEFINE t == Target(live_, i, leg, own, answers)
           field == TargetField(i, leg.kind)
           rows == Called(leg, live_)
<1>1. CASE own # NoRow
  <2>1. t = Found(own)
    BY <1>1, Zenon DEF Target
  <2> QED BY <1>1, <2>1 DEF Found
<1>2. field \in Fields
  BY FieldIs DEF TargetField
<1>3. /\ rows \subseteq RowsOf(leg.kind) /\ rows \subseteq EverCalled(leg) /\ RowsOf(leg.kind) \subseteq Rows_
      /\ leg.kind = "BUY_EQUITY" => RowsOf(leg.kind) = DOMAIN Equities
  BY CalledIs
<1>4. CASE own = NoRow
  <2>0. NoQuestion.kind = "none"
    BY DEF NoQuestion
  <2>1. \E all, kind : /\ all \subseteq RowsOf(leg.kind) /\ kind # NoQuestion.kind
                       /\ t = Pick(rows, all, leg.target, kind, field, answers[field])
    <3>1. CASE leg.kind = "TRANSFER"
      <4>1. t = Pick(rows, live_, leg.target, "payee", field, answers[field])
        BY <1>4, <3>1 DEF Target
      <4>2. live_ \subseteq RowsOf(leg.kind)
        BY <3>1 DEF RowsOf
      <4> QED BY <2>0, <4>1, <4>2
    <3>2. CASE leg.kind = "PAY_BILL"
      <4>1. t = Pick(rows, DOMAIN Billers, leg.target, "biller", field, answers[field])
        BY <1>4, <3>2 DEF Target
      <4>2. DOMAIN Billers = RowsOf(leg.kind)
        BY <3>2 DEF RowsOf
      <4> QED BY <2>0, <4>1, <4>2
    <3>3. CASE leg.kind = "BUY_EQUITY"
      <4>1. t = Pick(rows, DOMAIN Equities, leg.target, "equity", field, answers[field])
        BY <1>4, <3>3 DEF Target
      <4>2. DOMAIN Equities = RowsOf(leg.kind)
        BY <3>3 DEF RowsOf
      <4> QED BY <2>0, <4>1, <4>2
    <3> QED BY <3>1, <3>2, <3>3 DEF Leg_
  <2>2. PICK all, kind : /\ all \subseteq RowsOf(leg.kind) /\ kind # NoQuestion.kind
                         /\ t = Pick(rows, all, leg.target, kind, field, answers[field])
    BY <2>1
  <2> HIDE DEF t, field, rows
  <2>3. /\ t.asks = NoQuestion =>
             t.row \in rows \/ (rows = {} /\ t.row \in all /\ answers[field].row = t.row)
        /\ t.asks # NoQuestion =>
             /\ Question_(t.asks) /\ t.asks.field = field /\ answers[field] \notin t.asks.choices
             /\ t.asks.unknown = leg.target \/ \A choice \in t.asks.choices : choice.row \in rows
    <3>1. PickedWell(t, rows, all, leg.target, field, answers[field])
      BY <2>2, PickIs
    <3> QED BY <3>1 DEF PickedWell
  <2>4. ASSUME t.asks = NoQuestion
        PROVE  /\ t.row \in Rows_ /\ (leg.kind = "BUY_EQUITY" => t.row \in DOMAIN Equities)
               /\ To(live_, i, leg, answers, t.row)
    BY <1>3, <2>2, <2>3, <2>4 DEF To, field, rows
  <2>5. ASSUME t.asks # NoQuestion PROVE Fresh(t.asks, answers) /\ Guided(t.asks, i, leg)
    <3>1. t.asks.unknown = leg.target \/ \A choice \in t.asks.choices : choice.row \in EverCalled(leg)
      BY <1>3, <2>3, <2>5
    <3> QED BY <1>2, <2>3, <2>5, <3>1 DEF Fresh, Guided, field
  <2> QED BY <1>4, <2>4, <2>5 DEF t
<1> QED BY <1>1, <1>4

-----------------------------------------------------------------------------
\* What a leg comes to.
Worth(sim, leg, paid) ==
  LET price == Equities[paid.target].price
  IN IF paid.kind = "BUY_EQUITY" THEN (Allotted(sim, leg) \div price) * price
     ELSE Allotted(sim, leg)

LEMMA AllottedIs ==
  ASSUME NEW i \in 1 .. MaxLegs, NEW sim, SoundSim(sim, i - 1), NEW leg, PlanLeg(leg, i),
         leg.amount.form # "shares"
  PROVE  Allotted(sim, leg) \in Int
<1> DEFINE ref == sim.legs[leg.amount.after]
           now == IF MovedBy(sim, leg) THEN ref.amount ELSE sim.balances[ref.source]
<1>1. CASE leg.amount.form = "literal"
  <2>1. Allotted(sim, leg) = leg.amount.n
    BY <1>1 DEF Allotted
  <2> QED BY <2>1 DEF PlanLeg, Leg_
<1>2. CASE leg.amount.form = "symbolic"
  <2>1. leg.amount.after \in 1 .. Len(sim.legs)
    BY <1>2 DEF PlanLeg, SoundSim
  <2>2. ref \in Resolved_
    BY <2>1 DEF SoundSim
  <2>3. now \in Int
    <3> HIDE DEF ref
    <3> QED BY <2>2 DEF Resolved_, SoundSim, Ledgers
  <2>4. Allotted(sim, leg) = now \/ Allotted(sim, leg) = now \div 2
    BY <1>2 DEF Allotted
  <2> HIDE DEF now
  <2> QED BY <2>3, <2>4
<1> QED BY <1>1, <1>2 DEF PlanLeg, Leg_

LEMMA SharesCost ==
  ASSUME NEW t \in DOMAIN Equities, NEW n \in Int
  PROVE  /\ n * Equities[t].price \in Int /\ n \div Equities[t].price \in Int
         /\ (n \div Equities[t].price) * Equities[t].price \in Int
<1> DEFINE price == Equities[t].price
<1>1. price \in Nat \ {0}
  BY TablesAssumption
<1> HIDE DEF price
<1>2. n \div price \in Int /\ \A m \in Int : m * price \in Int
  BY <1>1
<1> QED BY <1>2 DEF price

\* A leg is paid as planned: the figure, or the number of shares.
AsPlanned(leg, paid) ==
  /\ leg.amount.form = "literal" => paid.amount = Spending(paid, leg.amount.n)
  /\ leg.amount.form = "shares" =>
       /\ paid.kind = "BUY_EQUITY" /\ paid.shares = leg.amount.n
       /\ paid.amount = paid.shares * Equities[paid.target].price

LEMMA PricedIs ==
  ASSUME NEW i \in 1 .. MaxLegs, NEW sim, SoundSim(sim, i - 1), NEW leg, PlanLeg(leg, i),
         NEW source \in DOMAIN Accounts, NEW own, NEW target,
         own # NoRow => own \in DOMAIN Accounts /\ leg.kind = "TRANSFER",
         IF own # NoRow THEN target = own
         ELSE target \in Rows_ /\ (leg.kind = "BUY_EQUITY" => target \in DOMAIN Equities)
  PROVE  LET paid == Priced(sim, leg, source, target, own)
         IN /\ paid \in Resolved_
            /\ leg.amount.form = "symbolic" => paid.amount = Worth(sim, leg, paid)
            /\ paid.source = source /\ paid.target = target
            /\ paid.kind = IF own = NoRow THEN leg.kind ELSE "OWN_TRANSFER"
            /\ AsPlanned(leg, paid)
<1> DEFINE paid == Priced(sim, leg, source, target, own)
           price == Equities[target].price
<1>1. CASE leg.kind = "BUY_EQUITY"
  <2> DEFINE shares == IF leg.amount.form = "shares" THEN leg.amount.n
                       ELSE Allotted(sim, leg) \div price
  <2>1. paid = [kind |-> "BUY_EQUITY", source |-> source, target |-> target,
                amount |-> shares * price, shares |-> shares]
    BY <1>1 DEF Priced, ResolvedLeg
  <2>2. target \in Rows_ /\ target \in DOMAIN Equities
    BY <1>1
  <2>3. shares \in Int
    BY <2>2, AllottedIs, SharesCost DEF PlanLeg, Leg_
  <2>4. shares * price \in Int
    <3> HIDE DEF shares
    <3> QED BY <2>2, <2>3, SharesCost
  <2>5. /\ leg.amount.form = "symbolic" => shares = Allotted(sim, leg) \div price
        /\ leg.amount.form = "literal" => shares = leg.amount.n \div price
        /\ leg.amount.form = "shares" => shares = leg.amount.n
    <3>1. leg.amount.form = "literal" => Allotted(sim, leg) = leg.amount.n
      BY DEF Allotted
    <3> QED BY <3>1
  <2> HIDE DEF paid, shares
  <2>6. paid \in Resolved_
    BY <2>1, <2>2, <2>3, <2>4 DEF Resolved_
  <2>7. /\ paid.kind = "BUY_EQUITY" /\ paid.target = target /\ paid.amount = shares * price
        /\ paid.source = source /\ paid.shares = shares
    BY <2>1
  <2>8. AsPlanned(leg, paid)
    BY <2>5, <2>7 DEF AsPlanned, Spending
  <2>9. own = NoRow
    BY <1>1
  <2> QED BY <1>1, <2>5, <2>6, <2>7, <2>8, <2>9 DEF Worth, paid
<1>2. CASE leg.kind # "BUY_EQUITY"
  <2> DEFINE kind == IF own = NoRow THEN leg.kind ELSE "OWN_TRANSFER"
  <2>1. paid = [kind |-> kind, source |-> source, target |-> target,
                amount |-> Allotted(sim, leg), shares |-> 0]
    BY <1>2 DEF Priced, ResolvedLeg
  <2>2. Allotted(sim, leg) \in Int
    BY <1>2, AllottedIs DEF PlanLeg
  <2>3. /\ kind \in {"TRANSFER", "PAY_BILL", "OWN_TRANSFER"}
        /\ kind = "OWN_TRANSFER" => target \in DOMAIN Accounts
        /\ target \in Rows_
    BY <1>2 DEF PlanLeg, Leg_, Rows_
  <2> HIDE DEF paid, kind
  <2>4. paid \in Resolved_
    BY <2>1, <2>2, <2>3 DEF Resolved_
  <2>5. /\ paid.kind # "BUY_EQUITY" /\ paid.amount = Allotted(sim, leg)
        /\ paid.source = source /\ paid.target = target /\ paid.kind = kind
    BY <2>1, <2>3
  <2>6. leg.amount.form # "shares" /\ (leg.amount.form = "literal" => Allotted(sim, leg) = leg.amount.n)
    BY <1>2 DEF PlanLeg, Allotted
  <2>7. AsPlanned(leg, paid)
    BY <2>5, <2>6 DEF AsPlanned, Spending
  <2> QED BY <2>4, <2>5, <2>7 DEF Worth, paid, kind
<1> QED BY <1>1, <1>2

-----------------------------------------------------------------------------
\* A ledger when a leg is paid.
Debited(ledger, leg) ==
  LET debited == [ledger EXCEPT ![leg.source] = @ - leg.amount]
  IN IF leg.kind = "OWN_TRANSFER" THEN [debited EXCEPT ![leg.target] = @ + leg.amount] ELSE debited

Spends(sim, leg, paid) ==
  /\ paid \in Resolved_ /\ sim.balances[paid.source] >= paid.amount
  /\ leg.amount.form = "symbolic" => paid.amount = Worth(sim, leg, paid)

LEMMA DebitedIs ==
  ASSUME NEW ledger \in Ledgers, NEW leg \in Resolved_ PROVE Debited(ledger, leg) \in Ledgers
BY DEF Debited, Ledgers, Resolved_

LEMMA ApplyIs ==
  ASSUME NEW sim, NEW n \in Nat, SoundSim(sim, n), NEW paid \in Resolved_
  PROVE  LET after == Apply(sim, paid)
         IN /\ after.legs = Append(sim.legs, paid)
            /\ after.balances = Debited(sim.balances, paid)
            /\ after.asks = sim.asks
            /\ SoundSim(after, n + 1)
<1> DEFINE after == Apply(sim, paid)
           left == Debited(sim.balances, paid)
           grown == Append(sim.legs, paid)
<1>1. DOMAIN sim = {"legs", "balances", "asks"}
  BY DEF SoundSim
<1>2. after = [sim EXCEPT !.legs = grown, !.balances = left]
  BY <1>1 DEF Apply, Debited
<1>3. left \in Ledgers
  BY DebitedIs DEF SoundSim
<1>4. grown \in Seq(Resolved_) /\ Len(grown) = n + 1
  BY DEF SoundSim
<1> HIDE DEF after, left, grown
<1>5. after = [legs |-> grown, balances |-> left, asks |-> sim.asks]
  BY <1>1, <1>2
<1>6. after.legs = grown /\ after.balances = left /\ after.asks = sim.asks
  BY <1>5
<1>7. SoundSim(after, n + 1)
  BY <1>3, <1>4, <1>5, <1>6 DEF SoundSim
<1> QED BY <1>6, <1>7 DEF after, left, grown

LEMMA AskingIs ==
  ASSUME NEW sim, NEW n, SoundSim(sim, n), NEW question
  PROVE  Asking(sim, question).asks = question
<1>1. DOMAIN sim = {"legs", "balances", "asks"}
  BY DEF SoundSim
<1> QED BY <1>1 DEF Asking

\* What a payment takes from a leg: who it is for, where it comes from, how much
\* it is.
Reads(before, i, leg, people, answers, paid) ==
  /\ IF paid.kind = "OWN_TRANSFER"
     THEN leg.kind = "TRANSFER" /\ paid.target \in AccountsCalled(leg.target)
     ELSE paid.kind = leg.kind /\ To(people, i, leg, answers, paid.target)
  /\ \/ From(before, leg, paid.source)
     \/ paid.kind = "OWN_TRANSFER" /\ From(before, leg, paid.target)
  /\ paid.amount > 0 /\ AsPlanned(leg, paid)

\* One leg: a question about it, or a payment that the ledger has the money for.
LEMMA ResolveLegIs ==
  ASSUME NEW i \in 1 .. MaxLegs, NEW sim, SoundSim(sim, i - 1), sim.asks = NoQuestion,
         NEW leg, PlanLeg(leg, i), NEW live_ \in SUBSET DOMAIN Contacts, NEW answers
  PROVE  LET after == ResolveLeg(sim, i, leg, live_, answers)
         IN /\ after.asks # NoQuestion => Fresh(after.asks, answers) /\ Guided(after.asks, i, leg)
            /\ after.asks = NoQuestion =>
                 \E paid : /\ Spends(sim, leg, paid) /\ Reads(sim.legs, i, leg, live_, answers, paid)
                          /\ after = Apply(sim, paid)
<1> DEFINE own == OwnAccount(live_, leg)
           named == SourceAccount(sim, i, leg, answers)
           source == NotFromItself(i, leg, named, own, answers)
           target == Target(live_, i, leg, own, answers)
           paid == Priced(sim, leg, source.row, target.row, own)
           after == ResolveLeg(sim, i, leg, live_, answers)
<1>1. after = Named(sim, i, leg, live_, answers, named, own)
  BY DEF ResolveLeg
<1>2. \A question : Asking(sim, question).asks = question
  BY AskingIs
<1>3. own # NoRow => /\ own \in DOMAIN Accounts /\ leg.kind = "TRANSFER"
                     /\ own \in AccountsCalled(leg.target)
  BY OwnIs
<1>4. /\ named.asks = NoQuestion => named.row \in DOMAIN Accounts /\ From(sim.legs, leg, named.row)
      /\ named.asks # NoQuestion => Fresh(named.asks, answers) /\ Guided(named.asks, i, leg)
  BY SourceIs
<1> HIDE DEF own, named, after
<1>5. CASE named.asks # NoQuestion
  <2>1. after = Asking(sim, named.asks)
    BY <1>1, <1>5 DEF Named
  <2> QED BY <1>2, <1>4, <1>5, <2>1 DEF after
<1>6. CASE named.asks = NoQuestion
  <2>1. after = Sourced(sim, i, leg, own, source, target)
    BY <1>1, <1>6 DEF Named
  <2>2. /\ source.asks = NoQuestion =>
             /\ source.row \in DOMAIN Accounts
             /\ source.row = named.row \/ (own # NoRow /\ own = named.row)
        /\ source.asks # NoQuestion => Fresh(source.asks, answers) /\ Guided(source.asks, i, leg)
    BY <1>4, <1>6, NotFromItselfIs
  <2>3. /\ target.asks = NoQuestion =>
             IF own # NoRow THEN target.row = own
             ELSE /\ target.row \in Rows_
                  /\ leg.kind = "BUY_EQUITY" => target.row \in DOMAIN Equities
                  /\ To(live_, i, leg, answers, target.row)
        /\ target.asks # NoQuestion => Fresh(target.asks, answers) /\ Guided(target.asks, i, leg)
    BY <1>3, TargetIs DEF PlanLeg
  <2> HIDE DEF source, target
  <2>4. CASE source.asks # NoQuestion
    <3>1. after = Asking(sim, source.asks)
      BY <2>1, <2>4 DEF Sourced
    <3> QED BY <1>2, <2>2, <2>4, <3>1 DEF after
  <2>5. CASE source.asks = NoQuestion /\ target.asks # NoQuestion
    <3>1. after = Asking(sim, target.asks)
      BY <2>1, <2>5 DEF Sourced
    <3> QED BY <1>2, <2>3, <2>5, <3>1 DEF after
  <2>6. CASE source.asks = NoQuestion /\ target.asks = NoQuestion
    <3>1. after = Spend(sim, i, paid)
      BY <2>1, <2>6 DEF Sourced
    <3>2. /\ paid \in Resolved_
          /\ leg.amount.form = "symbolic" => paid.amount = Worth(sim, leg, paid)
          /\ paid.source = source.row /\ paid.target = target.row
          /\ paid.kind = IF own = NoRow THEN leg.kind ELSE "OWN_TRANSFER"
          /\ AsPlanned(leg, paid)
      BY <1>3, <2>2, <2>3, <2>6, PricedIs
    <3> HIDE DEF paid
    <3>3. ASSUME NEW kind, kind # "none", after = Asking(sim, Clarify(Field(i, "amount"), kind, {}))
          PROVE  after.asks # NoQuestion /\ Fresh(after.asks, answers) /\ Guided(after.asks, i, leg)
      <4> DEFINE q == Clarify(Field(i, "amount"), kind, {})
      <4>1. q.field = Field(i, "amount") /\ q.kind = kind /\ q.choices = {} /\ Question_(q)
        BY DEF Clarify, Question_
      <4>2. q # NoQuestion
        BY <3>3, <4>1 DEF NoQuestion
      <4>3. Field(i, "amount") \in Fields
        BY FieldIs
      <4>4. after.asks = q
        BY <1>2, <3>3
      <4> HIDE DEF q
      <4> QED BY <4>1, <4>2, <4>3, <4>4 DEF Fresh, Guided
    <3>4. \/ \E kind \in {"equity_too_small", "zero", "insufficient"} :
               after = Asking(sim, Clarify(Field(i, "amount"), kind, {}))
          \/ /\ ~(sim.balances[paid.source] < paid.amount) /\ ~(paid.amount <= 0)
             /\ after = Apply(sim, paid)
      BY <3>1, Zenon DEF Spend
    <3>5. CASE /\ ~(sim.balances[paid.source] < paid.amount) /\ ~(paid.amount <= 0)
               /\ after = Apply(sim, paid)
      <4>1. sim.balances[paid.source] >= paid.amount /\ paid.amount > 0
        BY <3>2, <3>5 DEF SoundSim, Ledgers, Resolved_
      <4>2. after.asks = NoQuestion
        BY <3>2, <3>5, ApplyIs
      <4>3. \/ From(sim.legs, leg, paid.source)
            \/ own # NoRow /\ From(sim.legs, leg, paid.target)
        BY <1>4, <1>6, <2>2, <2>3, <2>6, <3>2
      <4>4. leg.kind # "OWN_TRANSFER"
        BY DEF PlanLeg, Leg_
      <4>5. IF own # NoRow THEN leg.kind = "TRANSFER" /\ paid.target \in AccountsCalled(leg.target)
            ELSE To(live_, i, leg, answers, paid.target)
        BY <1>3, <2>3, <2>6, <3>2
      <4>6. Reads(sim.legs, i, leg, live_, answers, paid)
        BY <3>2, <4>1, <4>3, <4>4, <4>5 DEF Reads
      <4> QED BY <3>2, <3>5, <4>1, <4>2, <4>6 DEF Spends, after
    <3> QED BY <3>3, <3>4, <3>5 DEF after
  <2> QED BY <2>4, <2>5, <2>6
<1> QED BY <1>5, <1>6

-----------------------------------------------------------------------------
\* The simulations of a plan's legs, each from the one before.
Start(ledger) == [legs |-> <<>>, balances |-> ledger, asks |-> NoQuestion]
NextSim(sim, i, legs, live_, answers) ==
  IF sim.asks # NoQuestion THEN sim ELSE ResolveLeg(sim, i, legs[i], live_, answers)
Sims(sim, legs, live_, answers, ledger, n) ==
  sim = [i \in 0 .. n |-> IF i = 0 THEN Start(ledger)
                          ELSE NextSim(sim[i - 1], i, legs, live_, answers)]

LEMMA SimsExist ==
  ASSUME NEW legs, NEW live_, NEW answers, NEW ledger, NEW n \in Nat
  PROVE  \E sim : Sims(sim, legs, live_, answers, ledger, n)
<1> DEFINE Next_(sim, i) == NextSim(sim, i, legs, live_, answers)
           Reached == {k \in Nat : \E sim : Sims(sim, legs, live_, answers, ledger, k)}
           first == Start(ledger)
<1>1. 0 \in Reached
  <2>1. Sims([i \in 0 .. 0 |-> first], legs, live_, answers, ledger, 0)
    BY DEF Sims
  <2> QED BY <2>1
<1>2. ASSUME NEW k \in Nat, k \in Reached PROVE k + 1 \in Reached
  <2>1. PICK g : Sims(g, legs, live_, answers, ledger, k)
    BY <1>2
  <2> DEFINE last == Next_(g[k], k + 1)
             h == [i \in 0 .. k + 1 |-> IF i = k + 1 THEN last ELSE g[i]]
  <2>2. \A i \in 0 .. k : h[i] = g[i]
    OBVIOUS
  <2>3. h[k + 1] = last /\ h = [i \in 0 .. k + 1 |-> h[i]]
    OBVIOUS
  <2>4. g[0] = first /\ \A i \in 1 .. k : g[i] = Next_(g[i - 1], i)
    <3>1. \A i \in 0 .. k : g[i] = IF i = 0 THEN first ELSE Next_(g[i - 1], i)
      BY <2>1 DEF Sims
    <3>2. 0 \in 0 .. k /\ \A i \in 1 .. k : i \in 0 .. k /\ i # 0
      OBVIOUS
    <3> HIDE DEF first
    <3> QED BY <3>1, <3>2
  <2> HIDE DEF h, first
  <2>5. ASSUME NEW i \in 0 .. k + 1
        PROVE  h[i] = IF i = 0 THEN first ELSE Next_(h[i - 1], i)
    <3>1. CASE i = 0
      BY <2>2, <2>4, <3>1
    <3>2. CASE i = k + 1
      <4>1. i - 1 = k /\ k \in 0 .. k /\ i # 0
        BY <3>2
      <4> QED BY <2>2, <2>3, <3>2, <4>1
    <3>3. CASE i # 0 /\ i # k + 1
      <4>1. i \in 1 .. k /\ i \in 0 .. k /\ i - 1 \in 0 .. k
        BY <3>3
      <4> QED BY <2>2, <2>4, <3>3, <4>1
    <3> QED BY <3>1, <3>2, <3>3
  <2>6. h = [i \in 0 .. k + 1 |-> IF i = 0 THEN first ELSE Next_(h[i - 1], i)]
    BY <2>3, <2>5
  <2>7. Sims(h, legs, live_, answers, ledger, k + 1)
    BY <2>6, Zenon DEF Sims, first
  <2> QED BY <2>7
<1> HIDE DEF Reached
<1>3. \A k \in Nat : k \in Reached
  BY <1>1, <1>2, Induction
<1> QED BY <1>3 DEF Reached

\* A plan of legs, and what competes for them.
SoundPlan(plan) ==
  /\ Len(plan) \in 0 .. MaxLegs /\ DOMAIN plan = 1 .. Len(plan) /\ (Len(plan) = 0 <=> plan = <<>>)
  /\ \A i \in 1 .. Len(plan) : PlanLeg(plan[i], i)
SoundRivals(rivals, plan) ==
  \A i \in DOMAIN rivals :
    i \in DOMAIN plan /\ plan[i].amount.form = "literal" /\ rivals[i] \subseteq Nat

\* A leg as it is resolved: the planned one, with the figure answered if others
\* compete with it.
Figure(plan, rivals, answers, i) ==
  IF i \in DOMAIN rivals THEN answers[Field(i, "amount")].cents ELSE plan[i].amount.n
TakenFrom(leg, plan, rivals, answers, i) ==
  /\ PlanLeg(leg, i)
  /\ leg.kind = plan[i].kind /\ leg.source = plan[i].source /\ leg.target = plan[i].target
  /\ leg.amount.form = plan[i].amount.form /\ leg.amount.n = Figure(plan, rivals, answers, i)
  /\ i \notin DOMAIN rivals => leg = plan[i]
  /\ i \in DOMAIN rivals => Figure(plan, rivals, answers, i) \in rivals[i]

LEMMA EffectiveIs ==
  ASSUME NEW plan, SoundPlan(plan), NEW rivals, SoundRivals(rivals, plan), NEW answers,
         Open(rivals, answers) = {}, NEW i \in 1 .. Len(plan)
  PROVE  TakenFrom(Effective(plan, rivals, answers)[i], plan, rivals, answers, i)
<1> DEFINE leg == Effective(plan, rivals, answers)[i]
           old == plan[i]
           amount == Literal(answers[Field(i, "amount")].cents)
<1>1. i \in DOMAIN plan /\ PlanLeg(old, i)
  BY DEF SoundPlan
<1>2. leg = IF i \in DOMAIN rivals THEN [old EXCEPT !.amount = amount] ELSE old
  BY <1>1 DEF Effective
<1>3. CASE i \in DOMAIN rivals
  <2>1. /\ amount.form = "literal" /\ amount.n \in Int /\ amount.n \in rivals[i]
        /\ amount.n = Figure(plan, rivals, answers, i)
    BY <1>3 DEF Literal, Open, SoundRivals, Figure
  <2>2. leg = [kind |-> old.kind, source |-> old.source, target |-> old.target, amount |-> amount]
    <3> HIDE DEF old, amount, leg
    <3> QED BY <1>1, <1>2, <1>3 DEF PlanLeg, Leg_
  <2>3. old.amount.form = "literal"
    BY <1>3 DEF SoundRivals
  <2> HIDE DEF leg, amount, old
  <2>4. PlanLeg(leg, i)
    BY <1>1, <2>1, <2>2 DEF PlanLeg, Leg_
  <2>5. leg.kind = old.kind /\ leg.source = old.source /\ leg.target = old.target /\ leg.amount = amount
    BY <2>2
  <2> QED BY <1>3, <2>1, <2>3, <2>4, <2>5 DEF leg, old, TakenFrom
<1>4. CASE i \notin DOMAIN rivals
  <2>1. leg = old /\ Figure(plan, rivals, answers, i) = old.amount.n
    BY <1>2, <1>4 DEF Figure
  <2> HIDE DEF leg
  <2> QED BY <1>1, <1>4, <2>1 DEF leg, old, TakenFrom
<1> QED BY <1>3, <1>4

\* Some numbers have a least one.
LEMMA LeastIs ==
  ASSUME NEW S \in SUBSET Nat, S # {}
  PROVE  \E x \in S : \A y \in S : x =< y
<1> SUFFICES ASSUME \A x \in S : \E y \in S : ~ x =< y PROVE FALSE
  OBVIOUS
<1> DEFINE Above == {k \in Nat : \A m \in 0 .. k : m \notin S}
<1>1. 0 \in Above
  <2>1. 0 \notin S
    OBVIOUS
  <2> QED BY <2>1
<1>2. ASSUME NEW k \in Nat, k \in Above PROVE k + 1 \in Above
  <2>1. k + 1 \notin S
    BY <1>2
  <2>2. \A m \in 0 .. k + 1 : m \in 0 .. k \/ m = k + 1
    OBVIOUS
  <2> QED BY <1>2, <2>1, <2>2
<1> HIDE DEF Above
<1>3. \A k \in Nat : k \in Above
  BY <1>1, <1>2, Induction
<1>4. \A k \in Nat : k \notin S
  <2> SUFFICES ASSUME NEW k \in Nat PROVE k \notin S
    OBVIOUS
  <2>1. k \in 0 .. k
    OBVIOUS
  <2> QED BY <1>3, <2>1 DEF Above
<1> QED BY <1>4

LEMMA AsksAmountIs ==
  ASSUME NEW plan, SoundPlan(plan), NEW rivals, SoundRivals(rivals, plan), NEW answers,
         Open(rivals, answers) # {}
  PROVE  LET q == AsksAmount(rivals, Min(Open(rivals, answers)))
         IN /\ q # NoQuestion /\ Fresh(q, answers)
            /\ \E i \in 1 .. Len(plan) : q.field = Field(i, "amount")
<1> DEFINE open == Open(rivals, answers)
           m == Min(open)
           q == AsksAmount(rivals, m)
<1>1. /\ open \subseteq 1 .. MaxLegs /\ open \subseteq 1 .. Len(plan)
      /\ \A i \in open : answers[Field(i, "amount")].cents \notin rivals[i]
  <2>1. \A i \in open : i \in DOMAIN rivals /\ answers[Field(i, "amount")].cents \notin rivals[i]
    BY DEF Open
  <2>2. \A i \in DOMAIN rivals : i \in 1 .. Len(plan)
    BY DEF SoundRivals, SoundPlan
  <2>3. Len(plan) \in 0 .. MaxLegs /\ MaxLegs \in Nat
    BY TablesAssumption DEF SoundPlan
  <2> HIDE DEF open
  <2>4. \A i \in 1 .. Len(plan) : i \in 1 .. MaxLegs
    BY <2>3
  <2> QED BY <2>1, <2>2, <2>4
<1>2. \E x \in open : \A y \in open : x =< y
  <2>1. open \subseteq Nat /\ open # {}
    BY <1>1
  <2> QED BY <2>1, LeastIs
<1>3. m \in open
  BY <1>2 DEF Min
<1>4. Field(m, "amount") \in Fields
  BY <1>1, <1>3, FieldIs
<1> HIDE DEF m, open
<1>5. /\ q.field = Field(m, "amount") /\ q.kind # "none" /\ Question_(q)
      /\ q.choices = {} \/ q.choices = {Chosen(c) : c \in rivals[m]}
  BY DEF AsksAmount, Clarify, Question_
<1>6. answers[Field(m, "amount")] \notin {Chosen(c) : c \in rivals[m]}
  BY <1>1, <1>3 DEF Chosen
<1>7. q # NoQuestion
  BY <1>5 DEF NoQuestion
<1> HIDE DEF q
<1> QED BY <1>1, <1>3, <1>4, <1>5, <1>6, <1>7 DEF Fresh, q, m, open

\* A plan that is resolved to its end: every leg, as it is resolved, was paid in
\* the simulation.
Paid_(before, after, i, leg, people, answers, paid) ==
  /\ Spends(before, leg, paid) /\ Reads(before.legs, i, leg, people, answers, paid)
  /\ after = Apply(before, paid)
Paying_(sim, n, legs, people, answers, ledger) ==
  /\ sim[0] = Start(ledger)
  /\ \A i \in 1 .. n :
       /\ SoundSim(sim[i - 1], i - 1) /\ SoundSim(sim[i], i) /\ PlanLeg(legs[i], i)
       /\ \E paid : Paid_(sim[i - 1], sim[i], i, legs[i], people, answers, paid)

\* A question about a plan is about one of its legs.
Asked(q, plan) == q.choices = {} \/ \E i \in 1 .. Len(plan) : Guided(q, i, plan[i])

LEMMA SameCalled ==
  ASSUME NEW leg, NEW leg2, leg.kind = leg2.kind, leg.target = leg2.target
  PROVE  (\A people : Called(leg, people) = Called(leg2, people)) /\ EverCalled(leg) = EverCalled(leg2)
<1>1. \A people : Called(leg, people) = Called(leg2, people)
  BY DEF Called
<1> QED BY <1>1 DEF EverCalled

LEMMA ResolveIs ==
  ASSUME NEW plan, SoundPlan(plan), NEW rivals, SoundRivals(rivals, plan), NEW answers,
         NEW live_ \in SUBSET DOMAIN Contacts, NEW ledger \in Ledgers
  PROVE  LET end == Resolve(plan, rivals, answers, live_, ledger)
         IN /\ end.asks # NoQuestion => Fresh(end.asks, answers) /\ Asked(end.asks, plan)
            /\ end.asks = NoQuestion =>
                 /\ Len(plan) > 0 /\ Open(rivals, answers) = {}
                 /\ \E sim : /\ Paying_(sim, Len(plan), Effective(plan, rivals, answers), live_, answers, ledger)
                            /\ end = sim[Len(plan)]
<1> DEFINE end == Resolve(plan, rivals, answers, live_, ledger)
           open == Open(rivals, answers)
           legs == Effective(plan, rivals, answers)
           n == Len(plan)
           sim[i \in 0 .. Len(plan)] ==
             IF i = 0 THEN [legs |-> <<>>, balances |-> ledger, asks |-> NoQuestion]
             ELSE IF sim[i - 1].asks # NoQuestion THEN sim[i - 1]
             ELSE ResolveLeg(sim[i - 1], i, legs[i], live_, answers)
<1>0. SoundSim(Start(ledger), 0)
  BY DEF SoundSim, Start
<1>a. \A question : Asking(Start(ledger), question).asks = question
  BY <1>0, AskingIs
<1>1. end = IF plan = <<>> THEN Asking(Start(ledger), Clarify(NoField, "empty", {}))
            ELSE IF open # {} THEN Asking(Start(ledger), AsksAmount(rivals, Min(open)))
            ELSE sim[n]
  BY Zenon DEF Resolve, Start
<1>2. sim = CHOOSE g : Sims(g, legs, live_, answers, ledger, n)
  BY DEF Sims, NextSim, Start
<1>3. n \in 0 .. MaxLegs /\ MaxLegs \in Nat /\ n \in Nat
  BY TablesAssumption DEF SoundPlan
<1> HIDE DEF sim, legs, end
<1>4. CASE plan = <<>>
  <2> DEFINE q == Clarify(NoField, "empty", {})
  <2>1. q.kind = "empty" /\ q.field = NoField /\ q.choices = {} /\ Question_(q)
    BY DEF Clarify, Question_
  <2>2. q # NoQuestion
    BY <2>1 DEF NoQuestion
  <2>3. end.asks = q
    BY <1>1, <1>a, <1>4
  <2> HIDE DEF q
  <2> QED BY <2>1, <2>2, <2>3 DEF Fresh, Asked, end
<1>5. CASE plan # <<>> /\ open # {}
  <2>1. end.asks = AsksAmount(rivals, Min(open))
    BY <1>1, <1>a, <1>5
  <2>2. end.asks # NoQuestion /\ Fresh(end.asks, answers)
        /\ \E i \in 1 .. n : end.asks.field = Field(i, "amount")
    BY <1>5, <2>1, AsksAmountIs
  <2> QED BY <2>2 DEF end, Asked, Guided
<1>6. CASE plan # <<>> /\ open = {}
  <2>1. Sims(sim, legs, live_, answers, ledger, n)
    BY <1>2, <1>3, SimsExist
  <2>2. /\ sim[0] = Start(ledger)
        /\ \A i \in 1 .. n : sim[i] = NextSim(sim[i - 1], i, legs, live_, answers)
    <3>1. \A i \in 0 .. n : sim[i] = IF i = 0 THEN Start(ledger)
                                     ELSE NextSim(sim[i - 1], i, legs, live_, answers)
      BY <2>1 DEF Sims
    <3>2. 0 \in 0 .. n /\ \A i \in 1 .. n : i \in 0 .. n /\ i # 0
      BY <1>3
    <3> QED BY <3>1, <3>2
  <2> DEFINE Fine(k) == /\ sim[k].asks = NoQuestion => SoundSim(sim[k], k)
                        /\ sim[k].asks # NoQuestion => Fresh(sim[k].asks, answers) /\ Asked(sim[k].asks, plan)
             Step(k) == /\ sim[k].asks = NoQuestion /\ PlanLeg(legs[k + 1], k + 1)
                        /\ \E paid : Paid_(sim[k], sim[k + 1], k + 1, legs[k + 1], live_, answers, paid)
             Good == {k \in Nat : k <= n => Fine(k)}
  <2>3. 0 \in Good
    <3>1. Fine(0)
      BY <1>0, <2>2 DEF Start
    <3> HIDE DEF Fine
    <3> QED BY <3>1
  <2>4. ASSUME NEW k \in Nat, k + 1 <= n, Fine(k)
        PROVE  Fine(k + 1) /\ (sim[k + 1].asks = NoQuestion => Step(k))
    <3>1. k + 1 \in 1 .. n /\ k + 1 \in 1 .. MaxLegs /\ (k + 1) - 1 = k
      <4> HIDE DEF Fine, n
      <4> QED BY <1>3, <2>4
    <3>2. sim[k + 1] = NextSim(sim[k], k + 1, legs, live_, answers)
      BY <2>2, <3>1
    <3>3. CASE sim[k].asks # NoQuestion
      BY <2>4, <3>2, <3>3 DEF NextSim
    <3>4. CASE sim[k].asks = NoQuestion
      <4>1. sim[k + 1] = ResolveLeg(sim[k], k + 1, legs[k + 1], live_, answers)
        BY <3>2, <3>4 DEF NextSim
      <4>2. SoundSim(sim[k], (k + 1) - 1)
        BY <2>4, <3>1, <3>4
      <4>3. /\ PlanLeg(legs[k + 1], k + 1)
            /\ legs[k + 1].kind = plan[k + 1].kind /\ legs[k + 1].target = plan[k + 1].target
        BY <1>6, <3>1, EffectiveIs DEF legs, TakenFrom
      <4>4. /\ sim[k + 1].asks # NoQuestion =>
                 Fresh(sim[k + 1].asks, answers) /\ Guided(sim[k + 1].asks, k + 1, legs[k + 1])
            /\ sim[k + 1].asks = NoQuestion =>
                 \E paid : Paid_(sim[k], sim[k + 1], k + 1, legs[k + 1], live_, answers, paid)
        <5> HIDE DEF Fine
        <5> QED BY <3>1, <3>4, <4>1, <4>2, <4>3, ResolveLegIs DEF Paid_
      <4>5. sim[k + 1].asks = NoQuestion => SoundSim(sim[k + 1], k + 1)
        BY <2>4, <3>4, <4>4, ApplyIs DEF Spends, Paid_
      <4>6. Guided(sim[k + 1].asks, k + 1, legs[k + 1]) => Asked(sim[k + 1].asks, plan)
        BY <3>1, <4>3, SameCalled DEF Guided, Asked
      <4> QED BY <3>4, <4>3, <4>4, <4>5, <4>6
    <3> QED BY <3>3, <3>4
  <2>5. ASSUME NEW k \in Nat, k \in Good PROVE k + 1 \in Good
    <3> HIDE DEF Fine, Step
    <3> QED BY <2>4, <2>5
  <2> HIDE DEF Good
  <2>6. \A k \in Nat : k \in Good
    BY <2>3, <2>5, Induction
  <2>7. \A k \in 0 .. n : Fine(k)
    BY <1>3, <2>6 DEF Good
  <2>8. end = sim[n] /\ n \in 1 .. MaxLegs
    BY <1>1, <1>3, <1>6 DEF SoundPlan
  <2>9. ASSUME end.asks = NoQuestion PROVE Paying_(sim, n, legs, live_, answers, ledger)
    <3> HIDE DEF Fine, Step
    <3>1. \A k \in 0 .. n : sim[k].asks = NoQuestion
      <4>1. ASSUME NEW k \in 0 .. n - 1, sim[k + 1].asks = NoQuestion PROVE sim[k].asks = NoQuestion
        <5>1. k \in Nat /\ k + 1 <= n /\ k \in 0 .. n
          BY <1>3, <4>1
        <5>2. Step(k)
          BY <2>4, <2>7, <4>1, <5>1
        <5> QED BY <5>2 DEF Step
      <4>2. sim[n].asks = NoQuestion
        BY <2>8, <2>9
      <4> DEFINE Quiet == {k \in Nat : k <= n => sim[n - k].asks = NoQuestion}
      <4> HIDE DEF n, end
      <4>3. 0 \in Quiet
        BY <1>3, <4>2
      <4>4. ASSUME NEW k \in Nat, k \in Quiet PROVE k + 1 \in Quiet
        <5> SUFFICES ASSUME k + 1 <= n PROVE sim[n - (k + 1)].asks = NoQuestion
          OBVIOUS
        <5>1. n - (k + 1) \in 0 .. n - 1 /\ (n - (k + 1)) + 1 = n - k
          BY <1>3, TablesAssumption
        <5>2. sim[n - k].asks = NoQuestion
          BY <1>3, <4>4, TablesAssumption
        <5> QED BY <4>1, <5>1, <5>2
      <4> HIDE DEF Quiet
      <4>5. \A k \in Nat : k \in Quiet
        BY <4>3, <4>4, Induction
      <4>6. ASSUME NEW k \in 0 .. n PROVE sim[k].asks = NoQuestion
        <5>1. n - k \in Nat /\ n - k <= n /\ n - (n - k) = k
          BY <1>3, TablesAssumption
        <5> QED BY <4>5, <5>1 DEF Quiet
      <4> QED BY <4>6
    <3>2. ASSUME NEW i \in 1 .. n
          PROVE  /\ SoundSim(sim[i - 1], i - 1) /\ SoundSim(sim[i], i) /\ PlanLeg(legs[i], i)
                 /\ \E paid : Paid_(sim[i - 1], sim[i], i, legs[i], live_, answers, paid)
      <4>1. i - 1 \in Nat /\ i - 1 \in 0 .. n /\ i \in 0 .. n /\ (i - 1) + 1 = i
        BY <1>3, <3>2
      <4>2. SoundSim(sim[i - 1], i - 1) /\ SoundSim(sim[i], i)
        BY <2>7, <3>1, <4>1 DEF Fine
      <4>3. Step(i - 1)
        BY <2>4, <2>7, <3>1, <4>1
      <4> QED BY <4>1, <4>2, <4>3 DEF Step
    <3> QED BY <2>2, <3>2 DEF Paying_
  <2>10. end.asks # NoQuestion => Fresh(end.asks, answers) /\ Asked(end.asks, plan)
    BY <2>7, <2>8
  <2> QED BY <1>6, <2>8, <2>9, <2>10 DEF end, legs
<1> QED BY <1>4, <1>5, <1>6

-----------------------------------------------------------------------------
\* The ledgers that the legs of a resolved plan leave one after the other.
Allowance(legs, ledger, leg) == Allotted([legs |-> legs, balances |-> ledger], leg)
Bought(legs, ledger, leg, paid) ==
  LET price == Equities[paid.target].price
  IN IF paid.kind = "BUY_EQUITY" THEN (Allowance(legs, ledger, leg) \div price) * price
     ELSE Allowance(legs, ledger, leg)
InOrder(plan, legs, ledger, left) ==
  /\ legs \in Seq(Resolved_) /\ Len(legs) = Len(plan)
  /\ left = [i \in 0 .. Len(plan) |-> left[i]] /\ left[0] = ledger
  /\ \A i \in 0 .. Len(plan) : left[i] \in Ledgers
  /\ \A i \in 1 .. Len(plan) :
       /\ left[i] = Debited(left[i - 1], legs[i])
       /\ left[i - 1][legs[i].source] >= legs[i].amount
       /\ plan[i].amount.form = "symbolic" =>
            legs[i].amount = Bought(legs, left[i - 1], plan[i], legs[i])

TakenAs(leg, planned) ==
  /\ leg.amount.form = planned.amount.form /\ (planned.amount.form = "symbolic" => leg = planned)

LEMMA PaidInOrder ==
  ASSUME NEW plan, SoundPlan(plan), NEW ledger \in Ledgers, NEW people, NEW answers, NEW resolved,
         \A i \in 1 .. Len(plan) : TakenAs(resolved[i], plan[i]),
         NEW sim, Paying_(sim, Len(plan), resolved, people, answers, ledger)
  PROVE  LET legs == sim[Len(plan)].legs
         IN /\ \E left : InOrder(plan, legs, ledger, left)
            /\ \A i \in 1 .. Len(plan) : Reads(legs, i, resolved[i], people, answers, legs[i])
<1> DEFINE n == Len(plan)
           legs == sim[n].legs
           left == [i \in 0 .. n |-> sim[i].balances]
<1>1. n \in 0 .. MaxLegs
  BY DEF SoundPlan
<1> HIDE DEF n
<1>2. \A i \in 0 .. n : SoundSim(sim[i], i)
  <2>1. SoundSim(sim[0], 0)
    BY DEF Paying_, SoundSim, Start
  <2>2. \A i \in 1 .. n : SoundSim(sim[i], i)
    BY DEF Paying_, n
  <2>3. \A i \in 0 .. n : i = 0 \/ i \in 1 .. n
    BY <1>1
  <2> QED BY <2>1, <2>2, <2>3
<1>3. ASSUME NEW i \in 1 .. n
      PROVE  \E paid :
               /\ Spends(sim[i - 1], resolved[i], paid)
               /\ Reads(sim[i - 1].legs, i, resolved[i], people, answers, paid)
               /\ sim[i].legs = Append(sim[i - 1].legs, paid)
               /\ sim[i].balances = Debited(sim[i - 1].balances, paid)
  <2>1. PICK paid : Paid_(sim[i - 1], sim[i], i, resolved[i], people, answers, paid)
    BY DEF Paying_, n
  <2>2. i - 1 \in Nat /\ SoundSim(sim[i - 1], i - 1)
    BY <1>1, <1>2
  <2>3. paid \in Resolved_ /\ sim[i] = Apply(sim[i - 1], paid)
    BY <2>1 DEF Spends, Paid_
  <2>4. /\ sim[i].legs = Append(sim[i - 1].legs, paid)
        /\ sim[i].balances = Debited(sim[i - 1].balances, paid)
    BY <2>2, <2>3, ApplyIs
  <2> QED BY <2>1, <2>4 DEF Paid_
<1> DEFINE Same(m) == \A i \in 1 .. m : sim[m].legs[i] = sim[i].legs[i]
           Good == {m \in Nat : m <= n => Same(m)}
<1>4. \A m \in 0 .. n : Same(m)
  <2>1. 0 \in Good
    OBVIOUS
  <2>2. ASSUME NEW m \in Nat, m \in Good PROVE m + 1 \in Good
    <3> SUFFICES ASSUME m + 1 <= n, NEW i \in 1 .. m + 1
                 PROVE  sim[m + 1].legs[i] = sim[i].legs[i]
      OBVIOUS
    <3>1. m + 1 \in 1 .. n /\ (m + 1) - 1 = m /\ m \in 0 .. n /\ Same(m)
      BY <1>1, <2>2
    <3>2. PICK paid \in Resolved_ : sim[m + 1].legs = Append(sim[m].legs, paid)
      BY <1>3, <3>1 DEF Spends
    <3>3. sim[m].legs \in Seq(Resolved_) /\ Len(sim[m].legs) = m
      BY <1>2, <3>1 DEF SoundSim
    <3>4. CASE i = m + 1
      BY <3>4
    <3>5. CASE i # m + 1
      <4>1. i \in 1 .. m
        BY <3>5
      <4>2. sim[m + 1].legs[i] = sim[m].legs[i]
        BY <3>2, <3>3, <4>1
      <4> QED BY <3>1, <4>1, <4>2
    <3> QED BY <3>4, <3>5
  <2> HIDE DEF Good
  <2>3. \A m \in Nat : m \in Good
    BY <2>1, <2>2, Induction
  <2> QED BY <1>1, <2>3 DEF Good
<1>5. \A m \in 0 .. n : \A i \in 1 .. m : sim[m].legs[i] = legs[i]
  <2>1. n \in 0 .. n /\ \A m \in 0 .. n : \A i \in 1 .. m : i \in 1 .. n
    BY <1>1
  <2> QED BY <1>4, <2>1
<1>6. /\ legs \in Seq(Resolved_) /\ Len(legs) = n
      /\ \A i \in 0 .. n : left[i] = sim[i].balances /\ left[i] \in Ledgers
      /\ left = [i \in 0 .. n |-> left[i]] /\ left[0] = ledger
  <2>1. n \in 0 .. n /\ 0 \in 0 .. n
    BY <1>1
  <2>2. sim[0].balances = ledger
    BY DEF Paying_, Start
  <2> QED BY <1>2, <2>1, <2>2 DEF SoundSim
<1> HIDE DEF Same, Good, left, legs
<1>7. ASSUME NEW i \in 1 .. n
      PROVE  /\ left[i] = Debited(left[i - 1], legs[i])
             /\ left[i - 1][legs[i].source] >= legs[i].amount
             /\ plan[i].amount.form = "symbolic" =>
                  legs[i].amount = Bought(legs, left[i - 1], plan[i], legs[i])
             /\ Reads(legs, i, resolved[i], people, answers, legs[i])
  <2>0. i - 1 \in 0 .. n /\ i \in 0 .. n /\ (i - 1) + 1 = i /\ i - 1 \in Nat /\ i \in 1 .. i
    BY <1>1
  <2>1. PICK paid : /\ Spends(sim[i - 1], resolved[i], paid)
                    /\ Reads(sim[i - 1].legs, i, resolved[i], people, answers, paid)
                    /\ sim[i].legs = Append(sim[i - 1].legs, paid)
                    /\ sim[i].balances = Debited(sim[i - 1].balances, paid)
    BY <1>3
  <2>2. sim[i - 1].legs \in Seq(Resolved_) /\ Len(sim[i - 1].legs) = i - 1
    BY <1>2, <2>0 DEF SoundSim
  <2>3. paid \in Resolved_
    BY <2>1 DEF Spends
  <2>4. sim[i].legs[i] = paid
    BY <2>0, <2>1, <2>2, <2>3
  <2>5. legs[i] = paid
    BY <1>5, <2>0, <2>4
  <2>6. left[i] = sim[i].balances /\ left[i - 1] = sim[i - 1].balances
    BY <1>6, <2>0
  <2>7. ASSUME plan[i].amount.form = "symbolic"
        PROVE  Worth(sim[i - 1], plan[i], paid) = Bought(legs, left[i - 1], plan[i], paid)
    <3> DEFINE ref == plan[i].amount.after
               p == plan[i]
               whole == [legs |-> legs, balances |-> left[i - 1]]
    <3>1. ref \in 1 .. i - 1
      BY <2>7 DEF SoundPlan, PlanLeg, n
    <3>2. sim[i - 1].legs[ref] = legs[ref]
      BY <1>5, <2>0, <3>1
    <3>3. whole.legs[ref] = sim[i - 1].legs[ref] /\ whole.balances = sim[i - 1].balances
      BY <2>6, <3>2
    <3> HIDE DEF whole
    <3>4. Allotted(whole, p) = Allotted(sim[i - 1], p)
      BY <3>3 DEF Allotted, MovedBy
    <3> QED BY <3>4 DEF Worth, Bought, Allowance, whole
  <2>8. plan[i].amount.form = "symbolic" => paid.amount = Worth(sim[i - 1], plan[i], paid)
    BY <2>1 DEF Spends, TakenAs, n
  <2>9. Reads(legs, i, resolved[i], people, answers, paid)
    <3>1. resolved[i].amount.form = "symbolic" =>
            legs[resolved[i].amount.after] = sim[i - 1].legs[resolved[i].amount.after]
      <4>1. PlanLeg(resolved[i], i)
        BY DEF Paying_, n
      <4> QED BY <1>5, <2>0, <4>1 DEF PlanLeg
    <3>2. \A row : From(legs, resolved[i], row) = From(sim[i - 1].legs, resolved[i], row)
      BY <3>1 DEF From
    <3> QED BY <2>1, <3>2 DEF Reads
  <2> QED BY <2>1, <2>5, <2>6, <2>7, <2>8, <2>9 DEF Spends
<1>8. InOrder(plan, legs, ledger, left)
  BY <1>6, <1>7 DEF InOrder, n
<1> QED BY <1>7, <1>8 DEF legs, n

\* The ledger's own arithmetic finds the money for every leg.
LEMMA InOrderRuns ==
  ASSUME NEW plan, SoundPlan(plan), NEW ledger \in Ledgers, NEW legs, NEW left,
         InOrder(plan, legs, ledger, left)
  PROVE  RunsThrough(legs, ledger)
<1> DEFINE paid(leg, a)  == IF a = leg.source THEN leg.amount ELSE 0
           moved(leg, a) == IF leg.kind = "OWN_TRANSFER" /\ a = leg.target THEN leg.amount ELSE 0
           After(l, leg) == [a \in DOMAIN ledger |-> l[a] - paid(leg, a) + moved(leg, a)]
           Ledger(g) == g = [i \in 0 .. Len(legs) |-> IF i = 0 THEN ledger ELSE After(g[i - 1], legs[i])]
           run[i \in 0 .. Len(legs)] ==
             IF i = 0 THEN ledger
             ELSE [a \in DOMAIN ledger |-> run[i - 1][a] - paid(legs[i], a) + moved(legs[i], a)]
           n == Len(plan)
<1>1. /\ n \in 0 .. MaxLegs /\ Len(legs) = n /\ \A i \in 1 .. n : legs[i] \in Resolved_
      /\ DOMAIN ledger = DOMAIN Accounts
  BY DEF SoundPlan, InOrder, Ledgers
<1>2. RunsThrough(legs, ledger) = \A i \in 1 .. Len(legs) : run[i - 1][legs[i].source] >= legs[i].amount
  BY Zenon DEF RunsThrough
<1>3. run = CHOOSE g : Ledger(g)
  OBVIOUS
<1>4. ASSUME NEW l \in Ledgers, NEW leg \in Resolved_ PROVE After(l, leg) = Debited(l, leg)
  <2>1. leg.source \in DOMAIN Accounts /\ leg.amount \in Int
        /\ (leg.kind = "OWN_TRANSFER" => leg.target \in DOMAIN Accounts)
    BY DEF Resolved_
  <2>2. /\ DOMAIN Debited(l, leg) = DOMAIN Accounts
        /\ \A a \in DOMAIN Accounts : Debited(l, leg)[a] = l[a] - paid(leg, a) + moved(leg, a)
    BY <2>1 DEF Debited, Ledgers
  <2>3. Debited(l, leg) = [a \in DOMAIN Accounts |-> Debited(l, leg)[a]]
    BY <2>1, DebitedIs DEF Ledgers
  <2> HIDE DEF paid, moved
  <2> QED BY <1>1, <2>2, <2>3
<1> HIDE DEF run, After, paid, moved
<1>5. Ledger(left)
  <2>1. \A i \in 1 .. n : i - 1 \in 0 .. n
    BY <1>1
  <2>2. \A i \in 1 .. n : left[i] = After(left[i - 1], legs[i])
    BY <1>1, <1>4, <2>1 DEF InOrder
  <2>3. \A i \in 0 .. n : i = 0 \/ i \in 1 .. n
    BY <1>1
  <2>4. left = [i \in 0 .. n |-> left[i]] /\ left[0] = ledger
    BY DEF InOrder
  <2>5. \A i \in 0 .. n : left[i] = IF i = 0 THEN ledger ELSE After(left[i - 1], legs[i])
    BY <1>1, <2>2, <2>3, <2>4
  <2> HIDE DEF n
  <2> QED BY <1>1, <2>4, <2>5
<1>6. Ledger(run)
  <2> HIDE DEF Ledger
  <2> QED BY <1>3, <1>5
<1> DEFINE Good == {k \in Nat : k <= n => run[k] = left[k]}
<1>7. \A k \in 0 .. n : run[k] = left[k]
  <2>0. \A i \in 0 .. n : /\ run[i] = IF i = 0 THEN ledger ELSE After(run[i - 1], legs[i])
                          /\ left[i] = IF i = 0 THEN ledger ELSE After(left[i - 1], legs[i])
    BY <1>1, <1>5, <1>6
  <2> HIDE DEF Ledger, n
  <2>1. 0 \in Good
    BY <1>1, <2>0
  <2>2. ASSUME NEW k \in Nat, k \in Good PROVE k + 1 \in Good
    <3> SUFFICES ASSUME k + 1 <= n PROVE run[k + 1] = left[k + 1]
      OBVIOUS
    <3>1. k + 1 \in 0 .. n /\ (k + 1) - 1 = k /\ k + 1 # 0 /\ run[k] = left[k]
      BY <1>1, <2>2
    <3> QED BY <2>0, <3>1
  <2> HIDE DEF Good
  <2>3. \A k \in Nat : k \in Good
    BY <2>1, <2>2, Induction
  <2> QED BY <1>1, <2>3 DEF Good
<1>8. ASSUME NEW i \in 1 .. Len(legs) PROVE run[i - 1][legs[i].source] >= legs[i].amount
  <2>1. i \in 1 .. n /\ i - 1 \in 0 .. n
    BY <1>1, <1>8
  <2>2. left[i - 1][legs[i].source] >= legs[i].amount
    BY <2>1 DEF InOrder
  <2> QED BY <1>7, <2>1, <2>2
<1> QED BY <1>2, <1>8

\* The validator's walk meets the resolver's ledgers, and so its amounts.
LEMMA InOrderRecomputes ==
  ASSUME NEW plan, SoundPlan(plan), NEW ledger \in Ledgers, NEW legs, NEW left,
         InOrder(plan, legs, ledger, left)
  PROVE  RecomputeSymbolic(plan, legs, ledger) = [i \in DOMAIN plan |-> legs[i].amount]
<1> DEFINE amount(i, now) ==
             LET it   == Referred(plan, legs, plan[i].amount.after, now)
                 part == IF plan[i].amount.op = "ALL" THEN it ELSE it \div 2
                 price == Equities[legs[i].target].price
             IN IF plan[i].amount.form # "symbolic" THEN legs[i].amount
                ELSE IF legs[i].kind = "BUY_EQUITY" THEN (part \div price) * price ELSE part
           pay(sofar, i, debit) ==
             LET after == [sofar.balances EXCEPT ![legs[i].source] = @ - debit]
             IN [amounts  |-> Append(sofar.amounts, debit),
                 balances |-> IF legs[i].kind = "OWN_TRANSFER"
                              THEN [after EXCEPT ![legs[i].target] = @ + debit] ELSE after]
           first == [amounts |-> <<>>, balances |-> ledger]
           Step(sofar, i) == pay(sofar, i, amount(i, sofar.balances))
           Walk(g) == g = [i \in 0 .. Len(plan) |-> IF i = 0 THEN first ELSE Step(g[i - 1], i)]
           walk[i \in 0 .. Len(plan)] ==
             IF i = 0 THEN [amounts |-> <<>>, balances |-> ledger]
             ELSE pay(walk[i - 1], i, amount(i, walk[i - 1].balances))
           n == Len(plan)
           paid(i) == [k \in 1 .. i |-> legs[k].amount]
           at == [i \in 0 .. n |-> [amounts |-> paid(i), balances |-> left[i]]]
<1>1. /\ n \in 0 .. MaxLegs /\ DOMAIN plan = 1 .. n /\ \A i \in 1 .. n : legs[i] \in Resolved_
      /\ \A i \in 0 .. n : left[i] \in Ledgers
  BY DEF SoundPlan, InOrder
<1>2. RecomputeSymbolic(plan, legs, ledger) = walk[n].amounts
  BY Zenon DEF RecomputeSymbolic
<1>3. walk = CHOOSE g : Walk(g)
  OBVIOUS
<1>4. ASSUME NEW i \in 1 .. n PROVE amount(i, left[i - 1]) = legs[i].amount
  <2>1. CASE plan[i].amount.form # "symbolic"
    BY <2>1
  <2>2. CASE plan[i].amount.form = "symbolic"
    <3>1. legs[i].amount = Bought(legs, left[i - 1], plan[i], legs[i])
      BY <2>2 DEF InOrder
    <3> DEFINE it   == Referred(plan, legs, plan[i].amount.after, left[i - 1])
               part == IF plan[i].amount.op = "ALL" THEN it ELSE it \div 2
               whole == [legs |-> legs, balances |-> left[i - 1]]
    <3>2. whole.legs = legs /\ whole.balances = left[i - 1]
      OBVIOUS
    <3>3. Allotted(whole, plan[i]) = part
      <4> HIDE DEF whole
      <4> QED BY <2>2, <3>2 DEF Allotted, MovedBy, Referred
    <3>4. Allowance(legs, left[i - 1], plan[i]) = part
      BY <3>3 DEF Allowance
    <3>5. amount(i, left[i - 1]) = IF legs[i].kind = "BUY_EQUITY"
            THEN (part \div Equities[legs[i].target].price) * Equities[legs[i].target].price ELSE part
      BY <2>2, Zenon
    <3> HIDE DEF amount, part
    <3> QED BY <3>1, <3>4, <3>5 DEF Bought
  <2> QED BY <2>1, <2>2
<1> HIDE DEF amount, walk
<1>5. ASSUME NEW i \in 1 .. n PROVE at[i] = Step(at[i - 1], i)
  <2>1. i - 1 \in 0 .. n /\ i \in 0 .. n /\ i - 1 \in Nat
    BY <1>1
  <2>2. at[i - 1].balances = left[i - 1] /\ at[i - 1].amounts = paid(i - 1)
    BY <2>1
  <2>3. left[i] = Debited(left[i - 1], legs[i])
    BY DEF InOrder
  <2>4. paid(i - 1) \in Seq(Int) /\ Len(paid(i - 1)) = i - 1 /\ legs[i].amount \in Int
    <3>1. \A k \in 1 .. i - 1 : legs[k].amount \in Int
      BY <1>1, <2>1 DEF Resolved_
    <3>2. legs[i].amount \in Int
      BY <1>1 DEF Resolved_
    <3> QED BY <2>1, <3>1, <3>2
  <2>5. Append(paid(i - 1), legs[i].amount) = paid(i)
    BY <2>1, <2>4
  <2>6. at[i] = [amounts |-> paid(i), balances |-> left[i]]
    BY <2>1
  <2> HIDE DEF at, paid
  <2>7. Step(at[i - 1], i) = pay(at[i - 1], i, legs[i].amount)
    BY <1>4, <2>2
  <2>8. pay(at[i - 1], i, legs[i].amount)
          = [amounts |-> paid(i), balances |-> Debited(left[i - 1], legs[i])]
    BY <2>2, <2>5 DEF Debited
  <2> QED BY <2>3, <2>6, <2>7, <2>8
<1>6. at[0] = first /\ at = [i \in 0 .. n |-> at[i]]
  <2>1. paid(0) = <<>> /\ left[0] = ledger /\ 0 \in 0 .. n
    BY <1>1 DEF InOrder
  <2> QED BY <2>1
<1>a. at[n].amounts = paid(n)
  <2>1. n \in 0 .. n
    BY <1>1
  <2> QED BY <2>1
<1> HIDE DEF at, Step, first
<1>7. Walk(at)
  <2>1. \A i \in 0 .. n : i = 0 \/ i \in 1 .. n
    BY <1>1
  <2>2. \A i \in 0 .. n : at[i] = IF i = 0 THEN first ELSE Step(at[i - 1], i)
    BY <1>5, <1>6, <2>1
  <2> HIDE DEF n
  <2> QED BY <1>6, <2>2 DEF n
<1>8. Walk(walk)
  <2> HIDE DEF Walk
  <2> QED BY <1>3, <1>7
<1> DEFINE Good == {k \in Nat : k <= n => walk[k] = at[k]}
<1>9. walk[n] = at[n]
  <2>0. \A i \in 0 .. n : /\ walk[i] = IF i = 0 THEN first ELSE Step(walk[i - 1], i)
                          /\ at[i] = IF i = 0 THEN first ELSE Step(at[i - 1], i)
    BY <1>7, <1>8
  <2> HIDE DEF Walk, n
  <2>1. 0 \in Good
    BY <1>1, <2>0
  <2>2. ASSUME NEW k \in Nat, k \in Good PROVE k + 1 \in Good
    <3> SUFFICES ASSUME k + 1 <= n PROVE walk[k + 1] = at[k + 1]
      OBVIOUS
    <3>1. k + 1 \in 0 .. n /\ (k + 1) - 1 = k /\ k + 1 # 0 /\ walk[k] = at[k]
      BY <1>1, <2>2
    <3> QED BY <2>0, <3>1
  <2> HIDE DEF Good
  <2>3. \A k \in Nat : k \in Good
    BY <2>1, <2>2, Induction
  <2> QED BY <1>1, <2>3 DEF Good
<1> QED BY <1>1, <1>2, <1>9, <1>a

TakenAll(legs, plan, rivals, answers, people) ==
  \A i \in 1 .. Len(plan) :
    /\ legs[i] \in Resolved_
    /\ \E leg : /\ TakenFrom(leg, plan, rivals, answers, i)
               /\ Reads(legs, i, leg, people, answers, legs[i])

\* What a plan resolves to without a question: a payment for each leg, which run,
\* and which the validator finds again.
LEMMA ResolvedRuns ==
  ASSUME NEW plan, SoundPlan(plan), NEW rivals, SoundRivals(rivals, plan), NEW answers,
         NEW live_ \in SUBSET DOMAIN Contacts, NEW ledger \in Ledgers,
         Resolve(plan, rivals, answers, live_, ledger).asks = NoQuestion
  PROVE  LET legs == Resolve(plan, rivals, answers, live_, ledger).legs
         IN /\ Len(plan) > 0 /\ Len(legs) = Len(plan) /\ DOMAIN legs = 1 .. Len(plan)
            /\ RunsThrough(legs, ledger)
            /\ RecomputeSymbolic(plan, legs, ledger) = [i \in DOMAIN plan |-> legs[i].amount]
            /\ TakenAll(legs, plan, rivals, answers, live_)
<1> DEFINE end == Resolve(plan, rivals, answers, live_, ledger)
           resolved == Effective(plan, rivals, answers)
<1>1. Len(plan) > 0 /\ Open(rivals, answers) = {}
  BY ResolveIs
<1>2. PICK sim : /\ Paying_(sim, Len(plan), resolved, live_, answers, ledger)
                 /\ end = sim[Len(plan)]
  BY ResolveIs
<1> HIDE DEF end, resolved
<1>3. \A i \in 1 .. Len(plan) : TakenFrom(resolved[i], plan, rivals, answers, i)
  BY <1>1, EffectiveIs DEF resolved
<1>4. \A i \in 1 .. Len(plan) : TakenAs(resolved[i], plan[i])
  BY <1>3 DEF TakenFrom, TakenAs, SoundRivals
<1>5. /\ \E left : InOrder(plan, end.legs, ledger, left)
      /\ \A i \in 1 .. Len(plan) : Reads(end.legs, i, resolved[i], live_, answers, end.legs[i])
  BY <1>2, <1>4, PaidInOrder
<1>6. PICK left : InOrder(plan, end.legs, ledger, left)
  BY <1>5
<1>7. TakenAll(end.legs, plan, rivals, answers, live_)
  <2>1. \A i \in 1 .. Len(plan) : end.legs[i] \in Resolved_
    BY <1>6 DEF InOrder
  <2> QED BY <1>3, <1>5, <2>1 DEF TakenAll
<1>8. /\ RunsThrough(end.legs, ledger)
      /\ RecomputeSymbolic(plan, end.legs, ledger) = [i \in DOMAIN plan |-> end.legs[i].amount]
  BY <1>6, InOrderRuns, InOrderRecomputes
<1>9. Len(end.legs) = Len(plan) /\ DOMAIN end.legs = 1 .. Len(plan)
  BY <1>6 DEF InOrder
<1> QED BY <1>1, <1>7, <1>8, <1>9 DEF end

-----------------------------------------------------------------------------
\* The plans that the parser returns are such plans.
LEMMA DrawnPlan ==
  ASSUME NEW said \in DOMAIN Said, NEW plan \in Said[said].plans
  PROVE  /\ SoundPlan(plan) /\ SoundRivals(Competing(plan, Said[said].clauses), plan)
<1> DEFINE rivals == Competing(plan, Said[said].clauses)
<1>1. /\ plan \in Seq(Range(plan)) /\ Len(plan) <= MaxLegs /\ WellFormed(plan)
      /\ \A i \in DOMAIN plan : Leg_(plan[i])
      /\ \A i \in DOMAIN rivals : rivals[i] \subseteq Nat
  BY PlansAssumption
<1>2. /\ Len(plan) \in 0 .. MaxLegs /\ DOMAIN plan = 1 .. Len(plan) /\ (Len(plan) = 0 <=> plan = <<>>)
  <2>1. Len(plan) \in Nat /\ DOMAIN plan = 1 .. Len(plan)
    BY <1>1
  <2>2. Len(plan) = 0 <=> plan = <<>>
    BY <1>1, EmptySeq
  <2> QED BY <1>1, <2>1, <2>2
<1>3. \A i \in DOMAIN rivals : i \in DOMAIN plan /\ plan[i].amount.form = "literal"
  <2> DEFINE match == MatchClauses(plan, ClausesOf(plan, Said[said].clauses))
             all == money_occurrences[Transcript(Said[said].clauses)]
             literal == {i \in DOMAIN plan : plan[i].amount.form = "literal"}
  <2>1. rivals = Rivals(plan, match, all)
    BY DEF Competing
  <2> HIDE DEF match, all, rivals
  <2>2. DOMAIN rivals \subseteq literal
    BY <2>1 DEF Rivals
  <2> QED BY <2>2
<1>4. \A i \in 1 .. Len(plan) : PlanLeg(plan[i], i)
  BY <1>1, <1>2 DEF WellFormed, PlanLeg
<1> HIDE DEF rivals
<1> QED BY <1>1, <1>2, <1>3, <1>4 DEF SoundPlan, SoundRivals, rivals

\* What resolving the draft now would come to.
Again == Resolve(draft.plan, Competing(draft.plan, Words), draft.answers, live, balances)
Resolves(legs) == Again.asks = NoQuestion /\ Again.legs = legs

Late == {"validate", "publish"}
Request_(q) ==
  /\ q = [at |-> q.at, legs |-> q.legs, froze |-> q.froze, current |-> q.current]
  /\ q.at \in {"idle", "resolve"} \cup Late /\ q.froze \in BOOLEAN
Draft_ ==
  /\ draft = [status |-> draft.status, said |-> draft.said, plan |-> draft.plan,
              answers |-> draft.answers, question |-> draft.question, legs |-> draft.legs,
              current |-> draft.current]
  /\ draft.status \in Statuses
  /\ draft.status # "none" => draft.said \in DOMAIN Said /\ draft.plan \in Said[draft.said].plans
Tables ==
  /\ balances \in [DOMAIN Accounts -> Nat] /\ live \subseteq DOMAIN Contacts
  /\ frozen \in BOOLEAN /\ events \in 0 .. MaxEvents

Whole_(legs) ==
  Len(draft.plan) > 0 /\ Len(legs) = Len(draft.plan) /\ DOMAIN legs = 1 .. Len(draft.plan)

\* What a request holds, and a card shows: a payment for each leg; what resolving
\* now would come to, as long as it is current.
Holds(q) ==
  /\ q.at # "idle" => draft.status # "none"
  /\ q.at \in Late => Whole_(q.legs) /\ (q.current => Resolves(q.legs))
  /\ q.at = "publish" /\ q.froze => frozen
Card ==
  /\ draft.status = "ready" => Whole_(draft.legs) /\ (draft.current => Resolves(draft.legs))
  /\ draft.status = "frozen" => frozen
  /\ draft.status = "clarify" => draft.question.field \in Fields \cup {NoField}

TInv ==
  /\ Tables /\ Draft_
  /\ requests = [r \in Threads |-> requests[r]]
  /\ \A r \in Threads : Request_(requests[r]) /\ Holds(requests[r])
  /\ Card /\ NeverAsksAgain

LEMMA InitTInv == Init => TInv
<1> SUFFICES ASSUME Init PROVE TInv
  OBVIOUS
<1>1. /\ draft = NoDraft /\ draft.status = "none"
      /\ requests = [r \in Threads |-> Idle] /\ \A r \in Threads : requests[r] = Idle
  BY DEF Init, NoDraft
<1>2. Tables
  <2>1. /\ Balance \in [DOMAIN Accounts -> Nat] /\ AtFirst \subseteq DOMAIN Contacts
        /\ MaxEvents \in Nat
    BY TablesAssumption
  <2>2. balances = Balance /\ live = AtFirst /\ frozen = FALSE /\ events = 0
    BY DEF Init
  <2>3. frozen \in BOOLEAN
    BY <2>2
  <2>4. balances \in [DOMAIN Accounts -> Nat] /\ live \subseteq DOMAIN Contacts
    BY <2>1, <2>2
  <2>5. events \in 0 .. MaxEvents
    BY <2>1, <2>2
  <2> QED BY <2>3, <2>4, <2>5 DEF Tables
<1>3. Draft_
  BY <1>1 DEF Draft_, NoDraft, Statuses
<1>4. \A r \in Threads : Request_(requests[r]) /\ Holds(requests[r])
  BY <1>1 DEF Request_, Holds, Idle, Late
<1>5. Card /\ NeverAsksAgain
  BY <1>1 DEF Card, NeverAsksAgain
<1> QED BY <1>1, <1>2, <1>3, <1>4, <1>5 DEF TInv

\* Resolving the draft now: a question about it to which it has no answer, or a
\* payment for each leg.
Spoken == Competing(draft.plan, Words)
Taken(legs) == TakenAll(legs, draft.plan, Spoken, draft.answers, live)

LEMMA DraftIs ==
  ASSUME TInv, draft.status # "none"
  PROVE  /\ SoundPlan(draft.plan) /\ SoundRivals(Spoken, draft.plan)
         /\ DOMAIN draft.plan = 1 .. Len(draft.plan)
         /\ \A i \in 1 .. Len(draft.plan) : i \in 1 .. MaxLegs /\ PlanLeg(draft.plan[i], i)
<1>1. SoundPlan(draft.plan) /\ SoundRivals(Spoken, draft.plan)
  BY DrawnPlan DEF TInv, Draft_, Words, Spoken
<1>2. Len(draft.plan) \in 0 .. MaxLegs /\ MaxLegs \in Nat
  BY <1>1, TablesAssumption DEF SoundPlan
<1>3. \A i \in 1 .. Len(draft.plan) : i \in 1 .. MaxLegs
  BY <1>2
<1> QED BY <1>1, <1>3 DEF SoundPlan

LEMMA AgainIs ==
  ASSUME TInv, draft.status # "none"
  PROVE  /\ Again.asks # NoQuestion => Fresh(Again.asks, draft.answers) /\ Asked(Again.asks, draft.plan)
         /\ Again.asks = NoQuestion =>
              /\ Whole_(Again.legs) /\ RunsThrough(Again.legs, balances)
              /\ RecomputeSymbolic(draft.plan, Again.legs, balances)
                   = [i \in DOMAIN draft.plan |-> Again.legs[i].amount]
              /\ Taken(Again.legs)
<1>1. SoundPlan(draft.plan) /\ SoundRivals(Spoken, draft.plan)
  BY DraftIs
<1>2. balances \in Ledgers /\ live \in SUBSET DOMAIN Contacts
  BY DEF TInv, Tables, Ledgers
<1>3. Again = Resolve(draft.plan, Spoken, draft.answers, live, balances)
  BY DEF Again, Spoken
<1>4. Again.asks # NoQuestion => Fresh(Again.asks, draft.answers) /\ Asked(Again.asks, draft.plan)
  BY <1>1, <1>2, <1>3, ResolveIs
<1>5. ASSUME Again.asks = NoQuestion
      PROVE  /\ Whole_(Again.legs) /\ RunsThrough(Again.legs, balances)
             /\ RecomputeSymbolic(draft.plan, Again.legs, balances)
                  = [i \in DOMAIN draft.plan |-> Again.legs[i].amount]
             /\ Taken(Again.legs)
  BY <1>1, <1>2, <1>3, <1>5, ResolvedRuns DEF Whole_, Taken
<1> QED BY <1>4, <1>5

LEMMA PutIs ==
  ASSUME NEW q, NEW answers, Fresh(q, answers) PROVE Fresh(Put(q), answers)
<1>1. CASE Put(q) = q
  BY <1>1
<1>2. CASE Put(q) = [q EXCEPT !.choices = {}]
  <2>1. Put(q) = [field |-> q.field, kind |-> q.kind, choices |-> {}, unknown |-> q.unknown]
    BY <1>2 DEF Fresh, Question_
  <2> QED BY <2>1 DEF Fresh, Question_
<1> QED BY <1>1, <1>2 DEF Put

\* A request that goes on, on a draft whose plan stays.
LEMMA Onward ==
  ASSUME TInv, NEW r \in Threads, NEW q, requests' = [requests EXCEPT ![r] = q],
         Request_(q), draft'.status # "none", draft.status # "none",
         draft'.said = draft.said, draft'.plan = draft.plan, draft'.answers = draft.answers,
         UNCHANGED <<balances, live>>, frozen => frozen',
         q.at \in Late => Whole_(q.legs) /\ (q.current => Resolves(q.legs)),
         q.at = "publish" /\ q.froze => frozen'
  PROVE  /\ requests' = [s \in Threads |-> requests'[s]]
         /\ \A s \in Threads : Request_(requests'[s]) /\ Holds(requests[s])'
         /\ \A legs : Whole_(legs)' = Whole_(legs) /\ Resolves(legs)' = Resolves(legs)
<1>1. /\ requests'[r] = q /\ \A s \in Threads : s # r => requests'[s] = requests[s]
      /\ requests' = [s \in Threads |-> requests'[s]]
  BY DEF TInv
<1>2. Again' = Again /\ \A legs : Whole_(legs)' = Whole_(legs)
  BY DEF Again, Words, Whole_
<1>3. \A legs : Resolves(legs)' = Resolves(legs)
  BY <1>2 DEF Resolves
<1>4. ASSUME NEW s \in Threads PROVE Request_(requests'[s]) /\ Holds(requests[s])'
  <2>1. CASE s = r
    BY <1>1, <1>2, <1>3, <2>1 DEF Holds
  <2>2. CASE s # r
    <3>1. Request_(requests[s]) /\ Holds(requests[s])
      BY DEF TInv
    <3> QED BY <1>1, <1>2, <1>3, <2>2, <3>1 DEF Holds, Request_
  <2> QED BY <2>1, <2>2
<1> QED BY <1>1, <1>2, <1>3, <1>4

\* A request's record with some fields put in place of the old ones.
LEMMA CurrentPut ==
  ASSUME NEW q, q = [at |-> q.at, legs |-> q.legs, froze |-> q.froze, current |-> q.current],
         NEW current
  PROVE  [q EXCEPT !.current = current]
           = [at |-> q.at, legs |-> q.legs, froze |-> q.froze, current |-> current]
  OBVIOUS

LEMMA StagePut ==
  ASSUME NEW q, q = [at |-> q.at, legs |-> q.legs, froze |-> q.froze, current |-> q.current],
         NEW at, NEW froze
  PROVE  [q EXCEPT !.at = at, !.froze = froze]
           = [at |-> at, legs |-> q.legs, froze |-> froze, current |-> q.current]
<1> DEFINE staged == [q EXCEPT !.at = at]
<1>1. staged = [at |-> at, legs |-> q.legs, froze |-> q.froze, current |-> q.current]
  OBVIOUS
<1>2. [q EXCEPT !.at = at, !.froze = froze] = [staged EXCEPT !.froze = froze]
  OBVIOUS
<1> HIDE DEF staged
<1>3. staged.at = at /\ staged.legs = q.legs /\ staged.current = q.current
  BY <1>1
<1>4. [staged EXCEPT !.froze = froze]
        = [at |-> at, legs |-> q.legs, froze |-> froze, current |-> q.current]
  BY <1>1
<1> QED BY <1>2, <1>4

\* A change of the tables: what requests hold is no longer current.
LEMMA Outdating ==
  ASSUME NEW q, Request_(q)
  PROVE  LET p == [q EXCEPT !.current = FALSE]
         IN Request_(p) /\ p.at = q.at /\ p.legs = q.legs /\ p.froze = q.froze /\ p.current = FALSE
<1> DEFINE p == [q EXCEPT !.current = FALSE]
<1>1. q = [at |-> q.at, legs |-> q.legs, froze |-> q.froze, current |-> q.current]
  BY DEF Request_
<1>2. p = [at |-> q.at, legs |-> q.legs, froze |-> q.froze, current |-> FALSE]
  BY <1>1, CurrentPut
<1> HIDE DEF p
<1>3. p.at = q.at /\ p.legs = q.legs /\ p.froze = q.froze /\ p.current = FALSE
  BY <1>2
<1>4. p = [at |-> p.at, legs |-> p.legs, froze |-> p.froze, current |-> p.current]
  BY <1>2, <1>3
<1>5. p.at \in {"idle", "resolve"} \cup Late /\ p.froze \in BOOLEAN
  BY <1>3 DEF Request_
<1> QED BY <1>3, <1>4, <1>5 DEF Request_, p

\* The card and the question of a draft whose plan and tables stay.
LEMMA CardStays ==
  ASSUME TInv, UNCHANGED <<draft, balances, live>>, frozen => frozen'
  PROVE  Card'
<1>1. /\ Again' = Again /\ (\A legs : Whole_(legs)' = Whole_(legs))
  BY DEF Again, Words, Whole_
<1>2. \A legs : Resolves(legs)' = Resolves(legs)
  BY <1>1 DEF Resolves
<1> QED BY <1>1, <1>2 DEF TInv, Card

LEMMA AskTInv == ASSUME TInv, NEW r \in Threads, Ask(r) PROVE TInv'
<1>1. PICK said \in DOMAIN Said : \E plan \in Said[said].plans :
        draft' = [NoDraft EXCEPT !.status = "new", !.said = said, !.plan = plan]
  BY DEF Ask
<1>2. PICK plan \in Said[said].plans :
        draft' = [NoDraft EXCEPT !.status = "new", !.said = said, !.plan = plan]
  BY <1>1
<1>3. draft.status = "none" /\ UNCHANGED <<balances, live, frozen, events>>
  BY DEF Ask
<1>4. /\ draft' = [status |-> "new", said |-> said, plan |-> plan, answers |-> NoDraft.answers,
                   question |-> NoQuestion, legs |-> <<>>, current |-> FALSE]
      /\ draft'.status = "new" /\ draft'.said = said /\ draft'.plan = plan
  BY <1>2 DEF NoDraft
<1>5. Draft_'
  BY <1>4 DEF Draft_, Statuses
<1>6. \A s \in Threads : requests[s].at = "idle" /\ Request_(requests[s])
  BY <1>3 DEF TInv, Holds
<1>7. /\ requests' = [s \in Threads |-> requests'[s]]
      /\ \A s \in Threads :
           IF s = r THEN requests'[s] = [Idle EXCEPT !.at = "resolve"]
           ELSE requests'[s] = [requests[s] EXCEPT !.current = FALSE]
  BY DEF Ask, Runs, Outdated
<1>8. ASSUME NEW s \in Threads PROVE Request_(requests'[s]) /\ Holds(requests[s])'
  <2>1. CASE s = r
    <3>1. requests'[s] = [at |-> "resolve", legs |-> <<>>, froze |-> FALSE, current |-> FALSE]
      BY <1>7, <2>1 DEF Idle
    <3> QED BY <1>4, <3>1 DEF Request_, Holds, Late
  <2>2. CASE s # r
    <3>1. requests'[s].at = "idle" /\ Request_(requests'[s])
      BY <1>6, <1>7, <2>2 DEF Request_
    <3> QED BY <3>1 DEF Holds, Late
  <2> QED BY <2>1, <2>2
<1>9. Card' /\ NeverAsksAgain'
  BY <1>4 DEF Card, NeverAsksAgain
<1>10. Tables'
  BY <1>3 DEF TInv, Tables
<1> QED BY <1>5, <1>7, <1>8, <1>9, <1>10 DEF TInv

\* An answer, offered or stray: what was resolved before it is not current.
LEMMA AnswerTInv ==
  ASSUME TInv, NEW r \in Threads, NEW field, NEW choice, Answer(r, field, choice),
         events' \in 0 .. MaxEvents
  PROVE  TInv'
<1>1. /\ draft' = [draft EXCEPT !.answers[field] = choice, !.current = FALSE]
      /\ UNCHANGED <<balances, live, frozen>> /\ draft.status # "none"
  BY DEF Answer
<1>2. /\ draft' = [status |-> draft.status, said |-> draft.said, plan |-> draft.plan,
                   answers |-> draft'.answers, question |-> draft.question, legs |-> draft.legs,
                   current |-> FALSE]
      /\ draft'.status = draft.status /\ draft'.said = draft.said /\ draft'.plan = draft.plan
      /\ draft'.question = draft.question /\ draft'.legs = draft.legs /\ draft'.current = FALSE
  <2> DEFINE given_ == [draft.answers EXCEPT ![field] = choice]
  <2>1. draft' = [draft EXCEPT !.answers = given_, !.current = FALSE]
    BY <1>1
  <2> HIDE DEF given_
  <2> QED BY <2>1 DEF TInv, Draft_
<1>3. Draft_'
  BY <1>2 DEF TInv, Draft_
<1>4. /\ requests' = [s \in Threads |-> requests'[s]]
      /\ \A s \in Threads :
           IF s = r THEN requests'[s] = [Idle EXCEPT !.at = "resolve"]
           ELSE requests'[s] = [requests[s] EXCEPT !.current = FALSE]
  BY DEF Answer, Runs, Outdated
<1>5. ASSUME NEW s \in Threads PROVE Request_(requests'[s]) /\ Holds(requests[s])'
  <2>1. CASE s = r
    <3>1. requests'[s] = [at |-> "resolve", legs |-> <<>>, froze |-> FALSE, current |-> FALSE]
      BY <1>4, <2>1 DEF Idle
    <3> QED BY <1>1, <1>2, <3>1 DEF Request_, Holds, Late
  <2>2. CASE s # r
    <3>1. Request_(requests[s]) /\ Holds(requests[s])
      BY DEF TInv
    <3>2. /\ Request_(requests'[s]) /\ requests'[s].at = requests[s].at
          /\ requests'[s].legs = requests[s].legs /\ requests'[s].froze = requests[s].froze
          /\ requests'[s].current = FALSE
      <4>1. requests'[s] = [requests[s] EXCEPT !.current = FALSE]
        BY <1>4, <2>2
      <4> QED BY <3>1, <4>1, Outdating
    <3> QED BY <1>1, <1>2, <3>1, <3>2 DEF Holds, Whole_
  <2> QED BY <2>1, <2>2
<1>6. Card'
  BY <1>1, <1>2 DEF TInv, Card, Whole_
<1>7. NeverAsksAgain'
  <2>1. requests'[r].at = "resolve"
    BY <1>4 DEF Idle
  <2> QED BY <2>1 DEF NeverAsksAgain
<1>8. Tables'
  BY <1>1 DEF TInv, Tables
<1> QED BY <1>3, <1>4, <1>5, <1>6, <1>7, <1>8 DEF TInv

LEMMA ResolveTInv == ASSUME TInv, NEW r \in Threads, ResolveStep(r) PROVE TInv'
<1>1. requests[r].at = "resolve" /\ UNCHANGED <<balances, live, frozen, events>>
  BY DEF ResolveStep
<1>2. draft.status # "none" /\ Draft_ /\ Tables
  BY <1>1 DEF TInv, Holds
<1>3. Tables'
  BY <1>1, <1>2 DEF Tables
<1>4. IF Again.asks # NoQuestion
      THEN /\ draft' = [draft EXCEPT !.status = "clarify", !.legs = <<>>, !.question = Put(Again.asks)]
           /\ requests' = [requests EXCEPT ![r] = Idle]
      ELSE \/ /\ requests' = [requests EXCEPT ![r] =
                   [at |-> "validate", legs |-> Again.legs, froze |-> FALSE, current |-> TRUE]]
              /\ draft' = [draft EXCEPT !.question = NoQuestion]
           \/ Blocks(r)
  BY DEF ResolveStep, Again
<1>5. Request_(Idle) /\ Idle.at = "idle"
  BY DEF Idle, Request_
<1>6. CASE Again.asks # NoQuestion
  <2> DEFINE q == Put(Again.asks)
  <2>1. Fresh(q, draft.answers)
    BY <1>2, <1>6, AgainIs, PutIs
  <2> HIDE DEF q
  <2>2. draft' = [draft EXCEPT !.status = "clarify", !.legs = <<>>, !.question = q]
    BY <1>4, <1>6 DEF q
  <2>3. /\ draft' = [status |-> "clarify", said |-> draft.said, plan |-> draft.plan,
                     answers |-> draft.answers, question |-> q, legs |-> <<>>,
                     current |-> draft.current]
        /\ draft'.status = "clarify" /\ draft'.question = q /\ draft'.answers = draft.answers
        /\ draft'.said = draft.said /\ draft'.plan = draft.plan
    BY <1>2, <2>2 DEF Draft_
  <2>4. Draft_'
    BY <1>2, <2>3 DEF Draft_, Statuses
  <2>5. requests' = [requests EXCEPT ![r] = Idle]
    BY <1>4, <1>6
  <2>6. /\ requests' = [s \in Threads |-> requests'[s]]
        /\ \A s \in Threads : Request_(requests'[s]) /\ Holds(requests[s])'
    BY <1>1, <1>2, <1>5, <2>3, <2>5, Onward DEF Late
  <2>7. Card' /\ NeverAsksAgain'
    BY <2>1, <2>3 DEF Card, NeverAsksAgain, Fresh
  <2> QED BY <1>3, <2>4, <2>6, <2>7 DEF TInv
<1>7. CASE /\ Again.asks = NoQuestion
           /\ requests' = [requests EXCEPT ![r] =
                   [at |-> "validate", legs |-> Again.legs, froze |-> FALSE, current |-> TRUE]]
           /\ draft' = [draft EXCEPT !.question = NoQuestion]
  <2> DEFINE q == [at |-> "validate", legs |-> Again.legs, froze |-> FALSE, current |-> TRUE]
  <2>1. Request_(q) /\ q.at = "validate" /\ q.legs = Again.legs
    BY DEF Request_, Late
  <2>2. Whole_(Again.legs) /\ Resolves(Again.legs)
    BY <1>2, <1>7, AgainIs DEF Resolves
  <2>3. /\ draft' = [status |-> draft.status, said |-> draft.said, plan |-> draft.plan,
                     answers |-> draft.answers, question |-> NoQuestion, legs |-> draft.legs,
                     current |-> draft.current]
        /\ draft'.status = draft.status /\ draft'.question = NoQuestion
        /\ draft'.answers = draft.answers /\ draft'.legs = draft.legs
        /\ draft'.current = draft.current
        /\ draft'.said = draft.said /\ draft'.plan = draft.plan
    BY <1>2, <1>7 DEF Draft_
  <2>4. Draft_'
    BY <1>2, <2>3 DEF Draft_
  <2>5. requests' = [requests EXCEPT ![r] = q]
    BY <1>7
  <2> HIDE DEF q
  <2>6. /\ requests' = [s \in Threads |-> requests'[s]]
        /\ \A s \in Threads : Request_(requests'[s]) /\ Holds(requests[s])'
        /\ \A legs : Whole_(legs)' = Whole_(legs) /\ Resolves(legs)' = Resolves(legs)
    BY <1>1, <1>2, <2>1, <2>2, <2>3, <2>5, Onward
  <2>7. NoQuestion.field = NoField /\ NoQuestion.choices = {}
    BY DEF NoQuestion
  <2>8. Card'
    BY <1>1, <2>3, <2>6, <2>7 DEF TInv, Card
  <2>9. NeverAsksAgain'
    BY <2>3, <2>7 DEF NeverAsksAgain
  <2> QED BY <1>3, <2>4, <2>6, <2>8, <2>9 DEF TInv
<1>8. CASE Blocks(r)
  <2>1. /\ draft' = [status |-> "blocked", said |-> draft.said, plan |-> draft.plan,
                     answers |-> draft.answers, question |-> NoQuestion, legs |-> <<>>,
                     current |-> draft.current]
        /\ draft'.status = "blocked" /\ draft'.answers = draft.answers
        /\ draft'.said = draft.said /\ draft'.plan = draft.plan
    BY <1>2, <1>8 DEF Draft_, Blocks
  <2>2. Draft_'
    BY <1>2, <2>1 DEF Draft_, Statuses
  <2>3. requests' = [requests EXCEPT ![r] = Idle]
    BY <1>8 DEF Blocks
  <2>4. /\ requests' = [s \in Threads |-> requests'[s]]
        /\ \A s \in Threads : Request_(requests'[s]) /\ Holds(requests[s])'
    BY <1>1, <1>2, <1>5, <2>1, <2>3, Onward DEF Late
  <2>5. Card' /\ NeverAsksAgain'
    BY <2>1 DEF Card, NeverAsksAgain
  <2> QED BY <1>3, <2>2, <2>4, <2>5 DEF TInv
<1> QED BY <1>4, <1>6, <1>7, <1>8

LEMMA ValidateTInv == ASSUME TInv, NEW r \in Threads, ValidateStep(r) PROVE TInv'
<1> DEFINE old == requests[r]
<1>1. /\ old.at = "validate" /\ UNCHANGED <<balances, live, draft, given, events>>
      /\ Request_(old) /\ Holds(old) /\ draft.status # "none"
  BY DEF ValidateStep, TInv, Holds
<1>2. PICK froze \in {Freezes(r)} :
        /\ frozen' = (frozen \/ froze)
        /\ requests' = [requests EXCEPT ![r].at = "publish", ![r].froze = froze]
  BY DEF ValidateStep
<1>3. froze \in BOOLEAN
  BY <1>2 DEF Freezes, Frozen
<1>4. frozen' \in BOOLEAN /\ (frozen => frozen') /\ (froze => frozen')
  BY <1>2, <1>3 DEF TInv, Tables
<1> DEFINE q == [at |-> "publish", legs |-> old.legs, froze |-> froze, current |-> old.current]
<1>5. requests' = [requests EXCEPT ![r] = q]
  <2>1. requests' = [requests EXCEPT ![r] = [old EXCEPT !.at = "publish", !.froze = froze]]
    BY <1>2
  <2>2. [old EXCEPT !.at = "publish", !.froze = froze] = q
    <3>1. old = [at |-> old.at, legs |-> old.legs, froze |-> old.froze, current |-> old.current]
      BY <1>1 DEF Request_
    <3> HIDE DEF old
    <3> QED BY <3>1, StagePut
  <2> QED BY <2>1, <2>2
<1>6. /\ Request_(q) /\ q.at = "publish" /\ q.legs = old.legs /\ q.froze = froze
      /\ q.current = old.current
  BY <1>3 DEF Request_, Late
<1>7. Whole_(old.legs) /\ (old.current => Resolves(old.legs))
  BY <1>1 DEF Holds, Late
<1> HIDE DEF q, old
<1>8. /\ requests' = [s \in Threads |-> requests'[s]]
      /\ \A s \in Threads : Request_(requests'[s]) /\ Holds(requests[s])'
  BY <1>1, <1>4, <1>5, <1>6, <1>7, Onward
<1>9. Card'
  BY <1>1, <1>4, CardStays
<1>10. Tables' /\ Draft_'
  BY <1>1, <1>4 DEF TInv, Tables, Draft_
<1>11. NeverAsksAgain'
  <2>1. \A s \in Threads : requests'[s].at # "resolve" => requests[s].at # "resolve"
    BY <1>1, <1>5, <1>6 DEF TInv, old
  <2> QED BY <1>1, <2>1 DEF TInv, NeverAsksAgain
<1> QED BY <1>8, <1>9, <1>10, <1>11 DEF TInv

LEMMA PublishTInv == ASSUME TInv, NEW r \in Threads, Publish(r) PROVE TInv'
<1> DEFINE old == requests[r]
<1>1. /\ old.at = "publish" /\ UNCHANGED <<balances, live, frozen, given, events>>
      /\ Request_(old) /\ Holds(old) /\ draft.status # "none" /\ Draft_
  BY DEF Publish, TInv, Holds
<1>2. /\ old.froze \in BOOLEAN /\ (old.froze => frozen)
      /\ Whole_(old.legs) /\ (old.current => Resolves(old.legs))
  BY <1>1 DEF Holds, Late, Request_
<1>3. Request_(Idle) /\ Idle.at = "idle" /\ Tables'
  BY <1>1 DEF Idle, Request_, TInv, Tables
<1> HIDE DEF old
<1>4. CASE /\ draft' = [draft EXCEPT !.status = IF old.froze THEN "frozen" ELSE "ready",
                                    !.legs = old.legs, !.current = old.current]
           /\ requests' = [requests EXCEPT ![r] = Idle]
  <2> DEFINE status == IF old.froze THEN "frozen" ELSE "ready"
  <2>1. /\ draft' = [status |-> status, said |-> draft.said, plan |-> draft.plan,
                     answers |-> draft.answers, question |-> draft.question, legs |-> old.legs,
                     current |-> old.current]
        /\ draft'.status = status /\ draft'.legs = old.legs /\ draft'.current = old.current
        /\ draft'.said = draft.said /\ draft'.plan = draft.plan /\ draft'.answers = draft.answers
    BY <1>1, <1>4 DEF Draft_
  <2>2. status \in {"frozen", "ready"} /\ (status = "frozen" => old.froze)
    OBVIOUS
  <2> HIDE DEF status
  <2>3. Draft_'
    BY <1>1, <2>1, <2>2 DEF Draft_, Statuses
  <2>4. requests' = [requests EXCEPT ![r] = Idle]
    BY <1>4
  <2>5. /\ requests' = [s \in Threads |-> requests'[s]]
        /\ \A s \in Threads : Request_(requests'[s]) /\ Holds(requests[s])'
        /\ \A legs : Whole_(legs)' = Whole_(legs) /\ Resolves(legs)' = Resolves(legs)
    BY <1>1, <1>3, <2>1, <2>2, <2>4, Onward DEF Late
  <2>6. Card'
    BY <1>1, <1>2, <2>1, <2>2, <2>5 DEF Card
  <2>7. NeverAsksAgain'
    BY <2>1, <2>2 DEF NeverAsksAgain
  <2> QED BY <1>3, <2>3, <2>5, <2>6, <2>7 DEF TInv
<1>5. CASE Blocks(r)
  <2>1. /\ draft' = [status |-> "blocked", said |-> draft.said, plan |-> draft.plan,
                     answers |-> draft.answers, question |-> NoQuestion, legs |-> <<>>,
                     current |-> draft.current]
        /\ draft'.status = "blocked" /\ draft'.answers = draft.answers
        /\ draft'.said = draft.said /\ draft'.plan = draft.plan
    BY <1>1, <1>5 DEF Draft_, Blocks
  <2>2. Draft_'
    BY <1>1, <2>1 DEF Draft_, Statuses
  <2>3. requests' = [requests EXCEPT ![r] = Idle]
    BY <1>5 DEF Blocks
  <2>4. /\ requests' = [s \in Threads |-> requests'[s]]
        /\ \A s \in Threads : Request_(requests'[s]) /\ Holds(requests[s])'
    BY <1>1, <1>3, <2>1, <2>3, Onward DEF Late
  <2>5. Card' /\ NeverAsksAgain'
    BY <2>1 DEF Card, NeverAsksAgain
  <2> QED BY <1>3, <2>2, <2>4, <2>5 DEF TInv
<1> QED BY <1>4, <1>5 DEF Publish, old

LEMMA ChangesTInv ==
  ASSUME TInv, Changes, balances' \in [DOMAIN Accounts -> Nat], live' \subseteq DOMAIN Contacts
  PROVE  TInv'
<1>1. /\ draft.status # "none" /\ Draft_ /\ UNCHANGED frozen
      /\ events < MaxEvents /\ events' = events + 1 /\ MaxEvents \in Nat
  BY TablesAssumption DEF TInv, Changes
<1>2. /\ draft' = [status |-> draft.status, said |-> draft.said, plan |-> draft.plan,
                   answers |-> draft.answers, question |-> draft.question, legs |-> draft.legs,
                   current |-> FALSE]
      /\ draft'.status = draft.status /\ draft'.said = draft.said /\ draft'.plan = draft.plan
      /\ draft'.question = draft.question /\ draft'.legs = draft.legs /\ draft'.current = FALSE
      /\ draft'.answers = draft.answers
  BY <1>1 DEF Changes, Draft_
<1>3. Draft_'
  BY <1>1, <1>2 DEF Draft_
<1>4. ASSUME NEW s \in Threads
      PROVE  /\ Request_(requests'[s]) /\ Holds(requests[s])' /\ requests'[s].at = requests[s].at
  <2>1. Request_(requests[s]) /\ Holds(requests[s])
    BY DEF TInv
  <2>2. requests'[s] = [requests[s] EXCEPT !.current = FALSE]
    BY DEF Changes, Outdated
  <2>3. /\ Request_(requests'[s]) /\ requests'[s].at = requests[s].at
        /\ requests'[s].legs = requests[s].legs /\ requests'[s].froze = requests[s].froze
        /\ requests'[s].current = FALSE
    BY <2>1, <2>2, Outdating
  <2> QED BY <1>1, <1>2, <2>1, <2>3 DEF Holds, Whole_
<1>5. requests' = [s \in Threads |-> requests'[s]]
  BY DEF Changes, Outdated
<1>6. Card'
  BY <1>1, <1>2 DEF TInv, Card, Whole_
<1>7. NeverAsksAgain'
  BY <1>2, <1>4 DEF TInv, NeverAsksAgain
<1>8. Tables'
  BY <1>1 DEF TInv, Tables
<1> QED BY <1>3, <1>4, <1>5, <1>6, <1>7, <1>8 DEF TInv

LEMMA NextTInv == TInv /\ [Next]_vars => TInv'
<1> SUFFICES ASSUME TInv, [Next]_vars PROVE TInv'
  OBVIOUS
<1>0. Tables /\ MaxEvents \in Nat
  BY TablesAssumption DEF TInv
<1>1. ASSUME NEW r \in Threads, AnswerOffered(r) PROVE TInv'
  <2>1. \E field, choice : Answer(r, field, choice)
    BY <1>1 DEF AnswerOffered
  <2>2. events' \in 0 .. MaxEvents
    BY <1>0, <1>1 DEF AnswerOffered, Tables
  <2> QED BY <2>1, <2>2, AnswerTInv
<1>2. ASSUME NEW r \in Threads, AnswerStray(r) PROVE TInv'
  <2>1. \E field, choice : Answer(r, field, choice)
    BY <1>2 DEF AnswerStray
  <2>2. events' \in 0 .. MaxEvents
    BY <1>0, <1>2 DEF AnswerStray, Tables
  <2> QED BY <2>1, <2>2, AnswerTInv
<1>3. ASSUME PayElsewhere PROVE TInv'
  <2>1. PICK a \in DOMAIN Elsewhere :
          balances[a] >= Elsewhere[a] /\ balances' = [balances EXCEPT ![a] = @ - Elsewhere[a]]
    BY <1>3 DEF PayElsewhere
  <2>2. a \in DOMAIN Accounts /\ Elsewhere[a] \in Nat
    BY TablesAssumption
  <2>3. balances' \in [DOMAIN Accounts -> Nat]
    BY <1>0, <2>1, <2>2 DEF Tables
  <2>4. Changes /\ live' \subseteq DOMAIN Contacts
    BY <1>0, <1>3 DEF PayElsewhere, Tables
  <2> QED BY <2>3, <2>4, ChangesTInv
<1>4. ASSUME RemoveContact PROVE TInv'
  <2>1. Changes /\ live' \subseteq DOMAIN Contacts /\ balances' \in [DOMAIN Accounts -> Nat]
    BY <1>0, <1>4 DEF RemoveContact, Tables
  <2> QED BY <2>1, ChangesTInv
<1>5. ASSUME AddOffered PROVE TInv'
  <2>1. Changes /\ live' \subseteq DOMAIN Contacts /\ balances' \in [DOMAIN Accounts -> Nat]
    BY <1>0, <1>5 DEF AddOffered, Tables
  <2> QED BY <2>1, ChangesTInv
<1>6. ASSUME UNCHANGED vars PROVE TInv'
  <2>1. Card'
    BY <1>6, CardStays DEF vars
  <2>2. Again' = Again /\ \A legs : Whole_(legs)' = Whole_(legs)
    BY <1>6 DEF vars, Again, Words, Whole_
  <2>3. \A q : Holds(q) => Holds(q)'
    BY <1>6, <2>2 DEF Holds, Resolves, vars
  <2>4. Tables' /\ Draft_' /\ NeverAsksAgain' /\ requests' = [r \in Threads |-> requests'[r]]
    BY <1>6 DEF TInv, vars, Tables, Draft_, NeverAsksAgain
  <2>5. \A r \in Threads : Request_(requests'[r]) /\ Holds(requests[r])'
    BY <1>6, <2>3 DEF TInv, vars
  <2> QED BY <2>1, <2>4, <2>5 DEF TInv
<1> QED
  BY <1>1, <1>2, <1>3, <1>4, <1>5, <1>6, AskTInv, ResolveTInv, ValidateTInv, PublishTInv
  DEF Next, Serve

LEMMA TInvariance == Spec => []TInv
  BY InitTInv, NextTInv, PTL DEF Spec

\* Types: a signable card has a payment for each leg of the plan, and only a draft
\* in the freeze set is shown frozen, whatever order requests finish in.
THEOREM TypeTheorem == Spec => []TypeOK
<1>1. TInv => TypeOK
  <2> SUFFICES ASSUME TInv PROVE TypeOK
    OBVIOUS
  <2>1. Tables /\ Draft_ /\ Card
    BY DEF TInv
  <2>2. \A r \in Threads : requests[r].at \in {"idle", "resolve", "validate", "publish"}
    BY DEF TInv, Request_, Late
  <2>3. \A a \in DOMAIN Accounts : balances[a] \in Nat
    BY <2>1 DEF Tables
  <2> QED BY <2>1, <2>2, <2>3 DEF TypeOK, Tables, Draft_, Card, Whole_
<1> QED BY TInvariance, <1>1, PTL

\* A card that can be signed runs to its end on the ledger it was resolved on
\* (resolver/__init__.py:486), whatever the plan.
THEOREM RunsTheorem == Spec => []PlanRuns
<1>1. TInv => PlanRuns
  <2> SUFFICES ASSUME TInv, draft.status = "ready", draft.current
               PROVE  RunsThrough(draft.legs, balances)
    BY DEF PlanRuns
  <2>1. Resolves(draft.legs)
    BY DEF TInv, Card
  <2> QED BY <2>1, AgainIs DEF Resolves
<1> QED BY TInvariance, <1>1, PTL

\* The validator's own arithmetic finds the resolver's amounts, so that a plan is
\* not frozen for its sums (amounts.py:409).
THEOREM RecomputeTheorem == Spec => []RecomputeAgrees
<1>1. TInv => RecomputeAgrees
  <2> SUFFICES ASSUME TInv, NEW r \in Threads, requests[r].at = "validate", requests[r].current
               PROVE  RecomputeSymbolic(draft.plan, requests[r].legs, balances)
                        = [i \in DOMAIN draft.plan |-> requests[r].legs[i].amount]
    BY DEF RecomputeAgrees
  <2>1. Resolves(requests[r].legs) /\ draft.status # "none"
    BY DEF TInv, Holds, Late
  <2> QED BY <2>1, AgainIs DEF Resolves
<1> QED BY TInvariance, <1>1, PTL

\* A question never comes back with its recorded answer among its choices
\* (resolver/__init__.py:560).
THEOREM AsksTheorem == Spec => []NeverAsksAgain
<1>1. TInv => NeverAsksAgain
  BY DEF TInv
<1> QED BY TInvariance, <1>1, PTL
-----------------------------------------------------------------------------
\* What is said of a payment, once it is resolved and once it is validated, holds
\* whatever changes after: answers are only added, and a contact that was there
\* at first is only ever removed.
ClauseOf(i) == LegClause(MatchClauses(draft.plan, ClausesOf(draft.plan, Words)), Words, i)
Answered == [i \in 1 .. MaxLegs |-> draft.answers[Field(i, "amount")].cents]
FrozenNow(legs) == Frozen(draft.plan, Words, legs, Spoken, Answered, balances)

\* The resolver's part: who is paid is called by the mention or was picked, and the
\* money comes from where the leg says.
CameFrom(i, legs) ==
  LET leg == draft.plan[i]
      paid == legs[i]
  IN /\ paid \in Resolved_ /\ paid.amount > 0
     /\ IF paid.kind = "OWN_TRANSFER"
        THEN leg.kind = "TRANSFER" /\ paid.target \in AccountsCalled(leg.target)
        ELSE /\ paid.kind = leg.kind /\ paid.target \in RowsOf(leg.kind)
             /\ paid.target \in EverCalled(leg) \/ Picked(i, paid.target)
     /\ \/ From(legs, leg, paid.source)
        \/ paid.kind = "OWN_TRANSFER" /\ From(legs, leg, paid.target)
Came(legs) == \A i \in 1 .. Len(draft.plan) : CameFrom(i, legs)

\* The validator's part: the figure, or the number of shares, is said and paid, and
\* if others compete with it, it is the one that was chosen.
CheckedOf(i, legs) ==
  LET amount == draft.plan[i].amount
      paid == legs[i]
  IN /\ CheckBeneficiary(paid, Transcript(Words))
     /\ CheckSourceAccount(draft.plan, paid, Words, ClauseOf(i))
     /\ amount.form = "literal" =>
          IF i \in DOMAIN Spoken
          THEN \E cents \in Spoken[i] \cap extract_literal_cents[Transcript(Words)] :
                 Chose(i, cents) /\ paid.amount = Spending(paid, cents)
          ELSE /\ amount.n \in extract_literal_cents[ClauseOf(i)]
               /\ paid.amount = Spending(paid, amount.n)
     /\ amount.form = "shares" =>
          /\ amount.n \in share_counts[ClauseOf(i)] /\ paid.shares = amount.n
          /\ paid.amount = amount.n * Equities[paid.target].price
Checked(legs) == \A i \in 1 .. Len(draft.plan) : CheckedOf(i, legs)

\* An answer that was offered, for a mention that is somebody's, is somebody whom
\* the mention calls.
Guesses(g) == ~(g.asked /\ ~g.guess)
Tapped(g) ==
  \A i \in 1 .. Len(draft.plan) :
    ~Guesses(g) /\ g.field = TargetField(i, draft.plan[i].kind) =>
      draft.plan[i].target = <<>> \/ g.choice.row \in EverCalled(draft.plan[i])
Answers_ ==
  /\ draft.status = "none" => given = {}
  /\ draft.answers = [f \in Fields |-> draft.answers[f]]
  /\ \A f \in Fields : draft.answers[f] = Unanswered
                       \/ \E g \in given : g.field = f /\ g.choice = draft.answers[f]
  /\ Asked(draft.question, draft.plan)
  /\ \A g \in given : Tapped(g)
Vetted(q) ==
  /\ q.at \in Late => Came(q.legs)
  /\ q.at = "publish" /\ ~q.froze => Checked(q.legs)
  /\ q.at = "publish" /\ q.froze /\ q.current => FrozenNow(q.legs)
VettedCard ==
  /\ draft.status = "ready" => Came(draft.legs) /\ Checked(draft.legs)
  /\ draft.status = "frozen" /\ draft.current => Resolves(draft.legs) /\ FrozenNow(draft.legs)
VInv == Answers_ /\ (\A r \in Threads : Vetted(requests[r])) /\ VettedCard

LEMMA FewerCalled ==
  ASSUME NEW leg, Leg_(leg), NEW many, NEW few \in SUBSET many, Called(leg, many) = {}
  PROVE  Called(leg, few) = {}
<1>1. CASE leg.kind = "TRANSFER"
  <2>1. PayeesCalled(many, leg.target) = {}
    BY <1>1 DEF Called
  <2>2. Nicknamed(many, leg.target) = {} /\ Legally(many, leg.target) = {}
    BY <2>1 DEF PayeesCalled
  <2>3. Nicknamed(few, leg.target) = {} /\ Legally(few, leg.target) = {}
    BY <2>2 DEF Nicknamed, Legally
  <2> QED BY <1>1, <2>3 DEF Called, PayeesCalled
<1>2. CASE leg.kind = "PAY_BILL"
  BY <1>2 DEF Called
<1>3. CASE leg.kind = "BUY_EQUITY"
  BY <1>3 DEF Called
<1> QED BY <1>1, <1>2, <1>3 DEF Leg_

\* The draft's words and plan stay; what changed is what may.
Later ==
  /\ draft'.said = draft.said /\ draft'.plan = draft.plan
  /\ given \subseteq given' /\ AtFirst \cap live' \subseteq AtFirst \cap live

LEMMA LaterIs ==
  ASSUME TInv, draft.status # "none", Later
  PROVE  /\ \A legs : (Came(legs) => Came(legs)') /\ (Checked(legs) => Checked(legs)')
         /\ \A g : Tapped(g) => Tapped(g)'
<1>1. /\ draft'.plan = draft.plan /\ Words' = Words /\ Spoken' = Spoken
      /\ \A i : ClauseOf(i)' = ClauseOf(i)
  BY DEF Later, Words, Spoken, ClauseOf
<1>2. \A i, cents : Chose(i, cents) => Chose(i, cents)'
  BY DEF Chose, Later
<1>3. ASSUME NEW i \in 1 .. Len(draft.plan), NEW row, Picked(i, row) PROVE Picked(i, row)'
  <2>1. Leg_(draft.plan[i])
    BY DraftIs DEF PlanLeg
  <2>2. Called(draft.plan[i], AtFirst \cap live') = {}
    BY <1>3, <2>1, FewerCalled DEF Picked, Later
  <2>3. \E g \in given' : g.field = TargetField(i, draft.plan[i].kind) /\ g.choice.row = row
    BY <1>3 DEF Picked, Later
  <2> QED BY <1>1, <2>2, <2>3 DEF Picked
<1>4. ASSUME NEW legs, Came(legs) PROVE Came(legs)'
  <2>1. \A i \in 1 .. Len(draft.plan) : CameFrom(i, legs) => CameFrom(i, legs)'
    BY <1>1, <1>3 DEF CameFrom
  <2> QED BY <1>1, <1>4, <2>1 DEF Came
<1>5. ASSUME NEW legs, Checked(legs) PROVE Checked(legs)'
  <2>1. \A i \in 1 .. Len(draft.plan) : CheckedOf(i, legs) => CheckedOf(i, legs)'
    BY <1>1, <1>2 DEF CheckedOf
  <2> QED BY <1>1, <1>5, <2>1 DEF Checked
<1>6. \A g : Tapped(g) => Tapped(g)'
  BY <1>1 DEF Tapped, Guesses
<1> QED BY <1>4, <1>5, <1>6
LEMMA RowsAre ==
  ASSUME NEW kind \in {"TRANSFER", "PAY_BILL", "BUY_EQUITY"}
  PROVE  NoRow \notin RowsOf(kind)
<1>1. kind = "TRANSFER" => RowsOf(kind) = DOMAIN Contacts
  BY DEF RowsOf
<1>2. kind = "PAY_BILL" => RowsOf(kind) = DOMAIN Billers
  BY DEF RowsOf
<1>3. kind = "BUY_EQUITY" => RowsOf(kind) = DOMAIN Equities
  BY DEF RowsOf
<1>4. NoRow \notin DOMAIN Contacts \union DOMAIN Billers \union DOMAIN Equities \union DOMAIN Accounts
  BY TablesAssumption
<1> QED BY <1>1, <1>2, <1>3, <1>4

\* An answer that picks a row or an amount was given by the user.
LEMMA GivenIs ==
  ASSUME TInv, Answers_, NEW f \in Fields
  PROVE  /\ draft.answers[f].row # NoRow => \E g \in given : g.field = f /\ g.choice = draft.answers[f]
         /\ draft.answers[f].cents \in Nat => \E g \in given : g.field = f /\ g.choice = draft.answers[f]
<1>1. Unanswered.row = NoRow /\ Unanswered.cents \notin Nat
  BY DEF Unanswered, Choice, NoCents
<1>2. draft.answers[f] = Unanswered \/ \E g \in given : g.field = f /\ g.choice = draft.answers[f]
  BY DEF Answers_
<1> QED BY <1>1, <1>2

\* A leg as it is resolved is the planned one but for its figure.
LEMMA PlannedIs ==
  ASSUME TInv, draft.status # "none", NEW i \in 1 .. Len(draft.plan), NEW leg,
         TakenFrom(leg, draft.plan, Spoken, draft.answers, i), NEW legs
  PROVE  /\ \A row : From(legs, leg, row) = From(legs, draft.plan[i], row)
         /\ \A people : Called(leg, people) = Called(draft.plan[i], people)
         /\ EverCalled(leg) = EverCalled(draft.plan[i])
<1>1. leg.kind = draft.plan[i].kind /\ leg.target = draft.plan[i].target /\ leg.source = draft.plan[i].source
      /\ leg.amount.form = draft.plan[i].amount.form
  BY DEF TakenFrom
<1>2. leg.amount.form = "symbolic" => leg = draft.plan[i]
  BY <1>1, DraftIs DEF TakenFrom, SoundRivals
<1>3. \A row : From(legs, leg, row) = From(legs, draft.plan[i], row)
  BY <1>1, <1>2 DEF From
<1> QED BY <1>1, <1>3, SameCalled

LEMMA TakenCame ==
  ASSUME TInv, Answers_, draft.status # "none", NEW legs, Taken(legs)
  PROVE  Came(legs)
<1> SUFFICES ASSUME NEW i \in 1 .. Len(draft.plan) PROVE CameFrom(i, legs)
  BY DEF Came
<1> DEFINE planned == draft.plan[i]
           paid == legs[i]
           field == TargetField(i, planned.kind)
<1>1. paid \in Resolved_
  BY DEF Taken, TakenAll
<1>2. PICK leg : /\ TakenFrom(leg, draft.plan, Spoken, draft.answers, i)
                 /\ Reads(legs, i, leg, live, draft.answers, paid)
  BY DEF Taken, TakenAll
<1>3. /\ \A row : From(legs, leg, row) = From(legs, planned, row)
      /\ Called(leg, live) = Called(planned, live) /\ EverCalled(leg) = EverCalled(planned)
      /\ leg.kind = planned.kind /\ leg.target = planned.target
  <2>1. leg.kind = planned.kind /\ leg.target = planned.target
    BY <1>2 DEF TakenFrom
  <2>2. /\ \A row : From(legs, leg, row) = From(legs, planned, row)
        /\ \A people : Called(leg, people) = Called(planned, people)
        /\ EverCalled(leg) = EverCalled(planned)
    <3>1. TakenFrom(leg, draft.plan, Spoken, draft.answers, i)
      BY <1>2
    <3> HIDE <1>2
    <3> QED BY <3>1, PlannedIs
  <2> HIDE <1>2
  <2> QED BY <2>1, <2>2
<1>4. Leg_(planned) /\ i \in 1 .. MaxLegs /\ live \in SUBSET DOMAIN Contacts
  BY DraftIs DEF PlanLeg, TInv, Tables
<1> HIDE DEF planned, paid
<1>5. ASSUME To(live, i, leg, draft.answers, paid.target)
      PROVE  /\ paid.target \in RowsOf(planned.kind)
             /\ paid.target \in EverCalled(planned) \/ Picked(i, paid.target)
  <2>1. CASE paid.target \in Called(planned, live)
    BY <1>4, <2>1, CalledIs
  <2>2. CASE /\ Called(planned, live) = {} /\ paid.target \in RowsOf(planned.kind)
             /\ draft.answers[field].row = paid.target
    <3>1. field \in Fields
      BY <1>4, FieldIs DEF TargetField
    <3>2. paid.target # NoRow
      BY <1>4, <2>2, RowsAre DEF Leg_
    <3>3. \E g \in given : g.field = field /\ g.choice.row = paid.target
      BY <2>2, <3>1, <3>2, GivenIs
    <3>4. Called(planned, AtFirst \cap live) = {}
      <4>1. AtFirst \cap live \in SUBSET live
        OBVIOUS
      <4> QED BY <1>4, <2>2, <4>1, FewerCalled
    <3>5. Picked(i, paid.target)
      BY <3>3, <3>4 DEF Picked, planned
    <3> QED BY <2>2, <3>5
  <2> QED BY <1>3, <1>5, <2>1, <2>2 DEF To
<1>6. /\ paid.amount > 0
      /\ IF paid.kind = "OWN_TRANSFER"
         THEN planned.kind = "TRANSFER" /\ paid.target \in AccountsCalled(planned.target)
         ELSE /\ paid.kind = planned.kind /\ paid.target \in RowsOf(planned.kind)
              /\ paid.target \in EverCalled(planned) \/ Picked(i, paid.target)
      /\ \/ From(legs, planned, paid.source)
         \/ paid.kind = "OWN_TRANSFER" /\ From(legs, planned, paid.target)
  BY <1>2, <1>3, <1>5 DEF Reads
<1> QED BY <1>1, <1>6 DEF CameFrom, planned, paid

\* Legs that are not frozen are checked.
LEMMA PassedChecked ==
  ASSUME TInv, Answers_, draft.status # "none", NEW legs, ~FrozenNow(legs)
  PROVE  Checked(legs)
<1> DEFINE u == Words
           match == MatchClauses(draft.plan, ClausesOf(draft.plan, u))
           recomputed == RecomputeSymbolic(draft.plan, legs, balances)
<1>1. \A i \in DOMAIN draft.plan :
        ~LegFails(i, draft.plan, legs[i], u, LegClause(match, u, i), Spoken, Answered, recomputed)
  BY DEF FrozenNow, Frozen
<1> SUFFICES ASSUME NEW i \in 1 .. Len(draft.plan) PROVE CheckedOf(i, legs)
  BY DEF Checked
<1> DEFINE planned == draft.plan[i]
           amount == planned.amount
           paid == legs[i]
<1>2. i \in DOMAIN draft.plan /\ i \in 1 .. MaxLegs /\ PlanLeg(planned, i)
  BY DraftIs
<1>3. /\ IF i \in DOMAIN Spoken
         THEN CheckCompeting(i, draft.plan, paid, u, Answered[i], Spoken[i], recomputed)
         ELSE CheckAmount(i, draft.plan, paid, ClauseOf(i), recomputed)
      /\ CheckBeneficiary(paid, Transcript(u)) /\ CheckSourceAccount(draft.plan, paid, u, ClauseOf(i))
  BY <1>1, <1>2 DEF LegFails, ClauseOf
<1> HIDE DEF recomputed, match
<1>4. ASSUME i \in DOMAIN Spoken
      PROVE  /\ amount.form = "literal"
             /\ \E cents \in Spoken[i] \cap extract_literal_cents[Transcript(Words)] :
                  Chose(i, cents) /\ paid.amount = Spending(paid, cents)
  <2> DEFINE cents == draft.answers[Field(i, "amount")].cents
             told == [draft.plan EXCEPT ![i].amount = Literal(cents)]
  <2>1. Answered[i] = cents
    BY <1>2 DEF Answered
  <2>2. cents \in Spoken[i] /\ CheckAmount(i, told, paid, Transcript(u), recomputed)
    BY <1>3, <1>4, <2>1 DEF CheckCompeting
  <2>3. told[i].amount = Literal(cents)
    <3>1. told[i] = [planned EXCEPT !.amount = Literal(cents)]
      BY <1>2
    <3>2. "amount" \in DOMAIN planned
      BY <1>2 DEF PlanLeg, Leg_
    <3> QED BY <3>1, <3>2
  <2>4. Literal(cents).form = "literal" /\ Literal(cents).n = cents
    BY DEF Literal
  <2>5. cents \in extract_literal_cents[Transcript(u)] /\ paid.amount = Spending(paid, cents)
    <3> HIDE DEF told, cents
    <3> QED BY <2>2, <2>3, <2>4 DEF CheckAmount, Spending
  <2>6. amount.form = "literal" /\ cents \in Nat
    BY <1>4, <2>2, DraftIs DEF SoundRivals
  <2>7. Chose(i, cents)
    <3>1. Field(i, "amount") \in Fields
      BY <1>2, FieldIs
    <3> QED BY <2>6, <3>1, GivenIs DEF Chose
  <2> QED BY <2>2, <2>5, <2>6, <2>7
<1>5. ASSUME i \notin DOMAIN Spoken
      PROVE  /\ amount.form = "literal" =>
                  amount.n \in extract_literal_cents[ClauseOf(i)] /\ paid.amount = Spending(paid, amount.n)
             /\ amount.form = "shares" =>
                  /\ amount.n \in share_counts[ClauseOf(i)] /\ paid.shares = amount.n
                  /\ paid.amount = amount.n * Equities[paid.target].price
  BY <1>3, <1>5 DEF CheckAmount, Spending
<1> QED BY <1>3, <1>4, <1>5 DEF CheckedOf
LEMMA InitVInv == Init => VInv
<1> SUFFICES ASSUME Init PROVE VInv
  OBVIOUS
<1>1. /\ draft = NoDraft /\ draft.status = "none" /\ draft.question = NoQuestion
      /\ draft.answers = [f \in Fields |-> Unanswered] /\ given = {}
      /\ \A r \in Threads : requests[r] = Idle
  BY DEF Init, NoDraft
<1>2. Answers_
  <2>1. NoQuestion.choices = {}
    BY DEF NoQuestion
  <2>2. \A f \in Fields : draft.answers[f] = Unanswered
    BY <1>1
  <2>3. draft.answers = [f \in Fields |-> draft.answers[f]]
    BY <1>1
  <2> QED BY <1>1, <2>1, <2>2, <2>3 DEF Answers_, Asked
<1>3. \A r \in Threads : Vetted(requests[r])
  BY <1>1 DEF Vetted, Idle, Late
<1> QED BY <1>1, <1>2, <1>3 DEF VInv, VettedCard

LEMMA AskVInv == ASSUME TInv, VInv, NEW r \in Threads, Ask(r) PROVE VInv'
<1>1. PICK said \in DOMAIN Said : \E plan \in Said[said].plans :
        draft' = [NoDraft EXCEPT !.status = "new", !.said = said, !.plan = plan]
  BY DEF Ask
<1>2. PICK plan \in Said[said].plans :
        draft' = [NoDraft EXCEPT !.status = "new", !.said = said, !.plan = plan]
  BY <1>1
<1>3. draft.status = "none" /\ given' = given /\ given = {}
  BY DEF Ask, VInv, Answers_
<1>4. /\ draft'.status = "new" /\ draft'.question = NoQuestion
      /\ draft'.answers = [f \in Fields |-> Unanswered]
  BY <1>2 DEF NoDraft
<1>5. Answers_'
  <2>1. NoQuestion.choices = {}
    BY DEF NoQuestion
  <2>2. \A f \in Fields : draft'.answers[f] = Unanswered
    BY <1>4
  <2>3. draft'.answers = [f \in Fields |-> draft'.answers[f]]
    BY <1>4
  <2> QED BY <1>3, <1>4, <2>1, <2>2, <2>3 DEF Answers_, Asked
<1>6. \A s \in Threads : requests'[s].at \notin Late
  <2>1. \A s \in Threads : requests[s].at = "idle" /\ Request_(requests[s])
    BY <1>3 DEF TInv, Holds
  <2>2. \A s \in Threads :
          IF s = r THEN requests'[s] = [Idle EXCEPT !.at = "resolve"]
          ELSE requests'[s] = [requests[s] EXCEPT !.current = FALSE]
    BY DEF Ask, Runs, Outdated
  <2>3. requests'[r].at = "resolve"
    BY <2>2 DEF Idle
  <2>4. ASSUME NEW s \in Threads, s # r PROVE requests'[s].at = "idle"
    <3>1. requests'[s] = [requests[s] EXCEPT !.current = FALSE]
      BY <2>2, <2>4
    <3>2. requests[s].at = "idle" /\ Request_(requests[s])
      BY <2>1
    <3>3. [requests[s] EXCEPT !.current = FALSE].at = requests[s].at
      BY <3>2, Outdating
    <3> QED BY <3>1, <3>2, <3>3
  <2> QED BY <2>3, <2>4 DEF Late
<1>7. (\A s \in Threads : Vetted(requests[s]))' /\ VettedCard'
  BY <1>4, <1>6 DEF Vetted, VettedCard, Late
<1> QED BY <1>5, <1>7 DEF VInv

\* What a step leaves of the requests: held as before, and current only as long as
\* nothing changed.
Steady == UNCHANGED <<draft.said, draft.plan, draft.answers, given, balances, live>>
Kept(q, p) == p.at = q.at /\ p.legs = q.legs /\ p.froze = q.froze /\ (p.current => q.current)

LEMMA SteadyIs ==
  ASSUME Steady
  PROVE  /\ Later /\ \A legs : Resolves(legs)' = Resolves(legs) /\ FrozenNow(legs)' = FrozenNow(legs)
<1>1. Words' = Words /\ Spoken' = Spoken /\ Answered' = Answered /\ Again' = Again
  BY DEF Steady, Words, Spoken, Answered, Again
<1>2. \A legs : FrozenNow(legs)' = FrozenNow(legs)
  BY <1>1 DEF Steady, FrozenNow
<1>3. \A legs : Resolves(legs)' = Resolves(legs)
  BY <1>1 DEF Resolves
<1>4. Later
  BY DEF Later, Steady
<1> QED BY <1>2, <1>3, <1>4

LEMMA KeptVetted ==
  ASSUME TInv, VInv, draft.status # "none", Later, NEW s \in Threads,
         Kept(requests[s], requests'[s]), requests'[s].current => Steady
  PROVE  Vetted(requests[s])'
<1>1. Vetted(requests[s])
  BY DEF VInv
<1>2. \A legs : (Came(legs) => Came(legs)') /\ (Checked(legs) => Checked(legs)')
  BY LaterIs
<1>3. requests'[s].current => \A legs : FrozenNow(legs)' = FrozenNow(legs)
  BY SteadyIs
<1> QED BY <1>1, <1>2, <1>3 DEF Vetted, Kept

\* What a step leaves of the answers and the question.
LEMMA AnswersStay ==
  ASSUME TInv, VInv, draft.status # "none", draft'.status # "none", Steady,
         Asked(draft'.question, draft.plan)
  PROVE  Answers_'
<1>1. \A g \in given : Tapped(g)'
  BY SteadyIs, LaterIs DEF VInv, Answers_
<1> QED BY <1>1 DEF VInv, Answers_, Steady

\* An answer: what was resolved before it is not current.
LEMMA AnswerVInv ==
  ASSUME TInv, VInv, NEW r \in Threads, NEW field, NEW choice, Answer(r, field, choice)
  PROVE  VInv'
<1> DEFINE offered == draft.question.field = field /\ choice \in draft.question.choices
           g == [field |-> field, choice |-> choice, asked |-> offered,
                 guess |-> offered /\ draft.question.unknown # <<>>]
           told == [draft.answers EXCEPT ![field] = choice]
<1>1. /\ draft' = [draft EXCEPT !.answers[field] = choice, !.current = FALSE]
      /\ UNCHANGED <<balances, live, frozen>> /\ draft.status # "none"
      /\ given' = given \union {g}
  BY DEF Answer
<1> HIDE DEF g
<1>2. /\ draft'.status = draft.status /\ draft'.said = draft.said /\ draft'.plan = draft.plan
      /\ draft'.question = draft.question /\ draft'.legs = draft.legs /\ draft'.current = FALSE
      /\ draft'.answers = told
  <2>1. draft' = [draft EXCEPT !.answers = told, !.current = FALSE]
    BY <1>1
  <2> HIDE DEF told
  <2> QED BY <2>1 DEF TInv, Draft_
<1>3. Later
  BY <1>1, <1>2 DEF Later
<1>4. g.field = field /\ g.choice = choice
  BY DEF g
<1>5. Tapped(g)
  <2> SUFFICES ASSUME NEW i \in 1 .. Len(draft.plan), ~Guesses(g),
                      g.field = TargetField(i, draft.plan[i].kind)
               PROVE  draft.plan[i].target = <<>> \/ g.choice.row \in EverCalled(draft.plan[i])
    BY DEF Tapped
  <2>1. g.asked = offered /\ g.guess = (offered /\ draft.question.unknown # <<>>)
    BY Zenon DEF g
  <2>2. offered /\ draft.question.unknown = <<>>
    BY <2>1, Zenon DEF Guesses
  <2>3. PICK j \in 1 .. Len(draft.plan) : Guided(draft.question, j, draft.plan[j])
    BY <2>2 DEF VInv, Answers_, Asked
  <2>4. draft.question.field = TargetField(i, draft.plan[i].kind)
    BY <1>4, <2>2
  <2>5. TargetField(i, draft.plan[i].kind) \notin {Field(j, "source_account"), Field(j, "amount")}
    BY DEF TargetField, Field
  <2>6. /\ TargetField(i, draft.plan[i].kind) = TargetField(j, draft.plan[j].kind)
        /\ \/ draft.question.unknown = draft.plan[j].target
           \/ \A c \in draft.question.choices : c.row \in EverCalled(draft.plan[j])
    BY <2>3, <2>4, <2>5 DEF Guided
  <2>7. i = j
    BY <2>6 DEF TargetField, Field
  <2> QED BY <1>4, <2>2, <2>6, <2>7
<1>6. Answers_'
  <2>1. draft'.answers = [f \in Fields |-> draft'.answers[f]]
    BY <1>2 DEF VInv, Answers_
  <2>2. ASSUME NEW f \in Fields
        PROVE  draft'.answers[f] = Unanswered \/ \E h \in given' : h.field = f /\ h.choice = draft'.answers[f]
    <3>1. draft'.answers[f] = IF f = field THEN choice ELSE draft.answers[f]
      BY <1>2 DEF VInv, Answers_
    <3>2. CASE f = field
      BY <1>1, <1>4, <3>1, <3>2
    <3>3. CASE f # field
      <4>1. draft.answers[f] = Unanswered \/ \E h \in given : h.field = f /\ h.choice = draft.answers[f]
        BY DEF VInv, Answers_
      <4> QED BY <1>1, <3>1, <3>3, <4>1
    <3> QED BY <3>2, <3>3
  <2>3. \A h \in given' : Tapped(h)'
    <3>1. \A h \in given' : Tapped(h)
      BY <1>1, <1>5 DEF VInv, Answers_
    <3> QED BY <1>1, <1>3, <3>1, LaterIs
  <2>4. Asked(draft'.question, draft'.plan)
    BY <1>2 DEF VInv, Answers_
  <2> QED BY <1>1, <1>2, <2>1, <2>2, <2>3, <2>4 DEF Answers_
<1>7. ASSUME NEW s \in Threads PROVE Vetted(requests[s])'
  <2>1. IF s = r THEN requests'[s] = [Idle EXCEPT !.at = "resolve"]
        ELSE requests'[s] = [requests[s] EXCEPT !.current = FALSE]
    BY DEF Answer, Runs, Outdated
  <2>2. CASE s = r
    <3>1. requests'[s].at = "resolve"
      BY <2>1, <2>2 DEF Idle
    <3> QED BY <3>1 DEF Vetted, Late
  <2>3. CASE s # r
    <3>1. Request_(requests[s])
      BY DEF TInv
    <3>2. Kept(requests[s], requests'[s]) /\ ~requests'[s].current
      BY <2>1, <2>3, <3>1, Outdating DEF Kept
    <3> QED BY <1>1, <1>3, <3>2, KeptVetted
  <2> QED BY <2>2, <2>3
<1>8. VettedCard'
  <2>1. draft.status = "ready" => Came(draft.legs)' /\ Checked(draft.legs)'
    BY <1>1, <1>2, <1>3, LaterIs DEF VInv, VettedCard
  <2> QED BY <1>2, <2>1 DEF VettedCard
<1> QED BY <1>6, <1>7, <1>8 DEF VInv
LEMMA PutAsked ==
  ASSUME NEW q, NEW plan, NEW answers, Fresh(q, answers), Asked(q, plan) PROVE Asked(Put(q), plan)
<1>1. CASE Put(q) = q
  BY <1>1
<1>2. CASE Put(q) = [q EXCEPT !.choices = {}]
  <2>1. Put(q) = [field |-> q.field, kind |-> q.kind, choices |-> {}, unknown |-> q.unknown]
    BY <1>2 DEF Fresh, Question_
  <2> QED BY <2>1 DEF Asked
<1> QED BY <1>1, <1>2 DEF Put

\* A request that goes on while the draft's plan and answers stay.
LEMMA OnwardVetted ==
  ASSUME TInv, VInv, draft.status # "none", Steady, NEW r \in Threads, NEW q,
         requests' = [requests EXCEPT ![r] = q], Vetted(requests[r])'
  PROVE  \A s \in Threads : Vetted(requests[s])'
<1> SUFFICES ASSUME NEW s \in Threads, s # r PROVE Vetted(requests[s])'
  OBVIOUS
<1>1. requests'[s] = requests[s]
  BY DEF TInv
<1>2. Kept(requests[s], requests'[s])
  BY <1>1 DEF Kept
<1> QED BY <1>2, SteadyIs, KeptVetted

LEMMA BlocksVInv ==
  ASSUME TInv, VInv, draft.status # "none", NEW r \in Threads, Blocks(r),
         UNCHANGED <<balances, live, given>>
  PROVE  VInv'
<1>1. /\ draft'.status = "blocked" /\ draft'.said = draft.said /\ draft'.plan = draft.plan
      /\ draft'.answers = draft.answers /\ draft'.question = NoQuestion
  BY DEF Blocks, TInv, Draft_
<1>2. Steady
  BY <1>1 DEF Steady
<1>3. Answers_'
  <2>1. Asked(NoQuestion, draft.plan)
    BY DEF Asked, NoQuestion
  <2> QED BY <1>1, <1>2, <2>1, AnswersStay
<1>4. requests' = [requests EXCEPT ![r] = Idle] /\ requests'[r] = Idle
  BY DEF Blocks, TInv
<1>5. Vetted(requests[r])'
  BY <1>4 DEF Vetted, Idle, Late
<1>6. (\A s \in Threads : Vetted(requests[s]))'
  BY <1>2, <1>4, <1>5, OnwardVetted
<1> QED BY <1>1, <1>3, <1>6 DEF VInv, VettedCard

LEMMA ResolveVInv == ASSUME TInv, VInv, NEW r \in Threads, ResolveStep(r) PROVE VInv'
<1>1. requests[r].at = "resolve" /\ UNCHANGED <<balances, live, given>>
  BY DEF ResolveStep
<1>2. draft.status # "none" /\ Draft_
  BY <1>1 DEF TInv, Holds
<1>3. IF Again.asks # NoQuestion
      THEN /\ draft' = [draft EXCEPT !.status = "clarify", !.legs = <<>>, !.question = Put(Again.asks)]
           /\ requests' = [requests EXCEPT ![r] = Idle]
      ELSE \/ /\ requests' = [requests EXCEPT ![r] =
                   [at |-> "validate", legs |-> Again.legs, froze |-> FALSE, current |-> TRUE]]
              /\ draft' = [draft EXCEPT !.question = NoQuestion]
           \/ Blocks(r)
  BY DEF ResolveStep, Again
<1>4. CASE Again.asks # NoQuestion
  <2> DEFINE q == Put(Again.asks)
  <2>1. Asked(q, draft.plan)
    BY <1>2, <1>4, AgainIs, PutAsked
  <2> HIDE DEF q
  <2>2. draft' = [draft EXCEPT !.status = "clarify", !.legs = <<>>, !.question = q]
    BY <1>3, <1>4 DEF q
  <2>3. /\ draft'.status = "clarify" /\ draft'.question = q /\ draft'.answers = draft.answers
        /\ draft'.said = draft.said /\ draft'.plan = draft.plan
    BY <1>2, <2>2 DEF Draft_
  <2>4. Steady
    BY <1>1, <2>3 DEF Steady
  <2>5. Answers_'
    BY <1>2, <2>1, <2>3, <2>4, AnswersStay
  <2>6. requests' = [requests EXCEPT ![r] = Idle] /\ requests'[r] = Idle
    BY <1>3, <1>4 DEF TInv
  <2>7. Vetted(requests[r])'
    BY <2>6 DEF Vetted, Idle, Late
  <2>8. (\A s \in Threads : Vetted(requests[s]))'
    BY <1>2, <2>4, <2>6, <2>7, OnwardVetted
  <2> QED BY <2>3, <2>5, <2>8 DEF VInv, VettedCard
<1>5. CASE /\ Again.asks = NoQuestion
           /\ requests' = [requests EXCEPT ![r] =
                   [at |-> "validate", legs |-> Again.legs, froze |-> FALSE, current |-> TRUE]]
           /\ draft' = [draft EXCEPT !.question = NoQuestion]
  <2> DEFINE q == [at |-> "validate", legs |-> Again.legs, froze |-> FALSE, current |-> TRUE]
  <2>1. q.at = "validate" /\ q.legs = Again.legs
    OBVIOUS
  <2>2. Came(Again.legs)
    BY <1>2, <1>5, AgainIs, TakenCame DEF VInv
  <2>3. /\ draft'.status = draft.status /\ draft'.question = NoQuestion
        /\ draft'.answers = draft.answers /\ draft'.legs = draft.legs
        /\ draft'.current = draft.current
        /\ draft'.said = draft.said /\ draft'.plan = draft.plan
    BY <1>2, <1>5 DEF Draft_
  <2>4. Steady
    BY <1>1, <2>3 DEF Steady
  <2>5. Answers_'
    <3>1. Asked(NoQuestion, draft.plan)
      BY DEF Asked, NoQuestion
    <3> QED BY <1>2, <2>3, <2>4, <3>1, AnswersStay
  <2>6. requests' = [requests EXCEPT ![r] = q]
    BY <1>5
  <2> HIDE DEF q
  <2>7. requests'[r] = q
    BY <2>6 DEF TInv
  <2>8. \A legs : (Came(legs) => Came(legs)') /\ (Checked(legs) => Checked(legs)')
    BY <1>2, <2>4, SteadyIs, LaterIs
  <2>9. Vetted(requests[r])'
    BY <2>1, <2>2, <2>7, <2>8 DEF Vetted
  <2>10. (\A s \in Threads : Vetted(requests[s]))'
    BY <1>2, <2>4, <2>6, <2>9, OnwardVetted
  <2>11. \A legs : Resolves(legs)' = Resolves(legs) /\ FrozenNow(legs)' = FrozenNow(legs)
    BY <2>4, SteadyIs
  <2>12. VettedCard'
    BY <2>3, <2>8, <2>11 DEF VInv, VettedCard
  <2> QED BY <2>5, <2>10, <2>12 DEF VInv
<1>6. CASE Blocks(r)
  BY <1>1, <1>2, <1>6, BlocksVInv
<1> QED BY <1>3, <1>4, <1>5, <1>6

LEMMA ValidateVInv == ASSUME TInv, VInv, NEW r \in Threads, ValidateStep(r) PROVE VInv'
<1> DEFINE old == requests[r]
<1>1. /\ old.at = "validate" /\ UNCHANGED <<balances, live, draft, given>>
      /\ Request_(old) /\ Vetted(old) /\ draft.status # "none"
  BY DEF ValidateStep, TInv, Holds, VInv
<1>2. PICK froze \in {Freezes(r)} :
        requests' = [requests EXCEPT ![r].at = "publish", ![r].froze = froze]
  BY DEF ValidateStep
<1>3. froze = FrozenNow(old.legs) /\ froze \in BOOLEAN
  <2>1. Freezes(r) = FrozenNow(old.legs)
    BY Zenon DEF Freezes, FrozenNow, Spoken, Answered
  <2>2. FrozenNow(old.legs) \in BOOLEAN
    BY DEF FrozenNow, Frozen
  <2> QED BY <1>2, <2>1, <2>2
<1> DEFINE q == [at |-> "publish", legs |-> old.legs, froze |-> froze, current |-> old.current]
<1>4. requests' = [requests EXCEPT ![r] = q]
  <2>1. requests' = [requests EXCEPT ![r] = [old EXCEPT !.at = "publish", !.froze = froze]]
    BY <1>2
  <2>2. [old EXCEPT !.at = "publish", !.froze = froze] = q
    <3>1. old = [at |-> old.at, legs |-> old.legs, froze |-> old.froze, current |-> old.current]
      BY <1>1 DEF Request_
    <3> HIDE DEF old
    <3> QED BY <3>1, StagePut
  <2> QED BY <2>1, <2>2
<1>5. q.at = "publish" /\ q.legs = old.legs /\ q.froze = froze /\ q.current = old.current
  OBVIOUS
<1>6. Steady /\ draft'.status = draft.status
  BY <1>1 DEF Steady
<1>7. /\ \A legs : (Came(legs) => Came(legs)') /\ (Checked(legs) => Checked(legs)')
      /\ \A legs : Resolves(legs)' = Resolves(legs) /\ FrozenNow(legs)' = FrozenNow(legs)
  BY <1>1, <1>6, SteadyIs, LaterIs
<1>8. Came(old.legs) /\ (~froze => Checked(old.legs)) /\ (froze => FrozenNow(old.legs))
  BY <1>1, <1>3, PassedChecked DEF VInv, Vetted, Late
<1> HIDE DEF q, old
<1>9. requests'[r] = q
  BY <1>4 DEF TInv
<1>10. Vetted(requests[r])'
  BY <1>5, <1>7, <1>8, <1>9 DEF Vetted
<1>11. (\A s \in Threads : Vetted(requests[s]))'
  BY <1>1, <1>4, <1>6, <1>10, OnwardVetted
<1>12. Answers_'
  <2>1. Asked(draft'.question, draft.plan)
    BY <1>1 DEF VInv, Answers_
  <2> QED BY <1>1, <1>6, <2>1, AnswersStay
<1>13. VettedCard'
  BY <1>1, <1>7 DEF VInv, VettedCard
<1> QED BY <1>11, <1>12, <1>13 DEF VInv

LEMMA PublishVInv == ASSUME TInv, VInv, NEW r \in Threads, Publish(r) PROVE VInv'
<1> DEFINE old == requests[r]
<1>1. /\ old.at = "publish" /\ UNCHANGED <<balances, live, frozen, given>>
      /\ Request_(old) /\ Holds(old) /\ Vetted(old) /\ draft.status # "none" /\ Draft_
  BY DEF Publish, TInv, Holds, VInv
<1>2. /\ old.current => Resolves(old.legs)
      /\ Came(old.legs) /\ (~old.froze => Checked(old.legs))
      /\ old.froze /\ old.current => FrozenNow(old.legs)
  BY <1>1 DEF Holds, Late, Vetted
<1> HIDE DEF old
<1>3. CASE /\ draft' = [draft EXCEPT !.status = IF old.froze THEN "frozen" ELSE "ready",
                                    !.legs = old.legs, !.current = old.current]
           /\ requests' = [requests EXCEPT ![r] = Idle]
  <2> DEFINE status == IF old.froze THEN "frozen" ELSE "ready"
  <2>1. /\ draft'.status = status /\ draft'.legs = old.legs /\ draft'.current = old.current
        /\ draft'.said = draft.said /\ draft'.plan = draft.plan /\ draft'.answers = draft.answers
        /\ draft'.question = draft.question
    BY <1>1, <1>3 DEF Draft_
  <2>2. (status = "frozen" /\ old.froze) \/ (status = "ready" /\ ~old.froze)
    BY Zenon
  <2>3. Steady /\ status # "none"
    BY <1>1, <2>1 DEF Steady
  <2> HIDE DEF status
  <2>4. /\ \A legs : (Came(legs) => Came(legs)') /\ (Checked(legs) => Checked(legs)')
        /\ \A legs : Resolves(legs)' = Resolves(legs) /\ FrozenNow(legs)' = FrozenNow(legs)
    BY <1>1, <2>3, SteadyIs, LaterIs
  <2>5. VettedCard'
    BY <1>2, <2>1, <2>2, <2>4 DEF VettedCard
  <2>6. requests' = [requests EXCEPT ![r] = Idle] /\ requests'[r] = Idle
    BY <1>3 DEF TInv
  <2>7. Vetted(requests[r])'
    BY <2>6 DEF Vetted, Idle, Late
  <2>8. (\A s \in Threads : Vetted(requests[s]))'
    BY <1>1, <2>3, <2>6, <2>7, OnwardVetted
  <2>9. Answers_'
    <3>1. Asked(draft'.question, draft.plan)
      BY <2>1 DEF VInv, Answers_
    <3> QED BY <1>1, <2>1, <2>3, <3>1, AnswersStay
  <2> QED BY <2>5, <2>8, <2>9 DEF VInv
<1>4. CASE Blocks(r)
  BY <1>1, <1>4, BlocksVInv
<1> QED BY <1>3, <1>4 DEF Publish, old

LEMMA ChangesVInv ==
  ASSUME TInv, VInv, Changes, AtFirst \cap live' \subseteq AtFirst \cap live
  PROVE  VInv'
<1>1. draft.status # "none" /\ Draft_ /\ given' = given
  BY DEF TInv, Changes
<1>2. /\ draft'.status = draft.status /\ draft'.said = draft.said /\ draft'.plan = draft.plan
      /\ draft'.question = draft.question /\ draft'.legs = draft.legs /\ draft'.current = FALSE
      /\ draft'.answers = draft.answers
  BY <1>1 DEF Changes, Draft_
<1>3. Later
  BY <1>1, <1>2 DEF Later
<1>4. /\ \A legs : (Came(legs) => Came(legs)') /\ (Checked(legs) => Checked(legs)')
      /\ \A g : Tapped(g) => Tapped(g)'
  BY <1>1, <1>3, LaterIs
<1>5. Answers_'
  BY <1>1, <1>2, <1>4 DEF VInv, Answers_
<1>6. ASSUME NEW s \in Threads PROVE Vetted(requests[s])'
  <2>1. requests'[s] = [requests[s] EXCEPT !.current = FALSE] /\ Request_(requests[s])
    BY DEF Changes, Outdated, TInv
  <2>2. Kept(requests[s], requests'[s]) /\ ~requests'[s].current
    BY <2>1, Outdating DEF Kept
  <2> QED BY <1>1, <1>3, <2>2, KeptVetted
<1>7. VettedCard'
  BY <1>2, <1>4 DEF VInv, VettedCard
<1> QED BY <1>5, <1>6, <1>7 DEF VInv

LEMMA NextVInv == TInv /\ VInv /\ [Next]_vars => VInv'
<1> SUFFICES ASSUME TInv, VInv, [Next]_vars PROVE VInv'
  OBVIOUS
<1>1. ASSUME NEW r \in Threads, AnswerOffered(r) \/ AnswerStray(r) PROVE VInv'
  <2>1. \E field, choice : Answer(r, field, choice)
    BY <1>1 DEF AnswerOffered, AnswerStray
  <2> QED BY <2>1, AnswerVInv
<1>2. ASSUME PayElsewhere \/ RemoveContact PROVE VInv'
  <2>1. Changes /\ AtFirst \cap live' \subseteq AtFirst \cap live
    BY <1>2 DEF PayElsewhere, RemoveContact
  <2> QED BY <2>1, ChangesVInv
<1>3. ASSUME AddOffered PROVE VInv'
  <2>1. Changes /\ AtFirst \cap live' \subseteq AtFirst \cap live
    BY <1>3 DEF AddOffered
  <2> QED BY <2>1, ChangesVInv
<1>4. ASSUME UNCHANGED vars PROVE VInv'
  <2>1. UNCHANGED draft /\ UNCHANGED given /\ UNCHANGED requests /\ Steady
    BY <1>4 DEF vars, Steady
  <2>2. CASE draft.status = "none"
    <3>1. \A s \in Threads : requests[s].at \notin Late
      BY <2>2 DEF TInv, Holds, Late
    <3>2. (\A s \in Threads : Vetted(requests[s]))' /\ VettedCard'
      BY <2>1, <2>2, <3>1 DEF Vetted, VettedCard, Late
    <3>3. Answers_'
      BY <2>1, <2>2 DEF VInv, Answers_, Tapped, Guesses
    <3> QED BY <3>2, <3>3 DEF VInv
  <2>3. CASE draft.status # "none"
    <3>1. /\ \A legs : (Came(legs) => Came(legs)') /\ (Checked(legs) => Checked(legs)')
          /\ \A legs : Resolves(legs)' = Resolves(legs) /\ FrozenNow(legs)' = FrozenNow(legs)
      BY <2>1, <2>3, SteadyIs, LaterIs
    <3>2. \A s \in Threads : Vetted(requests[s])'
      <4>1. \A s \in Threads : Kept(requests[s], requests'[s])
        BY <2>1 DEF Kept
      <4> QED BY <2>1, <2>3, <4>1, SteadyIs, KeptVetted
    <3>3. Answers_'
      BY <2>1, <2>3, AnswersStay DEF VInv, Answers_
    <3>4. VettedCard'
      BY <2>1, <3>1 DEF VInv, VettedCard
    <3> QED BY <3>2, <3>3, <3>4 DEF VInv
  <2> QED BY <2>2, <2>3
<1> QED
  BY <1>1, <1>2, <1>3, <1>4, AskVInv, ResolveVInv, ValidateVInv, PublishVInv DEF Next, Serve

LEMMA VInvariance == Spec => [](TInv /\ VInv)
<1>1. Init => TInv /\ VInv
  BY InitTInv, InitVInv
<1>2. (TInv /\ VInv) /\ [Next]_vars => (TInv /\ VInv)'
  BY NextTInv, NextVInv
<1> QED BY <1>1, <1>2, PTL DEF Spec
-----------------------------------------------------------------------------
\* A payment that came and was checked is one of the readings of its utterance.
\* Of any words, plan and answers, and whatever changed under it: of a card that
\* can be signed every leg pays who its mention calls or the user picked, and
\* whose name is in the transcript; from an account the plan means and no other is
\* named for; the figure of its own clause, or one of the figures that compete for
\* it, which the user chose (resolver/__init__.py:243, validator/__init__.py:326,
\* 390, 420, 484).  In one clause the figures of two payments are both its own.
THEOREM CardTheorem ==
  Spec => [](draft.status = "ready" => Came(draft.legs) /\ Checked(draft.legs))
<1>1. TInv /\ VInv => (draft.status = "ready" => Came(draft.legs) /\ Checked(draft.legs))
  BY DEF VInv, VettedCard
<1> QED BY <1>1, VInvariance, PTL

LEMMA ResolvableIs ==
  ASSUME NEW plan, NEW rivals, NEW i, NEW kind, NEW source \in DOMAIN Accounts, NEW target, NEW cents,
         NEW picked \in BOOLEAN,
         kind \in {"TRANSFER", "PAY_BILL", "BUY_EQUITY", "OWN_TRANSFER"}, target \in RowsOf(kind),
         IF kind = "OWN_TRANSFER"
         THEN plan[i].kind = "TRANSFER" /\ ~picked /\ target \in AccountsCalled(plan[i].target)
         ELSE kind = plan[i].kind /\ (picked \/ target \in EverCalled(plan[i])),
         \/ plan[i].amount.form = "symbolic" \/ SourcesCalled(plan[i].source) = {}
         \/ source \in SourcesCalled(plan[i].source)
         \/ kind = "OWN_TRANSFER" /\ target \in SourcesCalled(plan[i].source),
         IF i \in DOMAIN rivals THEN cents \in rivals[i] ELSE cents = plan[i].amount.n
  PROVE  [kind |-> kind, source |-> source, target |-> target, cents |-> cents, picked |-> picked]
           \in Resolvable(plan, rivals, i)
<1> DEFINE figures == IF i \in DOMAIN rivals THEN rivals[i] ELSE {plan[i].amount.n}
           paid == [kind |-> kind, source |-> source, target |-> target, cents |-> cents, picked |-> picked]
<1>1. target \in Rows
  BY DEF Rows
<1>2. cents \in figures
  OBVIOUS
<1>3. kind \in {plan[i].kind, "OWN_TRANSFER"}
  OBVIOUS
<1> HIDE DEF figures
<1>4. paid \in [kind : {plan[i].kind, "OWN_TRANSFER"}, source : DOMAIN Accounts, target : Rows,
                cents : figures, picked : BOOLEAN]
  BY <1>1, <1>2, <1>3
<1>5. /\ paid.kind = kind /\ paid.source = source /\ paid.target = target /\ paid.cents = cents
      /\ paid.picked = picked
  BY Zenon
<1> HIDE DEF paid
<1> QED BY <1>4, <1>5, Zenon DEF Resolvable, figures, paid

LEMMA SameChecks ==
  ASSUME NEW leg, NEW paid, leg.kind = paid.kind, leg.target = paid.target, leg.source = paid.source
  PROVE  /\ \A transcript : CheckBeneficiary(leg, transcript) = CheckBeneficiary(paid, transcript)
         /\ \A plan, u, clause : CheckSourceAccount(plan, leg, u, clause) = CheckSourceAccount(plan, paid, u, clause)
         /\ \A cents : Spending(leg, cents) = Spending(paid, cents)
         /\ SpentFrom(leg) = SpentFrom(paid)
<1>1. \A transcript : CheckBeneficiary(leg, transcript) = CheckBeneficiary(paid, transcript)
  BY DEF CheckBeneficiary
<1>2. \A plan, u, clause : CheckSourceAccount(plan, leg, u, clause) = CheckSourceAccount(plan, paid, u, clause)
  BY DEF CheckSourceAccount
<1>3. \A cents : Spending(leg, cents) = Spending(paid, cents)
  BY DEF Spending
<1> QED BY <1>1, <1>2, <1>3 DEF SpentFrom

\* The figure of a payment that was checked, and whether its payee was picked.
FigureOf(i, paid) ==
  IF i \in DOMAIN Spoken
  THEN CHOOSE cents \in Spoken[i] \cap extract_literal_cents[Transcript(Words)] :
         Chose(i, cents) /\ paid.amount = Spending(paid, cents)
  ELSE draft.plan[i].amount.n
PickedOne(i, paid) == paid.kind # "OWN_TRANSFER" /\ Picked(i, paid.target)
ReadingOf(i, paid) ==
  [kind |-> paid.kind, source |-> paid.source, target |-> paid.target,
   cents |-> FigureOf(i, paid), picked |-> PickedOne(i, paid)]

LEMMA FigureIs ==
  ASSUME TInv, draft.status # "none", NEW legs, Checked(legs), NEW i \in 1 .. Len(draft.plan),
         NEW cents, cents = FigureOf(i, legs[i])
  PROVE  IF i \in DOMAIN Spoken
         THEN /\ draft.plan[i].amount.form = "literal"
              /\ cents \in Spoken[i] \cap extract_literal_cents[Transcript(Words)]
              /\ Chose(i, cents) /\ legs[i].amount = Spending(legs[i], cents)
         ELSE cents = draft.plan[i].amount.n
<1>1. CASE i \in DOMAIN Spoken
  <2>1. draft.plan[i].amount.form = "literal"
    BY <1>1, DraftIs DEF SoundRivals
  <2>2. \E c \in Spoken[i] \cap extract_literal_cents[Transcript(Words)] :
          Chose(i, c) /\ legs[i].amount = Spending(legs[i], c)
    BY <1>1, <2>1 DEF Checked, CheckedOf
  <2>3. cents = CHOOSE c \in Spoken[i] \cap extract_literal_cents[Transcript(Words)] :
                  Chose(i, c) /\ legs[i].amount = Spending(legs[i], c)
    BY <1>1 DEF FigureOf
  <2>4. /\ cents \in Spoken[i] \cap extract_literal_cents[Transcript(Words)]
        /\ Chose(i, cents) /\ legs[i].amount = Spending(legs[i], cents)
    BY <2>2, <2>3, Zenon
  <2> QED BY <1>1, <2>1, <2>4
<1>2. CASE i \notin DOMAIN Spoken
  BY <1>2 DEF FigureOf
<1> QED BY <1>1, <1>2

LEMMA ReadingIs ==
  ASSUME TInv, draft.status # "none", NEW legs, Came(legs), Checked(legs),
         NEW i \in 1 .. Len(draft.plan)
  PROVE  ReadingOf(i, legs[i]) \in Readings(draft.said, draft.plan)[i]
<1> DEFINE planned == draft.plan[i]
           paid == legs[i]
           cents == FigureOf(i, paid)
           picked == PickedOne(i, paid)
           rivals == Competing(draft.plan, Said[draft.said].clauses)
           read == ReadingOf(i, paid)
<1>1. paid \in Resolved_ /\ paid.amount > 0
  BY DEF Came, CameFrom
<1>2. /\ IF paid.kind = "OWN_TRANSFER"
         THEN planned.kind = "TRANSFER" /\ paid.target \in AccountsCalled(planned.target)
         ELSE /\ paid.kind = planned.kind /\ paid.target \in RowsOf(planned.kind)
              /\ paid.target \in EverCalled(planned) \/ Picked(i, paid.target)
      /\ \/ From(legs, planned, paid.source)
         \/ paid.kind = "OWN_TRANSFER" /\ From(legs, planned, paid.target)
  BY DEF Came, CameFrom
<1>3. /\ CheckBeneficiary(paid, Transcript(Words))
      /\ CheckSourceAccount(draft.plan, paid, Words, ClauseOf(i))
      /\ planned.amount.form = "literal" /\ i \notin DOMAIN Spoken =>
           planned.amount.n \in extract_literal_cents[ClauseOf(i)] /\ paid.amount = Spending(paid, planned.amount.n)
      /\ planned.amount.form = "shares" => planned.amount.n \in share_counts[ClauseOf(i)]
  BY DEF Checked, CheckedOf
<1>4. IF i \in DOMAIN Spoken
      THEN /\ planned.amount.form = "literal"
           /\ cents \in Spoken[i] \cap extract_literal_cents[Transcript(Words)]
           /\ paid.amount = Spending(paid, cents)
      ELSE cents = planned.amount.n
  BY FigureIs
<1>5. rivals = Spoken
  BY DEF Spoken, Words
<1>6. picked = (paid.kind # "OWN_TRANSFER" /\ Picked(i, paid.target)) /\ picked \in BOOLEAN
  BY DEF PickedOne, Picked
<1>7. read = [kind |-> paid.kind, source |-> paid.source, target |-> paid.target,
              cents |-> cents, picked |-> picked]
  BY Zenon DEF ReadingOf
<1>8. /\ read.kind = paid.kind /\ read.source = paid.source /\ read.target = paid.target
      /\ read.cents = cents
  BY <1>7
<1>9. /\ paid.kind \in {"TRANSFER", "PAY_BILL", "BUY_EQUITY", "OWN_TRANSFER"}
      /\ paid.source \in DOMAIN Accounts
  BY <1>1 DEF Resolved_
<1>10. i \in DOMAIN draft.plan
  BY DraftIs
<1> HIDE DEF planned, paid, cents, picked, rivals, read
<1>11. read \in Resolvable(draft.plan, rivals, i)
  <2>1. paid.target \in RowsOf(paid.kind)
    <3>1. paid.kind = "OWN_TRANSFER" => paid.target \in RowsOf(paid.kind)
      BY <1>2, AccountsAre DEF RowsOf
    <3> QED BY <1>2, <3>1
  <2>2. /\ paid.kind = "OWN_TRANSFER" =>
             planned.kind = "TRANSFER" /\ ~picked /\ paid.target \in AccountsCalled(planned.target)
        /\ paid.kind # "OWN_TRANSFER" =>
             paid.kind = planned.kind /\ (picked \/ paid.target \in EverCalled(planned))
    BY <1>2, <1>6, Zenon
  <2>3. \/ planned.amount.form = "symbolic" \/ SourcesCalled(planned.source) = {}
        \/ paid.source \in SourcesCalled(planned.source)
        \/ paid.kind = "OWN_TRANSFER" /\ paid.target \in SourcesCalled(planned.source)
    BY <1>2 DEF From
  <2>4. IF i \in DOMAIN rivals THEN cents \in rivals[i] ELSE cents = planned.amount.n
    BY <1>4, <1>5
  <2> QED BY <1>6, <1>7, <1>9, <2>1, <2>2, <2>3, <2>4, ResolvableIs DEF planned
<1>12. planned.amount.form = "literal" => Spending(read, read.cents) > 0
  <2>1. planned.amount.form = "literal" => paid.amount = Spending(paid, cents)
    BY <1>3, <1>4
  <2>2. Spending(read, cents) = Spending(paid, cents)
    BY <1>8 DEF Spending
  <2> QED BY <1>1, <1>8, <2>1, <2>2 DEF paid
<1>13. Allowed(draft.plan, Words, rivals, i, read)
  <2>1. CheckBeneficiary(read, Transcript(Words)) /\ CheckSourceAccount(draft.plan, read, Words, ClauseOf(i))
    BY <1>3, <1>8, SameChecks
  <2>2. planned.amount.form = "literal" =>
          cents \in extract_literal_cents[IF i \in DOMAIN rivals THEN Transcript(Words) ELSE ClauseOf(i)]
    BY <1>3, <1>4, <1>5
  <2> QED BY <1>3, <1>8, <2>1, <2>2, Zenon DEF Allowed, ClauseOf, planned
<1> QED BY <1>10, <1>11, <1>12, <1>13, Zenon DEF Readings, Words, rivals, read, planned, paid

Reading_(legs) == [i \in DOMAIN draft.plan |-> ReadingOf(i, legs[i])]

LEMMA ReadingsAre ==
  ASSUME TInv, draft.status # "none", NEW legs, Came(legs), Checked(legs)
  PROVE  Reading_(legs) \in ComesTo(draft.plan, Readings(draft.said, draft.plan))
<1> DEFINE read == Reading_(legs)
           readings == Readings(draft.said, draft.plan)
<1>1. /\ DOMAIN draft.plan = 1 .. Len(draft.plan) /\ Len(draft.plan) \in Nat
      /\ \A i \in 1 .. Len(draft.plan) : PlanLeg(draft.plan[i], i)
  BY DraftIs DEF SoundPlan
<1>2. \A i \in DOMAIN draft.plan : read[i] = ReadingOf(i, legs[i]) /\ read[i] \in readings[i]
  BY <1>1, ReadingIs DEF Reading_
<1>3. DOMAIN readings = DOMAIN draft.plan
  BY Zenon DEF Readings
<1>6. ASSUME NEW i \in DOMAIN draft.plan
      PROVE  /\ read[i].source = legs[i].source /\ read[i].kind = legs[i].kind
             /\ read[i].target = legs[i].target
  <2> DEFINE figure == FigureOf(i, legs[i])
             picked == PickedOne(i, legs[i])
  <2>1. read[i] = [kind |-> legs[i].kind, source |-> legs[i].source, target |-> legs[i].target,
                   cents |-> figure, picked |-> picked]
    BY <1>2, Zenon DEF ReadingOf
  <2> HIDE DEF figure, picked, read
  <2> QED BY <2>1
<1>4. read \in [DOMAIN draft.plan -> UNION Range(readings)]
  <2>1. \A i \in DOMAIN draft.plan : readings[i] \in Range(readings)
    BY <1>3, Zenon DEF Range
  <2>2. \A i \in DOMAIN draft.plan : read[i] \in UNION Range(readings)
    BY <1>2, <2>1, Zenon
  <2>3. read = [i \in DOMAIN draft.plan |-> read[i]]
    BY DEF Reading_
  <2> HIDE DEF read, readings
  <2> QED BY <2>2, <2>3, Zenon
<1>5. ASSUME NEW i \in DOMAIN draft.plan PROVE SpentFromRef(draft.plan, read, i)
  <2> DEFINE after == draft.plan[i].amount.after
  <2> SUFFICES ASSUME draft.plan[i].amount.form = "symbolic"
               PROVE  \/ read[i].source = SpentFrom(read[after])
                      \/ read[i].kind = "OWN_TRANSFER" /\ read[i].target = SpentFrom(read[after])
    BY DEF SpentFromRef
  <2>1. after \in DOMAIN draft.plan
    BY <1>1 DEF PlanLeg
  <2>2. /\ read[i].source = legs[i].source /\ read[i].kind = legs[i].kind
        /\ read[i].target = legs[i].target
    BY <1>6
  <2>3. SpentFrom(read[after]) = SpentFrom(legs[after])
    <3>1. /\ read[after].source = legs[after].source /\ read[after].kind = legs[after].kind
          /\ read[after].target = legs[after].target
      BY <1>6, <2>1
    <3> QED BY <3>1 DEF SpentFrom
  <2>4. \/ From(legs, draft.plan[i], legs[i].source)
        \/ legs[i].kind = "OWN_TRANSFER" /\ From(legs, draft.plan[i], legs[i].target)
    BY <1>1 DEF Came, CameFrom
  <2> QED BY <2>2, <2>3, <2>4 DEF From
<1> HIDE DEF read, readings
<1> QED BY <1>2, <1>4, <1>5, Zenon DEF ComesTo, read, readings

\* What a payment means, its reading does.
LEMMA SameMeaning ==
  ASSUME NEW i, NEW paid, NEW want, NEW read, read = ReadingOf(i, paid)
  PROVE  Means(want, read, read.picked) = Means(want, paid, Picked(i, paid.target))
<1>1. /\ read.kind = paid.kind /\ read.source = paid.source /\ read.target = paid.target
  BY DEF ReadingOf
<1>2. read.picked = PickedOne(i, paid)
  BY Zenon DEF ReadingOf
<1>3. (read.picked /\ paid.kind # "OWN_TRANSFER") <=> (Picked(i, paid.target) /\ paid.kind # "OWN_TRANSFER")
  BY <1>2, Zenon DEF PickedOne
<1> QED BY <1>1, <1>3, Zenon DEF Means

\* Whatever plan the parser returns and whatever is answered, a card that can be
\* signed pays, leg by leg, what one clause says together, or what the user picked
\* when asked (validator/__init__.py:326, 420, 484): of any utterances whose words
\* let nothing else through on a ledger that stands still.  Two payments of one
\* clause with their figures swapped are let through, and no exception to it.
THEOREM SaidTheorem == ASSUME OnlyWhatIsSaid PROVE Spec => []SaidTogether
<1>1. TInv /\ VInv => SaidTogether
  <2> SUFFICES ASSUME TInv, VInv, draft.status = "ready", NEW i \in DOMAIN draft.legs
               PROVE  \E want \in Said[draft.said].wants :
                        /\ Means(want, draft.legs[i], Picked(i, draft.legs[i].target))
                        /\ SaidFor(want, i, draft.plan[i].amount, draft.legs[i])
    BY DEF SaidTogether
  <2> DEFINE paid == draft.legs[i]
             amount == draft.plan[i].amount
             read == Reading_(draft.legs)
  <2>1. /\ Came(draft.legs) /\ Checked(draft.legs) /\ draft.status # "none"
        /\ draft.said \in DOMAIN Said /\ draft.plan \in Said[draft.said].plans
    BY DEF VInv, VettedCard, TInv, Draft_
  <2>2. i \in 1 .. Len(draft.plan) /\ i \in DOMAIN draft.plan
    BY <2>1, DraftIs DEF TInv, Card, Whole_
  <2>3. read \in ComesTo(draft.plan, Readings(draft.said, draft.plan))
    BY <2>1, ReadingsAre
  <2>4. PICK want \in Said[draft.said].wants :
          Wanted(Said[draft.said].wants, want, amount,
                 i \in DOMAIN Competing(draft.plan, Said[draft.said].clauses), read[i])
    BY <2>1, <2>2, <2>3 DEF OnlyWhatIsSaid
  <2>5. read[i] = ReadingOf(i, paid)
    BY <2>2 DEF Reading_
  <2>6. Means(want, paid, Picked(i, paid.target))
    BY <2>4, <2>5, SameMeaning DEF Wanted
  <2>7. amount.form \in {"literal", "shares", "symbolic"}
    BY <2>1, <2>2, DraftIs DEF PlanLeg, Leg_
  <2>8. CheckedOf(i, draft.legs)
    BY <2>1, <2>2 DEF Checked
  <2>9. ASSUME amount.form = "literal", i \in DOMAIN Spoken PROVE SaidFor(want, i, amount, paid)
    BY <2>8, <2>9 DEF CheckedOf, SaidFor
  <2>10. ASSUME amount.form = "literal", i \notin DOMAIN Spoken PROVE SaidFor(want, i, amount, paid)
    <3>1. amount.n \in AmountsBeside(Said[draft.said].wants, want)
      BY <2>4, <2>10 DEF Wanted, Spoken, Words
    <3>2. paid.amount = Spending(paid, amount.n)
      BY <2>8, <2>10 DEF CheckedOf
    <3> QED BY <2>10, <3>1, <3>2 DEF SaidFor
  <2>11. ASSUME amount.form = "shares" PROVE SaidFor(want, i, amount, paid)
    <3>1. amount.n \in CountsBeside(Said[draft.said].wants, want)
      BY <2>4, <2>11 DEF Wanted
    <3>2. paid.shares = amount.n /\ paid.amount = amount.n * Equities[paid.target].price
      BY <2>8, <2>11 DEF CheckedOf
    <3> QED BY <2>11, <3>1, <3>2 DEF SaidFor
  <2>12. ASSUME amount.form = "symbolic" PROVE SaidFor(want, i, amount, paid)
    BY <2>12 DEF SaidFor
  <2> QED BY <2>6, <2>7, <2>9, <2>10, <2>11, <2>12
<1> QED BY <1>1, VInvariance, PTL

\* An amount that was said two ways is only ever the one the user answered: "50 no
\* wait 500" (validator/__init__.py:390), of any utterances whose words make the
\* amounts of one payment compete.
THEOREM GuessTheorem == ASSUME SaidTwiceCompetes PROVE Spec => []NeverGuesses
<1>1. TInv /\ VInv => NeverGuesses
  <2> SUFFICES ASSUME TInv, VInv, draft.status = "ready",
                      Len(draft.plan) <= Cardinality(Said[draft.said].wants),
                      NEW i \in DOMAIN draft.legs, NEW want \in Said[draft.said].wants,
                      Means(want, draft.legs[i], Picked(i, draft.legs[i].target)),
                      Cardinality(want.amounts) > 1, draft.plan[i].amount.form = "literal"
               PROVE  \E c \in want.amounts : Chose(i, c) /\ draft.legs[i].amount = Spending(draft.legs[i], c)
    BY DEF NeverGuesses
  <2> DEFINE paid == draft.legs[i]
             read == Reading_(draft.legs)
  <2>1. /\ Came(draft.legs) /\ Checked(draft.legs) /\ draft.status # "none"
        /\ draft.said \in DOMAIN Said /\ draft.plan \in Said[draft.said].plans
    BY DEF VInv, VettedCard, TInv, Draft_
  <2>2. i \in 1 .. Len(draft.plan) /\ i \in DOMAIN draft.plan
    BY <2>1, DraftIs DEF TInv, Card, Whole_
  <2>3. read \in ComesTo(draft.plan, Readings(draft.said, draft.plan))
    BY <2>1, ReadingsAre
  <2>4. read[i] = ReadingOf(i, paid)
    BY <2>2 DEF Reading_
  <2>5. Means(want, read[i], read[i].picked)
    BY <2>4, SameMeaning
  <2>6. /\ i \in DOMAIN Competing(draft.plan, Said[draft.said].clauses)
        /\ read[i].cents \in want.amounts
    <3> HIDE DEF read
    <3> QED BY <2>1, <2>2, <2>3, <2>5 DEF SaidTwiceCompetes
  <2>7. read[i].cents = FigureOf(i, paid) /\ i \in DOMAIN Spoken
    BY <2>4, <2>6 DEF ReadingOf, Spoken, Words
  <2>8. Chose(i, FigureOf(i, paid)) /\ paid.amount = Spending(paid, FigureOf(i, paid))
    BY <2>1, <2>2, <2>7, FigureIs
  <2> QED BY <2>6, <2>7, <2>8
<1> QED BY <1>1, VInvariance, PTL

\* A payment of the plan that says what was said, resolved with answers that were
\* offered and no contact tapped for a name that is nobody's, passes every check.
LEMMA PassesLeg ==
  ASSUME RightPlanIsSaid, TInv, VInv, draft.status # "none", draft.plan = Said[draft.said].plan,
         \A g \in given : g.asked /\ ~g.guess,
         NEW legs, Taken(legs), NEW recomputed, NEW i \in 1 .. Len(draft.plan),
         draft.plan[i].amount.form = "symbolic" => legs[i].amount = recomputed[i]
  PROVE  ~LegFails(i, draft.plan, legs[i], Words, ClauseOf(i), Spoken, Answered, recomputed)
<1> DEFINE planned == draft.plan[i]
           paid == legs[i]
           figure == Figure(draft.plan, Spoken, draft.answers, i)
           read == [kind |-> paid.kind, source |-> paid.source, target |-> paid.target,
                    cents |-> figure, picked |-> FALSE]
<1>1. i \in DOMAIN draft.plan /\ i \in 1 .. MaxLegs /\ PlanLeg(planned, i) /\ draft.said \in DOMAIN Said
  BY DraftIs DEF TInv, Draft_
<1>2. PICK leg : /\ TakenFrom(leg, draft.plan, Spoken, draft.answers, i)
                 /\ Reads(legs, i, leg, live, draft.answers, paid)
  BY DEF Taken, TakenAll
<1>3. /\ leg.kind = planned.kind /\ leg.source = planned.source /\ leg.target = planned.target
      /\ leg.amount.form = planned.amount.form /\ leg.amount.n = figure
      /\ i \in DOMAIN Spoken => planned.amount.form = "literal" /\ figure \in Spoken[i]
      /\ i \in DOMAIN Spoken => figure = draft.answers[Field(i, "amount")].cents
      /\ i \notin DOMAIN Spoken => figure = planned.amount.n
  BY <1>2, DraftIs DEF TakenFrom, Figure, SoundRivals
<1>4. EverCalled(leg) = EverCalled(planned) /\ Called(leg, live) = Called(planned, live)
  BY <1>2, PlannedIs
<1>5. /\ planned.target # <<>>
      /\ \A read_ \in Resolvable(draft.plan, Spoken, i) :
           ~read_.picked => Allowed(draft.plan, Words, Spoken, i, read_)
  BY <1>1, Zenon DEF RightPlanIsSaid, Spoken, Words
<1>6. CameFrom(i, legs) /\ paid \in Resolved_
  BY TakenCame DEF VInv, Came, CameFrom
<1>7. AsPlanned(leg, paid)
  BY <1>2 DEF Reads
<1> HIDE DEF figure, read
<1>8. paid.kind # "OWN_TRANSFER" => paid.target \in EverCalled(planned)
  <2> SUFFICES ASSUME paid.kind # "OWN_TRANSFER" PROVE paid.target \in EverCalled(planned)
    OBVIOUS
  <2>1. To(live, i, leg, draft.answers, paid.target)
    BY <1>2 DEF Reads
  <2>2. CASE paid.target \in Called(planned, live)
    <3>1. live \in SUBSET DOMAIN Contacts /\ Leg_(planned)
      BY <1>1 DEF TInv, Tables, PlanLeg
    <3> QED BY <2>2, <3>1, CalledIs
  <2>3. CASE /\ paid.target \in RowsOf(planned.kind)
             /\ draft.answers[TargetField(i, planned.kind)].row = paid.target
    <3>1. TargetField(i, planned.kind) \in Fields
      BY <1>1, FieldIs DEF TargetField
    <3>2. paid.target # NoRow
      BY <1>1, <2>3, RowsAre DEF PlanLeg, Leg_
    <3> DEFINE answer == draft.answers[TargetField(i, planned.kind)]
    <3>a. \E g \in given : g.field = TargetField(i, planned.kind) /\ g.choice = answer
      <4>1. Answers_ /\ answer.row # NoRow
        BY <2>3, <3>2 DEF VInv
      <4> QED BY <3>1, <4>1, GivenIs
    <3>3. PICK g \in given : g.field = TargetField(i, planned.kind) /\ g.choice.row = paid.target
      BY <2>3, <3>a
    <3>4. Tapped(g) /\ ~Guesses(g)
      BY DEF VInv, Answers_, Guesses
    <3> QED BY <1>5, <3>3, <3>4 DEF Tapped
  <2> QED BY <1>3, <1>4, <2>1, <2>2, <2>3 DEF To
<1>9. read \in Resolvable(draft.plan, Spoken, i)
  <2>1. /\ paid.kind \in {"TRANSFER", "PAY_BILL", "BUY_EQUITY", "OWN_TRANSFER"}
        /\ paid.source \in DOMAIN Accounts /\ FALSE \in BOOLEAN
    BY <1>6 DEF Resolved_
  <2>2. IF paid.kind = "OWN_TRANSFER"
        THEN planned.kind = "TRANSFER" /\ paid.target \in AccountsCalled(planned.target)
        ELSE paid.kind = planned.kind /\ paid.target \in RowsOf(planned.kind)
    BY <1>6 DEF CameFrom
  <2>3. paid.target \in RowsOf(paid.kind)
    <3>1. paid.kind = "OWN_TRANSFER" => paid.target \in RowsOf(paid.kind)
      BY <2>2, AccountsAre DEF RowsOf
    <3> QED BY <2>2, <3>1
  <2>4. \/ planned.amount.form = "symbolic" \/ SourcesCalled(planned.source) = {}
        \/ paid.source \in SourcesCalled(planned.source)
        \/ paid.kind = "OWN_TRANSFER" /\ paid.target \in SourcesCalled(planned.source)
    BY <1>6 DEF CameFrom, From
  <2>5. IF i \in DOMAIN Spoken THEN figure \in Spoken[i] ELSE figure = planned.amount.n
    BY <1>3
  <2>6. IF paid.kind = "OWN_TRANSFER"
        THEN planned.kind = "TRANSFER" /\ ~FALSE /\ paid.target \in AccountsCalled(planned.target)
        ELSE paid.kind = planned.kind /\ (FALSE \/ paid.target \in EverCalled(planned))
    BY <1>8, <2>2
  <2> HIDE DEF paid
  <2> QED BY <2>1, <2>3, <2>4, <2>5, <2>6, ResolvableIs DEF read
<1>10. /\ read.kind = paid.kind /\ read.source = paid.source /\ read.target = paid.target
       /\ read.cents = figure /\ ~read.picked
  BY Zenon DEF read
<1>11. Allowed(draft.plan, Words, Spoken, i, read)
  BY <1>5, <1>9, <1>10
<1>12. /\ CheckBeneficiary(paid, Transcript(Words))
       /\ CheckSourceAccount(draft.plan, paid, Words, ClauseOf(i))
       /\ planned.amount.form = "literal" =>
            figure \in extract_literal_cents[IF i \in DOMAIN Spoken THEN Transcript(Words) ELSE ClauseOf(i)]
       /\ planned.amount.form = "shares" => planned.amount.n \in share_counts[ClauseOf(i)]
  <2>1. CheckBeneficiary(read, Transcript(Words)) /\ CheckSourceAccount(draft.plan, read, Words, ClauseOf(i))
    BY <1>11, Zenon DEF Allowed, ClauseOf
  <2>2. /\ planned.amount.form = "literal" =>
             read.cents \in extract_literal_cents[IF i \in DOMAIN Spoken THEN Transcript(Words) ELSE ClauseOf(i)]
        /\ planned.amount.form = "shares" => planned.amount.n \in share_counts[ClauseOf(i)]
    BY <1>11, Zenon DEF Allowed, ClauseOf
  <2> QED BY <1>10, <2>1, <2>2, SameChecks
<1> HIDE DEF paid, planned
<1>13. CASE i \in DOMAIN Spoken
  <2> DEFINE told == [draft.plan EXCEPT ![i].amount = Literal(figure)]
  <2>1. Answered[i] = figure
    BY <1>1, <1>3, <1>13 DEF Answered
  <2>2. told[i].amount = Literal(figure)
    <3>1. told[i] = [planned EXCEPT !.amount = Literal(figure)]
      BY <1>1 DEF planned
    <3>2. "amount" \in DOMAIN planned
      BY <1>1 DEF PlanLeg, Leg_
    <3> QED BY <3>1, <3>2
  <2>3. Literal(figure).form = "literal" /\ Literal(figure).n = figure
    BY DEF Literal
  <2>4. figure \in extract_literal_cents[Transcript(Words)] /\ paid.amount = Spending(paid, figure)
    BY <1>3, <1>7, <1>12, <1>13 DEF AsPlanned
  <2> HIDE DEF told
  <2>5. CheckAmount(i, told, paid, Transcript(Words), recomputed)
    BY <2>2, <2>3, <2>4 DEF CheckAmount, Spending
  <2>6. CheckCompeting(i, draft.plan, paid, Words, Answered[i], Spoken[i], recomputed)
    BY <1>3, <1>13, <2>1, <2>5 DEF CheckCompeting, told
  <2> QED BY <1>12, <1>13, <2>6 DEF LegFails, paid
<1>14. CASE i \notin DOMAIN Spoken
  <2>1. CheckAmount(i, draft.plan, paid, ClauseOf(i), recomputed)
    <3>1. CASE planned.amount.form = "literal"
      <4>1. planned.amount.n \in extract_literal_cents[ClauseOf(i)] /\ paid.amount = Spending(paid, planned.amount.n)
        BY <1>3, <1>7, <1>12, <1>14, <3>1 DEF AsPlanned
      <4> QED BY <3>1, <4>1 DEF CheckAmount, Spending, planned
    <3>2. CASE planned.amount.form = "shares"
      <4>1. paid.shares = planned.amount.n /\ paid.amount = planned.amount.n * Equities[paid.target].price
        BY <1>3, <1>7, <1>14, <3>2 DEF AsPlanned
      <4> QED BY <1>12, <3>2, <4>1 DEF CheckAmount, planned
    <3>3. CASE planned.amount.form = "symbolic"
      BY <3>3 DEF CheckAmount, planned, paid
    <3> QED BY <1>1, <3>1, <3>2, <3>3 DEF PlanLeg, Leg_
  <2> QED BY <1>12, <1>14, <2>1 DEF LegFails, paid
<1> QED BY <1>13, <1>14

\* "A false freeze on a correct plan is worse" (validator/__init__.py): a plan that
\* says what the user said is never frozen while nothing changed, by answers that
\* were asked for, of any utterances in which the words pass whatever their
\* mentions call.
THEOREM FreezeTheorem == ASSUME RightPlanIsSaid PROVE Spec => []NoFalseFreeze
<1>1. TInv /\ VInv => NoFalseFreeze
  <2> SUFFICES ASSUME TInv, VInv, draft.status = "frozen", draft.current,
                      \A g \in given : g.asked /\ ~g.guess, draft.plan = Said[draft.said].plan
               PROVE  FALSE
    BY DEF NoFalseFreeze
  <2> DEFINE legs == draft.legs
             recomputed == RecomputeSymbolic(draft.plan, legs, balances)
  <2>1. draft.status # "none" /\ Resolves(legs) /\ FrozenNow(legs)
    BY DEF VInv, VettedCard
  <2>2. Whole_(legs) /\ recomputed = [i \in DOMAIN draft.plan |-> legs[i].amount] /\ Taken(legs)
    BY <2>1, AgainIs DEF Resolves
  <2>3. PICK i \in DOMAIN draft.plan :
          LegFails(i, draft.plan, legs[i], Words, ClauseOf(i), Spoken, Answered, recomputed)
    BY <2>1, <2>2, Zenon DEF FrozenNow, Frozen, Whole_, ClauseOf
  <2>4. i \in 1 .. Len(draft.plan) /\ legs[i].amount = recomputed[i]
    BY <2>1, <2>2, DraftIs
  <2> HIDE DEF legs, recomputed
  <2> QED BY <2>1, <2>2, <2>3, <2>4, PassesLeg
<1> QED BY <1>1, VInvariance, PTL
=============================================================================
