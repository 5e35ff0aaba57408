------------------------------- MODULE Resolver -------------------------------
(* From mentions and symbolic amounts to rows and cents, or to one question   *)
(* (resolver/__init__.py): no model, a copy of the ledger, integers only.     *)
EXTENDS Reading

NoRow   == "none"
NoCents == -1
Choice(row)   == [row |-> row, cents |-> NoCents]
Chosen(cents) == [row |-> NoRow, cents |-> cents]
Unanswered    == Choice(NoRow)
Field(leg, what) == <<leg, what>>
NoField == Field(0, "")

NoQuestion == [field |-> NoField, kind |-> "none", choices |-> {}, unknown |-> <<>>]
Clarify(field, kind, choices) ==
  [field |-> field, kind |-> kind, choices |-> choices, unknown |-> <<>>]

---------------------------------------------------------------------------
(* Mentions.                                                                 *)

Filler == {"my", "the", "a", "an", "account", "accounts", "please", "to"}
Normalize(words) ==
  LET kept == SelectSeq(words, LAMBDA w : w \notin Filler)
  IN IF kept = <<>> THEN words ELSE kept

Synonyms == [investment |-> "settlement", investments |-> "settlement", invest |-> "settlement",
             brokerage |-> "settlement", trading |-> "settlement", current |-> "joint",
             checking |-> "joint", spending |-> "joint", everyday |-> "joint",
             saving |-> "savings"]
AccountTypes == Range(Accounts)
TypeOf(word) == IF word \in DOMAIN Synonyms THEN Synonyms[word] ELSE word

NamesAnAccount(mention) ==
  Normalize(mention) \notin {<<"default">>, <<>>, <<"mine">>, <<"usual">>}

\* Several words that all name one type name it; words for two types name none.
AccountsCalled(mention) ==
  LET norm  == Normalize(mention)
      typed == {TypeOf(norm[i]) : i \in {j \in DOMAIN norm : norm[j] \in DOMAIN Synonyms
                                                            \/ norm[j] \in AccountTypes}}
  IN IF Cardinality(typed) = 1 THEN {a \in DOMAIN Accounts : Accounts[a] \in typed} ELSE {}

Nicknamed(live, mention) == {p \in live : Normalize(Contacts[p].nickname) = Normalize(mention)}
Legally(live, mention)   == {p \in live : Normalize(Contacts[p].legal) = Normalize(mention)}
PayeesCalled(live, mention) ==
  IF Nicknamed(live, mention) # {} THEN Nicknamed(live, mention) ELSE Legally(live, mention)
BillersCalled(mention)  == {b \in DOMAIN Billers : Normalize(Billers[b]) = Normalize(mention)}
EquitiesCalled(mention) == {t \in DOMAIN Equities : Normalize(mention) \in Equities[t].names}

Called(leg, people) ==
  CASE leg.kind = "TRANSFER"   -> PayeesCalled(people, leg.target)
    [] leg.kind = "PAY_BILL"   -> BillersCalled(leg.target)
    [] leg.kind = "BUY_EQUITY" -> EquitiesCalled(leg.target)

\* 0, 1 or more rows: an answer only ever picks among the rows the mention
\* matched, or among all of the user's when it matched none.
PickUnanswerable(rows, all, mention, kind, field, answer) ==  \* mutant: a 0-match re-asks for ever
  IF Cardinality(rows) = 1 THEN [row |-> CHOOSE r \in rows : TRUE, asks |-> NoQuestion]
  ELSE IF answer.row \in rows THEN [row |-> answer.row, asks |-> NoQuestion]
  ELSE [row |-> NoRow, asks |-> Clarify(field, kind, {Choice(r) : r \in (IF rows = {} THEN all ELSE rows)})]
PickAnything(rows, all, mention, kind, field, answer) ==      \* mutant: the answer is taken at its word
  IF Cardinality(rows) = 1 THEN [row |-> CHOOSE r \in rows : TRUE, asks |-> NoQuestion]
  ELSE IF answer.row \in all THEN [row |-> answer.row, asks |-> NoQuestion]
  ELSE [row |-> NoRow, asks |-> Clarify(field, kind, {Choice(r) : r \in (IF rows = {} THEN all ELSE rows)})]
Pick(rows, all, mention, kind, field, answer) ==
  LET candidates == IF rows = {} THEN all ELSE rows
  IN IF Cardinality(rows) = 1 THEN [row |-> CHOOSE r \in rows : TRUE, asks |-> NoQuestion]
     ELSE IF answer.row \in candidates THEN [row |-> answer.row, asks |-> NoQuestion]
     ELSE [row |-> NoRow,
           asks |-> [Clarify(field, kind, {Choice(r) : r \in candidates})
                       EXCEPT !.unknown = IF rows = {} THEN mention ELSE <<>>]]

---------------------------------------------------------------------------
(* One leg, against the ledger as the legs before it leave it: the balances, *)
(* the source of each leg, and what moved between the user's own accounts.   *)

Found(row) == [row |-> row, asks |-> NoQuestion]
MovedBy(sim, leg) ==
  leg.amount.form = "symbolic" /\ sim.legs[leg.amount.after].kind = "OWN_TRANSFER"

\* The account a symbolic leg spends from is derived, never stated.
SpentFrom(ref) == IF ref.kind = "OWN_TRANSFER" THEN ref.target ELSE ref.source

\* The accounts that a mention calls; savings, or the only account, if it says none.
SourcesCalled(mention) ==
  LET savings == {a \in DOMAIN Accounts : Accounts[a] = "savings"}
  IN IF NamesAnAccount(mention) THEN AccountsCalled(mention)
     ELSE IF Cardinality(savings) = 1 THEN savings
     ELSE IF Cardinality(DOMAIN Accounts) = 1 THEN DOMAIN Accounts ELSE {}
SourceAccount(sim, i, leg, answers) ==
  LET field == Field(i, "source_account")
  IN IF leg.amount.form = "symbolic" THEN Found(SpentFrom(sim.legs[leg.amount.after]))
     ELSE Pick(SourcesCalled(leg.source), DOMAIN Accounts, leg.source, "account", field, answers[field])

\* A transfer to one of the user's own accounts: every word must be an account
\* word, and a payee of that name comes first.
OwnAccount(live, leg) ==
  LET norm == Normalize(leg.target)
      own  == AccountsCalled(leg.target)
  IN IF /\ leg.kind = "TRANSFER" /\ NamesAnAccount(leg.target)
        /\ \A n \in DOMAIN norm : norm[n] \in (DOMAIN Synonyms \union AccountTypes)
        /\ PayeesCalled(live, leg.target) = {}
        /\ Cardinality(own) = 1
     THEN CHOOSE a \in own : TRUE ELSE NoRow

\* Money cannot come from where it goes: the one other everyday account if no
\* source was named, else a question among the others.
NotFromItself(i, leg, source, own, answers) ==
  LET field    == Field(i, "source_account")
      others   == DOMAIN Accounts \ {own}
      everyday == {a \in others : Accounts[a] # "settlement"}
  IN IF own = NoRow \/ source.row # own THEN source
     ELSE IF answers[field].row \in others THEN Found(answers[field].row)
     ELSE IF ~NamesAnAccount(leg.source) /\ Cardinality(everyday) = 1
          THEN Found(CHOOSE a \in everyday : TRUE)
     ELSE [row |-> NoRow, asks |-> Clarify(field, "account", {Choice(a) : a \in others})]

TargetField(i, kind) == Field(i, IF kind = "BUY_EQUITY" THEN "ticker" ELSE "target")
Target(live, i, leg, own, answers) ==
  LET field == TargetField(i, leg.kind)
      pick(all, kind) == Pick(Called(leg, live), all, leg.target, kind, field, answers[field])
  IN IF own # NoRow THEN Found(own) ELSE
     CASE leg.kind = "TRANSFER"   -> pick(live, "payee")
       [] leg.kind = "PAY_BILL"   -> pick(DOMAIN Billers, "biller")
       [] leg.kind = "BUY_EQUITY" -> pick(DOMAIN Equities, "equity")

\* What the leg may spend: "it" after a move is the money moved, else what is
\* left in the account of the leg it refers to.
Allotted(sim, leg) ==
  LET ref == sim.legs[leg.amount.after]
      now == IF MovedBy(sim, leg) THEN ref.amount ELSE sim.balances[ref.source]
  IN CASE leg.amount.form = "literal" -> leg.amount.n
       [] leg.amount.form = "symbolic" -> IF leg.amount.op = "ALL" THEN now ELSE now \div 2

ResolvedLeg(kind, source, target, amount, shares) ==
  [kind |-> kind, source |-> source, target |-> target, amount |-> amount, shares |-> shares]

\* Whole shares only: the spend is signed and the remainder stays.
Priced(sim, leg, source, target, own) ==
  LET price  == Equities[target].price
      shares == IF leg.amount.form = "shares" THEN leg.amount.n ELSE Allotted(sim, leg) \div price
  IN IF leg.kind = "BUY_EQUITY"
     THEN ResolvedLeg("BUY_EQUITY", source, target, shares * price, shares)
     ELSE ResolvedLeg(IF own = NoRow THEN leg.kind ELSE "OWN_TRANSFER", source, target,
                      Allotted(sim, leg), 0)

ApplyNothing(sim, leg) == [sim EXCEPT !.legs = Append(@, leg)]   \* mutant: legs checked one by one
Apply(sim, leg) ==
  LET debited == [sim.balances EXCEPT ![leg.source] = @ - leg.amount]
  IN [sim EXCEPT !.legs = Append(@, leg),
                 !.balances = IF leg.kind = "OWN_TRANSFER"
                              THEN [debited EXCEPT ![leg.target] = @ + leg.amount] ELSE debited]

Asking(sim, question) == [sim EXCEPT !.asks = question]

\* Nothing to spend or too little of it ends the plan.
Spend(sim, i, paid) ==
  LET refuse(kind) == Asking(sim, Clarify(Field(i, "amount"), kind, {}))
  IN IF paid.kind = "BUY_EQUITY" /\ paid.shares = 0 THEN refuse("equity_too_small")
     ELSE IF paid.amount <= 0 THEN refuse("zero")
     ELSE IF sim.balances[paid.source] < paid.amount THEN refuse("insufficient")
     ELSE Apply(sim, paid)
Sourced(sim, i, leg, own, source, target) ==
  IF source.asks # NoQuestion THEN Asking(sim, source.asks)
  ELSE IF target.asks # NoQuestion THEN Asking(sim, target.asks)
  ELSE Spend(sim, i, Priced(sim, leg, source.row, target.row, own))
Named(sim, i, leg, live, answers, named, own) ==
  IF named.asks # NoQuestion THEN Asking(sim, named.asks)
  ELSE Sourced(sim, i, leg, own, NotFromItself(i, leg, named, own, answers),
               Target(live, i, leg, own, answers))
ResolveLeg(sim, i, leg, live, answers) ==
  Named(sim, i, leg, live, answers, SourceAccount(sim, i, leg, answers), OwnAccount(live, leg))

---------------------------------------------------------------------------
(* resolve(): first the amounts said two ways, in plan order, then the legs. *)

Open(rivals, answers) ==
  {i \in DOMAIN rivals : answers[Field(i, "amount")].cents \notin rivals[i]}
AsksAmount(rivals, i) ==
  IF rivals[i] = {} THEN Clarify(Field(i, "amount"), "restate", {})
  ELSE Clarify(Field(i, "amount"), "amount", {Chosen(c) : c \in rivals[i]})

Effective(plan, rivals, answers) ==
  [i \in DOMAIN plan |->
     IF i \in DOMAIN rivals
     THEN [plan[i] EXCEPT !.amount = Literal(answers[Field(i, "amount")].cents)] ELSE plan[i]]

Resolve(plan, rivals, answers, live, balances) ==
  LET start == [legs |-> <<>>, balances |-> balances, asks |-> NoQuestion]
      open  == Open(rivals, answers)
      legs  == Effective(plan, rivals, answers)
      sim[i \in 0 .. Len(plan)] ==
        IF i = 0 THEN start
        ELSE IF sim[i - 1].asks # NoQuestion THEN sim[i - 1]
        ELSE ResolveLeg(sim[i - 1], i, legs[i], live, answers)
  IN IF plan = <<>> THEN Asking(start, Clarify(NoField, "empty", {}))
     ELSE IF open # {} THEN Asking(start, AsksAmount(rivals, Min(open)))
     ELSE sim[Len(plan)]
=============================================================================
