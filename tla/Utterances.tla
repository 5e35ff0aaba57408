------------------------------ MODULE Utterances ------------------------------
(* What the words of an utterance allow a plan to come to, leg by leg, on any   *)
(* ledger, with any contacts left and whatever is answered: a reading of a leg  *)
(* is [kind, source, target, cents, picked], where the user picked the payee    *)
(* for a name that was nobody's.  Constants only: no thread, no order, no time. *)
EXTENDS Turns

RowsOf(kind) ==
  CASE kind = "TRANSFER"     -> DOMAIN Contacts
    [] kind = "PAY_BILL"     -> DOMAIN Billers
    [] kind = "BUY_EQUITY"   -> DOMAIN Equities
    [] kind = "OWN_TRANSFER" -> DOMAIN Accounts
Rows == UNION {RowsOf(kind) : kind \in {"TRANSFER", "PAY_BILL", "BUY_EQUITY", "OWN_TRANSFER"}}

\* The rows that a leg's mention calls, whoever is left.
EverCalled(leg) == UNION {Called(leg, people) : people \in SUBSET DOMAIN Contacts}

\* The resolver: a row that the mention calls among some of the contacts, an own
\* account, or one that was picked; the figure planned, or one of its rivals.
Resolvable(plan, rivals, i) ==
  LET leg == plan[i]
      ever == EverCalled(leg)
      called == SourcesCalled(leg.source)
  IN {paid \in [kind : {leg.kind, "OWN_TRANSFER"}, source : DOMAIN Accounts, target : Rows,
                cents : IF i \in DOMAIN rivals THEN rivals[i] ELSE {leg.amount.n}, picked : BOOLEAN] :
        /\ IF paid.kind = "OWN_TRANSFER"
           THEN leg.kind = "TRANSFER" /\ ~paid.picked /\ paid.target \in AccountsCalled(leg.target)
           ELSE paid.target \in RowsOf(leg.kind) /\ (paid.picked \/ paid.target \in ever)
        /\ \/ leg.amount.form = "symbolic" \/ called = {} \/ paid.source \in called
           \/ paid.kind = "OWN_TRANSFER" /\ paid.target \in called}

\* A symbolic leg spends from where the leg it refers to left the money, unless
\* that is where it goes.
SpentFromRef(plan, legs, i) ==
  plan[i].amount.form = "symbolic" =>
    LET from == SpentFrom(legs[plan[i].amount.after])
    IN legs[i].source = from \/ (legs[i].kind = "OWN_TRANSFER" /\ legs[i].target = from)

\* The validator: the payee and the figure are said, and no other account.
Allowed(plan, u, rivals, i, leg) ==
  LET clause == LegClause(MatchClauses(plan, ClausesOf(plan, u)), u, i)
      amount == plan[i].amount
  IN /\ CheckBeneficiary(leg, Transcript(u)) /\ CheckSourceAccount(plan, leg, u, clause)
     /\ amount.form = "literal" =>
          leg.cents \in extract_literal_cents[IF i \in DOMAIN rivals THEN Transcript(u) ELSE clause]
     /\ amount.form = "shares" => amount.n \in share_counts[clause]

\* Everything that a plan of an utterance may come to: a figure is spent, and on
\* a share at least.
ComesTo(plan, readings) ==
  {legs \in [DOMAIN plan -> UNION Range(readings)] :
     \A i \in DOMAIN plan : legs[i] \in readings[i] /\ SpentFromRef(plan, legs, i)}
Readings(said, plan) ==
  LET u == Said[said].clauses
      rivals == Competing(plan, u)
  IN [i \in DOMAIN plan |->
        {leg \in Resolvable(plan, rivals, i) :
           /\ plan[i].amount.form = "literal" => Spending(leg, leg.cents) > 0
           /\ Allowed(plan, u, rivals, i, leg)}]

\* Whatever the words let through is something they say: for every leg there is
\* a payment asked for that it is, for a figure or a number of shares of the
\* clause that asks for it.  A figure that others compete with is the user's to
\* choose.
Wanted(wants, want, amount, competes, leg) ==
  /\ Means(want, leg, leg.picked)
  /\ amount.form = "literal" => competes \/ amount.n \in AmountsBeside(wants, want)
  /\ amount.form = "shares" => amount.n \in CountsBeside(wants, want)
OnlyWhatIsSaid ==
  \A said \in DOMAIN Said : \A plan \in Said[said].plans :
    \A legs \in ComesTo(plan, Readings(said, plan)) : \A i \in DOMAIN plan :
      \E want \in Said[said].wants :
        Wanted(Said[said].wants, want, plan[i].amount, i \in DOMAIN Competing(plan, Said[said].clauses), legs[i])

\* A payment said in two amounts is one that they compete for.
SaidTwiceCompetes ==
  \A said \in DOMAIN Said : \A plan \in Said[said].plans :
    Len(plan) <= Cardinality(Said[said].wants) =>
      \A legs \in ComesTo(plan, Readings(said, plan)) : \A i \in DOMAIN plan, want \in Said[said].wants :
        (/\ Means(want, legs[i], legs[i].picked)
         /\ Cardinality(want.amounts) > 1 /\ plan[i].amount.form = "literal") =>
           /\ i \in DOMAIN Competing(plan, Said[said].clauses)
           /\ legs[i].cents \in want.amounts

\* The plan that says what the user said is let through, whatever row of those
\* its mentions call it comes to.
RightPlanIsSaid ==
  \A said \in DOMAIN Said :
    LET plan == Said[said].plan
        u == Said[said].clauses
        rivals == Competing(plan, u)
    IN \A i \in DOMAIN plan :
         /\ plan[i].target # <<>>
         /\ \A leg \in Resolvable(plan, rivals, i) :
              ~leg.picked => Allowed(plan, u, rivals, i, leg)
=============================================================================
