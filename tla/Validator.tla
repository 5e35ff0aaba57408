------------------------------- MODULE Validator -------------------------------
(* The second reading of a resolved draft (validator/__init__.py, and          *)
(* recompute_symbolic in amounts.py): is the plan what the words say?  It has   *)
(* its own word lists and its own arithmetic, and nothing of the resolver but   *)
(* the rows.  The auditor model and the asset class are recorded and never      *)
(* freeze: left out.                                                            *)
EXTENDS Reading

---------------------------------------------------------------------------
(* The amounts, worked out again from the ledger and the operations.         *)

RecomputeLeft(plan, legs, ref, balances) == balances[legs[ref].source]    \* mutant: no moved money
Referred(plan, legs, ref, balances) ==
  IF legs[ref].kind = "OWN_TRANSFER" THEN legs[ref].amount ELSE balances[legs[ref].source]

RecomputeSymbolic(plan, legs, ledger) ==
  LET amount(i, balances) ==
        LET it   == Referred(plan, legs, plan[i].amount.after, balances)
            part == IF plan[i].amount.op = "ALL" THEN it ELSE it \div 2
            price == Equities[legs[i].target].price
        IN IF plan[i].amount.form # "symbolic" THEN legs[i].amount
           ELSE IF legs[i].kind = "BUY_EQUITY" THEN (part \div price) * price ELSE part
      pay(sofar, i, debit) ==
        LET after == [sofar.balances EXCEPT ![legs[i].source] = @ - debit]
        IN [amounts  |-> Append(sofar.amounts, debit),
            balances |-> IF legs[i].kind = "OWN_TRANSFER"
                         THEN [after EXCEPT ![legs[i].target] = @ + debit] ELSE after]
      walk[i \in 0 .. Len(plan)] ==
        IF i = 0 THEN [amounts |-> <<>>, balances |-> ledger]
        ELSE pay(walk[i - 1], i, amount(i, walk[i - 1].balances))
  IN walk[Len(plan)].amounts

---------------------------------------------------------------------------
(* The hard checks: each is TRUE when it passes.                             *)

\* The figure is said in the leg's own clause, and the draft pays it.
CheckAmount(i, plan, leg, clause, recomputed) ==
  LET said  == plan[i].amount
      price == Equities[leg.target].price
  IN CASE said.form = "symbolic" -> leg.amount = recomputed[i]
       [] said.form = "shares"   -> /\ said.n \in share_counts[clause]
                                    /\ leg.shares = said.n /\ leg.amount = said.n * price
       [] said.form = "literal"  ->
            /\ said.n \in extract_literal_cents[clause]
            /\ leg.amount = IF leg.kind = "BUY_EQUITY" THEN (said.n \div price) * price ELSE said.n

CheckCompetingPlanned(i, plan, leg, u, chosen, offered, recomputed) ==   \* mutant: the parser's figure
  /\ chosen \in offered
  /\ CheckAmount(i, plan, leg, Transcript(u), recomputed)
\* Said two ways: only the user's own recorded choice will do.
CheckCompeting(i, plan, leg, u, chosen, offered, recomputed) ==
  /\ chosen \in offered
  /\ CheckAmount(i, [plan EXCEPT ![i].amount = Literal(chosen)], leg, Transcript(u), recomputed)

DestinationWords ==
  [savings    |-> {"savings", "saving"},
   joint      |-> {"joint", "spending", "current", "checking", "everyday"},
   settlement |-> {"settlement", "investment", "investments", "invest", "brokerage", "trading"}]

CheckBeneficiary(leg, transcript) ==
  CASE leg.kind = "TRANSFER" -> \/ Says(transcript, Contacts[leg.target].nickname)
                                \/ Says(transcript, Contacts[leg.target].legal)
    [] leg.kind = "PAY_BILL" -> Says(transcript, Billers[leg.target])
    [] leg.kind = "OWN_TRANSFER" -> \E w \in DestinationWords[Accounts[leg.target]] :
                                      Says(transcript, <<w>>)
    [] leg.kind = "BUY_EQUITY" -> \E name \in Equities[leg.target].names : Says(transcript, name)

SourceWords ==
  [savings    |-> {"savings", "saving"},
   joint      |-> {"joint", "spending"},
   settlement |-> {"settlement", "investment", "investments", "brokerage"}]

\* "from my spending", "out of savings", "from the savings account", "use my
\* savings account": unmistakably where the money comes from.
NamedSources(ws) ==
  LET follows(i) == \/ At(ws, i - 1) = "from" \/ (At(ws, i - 2) = "out" /\ At(ws, i - 1) = "of")
      ends(i)    == At(ws, i + 1) \in {"", "account", "to", "and", "then", "for", "please"}
      source(i)  ==
        \/ ends(i) /\ follows(i)
        \/ ends(i) /\ At(ws, i - 1) \in {"my", "our"} /\ follows(i - 1)
        \/ At(ws, i - 1) = "the" /\ follows(i - 1) /\ At(ws, i + 1) = "account"
        \/ /\ At(ws, i - 1) \in {"my", "our"} /\ At(ws, i - 2) \in {"use", "using", "with"}
           /\ At(ws, i + 1) = "account"
      named(t) == \E i \in DOMAIN ws : ws[i] \in SourceWords[t] /\ source(i)
  IN {t \in DOMAIN SourceWords : named(t)}

\* One account named as the source of this leg has to be the one debited; none,
\* or several, is only recorded.  One payment: named anywhere is named for it.
CheckSourceAccount(plan, leg, u, clause) ==
  LET named == NamedSources(IF Len(plan) = 1 THEN Transcript(u) ELSE clause)
  IN Cardinality(named) = 1 => Accounts[leg.source] \in named

\* validate(): frozen if any hard check fails on any leg.
LegFails(i, plan, leg, u, clause, rivals, answered, recomputed) ==
  \/ IF i \in DOMAIN rivals
     THEN ~CheckCompeting(i, plan, leg, u, answered[i], rivals[i], recomputed)
     ELSE ~CheckAmount(i, plan, leg, clause, recomputed)
  \/ ~CheckBeneficiary(leg, Transcript(u))
  \/ ~CheckSourceAccount(plan, leg, u, clause)
Frozen(plan, u, legs, rivals, answered, ledger) ==
  \/ Len(plan) # Len(legs)
  \/ \E match \in {MatchClauses(plan, ClausesOf(plan, u))},
        recomputed \in {RecomputeSymbolic(plan, legs, ledger)} :
       \E i \in DOMAIN plan :
         LegFails(i, plan, legs[i], u, LegClause(match, u, i), rivals, answered, recomputed)
=============================================================================
