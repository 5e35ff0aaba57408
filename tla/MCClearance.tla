----------------------------- MODULE MCClearance -----------------------------
(* Values for checking Clearance: a payee paid before, and one added almost  *)
(* a day ago; a minute before midnight UTC; limits that two payments reach.  *)
EXTENDS Clearance

MCSymmetry == Permutations(Drafts)
MCPayees   == {"mum", "ned"}
MCAccounts == {"savings"}
MCStart    == 200 * Scam!Day - 60
MCBalance  == [a \in MCAccounts |-> 2000000]
MCAddedAt  == [p \in MCPayees |-> IF p = "mum" THEN 0 ELSE MCStart - Scam!Day + 60]
MCPast     == <<[payee |-> "mum", type |-> "TRANSFER", amount |-> 40000,
                 at |-> MCStart - 20 * Scam!Day, version |-> 1],
                [payee |-> "mum", type |-> "TRANSFER", amount |-> 60000,
                 at |-> MCStart - 2 * Scam!Day, version |-> 1]>>

To(payee, cents) == [type |-> "TRANSFER", source |-> "savings", payee |-> payee, amount |-> cents]
Bill(cents) == [type |-> "PAY_BILL", source |-> "savings", payee |-> NoPayee, amount |-> cents]
MCRequests == {<<To("mum", 200000)>>, <<To("ned", 120000)>>,
               <<To("mum", 20000), Bill(260001), To("mum", 20000)>>}

Words(phrases, urgent) == [phrases |-> phrases, urgent |-> urgent, shout |-> FALSE,
                           exclaim |-> FALSE]
MCTexts   == {Words({}, <<>>), Words({"safe_account"}, <<>>)}
Reply(phrases, yesno, reason) ==
  [phrases |-> phrases, urgent |-> <<>>, shout |-> FALSE, exclaim |-> FALSE,
   yesno |-> yesno, reason |-> reason]
MCReplies == {Reply({}, TRUE, TRUE), Reply({}, TRUE, FALSE),
              Reply({"secrecy"}, TRUE, TRUE)}
MCTicks   == {90}
=============================================================================
