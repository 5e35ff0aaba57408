----------------------------- MODULE NewContact -----------------------------
(* policy/new_contact.py: which safeguards a new contact needs, or that it   *)
(* is not added.  A phone number is a model value, what was said is the set  *)
(* of word patterns found in it.                                             *)
EXTENDS Naturals, FiniteSets

CONSTANTS Reported,        \* the numbers on the scam-number feed
          Overseas         \* the numbers that do not start +65

IsReported(phone) == phone \in Reported

LargePending     == 100000                 \* LARGE_PENDING_CENTS
RecentAddsLimit  == 2
RefuseIfAiAgrees == {"words_secrecy", "words_investment", "words_job_task"}

Rungs == <<"STANDARD", "CODE", "HOLD", "REFUSE">>
Safeguards(rung) ==
  CASE rung = "STANDARD" -> {"BIOMETRIC"}
    [] rung = "CODE"     -> {"BIOMETRIC", "PHONE_CODE"}
    [] rung = "HOLD"     -> {"BIOMETRIC", "PHONE_CODE", "HOLD"}
    [] rung = "REFUSE"   -> {}

\* The weight of each pattern of the table _WORDS.
WordWeight(code) ==
  CASE code \in {"words_safe_account", "words_official_orders", "words_investigation",
                 "words_credentials", "words_hide_from_bank"} -> "refuse"
    [] code \in {"words_bank_orders", "words_mule", "words_secrecy", "words_directed",
                 "words_new_number", "words_online_contact", "words_investment",
                 "words_job_task", "words_upfront_fee"} -> "strong"
    [] code \in {"words_urgency", "words_parcel_refund"} -> "info"

\* facts: nickname, phone, existing (the user's rows, removed ones too),
\* recent (rows added in the last day), words, pending (cents, 0 if not known),
\* forPayment.
NameClash(f) ==
  \E row \in f.existing : row.nickname = f.nickname /\ row.phone # f.phone

RuleWarnings(f) ==
  LET found ==
    [code \in {"reported_number", "name_clash", "many_new_contacts", "large_first_payment",
               "new_for_payment", "overseas_number"} |->
       CASE code = "reported_number"     -> IsReported(f.phone)
         [] code = "name_clash"          -> NameClash(f)
         [] code = "many_new_contacts"   -> f.recent >= RecentAddsLimit
         [] code = "large_first_payment" -> f.pending >= LargePending
         [] code = "new_for_payment"     -> f.forPayment /\ f.pending < LargePending
         [] code = "overseas_number"     -> f.phone \in Overseas]
  IN {code \in DOMAIN found : found[code]} \union f.words

Weight(code) ==
  CASE code = "reported_number" -> "refuse"
    [] code \in {"name_clash", "many_new_contacts", "large_first_payment"} -> "strong"
    [] code \in {"new_for_payment", "overseas_number"} -> "info"
    [] OTHER -> WordWeight(code)

\* decide(): the rules set the floor, the model's read can only raise it; a
\* model that could not be asked counts as a reason for care.
Decide(f, ai) ==
  LET rules     == RuleWarnings(f)
      Some(w)   == \E code \in rules : Weight(code) = w
      info      == Cardinality({code \in rules : Weight(code) = "info"})
  IN CASE Some("refuse") \/ (ai = "high" /\ rules \intersect RefuseIfAiAgrees # {}) -> "REFUSE"
       [] OTHER ->
     CASE Some("strong") \/ info >= 2 \/ ai = "high" -> "HOLD"
       [] OTHER ->
     IF info > 0 \/ ai \in {"medium", "unavailable"} THEN "CODE" ELSE "STANDARD"

\* required_at_gateway() and contact_change_refusal(): re-derived from the
\* payload alone.
AddRefused(phone)   == IsReported(phone)
ChangeRefused(edits) == \E i \in DOMAIN edits : edits[i].field = "phone" /\ IsReported(edits[i].new)

\* contact_change_step_up(): a new number always needs the phone code.
ChangeNeedsCode(edits) == \E i \in DOMAIN edits : edits[i].field = "phone"
=============================================================================
