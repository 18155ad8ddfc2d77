---------------------------- MODULE DecisionLedger ----------------------------
(***************************************************************************)
(* What the agent promises about decisions, with no workers, versions,     *)
(* signatures or crashes in sight: a case is put to a human at most once,  *)
(* the verdict is given once, and only a granted case is posted, at most   *)
(* once for each invoice.                                                  *)
(***************************************************************************)
CONSTANTS Cases, Invoice

VARIABLES
    verdict,    \* "unasked", "asked", "granted" or "refused", for each case
    posted      \* the cases on the ledger of record

Verdicts == {"unasked", "asked", "granted", "refused"}

LedgerInit ==
    /\ verdict = [ c \in Cases |-> "unasked" ]
    /\ posted = {}

Give(c, from, to) ==
    /\ verdict[c] = from
    /\ verdict' = [verdict EXCEPT ![c] = to]
    /\ UNCHANGED posted

Ask(c)    == Give(c, "unasked", "asked")
Grant(c)  == Give(c, "asked", "granted")
Refuse(c) == Give(c, "asked", "refused")

Post(c) ==
    /\ verdict[c] = "granted"
    /\ \A d \in posted : Invoice[d] # Invoice[c]
    /\ posted' = posted \cup {c}
    /\ UNCHANGED verdict

LedgerNext == \E c \in Cases : Ask(c) \/ Grant(c) \/ Refuse(c) \/ Post(c)

LedgerSpec == LedgerInit /\ [][LedgerNext]_<< verdict, posted >>
=============================================================================
