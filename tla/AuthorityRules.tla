---------------------------- MODULE AuthorityRules ----------------------------
(***************************************************************************)
(* Who may sign what: the authority matrix, delegations and                *)
(* validate_approval of domain/rules/authority.py, and                     *)
(* check_approval_time of domain/rules/segregation.py.                     *)
(*                                                                         *)
(* A scope and a cost centre are the sets of words that discriminate; an   *)
(* entry of the register is a record with id, delegate, role, scope, from, *)
(* until and revoked.                                                      *)
(***************************************************************************)
EXTENDS VendorRules, ScheduleRules

\* AUTHORITY_LIMITS in ascending order; the last role has no ceiling.
AuthorityLadder ==
    << [role |-> "COST_CENTRE_MANAGER", limit |-> 1000000],
       [role |-> "DEPARTMENT_DIRECTOR", limit |-> 5000000],
       [role |-> "EXECUTIVE_DIRECTOR", limit |-> 25000000],
       [role |-> "CFO", limit |-> 100000000],
       [role |-> "CEO", limit |-> None] >>

Covers(rung, amount) == rung.limit # None => amount <= rung.limit

\* Slip: the limit itself is already too much.
MinimumRoleSlip(amount) ==
    AuthorityLadder[Min({ i \in DOMAIN AuthorityLadder :
                             \/ AuthorityLadder[i].limit = None
                             \/ amount < AuthorityLadder[i].limit })].role

\* _minimum_role_for: the lowest role that covers the amount; a limit includes itself.
MinimumRole(amount) ==
    AuthorityLadder[Min({ i \in DOMAIN AuthorityLadder : Covers(AuthorityLadder[i], amount) })].role

\* Overseers: no monetary limit of their own, and no place on the ladder.
FinancialControl == "FINANCIAL_CONTROL"

LadderRoles == { AuthorityLadder[i].role : i \in DOMAIN AuthorityLadder }

\* ApproverRole: what _parse_role recognises.
Roles == LadderRoles \cup {FinancialControl}

\* The rung of a role; Financial Control stands below the ladder.
Seniority(role) ==
    IF role = FinancialControl
    THEN 0
    ELSE CHOOSE i \in DOMAIN AuthorityLadder : AuthorityLadder[i].role = role

LimitOf(role) == AuthorityLadder[Seniority(role)].limit

Within(role, amount) == Covers(AuthorityLadder[Seniority(role)], amount)

-----------------------------------------------------------------------------
(* Delegations *)

\* invalid_reason_at finds nothing: the first and the last day count.
InForce(entry, today) ==
    /\ ~entry.revoked
    /\ entry.from <= today /\ today <= entry.until

\* _scope_covers: a scope that names nothing restricts nothing; an unknown centre is outside
\* every scope that does.
ScopeCovers(scope, centre) ==
    scope = {} \/ (centre # None /\ scope \cap centre # {})

\* Slip: the scope is stored and never read.
AppliesSlip(a) ==
    /\ a.entry.delegate = a.approver
    /\ InForce(a.entry, a.today)
    /\ a.entry.role \in Roles

\* An application a to sign: approver, role, entry of the register (None without one), and
\* the case's requester, centre, amount, whether a covering signature is on file, the day.
\* The entry confers something on this approver for this case.
Applies(a) ==
    /\ a.entry.delegate = a.approver
    /\ InForce(a.entry, a.today)
    /\ ScopeCovers(a.entry.scope, a.centre)
    /\ a.entry.role \in Roles

\* An entry that does not apply is held against the approver.
Objected(a) == a.entry # None /\ ~Applies(a)

\* A delegation counts only when it raises the approver.
Raised(a) ==
    /\ a.entry # None
    /\ Applies(a)
    /\ Seniority(a.entry.role) > Seniority(a.role)

\* effective_role
HeldRole(a) == IF Raised(a) THEN a.entry.role ELSE a.role

-----------------------------------------------------------------------------
(* validate_approval *)

\* What disqualifies outright: the first of these.
Barred(a) ==
    CASE a.requester = None       -> {Fault("requester_identified")}
      [] a.requester = a.approver -> {Fault("no_self_approval")}
      [] OTHER -> When(a.role \notin Roles, {Fault("role_recognised")})

\* Slip: Financial Control is a role without a limit like the CEO's.
SufficientSlip(a) ==
    /\ Barred(a) = {}
    /\ \/ HeldRole(a) = FinancialControl
       \/ HeldRole(a) # FinancialControl /\ ~Objected(a) /\ Within(HeldRole(a), a.amount)

\* Financial Control signs beside a covering signature, whatever is held against its
\* delegation; anybody else within a limit and with nothing held against it.
Sufficient(a) ==
    /\ Barred(a) = {}
    /\ IF HeldRole(a) = FinancialControl
       THEN a.coSigns
       ELSE ~Objected(a) /\ Within(HeldRole(a), a.amount)

\* The exceptions a verdict carries; another's delegation and an unknown delegated role
\* are objections without one.
AuthorityFaults(a) ==
    IF Barred(a) # {}
    THEN Barred(a)
    ELSE When(a.entry # None /\ a.entry.delegate = a.approver,
              IF InForce(a.entry, a.today)
              THEN When(~ScopeCovers(a.entry.scope, a.centre),
                        {Fault("delegation_scope_covers_case")})
              ELSE {Fault("delegation_current")})
         \cup IF HeldRole(a) = FinancialControl
              THEN When(~a.coSigns, {Fault("role_carries_a_monetary_limit")})
              ELSE When(~Within(HeldRole(a), a.amount), {Fault("within_monetary_limit")})

-----------------------------------------------------------------------------
(* check_approval_time *)

CoolingOffBusinessDays == 5

\* When the record was changed last, or else created.
ChangedOn(vendor) == IF vendor.updatedOn # None THEN vendor.updatedOn ELSE vendor.createdOn

\* The vendor's creator waits; above 25,000 nobody signs who asked for or received the goods.
ApproverClashes(vendor, order, invoice, approver, today) ==
    When(/\ vendor # None
         /\ vendor.createdBy = approver
         /\ today <= AddBusinessDays(ChangedOn(vendor), CoolingOffBusinessDays),
         {Fault("vendor_editor_may_not_approve_within_five_days")})
    \cup When(/\ ThreeParties(invoice)
              /\ approver \in Receipters(order) \cup {invoice.requestedBy},
              {Fault("three_parties_distinct")})
=============================================================================
