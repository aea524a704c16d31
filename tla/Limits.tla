------------------------------- MODULE Limits -------------------------------
(***************************************************************************)
(* Three limits that are checked in one statement and counted in a later   *)
(* one: failed sign-ins for an email, an agent's public invocations of a   *)
(* capability in a month, and an account's checkouts in an hour.  The      *)
(* requests run beside each other, so they overshoot; by how much is what  *)
(* the module is about.                                                    *)
(***************************************************************************)
EXTENDS Naturals, FiniteSets

CONSTANTS
    Callers,       \* requests the servers run at a time
    MaxFailures,   \* MAX_FAILURES: 10 in the code
    Quota,         \* public_quota_per_month of the capability
    PerHour        \* CHECKOUTS_PER_HOUR

ASSUME LimitsAssumption ==
    IsFiniteSet(Callers) /\ {MaxFailures, Quota, PerHour} \subseteq Nat \ {0}

VARIABLES
    admitted,   \* what each request has passed the check of, not counted yet
    failures,   \* signin_failures: failures in the window that is open, else 0
    invoked,    \* the invocations of this month
    bought      \* the checkouts of the last hour

limitVars == <<admitted, failures, invoked, bought>>

LimitsInit ==
    /\ admitted = [r \in Callers |-> "idle"]
    /\ failures = 0 /\ invoked = 0 /\ bought = 0

PassesCheck(r, what) ==
    /\ admitted[r] = "idle"
    /\ admitted' = [admitted EXCEPT ![r] = what]
    /\ UNCHANGED <<failures, invoked, bought>>

IsCounted(r, what) ==
    /\ admitted[r] = what
    /\ admitted' = [admitted EXCEPT ![r] = "idle"]

\* Fault: one failure too many before the email is refused.
RefusesLater == failures > MaxFailures

\* signin_limit::check, while the window is open.
RefusesSignin == failures >= MaxFailures

\* A password is about to be verified.
ChecksSignin(r) == ~RefusesSignin /\ PassesCheck(r, "signin")

\* record_failure: a window that ended starts again at one.
WrongPassword(r) ==
    /\ IsCounted(r, "signin")
    /\ failures' = failures + 1
    /\ UNCHANGED <<invoked, bought>>

\* clear, also when others failed since the check.
RightPassword(r) ==
    /\ IsCounted(r, "signin")
    /\ failures' = 0
    /\ UNCHANGED <<invoked, bought>>

SigninWindowEnds ==
    /\ failures > 0 /\ failures' = 0
    /\ UNCHANGED <<admitted, invoked, bought>>

\* invoke_public reads how many invocations the month has ...
ChecksQuota(r) == invoked < Quota /\ PassesCheck(r, "invoke")

\* ... and inserts its own once limits and screening are through.
InsertsPublic(r) ==
    /\ IsCounted(r, "invoke")
    /\ invoked' = invoked + 1
    /\ UNCHANGED <<failures, bought>>

\* Usage limits or an error end the request before its row is written.
RefusedOtherwise(r) ==
    /\ IsCounted(r, "invoke")
    /\ UNCHANGED <<failures, invoked, bought>>

QuotaMonthEnds ==
    /\ invoked > 0 /\ invoked' = 0
    /\ UNCHANGED <<admitted, failures, bought>>

\* create_checkout, whatever becomes of the session opened for it.
ChecksCheckouts(r) == bought < PerHour /\ PassesCheck(r, "buy")

InsertsCheckout(r) ==
    /\ IsCounted(r, "buy")
    /\ bought' = bought + 1
    /\ UNCHANGED <<failures, invoked>>

\* The oldest checkout is an hour old.
CheckoutAges ==
    /\ bought > 0 /\ bought' = bought - 1
    /\ UNCHANGED <<admitted, failures, invoked>>

LimitsNext ==
    \/ \E r \in Callers :
           \/ ChecksSignin(r) \/ WrongPassword(r) \/ RightPassword(r)
           \/ ChecksQuota(r) \/ InsertsPublic(r) \/ RefusedOtherwise(r)
           \/ ChecksCheckouts(r) \/ InsertsCheckout(r)
    \/ SigninWindowEnds \/ QuotaMonthEnds \/ CheckoutAges

LimitsSpec == LimitsInit /\ [][LimitsNext]_limitVars

----------------------------------------------------------------------------
(* Properties *)

\* Requests that have passed the check and will be counted.
Admitted(what) == Cardinality({r \in Callers : admitted[r] = what})

\* "Concurrent invokes from the same caller can overshoot by a small margin"
\* (invoke.rs; the sign-in limit and the checkout throttle say nothing of it):
\* each limit is exceeded by no more than the requests that ran beside the one
\* that reached it, and what is under way is part of that margin.
OvershootsByTheOthers ==
    LET others == Cardinality(Callers) - 1 IN
        /\ failures + Admitted("signin") <= MaxFailures + others
        /\ invoked + Admitted("invoke") <= Quota + others
        /\ bought + Admitted("buy") <= PerHour + others
=============================================================================
