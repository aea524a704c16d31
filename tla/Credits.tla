------------------------------ MODULE Credits ------------------------------
(***************************************************************************)
(* The credit books: the queue an accepted invocation leaves a row in, the *)
(* accounting loop of every relay instance that charges it and makes the   *)
(* monthly grants, and the app's side of the same wallets: operator        *)
(* entries, settings, purchases and the deletion of an account.            *)
(*                                                                         *)
(* An accounting transaction is two steps: the one that gets the advisory  *)
(* lock and takes the statement's snapshot, and the commit, which works on *)
(* the wallets as they are by then.  A failed or crashed one changes       *)
(* nothing.  Months are numbered from 1, and 0 is "never granted".         *)
(***************************************************************************)
EXTENDS Integers, Sequences, FiniteSets, FiniteSetsExt, Functions

CONSTANTS
    Accounts, Invocations, Checkouts, Payments, Instances,
    NoAccount, NoPayment,
    Billers,     \* instances that run with credits on, while a change is rolled out
    Cost,        \* cost_per_invocation_mc
    MonthlyFree, \* default_monthly_free_mc
    Overrides,   \* monthly grants an operator may set instead
    Price,       \* credits_mc of a checkout
    Entries,     \* amounts an operator enters
    MonthCap,    \* missed months made up for at most: 12 in the code
    Batch,       \* CHARGE_BATCH
    MaxMonth,    \* bound: months that pass
    MaxEntries,  \* bound: operator rows in an account's ledger
    MaxCrashes   \* bound: transactions lost with their instance or lock

ASSUME CreditsAssumption ==
    /\ {Cost, MonthlyFree, Price, MonthCap, Batch} \subseteq Nat \ {0}
    /\ Entries \subseteq Int \ {0}
    /\ Overrides \subseteq Nat /\ IsFiniteSet(Overrides)
    /\ Billers \subseteq Instances
    /\ NoAccount \notin Accounts /\ NoPayment \notin Payments
    /\ {MaxMonth, MaxEntries, MaxCrashes} \subseteq Nat

VARIABLES
    accounts,  \* accounts not deleted
    issued,    \* invocation ids given out
    queue,     \* credit_charge_queue: <<invocation, account>>
    charges,   \* invocation_charges: [id, account, cost]
    wallets,   \* credit_wallets, a function on the accounts that have one
    ledger,    \* credit_ledger, each account's rows in order
    checkouts, \* credit_checkouts: [account, status, linked, payment]
    month,     \* the current UTC month
    work,      \* the accounting transaction each instance has open
    crashes    \* how many were lost (bounds Crash)

books == <<queue, charges, wallets, ledger>>
vars == <<accounts, issued, queue, charges, wallets, ledger, checkouts, month, work, crashes>>

Wallets == [balance : Int, granted : 0 .. MaxMonth, free : Overrides \cup {MonthlyFree},
            unlimited : BOOLEAN]
Rows == [reason : {"free_grant", "operator", "settings", "purchase"},
         delta : Int, ref : Payments \cup {NoPayment}]
NewWallet == [balance |-> 0, granted |-> 0, free |-> MonthlyFree, unlimited |-> FALSE]
Idle == [step |-> "idle"]
Unused == [account |-> NoAccount, status |-> "none", linked |-> FALSE,
           payment |-> NoPayment]

TypeOK ==
    /\ accounts \subseteq Accounts
    /\ issued \subseteq Invocations
    /\ queue \subseteq Invocations \X Accounts
    /\ charges \subseteq [id : Invocations, account : Accounts, cost : {0, Cost}]
    /\ DOMAIN wallets \subseteq accounts
    /\ \A a \in DOMAIN wallets : wallets[a] \in Wallets
    /\ ledger \in [Accounts -> Seq(Rows)]
    /\ checkouts \in [Checkouts ->
           [account : Accounts \cup {NoAccount},
            status : {"none", "open", "paid", "failed", "unapplied"},
            linked : BOOLEAN, payment : Payments \cup {NoPayment}]]
    /\ month \in 1 .. MaxMonth
    /\ \A i \in Instances :
           work[i].step \in {"idle", "charge", "grant", "discard"}
    /\ crashes \in 0 .. MaxCrashes

\* The books begin empty; ids may be used up and checkouts be from before.
InitWith(used, before, date, crashed) ==
    /\ accounts = Accounts /\ issued = used
    /\ queue = {} /\ charges = {}
    /\ wallets = [a \in {} |-> NewWallet]
    /\ ledger = [a \in Accounts |-> <<>>]
    /\ checkouts = before
    /\ month = date
    /\ work = [i \in Instances |-> Idle]
    /\ crashes = crashed

Init == InitWith({}, [c \in Checkouts |-> Unused], 1, 0)

----------------------------------------------------------------------------
(* Wallets and the ledger *)

Wallet(a) == IF a \in DOMAIN wallets THEN wallets[a] ELSE NewWallet

\* INSERT ... ON CONFLICT (account_id) DO UPDATE of the wallets in who.
Upserted(who, New(_)) ==
    [a \in DOMAIN wallets \cup who |-> IF a \in who THEN New(a) ELSE wallets[a]]

Plus(a, amount) == [Wallet(a) EXCEPT !.balance = @ + amount]
Row(reason, delta, ref) == [reason |-> reason, delta |-> delta, ref |-> ref]
Record(a, row) == ledger' = [ledger EXCEPT ![a] = Append(@, row)]

EntriesOf(a) == SelectSeq(ledger[a], LAMBDA r : r.reason \in {"operator", "settings"})

\* A bound on the entries of operators.
HasRoom == SumFunction([a \in Accounts |-> Len(EntriesOf(a))]) < MaxEntries

\* add_entry: a grant or an adjustment, in one statement.
AddEntry(a, amount) ==
    /\ a \in accounts /\ HasRoom
    /\ wallets' = Upserted({a}, LAMBDA x : Plus(x, amount))
    /\ Record(a, Row("operator", amount, NoPayment))
    /\ UNCHANGED <<accounts, issued, queue, charges, checkouts, month, work, crashes>>

\* update_settings: a change that changes nothing is rolled back.
UpdateSettings(a, free, unlimited) ==
    /\ a \in accounts /\ HasRoom
    /\ <<free, unlimited>> # <<Wallet(a).free, Wallet(a).unlimited>>
    /\ wallets' = Upserted({a}, LAMBDA x :
                      [Wallet(x) EXCEPT !.free = free, !.unlimited = unlimited])
    /\ Record(a, Row("settings", 0, NoPayment))
    /\ UNCHANGED <<accounts, issued, queue, charges, checkouts, month, work, crashes>>

\* Deleting an organization takes its wallet with it and nothing else.
DeleteAccount(a) ==
    /\ a \in accounts
    /\ accounts' = accounts \ {a}
    /\ wallets' = [x \in DOMAIN wallets \ {a} |-> wallets[x]]
    /\ UNCHANGED <<issued, queue, charges, ledger, checkouts, month, work, crashes>>

\* enqueue: an accepted invocation, its id new, leaves a row in the queue.
Accept(v, a) ==
    /\ a \in accounts /\ v \notin issued
    /\ issued' = issued \cup {v}
    /\ queue' = queue \cup {<<v, a>>}
    /\ UNCHANGED <<accounts, charges, wallets, ledger, checkouts, month, work, crashes>>

NextMonth ==
    /\ month < MaxMonth
    /\ month' = month + 1
    /\ UNCHANGED <<accounts, issued, books, checkouts, work, crashes>>

----------------------------------------------------------------------------
(* The accounting loop *)

\* account: a pass charges and grants, or with credits off discards.
Billing(i) == i \in Billers

\* pg_try_advisory_xact_lock.
LockFree == \A i \in Instances : work[i] = Idle

Opens(i, transaction) ==
    /\ LockFree
    /\ work' = [work EXCEPT ![i] = transaction]
    /\ UNCHANGED <<accounts, issued, books, checkouts, month, crashes>>

Ends(i) ==
    /\ work' = [work EXCEPT ![i] = Idle]
    /\ UNCHANGED <<accounts, issued, checkouts, month, crashes>>

\* Fault: a pass waits until it has a full batch.
FullBatches == {S \in SUBSET queue : Cardinality(S) = Batch}

\* ORDER BY id LIMIT: ids are not ordered here, so any batch of that size.
Batches == {S \in SUBSET queue :
                Cardinality(S) = IF Cardinality(queue) < Batch THEN Cardinality(queue)
                                 ELSE Batch}

BeginCharge(i) ==
    /\ Billing(i) /\ queue # {}
    /\ \E rows \in Batches :
           Opens(i, [step |-> "charge", rows |-> rows, payers |-> accounts])

\* What the charges of a batch come to for an account.
Debit(made, a) ==
    SumFunctionOnSet([c \in made |-> c.cost], {c \in made : c.account = a})

\* Fault: a row whose account is gone leaves the queue with no charge.
PricedIfPayer(rows, payers) ==
    {[id |-> r[1], account |-> r[2], cost |-> Cost] : r \in {q \in rows : q[2] \in payers}}

\* An account gone by the statement's snapshot is charged 0.
Priced(rows, payers) ==
    {[id |-> r[1], account |-> r[2], cost |-> IF r[2] \in payers THEN Cost ELSE 0] :
        r \in rows}

\* credit_wallets.account_id REFERENCES accounts.
References(who) == who \subseteq accounts

\* charge_rows: rows to charges (ON CONFLICT DO NOTHING) to debits.  A wallet
\* of an account deleted since the snapshot breaks its foreign key, and the
\* batch rolls back.
CommitCharge(i) ==
    LET made == {c \in Priced(work[i].rows, work[i].payers) :
                    \A d \in charges : d.id # c.id}
        debited == {c.account : c \in {d \in made : d.cost > 0}}
    IN  /\ work[i].step = "charge"
        /\ IF References(debited)
             THEN /\ queue' = queue \ work[i].rows
                  /\ charges' = charges \cup made
                  /\ wallets' = Upserted(debited, LAMBDA a : Plus(a, -Debit(made, a)))
             ELSE UNCHANGED <<queue, charges, wallets>>
        /\ UNCHANGED ledger
        /\ Ends(i)

BeginDiscard(i) ==
    /\ ~Billing(i) /\ queue # {}
    /\ \E rows \in Batches : Opens(i, [step |-> "discard", rows |-> rows])

CommitDiscard(i) ==
    /\ work[i].step = "discard"
    /\ queue' = queue \ work[i].rows
    /\ UNCHANGED <<charges, wallets, ledger>>
    /\ Ends(i)

Due(period) == {a \in DOMAIN wallets : wallets[a].granted < period}

\* grant_due reads current_month before it has the lock.
BeginGrant(i, period) ==
    /\ Billing(i)
    /\ period \in {month, month - 1} /\ Due(period) # {}
    /\ Opens(i, [step |-> "grant", period |-> period, due |-> Due(period)])

\* Fault: every month counts, the one a wallet was granted last included.
MonthsFromGranted(granted, period) == (period + 1) - granted

\* A first grant is one month's, a later one makes up for missed months.
MonthsOwed(granted, period) ==
    IF granted = 0 THEN 1
    ELSE IF period - granted < MonthCap THEN period - granted ELSE MonthCap

\* Fault: what is granted goes unrecorded when it is not the first.
RecordFirst(a, w, delta) ==
    IF w.granted = 0 THEN Append(ledger[a], Row("free_grant", delta, NoPayment))
    ELSE ledger[a]

\* The wallet's row in the ledger for this grant.
Granted(a, w, delta) == Append(ledger[a], Row("free_grant", delta, NoPayment))

\* grant_rows: each due wallet as it is by now, if it is still due.
CommitGrant(i) ==
    LET period == work[i].period
        still == work[i].due \cap Due(period)
        delta(a) == MonthsOwed(wallets[a].granted, period) * wallets[a].free
    IN  /\ work[i].step = "grant"
        /\ wallets' = Upserted(still, LAMBDA a :
                          [Plus(a, delta(a)) EXCEPT !.granted = period])
        /\ ledger' = [a \in Accounts |->
                          IF a \in still THEN Granted(a, wallets[a], delta(a)) ELSE ledger[a]]
        /\ UNCHANGED <<queue, charges>>
        /\ Ends(i)

\* The instance dies, its connection drops, or a lock wait times out: the
\* transaction rolls back and the loop starts over.
Crash(i) ==
    /\ work[i] # Idle /\ crashes < MaxCrashes
    /\ work' = [work EXCEPT ![i] = Idle]
    /\ crashes' = crashes + 1
    /\ UNCHANGED <<accounts, issued, books, checkouts, month>>

----------------------------------------------------------------------------
(* Purchases *)

SetCheckout(c, row) ==
    /\ checkouts' = [checkouts EXCEPT ![c] = row]
    /\ UNCHANGED <<accounts, issued, queue, charges, month, work, crashes>>

\* create_checkout records the checkout before it asks for a session.
CreateCheckout(c, a) ==
    /\ a \in accounts /\ checkouts[c] = Unused
    /\ SetCheckout(c, [Unused EXCEPT !.account = a, !.status = "open"])
    /\ UNCHANGED <<wallets, ledger>>

\* ... and writes the session's id, or that there is none, in a step of its own.
\* A crash between leaves the row open and unlinked for good.
OpenSession(c, opened) ==
    /\ checkouts[c].status = "open" /\ ~checkouts[c].linked
    /\ SetCheckout(c, IF opened THEN [checkouts[c] EXCEPT !.linked = TRUE]
                      ELSE [checkouts[c] EXCEPT !.status = "failed"])
    /\ UNCHANGED <<wallets, ledger>>

\* Fault: a second payment is credited to a paid checkout.
OpenOnce(c) == checkouts[c].linked /\ checkouts[c].status # "unapplied"

\* apply_succeeded looks the checkout up by its session and stops at a
\* settled one.
Payable(c) == checkouts[c].linked /\ checkouts[c].status \notin {"paid", "unapplied"}

\* dodo_payment_id and credit_ledger_purchase_ref_uniq.
Unrecorded(p, c) ==
    /\ \A d \in Checkouts \ {c} : checkouts[d].payment # p
    /\ \A a \in Accounts : \A n \in DOMAIN ledger[a] : ledger[a][n].ref # p

\* apply_succeeded.  Dodo redelivers for a day, in any order; agreed is what
\* the amount, currency and discounts of the payment come to.  Every other
\* outcome changes nothing.
PaymentSucceeded(p, c, agreed) ==
    LET a == checkouts[c].account
    IN  /\ Payable(c) /\ Unrecorded(p, c)
        /\ IF agreed /\ a \in accounts
             THEN /\ wallets' = Upserted({a}, LAMBDA x : Plus(x, Price))
                  /\ Record(a, Row("purchase", Price, p))
                  /\ SetCheckout(c, [checkouts[c] EXCEPT !.status = "paid", !.payment = p])
             ELSE /\ UNCHANGED <<wallets, ledger>>
                  /\ SetCheckout(c, [checkouts[c] EXCEPT !.status = "unapplied",
                                                         !.payment = p])

\* Fault: a late failure also fails a payment held for the operator.
FailableAnyway(status) == status \in {"open", "unapplied"}

Failable(status) == status = "open"

\* apply_failed.
PaymentFailed(c) ==
    /\ checkouts[c].linked /\ Failable(checkouts[c].status)
    /\ SetCheckout(c, [checkouts[c] EXCEPT !.status = "failed"])
    /\ UNCHANGED <<wallets, ledger>>

----------------------------------------------------------------------------

Customers ==
    \/ \E a \in Accounts : DeleteAccount(a) \/ \E amount \in Entries : AddEntry(a, amount)
    \/ \E a \in Accounts, free \in Overrides \cup {MonthlyFree}, unlimited \in BOOLEAN :
           UpdateSettings(a, free, unlimited)
    \/ \E c \in Checkouts :
           \/ \E a \in Accounts : CreateCheckout(c, a)
           \/ \E yes \in BOOLEAN : OpenSession(c, yes) \/
                  \E p \in Payments : PaymentSucceeded(p, c, yes)
           \/ PaymentFailed(c)

Accounting(i) ==
    \/ BeginCharge(i) \/ CommitCharge(i)
    \/ BeginDiscard(i) \/ CommitDiscard(i)
    \/ CommitGrant(i)
    \/ \E period \in 1 .. MaxMonth : BeginGrant(i, period)

Next ==
    \/ Customers \/ NextMonth
    \/ \E v \in Invocations, a \in Accounts : Accept(v, a)
    \/ \E i \in Instances : Accounting(i) \/ Crash(i)

Spec == Init /\ [][Next]_vars

\* Every instance's accounting loop runs on a timer and is restarted when it
\* stops: transactions end, and whichever instance gets the lock charges.
Fairness ==
    /\ WF_vars(\E i \in Instances : BeginCharge(i) \/ BeginDiscard(i))
    /\ \A i \in Instances :
           WF_vars(CommitCharge(i) \/ CommitDiscard(i) \/ CommitGrant(i))

FairSpec == Spec /\ Fairness

----------------------------------------------------------------------------
(* Properties *)

Deltas(a) == [n \in DOMAIN ledger[a] |-> ledger[a][n].delta]
Credited(a) == SumFunction(Deltas(a))

\* A balance is the sum of the account's ledger less the sum of its charges,
\* whatever the accounting loops, operators, purchases and crashes did.
BooksBalance ==
    \A a \in DOMAIN wallets : wallets[a].balance = Credited(a) - Debit(charges, a)

\* With credits on, a queued invocation leaves the queue with one charge, of
\* its full cost unless its account was deleted, and no other charge appears.
ChargedOnLeaving ==
    [][LET new == charges' \ charges
       IN  /\ {<<c.id, c.account>> : c \in new} = queue \ queue'
           /\ \A c \in new : c.cost = Cost \/ c.account \notin accounts]_vars

GrantRows(a) == {n \in DOMAIN ledger[a] : ledger[a][n].reason = "free_grant"}

\* An account is never granted more often than there have been months.
GrantsWithinMonths == \A a \in Accounts : Cardinality(GrantRows(a)) <= month

\* Outages, months that turn during a pass and overlapping instances never
\* grant an account more than the free amount of each month there has been.
OneGrantAMonth ==
    /\ GrantsWithinMonths
    /\ \A a \in Accounts :
           SumFunctionOnSet(Deltas(a), GrantRows(a))
               <= month * Max(Overrides \cup {MonthlyFree})

Purchases(a) == {n \in DOMAIN ledger[a] : ledger[a][n].reason = "purchase"}
Paid == {c \in Checkouts : checkouts[c].status = "paid"}
PaidBy(a) == {c \in Paid : checkouts[c].account = a}

\* Redelivered, reordered and second payments: no payment settles two
\* checkouts, and the purchases in an account's ledger are the payments of
\* its paid checkouts, one each.
CreditedAsPaid ==
    /\ \A c, d \in Paid : checkouts[c].payment = checkouts[d].payment => c = d
    /\ \A a \in Accounts :
           /\ {ledger[a][n].ref : n \in Purchases(a)}
                  = {checkouts[c].payment : c \in PaidBy(a)}
           /\ Cardinality(Purchases(a)) = Cardinality(PaidBy(a))

\* A payment that was credited or held for the operator stays so.
SettledForGood ==
    [][\A c \in Checkouts : checkouts[c].status \in {"paid", "unapplied"}
           => checkouts'[c] = checkouts[c]]_checkouts

\* Every queued row is charged or discarded in the end, although accounts are
\* deleted under a batch and instances crash.
QueueDrains ==
    \A v \in Invocations, a \in Accounts : <<v, a>> \in queue ~> <<v, a>> \notin queue
=============================================================================
