# ChakraMCP in TLA+

A verification project for the relay network in `src/`: agents publish
capabilities, befriend each other, grant access and invoke each other through
a relay that queues the work, asks owners for consent, charges credits and
wakes the agents that pull. The TLA+ here models the Rust backend
(`src/backend/app`, `relay`, `shared`) together with the SQL it runs and the
constraints of its migrations, because most of the concurrency control is in
the statements: guarded `UPDATE`s, unique indexes, row and advisory locks.

Contents: [inventory](#inventory) · [modules](#modules) · [how the models
read the code](#how-the-models-read-the-code) · [runs](#runs-and-bounds) ·
[fairness](#fairness) · [proofs](#proofs) · [disagreements](#where-code-and-text-disagree) ·
[limits](#not-modelled) · [plan](#plan).

## Inventory

| Component | State | Operations | Talks to | What is hard |
|---|---|---|---|---|
| Invocation lifecycle (`relay/handlers/invoke.rs`, `invocation_sweep.rs`, `consent/reply.rs`) | `relay_invocations`: status, deliveries, lease, deadline, result | invoke, claim, release, post result, sweep of leases and deadlines, backfill of old rows | grants, consent, credits, wake, calls | checks long before the write; leases that lapse under a worker still answering; redelivery; cascades |
| Owner consent (`relay/consent`, `shared/consent`) | `consent_requests` (held requests and reply drafts), `consents` (standing), notices | hold, cover by a standing consent, show, approve, deny, revoke, expire, cancel; store and release drafts; the owner's own answer | invocations, capabilities, agents | a draft replaced while it is read; two approvers; the last use of a consent; a request and its invocation ending apart |
| Friendships (`relay/handlers/friendships.rs`, `mcp.rs`) | `friendships` | propose, accept, reject, counter, cancel | grants, auto-friendship, screening, audit | read, wait for screening, write |
| Grants (`relay/handlers/grants.rs`) | `grants` | create, revoke, expiry, cascade of deletions | friendships, invocations, consent | friendship and liveness checked before the insert |
| Auto-friendship (`shared/auto_friendship.rs`) | `friendships`, the setting of an organization | backfill at creation, joining, switching on | friendships, app | one bulk insert per trigger, overlapping |
| Organizations and their agents (`app/handlers/orgs.rs`, `agents.rs`, `relay/mcp/caller.rs`) | `accounts`, `agents`, `default_agents` | delete an organization, move agents to the personal account, make a default agent | agents, slugs, grants | what is created or moved under a deletion that cascades |
| Credit accounting (`relay/limits/credits/worker.rs`, `app/credits_service.rs`) | charge queue, charges, wallets, ledger | charge batch, monthly grant, discard, operator entry, settings | invocations, purchases, switches | several instances, crashes, deleted accounts, month turnover |
| Credit purchases (`app/purchases`) | `credit_checkouts` | checkout, session, payment webhooks | wallets, ledger, Dodo | redelivered and reordered webhooks |
| Credit switches (`relay/limits/credits/cache.rs`) | in-memory snapshot per instance | refresh, timeout, staleness | wallets, invocation path | a cached decision, old or replaced late |
| Wake hub and inbox waiting (`shared/wake`, `relay/inbox_wait.rs`) | waiters, outbound keys, listener connection | notify, wait, publish, receive, reconnect, close | every writer of queued work | lost wake-ups, dropped connections |
| Wake URLs (`relay/wake_urls.rs`) | `agent_wake`, each dispatcher's due and throttled agents | dispatch, ping, throttle, count failures, switch off, set, clear | wake hub, outbound HTTP | a window shared by all processes; results that come back late |
| Calls and memory (`relay/calls`) | `calls`, entries, deliveries, tags, charges | invite, answer, message, end, delete, time out, purge, tag | invocations, credits, wake | an end racing a message; a purge racing everything |
| Push, A2A, cards (`forwarder.rs`, `inbox_bridge.rs`, `handlers/a2a.rs`, `agent_card`) | an agent's endpoint and mode, its cached card, the recorded row | set the endpoint, publish, refresh, forward, park | invocations, consent, the agent's host | a call the other side took and whose answer is lost; old fetches that end late |
| Slugs (`relay/handlers/agents.rs`, `discovery.rs`) | slugs and aliases | create, rename, delete, resolve | cards, A2A | renames onto each other's slugs |
| Accounts, sessions and OAuth (`app/handlers`, `shared/scope.rs`, `relay/scope_cache.rs`) | codes, device pairings, tokens, API keys, scopes, a cache of them | authorize, redeem, pair, rotate, revoke, authenticate, act | every handler of the relay | single use of codes; revoking what is being minted; a scope moved under a request |
| Limits (`app/signin_limit.rs`, `purchases`, `invoke.rs`) | counters | check, count | sign-in, checkouts, public invokes | counted after it was checked |
| Heartbeats (`relay/heartbeats.rs`) | polls in memory and in `agent_heartbeats` | record, flush, restore, reload | inbox, calls | a batch that fails or is overtaken |
| Reviews (`relay/handlers/reviews.rs`) | reviews and their tags | write, edit | invocations, consent | what was asked for and never let through |
| Message safety (`shared/safety`, `shared/system_one`) | a message's requests to the judge and their answers | plan, ask, retry, halve, decide | every handler that takes text | partial failure in a verdict made of several |
| SDKs (`sdks/rust/src/inbox.rs`) | a worker's batch | serve | claims, results | a batch handled one after the other under one lease |
| CLI (`cli/src/commands/invoke.rs`) | what one run of `invoke ensure` has seen | ensure: propose, wait, wait for a grant, invoke | friendships, grants, invoke | a list read, then acted on; which of two rows speaks |
| Pages, MCP surface, retention, frontend, deployment | presentation and data | | | little state of their own |

What makes each of the modelled components correct: a call settles once and
for ever, is charged exactly when it enters the queue, is held exactly while
its owner is being asked, and reaches no worker before a yes; what a human
confirmed is what is sent; claims are bounded; a proposal is decided once; a
grant stands on a friendship; balances are the sum of their ledger and charges;
payments are credited once; only an account recently out of credits is turned
away; no wake-up is lost, in a process, between processes or to a URL; an ended
call says nothing, and into a purged one comes only what was under way; a
credential reaches what it was given and nothing when revoked; what the judge
found in a message, or was not shown, is acted on or told; no live agent goes with
its organization; a command that waits acts on what it waited for. `PROJECT.json`
lists every component, also those not modelled, and the hazards at their lines.

## Modules

| Module | Models |
|---|---|
| `Invocations` | The life of the invocations between one granter agent with one capability and one grantee, under their grant or of the public capability, including owner consent, reply drafts, standing consents, sweeps and cascades |
| `InvocationContract` | What the caller is promised: absent, held, open, settled, with one result and one charge. `Invocations!KeepsContract` instantiates it with a refinement mapping |
| `Relationships` | Friendships and grants, with every handler's read and write as separate steps |
| `AutoFriendship` | The organization-wide backfill: its triggers, its snapshot, its insert |
| `Orgs` | The agents of an organization and of its owner's personal account; the deletion's transaction from its lock to its cascade, moves, and the default agents of first calls |
| `Credits` | Charge queue, charges, wallets, ledger, checkouts; accounting loops of several relay instances |
| `Switches` | EXTENDS `Credits` with each instance's in-memory snapshot of who is out; its `Invoke` is `Accept` behind that gate |
| `Wake` | The wake hub of every process, the bus between them, and waiting pulls |
| `WakeUrls` | The dispatchers of all relay processes around one agent's row of `agent_wake`: turns, the throttle window, pings, recorded results, the owner's set and clear |
| `Calls` | Calls between agents: their entries, the feed of each party, timers, deletions, tombstones, the tagger of call memory and the invocations made in a call |
| `PushAgents` | An agent that may have an endpoint: its owner's changes, its card's fetches and refresh job, and A2A messages forwarded to it or parked for it |
| `Slugs` | The slugs and aliases of one account's agents |
| `Access` | Authorizations, pairings and API keys of one person, their scopes, and requests at the relay that authenticate, look up a scope in a cache and act |
| `Limits` | Three limits that are checked in one statement and counted in another |
| `Heartbeats` | Polls in each relay's memory, its batches, and the table |
| `Reviews` | Requests held, let through and turned down, and the reviews that tag their capabilities |
| `Screening` | One message cut into requests to the judge, retried, halved, and merged into a verdict |
| `ServeLoop` | The SDK's serve loop in several workers against leases and the claim limit |
| `Ensure` | EXTENDS `Relationships` with one run of the CLI's `invoke ensure` over its friendships and grants |
| `InvocationsProofs`, `InvocationsReplyProofs` | TLAPS proofs about `Invocations`: its rows and the contract; replies, notices and standing consents |
| `RelationshipsProofs` | Proofs about `Relationships` and `AutoFriendship` |
| `WakeProofs` | Proofs about `Wake` and `WakeUrls` |
| `CreditsProofs` | Proofs about `Credits` and `Switches`, with the lemmas about sums |
| `CallsProofs` | Proofs about `Calls` |
| `AccessProofs` | Proofs about `Access`, `Reviews` and `Limits` |
| `PartsProofs` | Proofs about `ServeLoop`, `Heartbeats`, `PushAgents`, `Orgs`, `Screening` and `Slugs` |
| `MCInvocations`, `MCRelationships`, `MCCredits`, `MCSwitches`, `MCCalls` | Small instances of these modules |
| `MCMessages`, `MCParts`, `MCLive` | Compositions of components that share no state with each other. One moves in each behaviour, chosen at the start, so that their state spaces add up: calls and screening in `MCMessages`; ten components in `MCParts`; in `MCLive` those with liveness, the hub, push agents and the CLI, and `Orgs` |

Where components meet in the code, each module has the part of the meeting it
needs. `Invocations`, `Credits` and `Wake` meet at one transaction, the insert
of an invocation with its charge row followed by `notify`: `Queue` counts the
charge row in `Invocations`, `Accept` puts it into the queue in `Credits`,
`Commit` then `Notify` are it in `Wake`, and `Arrives` followed by a
dispatcher's turn in `WakeUrls`. `Invocations` takes its grant as active at
first and lets it be revoked or run out at any time, which is what
`Relationships` says a grant can do; `Calls` has an invocation as a row with a
status and a preview, opened, settled and closed by a purge; `PushAgents` has
the row a forwarded message ends with; `ServeLoop` takes from `Invocations` the
lease, the claim limit and the release. The verdict of `Screening` is a
nondeterministic refusal in every module with a handler that screens.

## How the models read the code

**Steps.** A step is one SQL transaction or one critical section of an
in-memory structure. A handler that reads, waits (limits, message screening,
an HTTP call) and writes later is two steps, with what it read kept in a
request: `Authorize` then `Enqueue*`/`Refuse`/`TurnAway`; `SubmitResult` then
`StoreDraft`/`FinishResult`/`DropResult`; `SubmitAsOwner` then `AnswerAsOwner`;
`ReadX` then `WriteX` in `Relationships`; `Look` then `Finish` and
`ReadSettings` then `SaveSettings` in `AutoFriendship`; `BeginX` then
`CommitX` for accounting transactions; `ReadSwitches` then `ReplaceAll`;
`ChecksEndpoint` then `SetsEndpoint`; a step that loads and one that commits
for a call's handlers (`DeclineChecks`, `DeclineCommits`). A transaction whose
locks others wait for is one step,
except in `Orgs`, where the deletion's locks are held between its statements
and the others wait for them, since that waiting is what is in question.
A single guarded `UPDATE` is one step, its guard named (`TakesResult`,
`Decides`, `Releases`).

**Statements on many rows** are taken per row where the rows do not interact
(the sweeps), and as a whole where they do (`DeleteAgent`, `RevokeGrant`,
`CommitCharge`, `Finish`).

**Snapshots.** Under READ COMMITTED a statement sees what was committed when
it started, and its writes meet what is there by then. That gap is kept
where the code depends on it: the backfill's `NOT EXISTS`, the `EXISTS` on
accounts against the foreign key in a charge batch, the due wallets of a grant.

**Time** is which timers have run out (`off`, `running`, `over`), so every
order the settings allow is explored; months are numbers, and the clock of the
switches counts ticks of the sweep interval.

**Screening, limits and authorization** of people are nondeterministic: any
request may be refused after its check. Who may act for an account is left out.

**Data.** Ids, answers, accounts and payments are model values. Consent terms
are a use limit (`Once`, a number, or `Unlimited`); the kind of failure of an
answer is whether it is in `Failing`. A balance is a plain integer: the code
bounds a single amount to a billion credits and BIGINT sums are far from
overflow. The expiry of a grant is in `Invocations`, which reads it; the
handlers of `Relationships` do not, and there it has no timer.

**Initial states.** Everything is empty, except that `Invocations` may begin
with rows of `LegacyIds`, written before deadlines existed (migration 0053),
pending or held and without a deadline or lease. Each of `LegacyIds` may as well be
new. A row that was claimed when the migration ran, which differs in that its claim
is not counted, is left out.


## Runs and bounds

Every bound is a CONSTANT named `Max...` or the size of a set. `CHECK_DEADLOCK
FALSE` is set everywhere: with its bounds used up a model rightly stops.

| Run | Shows | Bounds, and why they do |
|---|---|---|
| `invocation_drafts` | `ConfirmedAsShown`, `HumanConfirmedWhilePublished`, `NoticesAgree`, `EveryInvocationSettles` and the refinement `KeepsContract` for a human_in_loop capability | One id, since drafts and claims of different rows do not touch. It is new, and then goes through `Authorize` and `Enqueue*` under a capability that asks first or does not, its owner switching that in between, so that each step of the contract happens; or it is a row from before deadlines, pending or held. Two different answers in flight, so a draft is replaced while it is confirmed; two deliveries, a claim that comes back and the last; consents for one request or without limit (`MaxRequests` 0), their use limits being the other run's. The contract under changing semantics is what the proof covers |
| `invocation_consents` | `HeldExactlyWhileAsked`, `NeverDeliveredUnapproved`, `ChargedOnceQueued`, `ConsentWithinLimits` for an autonomous capability | Two ids, one under the grant and one made while the capability is public, compete for one use of a consent and create consents against each other, while the owner asks, stops asking, publishes and withdraws; two deliveries, enough for a claim that lapses and one that is the last; no results, which consents do not see |
| `credit_switches` | `BooksBalance`, `OneGrantAMonth`, `ChargedOnLeaving` of the books and `BlocksOnlyTheRecentlyOut`, `GrantedBeforeBlocked` of the switches over them | One account and instance, as the advisory lock lets one transaction run at a time and instances share nothing else but the books; batches of two, four months with a cap of two (12 in the code) so that the cap is passed, one crash; `StaleAfter` = 3 ticks, the code's ratio |
| `credit_purchases` | `CreditedAsPaid`, `SettledForGood` of the checkouts, `QueueDrains` | Two accounts, two checkouts and two payments, one of which can be delivered twice or paid second; two accounts so that one deleted account fails the other's batch; of two instances one runs with credits off and discards, as while that setting is rolled out |
| `messages` | `NothingSlipsThrough` of screening; `NothingSaidAfterTheEnd`, `EndsAreTold`, `CountedAndCharged`, `OnlyLateWritesComeBack` of calls | One call of two agents with one message and one invocation, so that an end, a purge and the tagger meet each of them; one crash. Two contacts in two items of two units of text, which split over two requests and halve; every answer may leave out any of its questions, and a request may be lost |
| `parts` | Thirteen properties of ten components: `GrantsAmongFriends`, `DecidedForGood`, `EveryPairBefriended`, `RevokedForGood`, `ReachIsKept`, `ReviewedIfLetThrough`, `OvershootsByTheOthers`, `WokenUnlessOut`, `WorkIsAnnounced`, `OffIsTold`, `OldSlugsLead`, `PollsAreKept`, `HandledPerClaim` | Two agents (an ordered pair is all an index knows), two friendship rows and two grants, three agents in the backfill, so that a plan of several pairs is inserted or lost whole, one of which also proposes by hand and is accepted, countered, turned down or cancels; two agents made by two requests of one key or of two, while it is rotated; two reviews written at once, each overtaking the other; three callers past one limit; a wake URL set twice, or once with an error of the database; three names, three renames and two requests to rename at once, of one agent or two, there and back and crossing; three polls, one flushed while another arrives; two jobs claimed twice. `OneKindOfCredential` keeps credentials of different kinds, which share nothing but the agents, from multiplying; `FewKeys` has two requests at once under a key and the one it is rotated into, and one under keys made apart or rotated twice; `FewFaults` has two of the three faults of the bus; `FewSets` has both processes know a URL that is set a second time |
| `live` | `WorkEndsTheWait` of the hub, `ChargedAsForwarded` and `CardCatchesUp` of push agents, `AnswersEndTheWait` of the CLI, `AgentsAreKept` of organizations | One pull and item, a failed publish and a dropped signal; two URLs and two versions of a card under the tag of its version at either, so that hosts share a tag; two fetches, of which an older one ends after a newer: while two are under way, `OneFetchOrQuiet` leaves out messages, capabilities, the passing of hours and renames, which meet one fetch at a time; three agents moved, created and deleted under a deletion of their organization; one run of the command |
| `claim_after_revoke`, `counter_race`, `calls_purge`, `push_asks`, `ensure_reports` | a violation each, [below](#where-code-and-text-disagree) | |

Every property of a passing run has a mutant in `PROJECT.json`: a mapped
definition changed the way a plausible bug would (the operators whose comment
begins "Fault:"), under which TLC finds the property violated.

Four properties have a condition where the code does not do what is wished for;
each is listed [below](#where-code-and-text-disagree): `EndsAreTold` leaves out a
decline whose content was deleted, `OnlyLateWritesComeBack` lets tags and previews
that were under way come back into a purged call, `NothingSlipsThrough` counts a
contact as seen when its question was asked and passed over, and excepts the text
of a lost task, and `OldSlugsLead` is of agents whose own renames did not cross.

`HumanConfirmedWhilePublished` holds for a capability whose semantics do not
change: with `Semantics` of both values it is false of the code, which reads
the semantics when a reply arrives. `OneGrantAMonth` bounds what a wallet is
given from above; that a wallet gets each month it is due is the loop's
fairness and is not stated. `OvershootsByTheOthers` says by how much a limit
that is counted after it was checked is passed: by those who were between the
two.

## Fairness

Fairness is assumed of the backend's own timers, loops and in-memory wake-ups
and of the CLI's poll loop, never of callers, workers, owners, operators, the
agents' hosts' content or the payment provider.

- `Invocations` (`invocation_drafts`): every relay process runs the invocation
  sweep and the consent expiry on an interval for its whole life, and time
  passes (`DeadlineRunsOut`, `GateWaitRunsOut`). Claims, results and decisions
  are not fair: `EveryInvocationSettles` holds although all of them stop.
- `Credits` (`credit_purchases`): `supervise` restarts the accounting loop, and
  some instance gets the lock and charges; a transaction begun ends. `Crash` is
  bounded, so repeated crashes do not prevent progress for ever. A foreign-key
  failure rolls a batch back, and can recur only as often as accounts are
  deleted.
- `Wake` (`live`): the send and listen loops run, a connection is
  re-established, a handler that committed calls `notify`, and a pull goes on
  with what it does. Deadlines (`GivesUp`) are not fair: a pull that would only
  be saved by its deadline counts as lost.
- `PushAgents` (`live`): a card grows stale and the refresh job claims what is
  stale (weak); a fetch the job claimed loads, is answered and stores its card
  (strong: deletions and other fetches disable each step for a while). Lazy
  fetches and forwarded messages are not fair.
- `Ensure` (`live`): the command polls while it waits. Its deadline is not
  fair, nor is anybody the command waits for.
- The other components are checked for safety only.

## Proofs

Every safety invariant and action property of the passing runs, and the
refinement of the caller's contract, is also a theorem: TLC shows it on the
instances above, TLAPS for every value of the constants. Each theorem stands on
an inductive invariant, which has a theorem of its own (`...Invariant`), and
each of those on lemmas that take the steps of `Next` one action at a time.

### The life of an invocation

`InvocationsProofs`, for any sets of ids and answers, any settings and any
`MaxDeliveries` of at least one, from `ConstantsAssumption` alone:

| Theorem | Says |
|---|---|
| `TypeCorrect` | `Spec => []TypeOK` |
| `HeldWhileAsked` | `HeldExactlyWhileAsked`: held exactly while the consent request waits |
| `NeverUnapproved` | `NeverDeliveredUnapproved`: no claim without the owner's yes |
| `ChargedOnce` | `ChargedOnceQueued`: one charge for what was queued, none for the rest |
| `ClaimsAreBounded` | at most `MaxDeliveries` claims |
| `SettledIsFinal` | no step changes a settled invocation, but to erase its result |
| `Refinement` | `Spec => KeepsContract`, the caller's contract |

The argument is one inductive invariant, `IInv == TypeOK /\ RowInv`. None of
the safety properties is inductive alone: `ChargedOnceQueued` needs to know
that a row that can still be queued has no charge and no delivery
(`UnqueuedUntouched`); `HeldExactlyWhileAsked` that an invoke which passed its
checks has no row yet (`AuthorizedHasNoRow`); `TypeOK` needs the claim bound to
keep deliveries in range, and `ClaimsBounded` that a row enters the queue
unclaimed. `TypeStep` and `RowStep` show the two halves preserved, one step
for each action, and `InitInv` that they hold at first, legacy rows included.
`SettledIsFinal` and `Refinement` are action properties: `SettledStep` and
`ContractStep` go through the actions once more under `IInv`, and for the
contract the mapping is `View` of the status, the answer, and the set of
charged ids. `NeverUnapproved` follows from `UnchargedUntouched`, what was never
charged was never claimed, with `ChargedOnceQueued`, what is not yet or was
never allowed was not charged.

### What owners decide, relations, wake-ups

| Module | Theorem | States | Inductive invariant, and what it adds |
|---|---|---|---|
| `InvocationsReplyProofs` | `ConfirmedIsShown`, `HumanConfirms`, `NoticesAreTrue` | `ConfirmedAsShown`, `HumanConfirmedWhilePublished`, `NoticesAgree` | `RepliesInv` under `IInv`: while the capability can only be human_in_loop, every reply in flight is a draft or the owner's own. For the notices, `NoticesTrue`: each notice says what the call and its draft are; a draft has one end and a call one status, which leaves one pair of ends that can both be told (`OnePairOfEnds`) |
| | `ConsentsAreBounded` | `ConsentWithinLimits` | `ConsentInv`: a consent exists only where its own request was approved, what it covers was approved too, a pair has one live consent, and `used` is the cardinality of what is covered |
| `RelationshipsProofs` | `GrantsStandOnFriendship`, `DecisionsAreFinal` | `GrantsAmongFriends`, `DecidedForGood` | `FriendsInv`: a handler about to write a grant saw a friendship, and an accepted row stays accepted |
| | `PolicyReachesEveryPair` | `EveryPairBefriended` | `PolicyInv`: a pair in scope without a row is in a running backfill's plan, or was turned down after the snapshot, or a backfill is still to start |
| `WakeProofs` | `HubTypeCorrect`, `NoWakeIsLost` | `WakeTypeOK`, `WokenUnlessOut` | `HubInv`: a pull that claimed nothing, waiting or about to, has a wake on its way at every point from the commit to the last signal; a listener is off only after an outage |
| | `OffIsAlwaysTold` | `OffIsTold` | `UrlInv`: a transaction that records a failure began at some time, and a URL that is on was not switched off since it was set |
| | `WorkIsAlwaysAnnounced` | `WorkIsAnnounced` | `LookInv` under `UrlInv`: what a dispatcher took up has a look coming that no newer ping covers; a URL that is off is owed nothing |

### Credits

`CreditsProofs`, for any number of accounts, invocations, instances, checkouts
and payments, any prices and any length of ledger:

| Theorem | States | Inductive invariant, and what it adds |
|---|---|---|
| `BalancesAreSums` | `BooksBalance` | `BalancesInv`: the balance of an account that has no wallet yet ties to its sums as nothing; charges are finitely many; and `ChargesInv`, so that what a batch adds is disjoint from the charges there are |
| `GrantedOnceAMonth` | `OneGrantAMonth` | `GrantSumsInv`: a wallet was granted at most once per month, and in sum at most the largest grant per month, up to the month of its last grant, and none is granted ahead of the month |
| `PurchasesAreCreditedOnce`, `SettlementIsFinal` | `CreditedAsPaid`, `SettledForGood` | `PurchasesInv`: a payment is written to one checkout, when it is settled, and ledger rows and paid checkouts match by their payment |
| `LeavingIsCharged` | `ChargedOnLeaving` | `ChargesInv`: a queued row is its invocation's only one and not charged yet; the batch a transaction took is still queued. Only with `Billers = Instances`: with credits off an instance discards, as the code does |
| `OnlyTheRecentlyOutAreBlocked`, `GrantComesBeforeBlocking` | `BlocksOnlyTheRecentlyOut`, `GrantedBeforeBlocked` | `SwitchesInv`: what a snapshot blocks was out a tick before it at most, what a refresh found is no older than the refresh, and whoever was seen out has a granted wallet |

A balance is a fold over a ledger and over charges. The induction theorems of
the library take an operator as a parameter and cannot be used, so the section
`Sums` argues from a least counterexample instead: the finite subsets of a set
are well-founded under strict inclusion, so that a set of subsets that is not
empty has a smallest (`HasSmallest`). From it follow that the fold exists
(`FoldExists`), that folds over different sets agree where both are defined
(`FoldsAgree`), that a sum may take its elements in any order (`SumTakesAny`),
grows by what is added (`SumAdds`), and splits over disjoint sets (`SumsJoin`).

### Calls

`CallsProofs`, for any number of calls, agents, handlers and invocations:

| Theorem | States | Inductive invariant, and what it adds |
|---|---|---|
| `TheEndIsFinal`, `TheEndIsTold` | `NothingSaidAfterTheEnd`, `EndsAreTold` | `CallsInv`: a call not placed yet is empty; its end is one entry, agrees with its row, and is delivered or waits to be, unless it is a decline in a purged call |
| `MessagesAreCharged` | `CountedAndCharged` | `CountsInv`: what the handlers that passed the check may still add stays below the limit and the number of handlers together |
| `OnlyLateWritesFollowAPurge` | `OnlyLateWritesComeBack` | `PurgesInv`: only a call that is over is purged, a handler that saw it over still finds it over, what is to be delivered is in a transcript, and the tagger's claims are of calls. A call that is purged is no tagging pass's due any more and passes no invocation's check, so what is under way then only ends (`NoMoreLinking`, `TaggerStep`) |

Each step of a handler, worker or tagger does one of few things to a call: it
leaves what was said, adds an entry, opens, accepts or ends it. `CallMoves`
shows that once for all actions, and the three invariants are shown of moves.

### Credentials, limits and the other parts

| Module | Theorem | States | Inductive invariant, and what it adds |
|---|---|---|---|
| `AccessProofs` | `RevokedPairingsAreDead`, `ReachStaysAsMeant` | `RevokedForGood`, `ReachIsKept` | `AccessInv`: a token was minted of an approved pairing; a scope is stored where it is meant but for what is still unlisted, the row of a rotated key having moved on; a request that made an agent under a live key still finds the row to list it in; a family has one key in use (`Families`), and what it made is attributed to that key; what a cache or a request was told is within the reach |
| | `ReviewsAreOfWhatWasLetThrough` | `ReviewedIfLetThrough` | `ReviewsInv`: what qualifies was let through, and stays so between the check and the write |
| | `LimitsAreOvershotByTheOthers` | `OvershootsByTheOthers` | `LimitsInv`: the count and the requests past the check are below the limit and the other requests together |
| `PartsProofs` | `HandlersRunPerClaim` | `HandledPerClaim` | `ServeInv`: a worker holds an invocation once, deliveries stay within the limit, and runs and copies held are bounded by claims and releases |
| | `PollsStay` | `PollsAreKept` | `HeartInv`: what a relay saw is in the table, in its batch or waiting for one |
| | `ForwardedIsCharged` | `ChargedAsForwarded` | `ForwardInv`: what an endpoint took was posted, and an answer that was heard is of a message it took |
| | `AgentsOutliveTheirOrg` | `AgentsAreKept` | `OrgsInv`: what a deletion listed is still what there is, because it has it locked; a call that makes the default agent makes it alone |
| | `NothingPassesTheScreening` | `NothingSlipsThrough` | `ScreenInv`: every piece placed is in a chunk, an encoded span goes with its text, each query holds its chunk or half of it, a chunk without an answer is reported or was lost, and what answers said is in the merged ones, whichever questions they passed over |
| | `OldSlugsAreFollowed` | `OldSlugsLead`, while no more aliases live than `resolve_alias` follows | `SlugsInv`: aliases are as old as the rename that made them, newer ones outlive older ones, and the alias of a slug an agent left leads to the slug it has or to one it left later, unless that agent was once renamed from a slug the request had not read |

A walk along aliases is a function of the number of hops. Where it ends is again
an argument from a least number: while it has not reached the agent's slug it
moves to ever later departures with a live alias, of which there are at most as
many as live aliases. `resolve_alias` follows `MaxHops` (8 in the code), so a
chain of more live aliases ends in a 404 although each of its links is alive,
against the "always" of the discovery design; hence the condition of the theorem.
The `parts` run has fewer names than hops, so it cannot reach that case.

### Assumptions

The proofs assume what each module's `ASSUME` states of its constants. Beyond
types these are: limits are natural numbers or at least one; the sets whose
cardinality or sum the code takes are finite (`Requests` of calls, `Callers`,
`Workers`, `Jobs`, `Overrides`, `Names`); markers such as `NoPayment`, `Nobody` or
`NoName` are not members of the sets they stand beside; keys, pairings and
apps are different things, and the words `"none"`, `"makes"` and `NoAgentYet`
are no agent's id. TLC evaluates them in every run that extends the module. `LeavingIsCharged` and
`OldSlugsAreFollowed` have the further condition named above.

### What is only model-checked

- Liveness: `EveryInvocationSettles`, `QueueDrains`, `WorkEndsTheWait`,
  `CardCatchesUp`, `AnswersEndTheWait`. Fairness needs ENABLED, which is beyond
  the prover.
- That the modules agree with each other where they meet. A proof is about one
  module's specification (that of `Switches` includes `Credits`); a composition
  in an MC module lets TLC explore several of them in a run.
- The five disagreements below, which are counterexamples.

## Where code and text disagree

Five are runs that TLC ends with a counterexample; `PROJECT.json` quotes the text.

| Run | What happens |
|---|---|
| `claim_after_revoke` | A claim released, or lapsed, after its grant was revoked is claimed again, and an invoke checked before a revoke is queued after it |
| `counter_race` | A counter that loses to an accept still opens the reverse proposal |
| `calls_purge` | An invoke checks its call, both parties delete the call, its content is purged, and the row that names the call is inserted afterwards, for the purge never to find |
| `push_asks` | The owner gives an agent an endpoint while a capability starts asking first: each checks the other before either has written, and a push agent ends with a capability that asks |
| `ensure_reports` | Two agents are friends, and one of them has proposed once more the other way. `invoke ensure` looks at the latest row only and reports that it waits for a friendship the pair has |

More are where a property has to stop, and its condition says what happens:

- `HumanConfirmedWhilePublished`: deleting a human_in_loop capability lets the
  agent's next reply to a claimed call through unconfirmed, since the semantics
  are then NULL (`consent/reply.rs:4-6` has it otherwise).
- `EveryPairBefriended`: `auto_friendship.rs:20-21` calls its statement
  "`INSERT ... ON CONFLICT DO NOTHING`-equivalent", but it has no ON CONFLICT:
  of two overlapping backfills the second fails whole, and its own pairs stay
  strangers until the next. A save of the setting that read it as on, was
  overtaken by one that turned it off and then turns it on starts none. A pair
  passed over because one had proposed by hand (`auto_friendship.rs:80-87`) stays
  unfriended when the proposal is rejected or cancelled, until a next backfill.
- `NoticesAgree`: `store_draft` does not look at the invocation
  (`shared/consent/reply.rs:85-123`), so that a draft that comes after the
  deadline is held, and answered 202 where the design has 409
  (`docs/superpowers/specs/2026-10-28-waking-pull-agents-design.md:653`). Its
  owner can reject it, and the agent is told that its reply was rejected beside
  that the call expired (`decide.rs:739-748`); the page on consent says "**Reject** (with a
  note) fails the call" (`frontend/src/app/(site)/docs/consent/page.tsx:298`), which
  it no longer can.
- `EndsAreTold`: a purge deletes an undelivered `declined` delivery, with a reason
  or without (`purge.rs:44-50`), while its comment says that events "are still
  delivered" (`purge.rs:23-24`): a caller that has not pulled it never hears that
  its call was declined.
- `OnlyLateWritesComeBack`: the tagger looks at `purged_at` when it selects, not
  when it writes (`tagger.rs:145-156`), so that a call purged while the judge is
  asked gets tags back, against "The content goes: every entry's text, data and tags"
  (`purge.rs:4-5`); the
  invocations are those of `calls_purge`.
- `NothingSlipsThrough`: an answer of the judge that leaves out some of its
  questions is an answer (`screen.rs:347-361`): a contact whose question it passed
  over is neither redacted nor flagged, while the comment at `screen.rs:463`
  flags those that "went unanswered", which is checked of the whole first request
  only. A request whose task panics counts as failed, but its text is not reported
  as unjudged (`screen.rs:200-203`).
- `OldSlugsLead`: `update` takes no lock between reading an agent and writing the
  alias (`agents.rs:870`, 1003-1082). Of two requests that rename one agent, the
  one that read first and writes last leaves the slug in between without an
  alias: the agent's old slug is a 404, against "A always 301s to C".
- `ReachIsKept`: creating an agent is three statements without a transaction
  (`agents.rs:722-768`). A request that ends after the first leaves an agent that
  its own `selected` credential cannot manage, against `agents.rs:750-753`; so does
  one whose key is rotated before it looks up the scope.
- `CardCatchesUp`: the tag of the cached card is sent to whatever URL is set now
  (`fetcher.rs:317-331`) and a 304 keeps the card (`fetcher.rs:372-395`). When two
  hosts tag their cards alike, a moved agent keeps the card of its old endpoint
  until the new host publishes another.
- `WokenUnlessOut`, `WorkEndsTheWait`: nobody is woken after a listener's
  outage (`wake/bus.rs:137-144`); the waits it left end with their deadlines,
  the worst case the module names.

Read off the models or the code, with no property of their own:

Invocations and consent

- A draft stored after its claim was handed back, then denied, leaves an open
  call whose owner's answer is refused (`shared/consent/reply.rs:85-123`
  against 219-222).
- A claim checks once, before its long poll, that its agent is not deleted
  (`invoke.rs:1573-1582`), so that a pull waiting then can still be handed work.
- The public path does not look at the caller's own tombstone, so a deleted
  agent can still be named as the caller of a public capability; a held
  request of it is cancelled when it is approved (`invoke.rs:1276-1286`
  against `decide.rs:337`).
- `deliver.rs:5-6` says a worker "never receives an already-expired token", but
  the token stored with a request, good for 24 hours, is handed out again with
  every redelivery, and a human_in_loop call lives for 7 days.
- Two deliveries of one claim each answer with a token of their own, and one is
  stored; a failure there answers with an error for work that is now held.

Relationships and organizations

- The loser of two racing decisions is audited as having decided
  (`friendships.rs:515-540`).
- A grant can be created with a deleted agent: `create` asks neither side for
  its tombstone (`grants.rs:355`), nor does the MCP `propose_friendship`
  (`ReadProposeMcp`).
- A grant past its `expires_at` blocks a new one until it is revoked by hand:
  no handler flips it to expired (`migrations/0005_grants.sql:11`).
- A reverse proposal made during a backfill ends beside the automatic
  friendship (`auto_friendship.rs:36-38`).
- The header of migration 0004 speaks of ending a friendship, which no handler
  does.
- Deleting an organization moves its live agents only: the tombstoned ones go
  with the account, and their history with them, which `agents.rs:1152-1154`
  and `orgs.rs:507-512` mean to keep. An agent created meanwhile in the personal
  account under a slug found free makes the deletion fail whole.
- `accept_invite` says it returns "the existing membership", but answers with
  the role of the invite (`orgs.rs:424-425` against 490).
- After a rejected or cancelled proposal `invoke ensure` never proposes again,
  and a countered one ends its wait although the counter awaits an accept.

Calls

- A message and an accept count what is there before they write, so the message cap and the
  limit on active calls are passed by those between the two
  (`messages.rs:140`, `lifecycle.rs:128`), and an accept does not count the
  caller's own ringing calls.

Wake URLs and cards

- A dispatcher that knows an agent keeps its old `seen` when the agent's URL is
  set again; two failures recorded at once both write the notice
  (`wake_urls.rs:285`); a late answer of the old URL counts against the new one;
  a dispatch that fails is logged and forgotten (`wake_urls.rs:473`).
- A host that answers 304 after a rename leaves a published card that names the
  old slug (`fetcher.rs:372-395`); a changed card URL leaves the old card in
  place until a fetch, and a fetch of the old one that ends late replaces the
  new card; two updates of one capability overwrite each other.
- Renaming from A to B and back leaves B a 404; an agent on a slug with a live
  alias is not reachable by it; `agents.rs:1148-1151` calls a tombstoned slug
  unavailable while the partial index frees it.

Credentials and limits

- A request under way with a narrowed key that is rotated finds no scope row,
  which means all agents (`api_keys.rs`, `rotate`); a first call under a key
  rotated meanwhile makes an agent the new key does not find.
- A client may release a claim of another, which gives the delivery back: what
  bounds redelivery counts claims not handed back (`invoke.rs:1888`).

## Not modelled

- The map names about a seventh of the backend's lines. Most of the rest holds
  no state that could go wrong in an order nobody tested: listings, search and
  discovery queries, pages, DTOs and SDK types, the MCP and A2A wrappers around
  the handlers that are modelled, telemetry, usage reports, configuration, the
  judge's questions and prompts, and inline tests.
- Consent tokens, notice delivery, the list of approvers and approvals pages;
  organization creation, memberships and invites; reviews of friends and hidden
  reviews; the CLI's pairing and its waits for one invocation; the bundles of
  call memory.
- Peer presence, previews and trust snapshots.
- Row locks held between the statements of one transaction, but for the
  deletion of an organization, and so deadlocks that Postgres resolves by
  aborting one side: approve and deny lock a request and then its invocation,
  revoke and purge the other way round (`shared/consent/decide.rs:284`).
- `call_charge_queue`, drained by a statement of the same shape as
  `credit_charge_queue`; rate overrides and the running-low flag, which travel
  in the same snapshot as `blocked`.
- Screening's refusal by size and the flag-only band of languages other than
  English.
- sqlx's reconnect behaviour is external and taken as its documentation has
  it: `Ok(None)` after the connection is back, an error otherwise.
- Everything `PROJECT.json` lists as `not_modelled`, with the reason.

## Plan

Done in this order: `Invocations` with its contract and proofs, `Relationships`,
`AutoFriendship`, `Credits`, `Switches`, `Wake`; then `Calls`, `WakeUrls`,
`Access`, `PushAgents`, `Slugs`, `Limits`, `ServeLoop`, `Heartbeats`, `Reviews`,
`Screening`, `Orgs`, `Ensure`, the public path of `Invocations`, and the
compositions.

Then the proofs: every safety invariant and action property of the passing runs.

What is left:

1. Abstract specifications of more components, in the way of
   `InvocationContract`: a checkout as its payer sees it, a call as one party
   does, with the invariants above as the lemmas of their refinements.
2. A composition of `Invocations` with `Relationships`' grants for several
   pairs, if the state space allows, in place of the assumption that a grant
   may be revoked at any time.
3. More of the code: consent tokens and notice delivery, organization
   memberships and invites, `call_charge_queue`, the MCP handlers that repeat a
   REST handler in statements of their own.
