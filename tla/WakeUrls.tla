------------------------------ MODULE WakeUrls ------------------------------
(***************************************************************************)
(* Wake URLs: one pull agent gave a URL that the relay pings when work     *)
(* arrives for it.  Each relay process has a dispatcher; all share the     *)
(* agent's row of agent_wake, whose last_sent_at is the slot they claim.   *)
(*                                                                         *)
(* Pings are numbered, and last_sent_at is the number of the last one.     *)
(* Whether the throttle window after it has passed is a flag of its own.   *)
(* The short wait that groups a burst is any time at all.  The notice that *)
(* the URL was switched off is work as well.                               *)
(***************************************************************************)
EXTENDS Naturals, FiniteSets

CONSTANTS
    Relays, Works, Turns,
    Notice,        \* the wake_url_disabled notice
    FailureLimit,  \* FAILURE_LIMIT
    MaxPings,      \* bound: pings claimed
    MaxSets,       \* bound: times the URL is set
    MaxErrors      \* bound: restarts, and turns that fail at the database

ASSUME WakeUrlsAssumption ==
    /\ {MaxPings, MaxSets, MaxErrors} \subseteq Nat
    /\ Notice \notin Works
    /\ FailureLimit \in Nat \ {0}

VARIABLES
    wakeRow,    \* agent_wake
    windowOver, \* the throttle window of the last ping has passed
    work,       \* work committed and not pulled
    arrived,    \* work ever committed
    notified,   \* <<p, x>>: p committed x, and its dispatcher has yet to take it
    due,        \* each dispatcher's entry: absent, or the last ping it saw
    again,      \* each dispatcher's channel of throttled turns
    turn,       \* dispatch_one calls, and test pings
    known,      \* processes that take the URL to be on (Heartbeats.wake)
    notices,    \* wake_url_disabled notices queued since the URL was last set
    counts,     \* pings, failure transactions, settings and errors so far
    unsaid      \* history: work taken up by a dispatcher and not followed by a ping

urlVars == <<wakeRow, windowOver, work, arrived, notified, due, again, turn, known,
             notices, counts, unsaid>>

NoEntry == [at |-> "none"]
NoTurn == [step |-> "idle"]
Unseen == 0   \* a wake that was not throttled: covered is None
NoWakeUrl == [present |-> FALSE, on |-> FALSE, failures |-> 0, sent |-> 0, offAt |-> 0]

WakeUrlsInit ==
    /\ wakeRow = NoWakeUrl /\ windowOver = TRUE
    /\ work = {} /\ arrived = {} /\ notified = {} /\ known = {}
    /\ due = [p \in Relays |-> NoEntry]
    /\ again = [p \in Relays |-> {}]
    /\ turn = [t \in Turns |-> NoTurn]
    /\ notices = 0
    /\ counts = [pings |-> 0, records |-> 0, sets |-> 0, errors |-> 0]
    /\ unsaid = [p \in Relays |-> {}]

Nothing == [p \in Relays |-> {}]

----------------------------------------------------------------------------
(* Work *)

\* Committed, and notified in that process only: queue_dispatch.
Arrives(p, x) ==
    /\ x \notin arrived
    /\ arrived' = arrived \cup {x}
    /\ work' = work \cup {x}
    /\ notified' = notified \cup {<<p, x>>}
    /\ UNCHANGED <<wakeRow, windowOver, due, again, turn, known, notices, counts,
                   unsaid>>

Pulls_ ==
    /\ \E taken \in SUBSET work \ {{}} : work' = work \ taken
    /\ UNCHANGED <<wakeRow, windowOver, arrived, notified, due, again, turn, known,
                   notices, counts, unsaid>>

----------------------------------------------------------------------------
(* The dispatcher *)

\* take_dispatch: an entry that is there keeps the ping it saw, although the
\* work that arrived may be newer than what that ping can have covered.
TakeDispatch(p, x) ==
    /\ <<p, x>> \in notified
    /\ notified' = notified \ {<<p, x>>}
    /\ IF p \in known
         THEN /\ due' = IF due[p] = NoEntry
                          THEN [due EXCEPT ![p] = [at |-> "group", seen |-> Unseen]] ELSE due
              /\ unsaid' = IF wakeRow.on /\ (due[p] = NoEntry \/ due[p].seen = Unseen)
                             THEN [unsaid EXCEPT ![p] = @ \cup work] ELSE unsaid
         ELSE UNCHANGED <<due, unsaid>>
    /\ UNCHANGED <<wakeRow, windowOver, work, arrived, again, turn, known, notices,
                   counts>>

\* A throttled turn's next time: the earlier of the two, and the ping it saw.
\* Work whose own entry it replaces is then judged by that ping.
ComesBack(p) ==
    \E seen \in again[p] :
        /\ again' = [again EXCEPT ![p] = @ \ {seen}]
        /\ due' = [due EXCEPT ![p] = [at |-> IF due[p] = NoEntry THEN "window" ELSE due[p].at,
                                      seen |-> seen]]
        /\ unsaid' = IF due[p] # NoEntry THEN [unsaid EXCEPT ![p] = {}] ELSE unsaid
        /\ UNCHANGED <<wakeRow, windowOver, work, arrived, notified, turn, known, notices,
                   counts>>

\* An entry that waits for a window comes after the window of the ping it saw.
IsReady(p) ==
    /\ due[p] # NoEntry
    /\ due[p].at = "window" => windowOver \/ wakeRow.sent # due[p].seen

Step(t, step) == turn' = [turn EXCEPT ![t].step = step]
Leaves(t) == turn' = [turn EXCEPT ![t] = NoTurn]

Fires(p, t) ==
    /\ IsReady(p) /\ turn[t] = NoTurn
    /\ due' = [due EXCEPT ![p] = NoEntry]
    /\ turn' = [turn EXCEPT ![t] = [step |-> "due", in |-> p, covered |-> due[p].seen, began |-> 0]]
    /\ UNCHANGED <<wakeRow, windowOver, work, arrived, notified, again, known,
                   notices, counts, unsaid>>

\* dispatch_one counts what waits ...
CountPending(t) ==
    /\ turn[t].step = "due"
    /\ IF work = {} THEN Leaves(t) ELSE Step(t, "counted")
    /\ UNCHANGED <<wakeRow, windowOver, work, arrived, notified, due, again, known,
                   notices, counts, unsaid>>

SlotFree == wakeRow.on /\ (wakeRow.sent = 0 \/ windowOver)

\* ... claims the slot ...
Slots ==
    /\ counts.pings < MaxPings
    /\ counts' = [counts EXCEPT !.pings = @ + 1]
    /\ wakeRow' = [wakeRow EXCEPT !.sent = counts.pings + 1]
    /\ windowOver' = FALSE
    /\ unsaid' = Nothing

ClaimSlot(t) ==
    /\ turn[t].step = "counted" /\ SlotFree
    /\ Slots
    /\ Step(t, "sending")
    /\ UNCHANGED <<work, arrived, notified, due, again, known, notices>>

SlotTaken(t) ==
    /\ turn[t].step = "counted" /\ ~SlotFree
    /\ Step(t, "throttled")
    /\ UNCHANGED <<wakeRow, windowOver, work, arrived, notified, due, again, known,
                   notices, counts, unsaid>>

\* Fault: a wake that was not throttled before does not come back.
SomeAnd(last, covered) == covered # Unseen /\ last <= covered

NotCovered(last, covered) == covered = Unseen \/ last <= covered

\* ... or comes back when its window ends, unless a newer ping covered it.
LookAgain(t) ==
    LET p == turn[t].in IN
    /\ turn[t].step = "throttled"
    /\ again' = IF /\ wakeRow.on /\ wakeRow.sent # 0
                   /\ NotCovered(wakeRow.sent, turn[t].covered)
                  THEN [again EXCEPT ![p] = @ \cup {wakeRow.sent}] ELSE again
    /\ Leaves(t)
    /\ UNCHANGED <<wakeRow, windowOver, work, arrived, notified, due, known, notices,
                   counts, unsaid>>

\* ping_now, whatever waits and whenever the last one was.
PingNow(p, t) ==
    /\ turn[t] = NoTurn /\ wakeRow.present
    /\ Slots
    /\ turn' = [turn EXCEPT ![t] = [step |-> "sending", in |-> p, covered |-> Unseen, began |-> 0]]
    /\ UNCHANGED <<work, arrived, notified, due, again, known, notices>>

WindowPasses ==
    /\ ~windowOver
    /\ windowOver' = TRUE
    /\ UNCHANGED <<wakeRow, work, arrived, notified, due, again, turn, known, notices,
                   counts, unsaid>>

----------------------------------------------------------------------------
(* Recording a ping's result *)

RecordOk(t) ==
    /\ turn[t].step = "sending"
    /\ wakeRow' = IF wakeRow.present THEN [wakeRow EXCEPT !.failures = 0] ELSE wakeRow
    /\ Leaves(t)
    /\ UNCHANGED <<windowOver, work, arrived, notified, due, again, known, notices,
                   counts, unsaid>>

\* A failure's transaction begins ...
RecordBegins(t) ==
    /\ turn[t].step = "sending"
    /\ counts' = [counts EXCEPT !.records = @ + 1]
    /\ turn' = [turn EXCEPT ![t].step = "recording", ![t].began = counts.records + 1]
    /\ UNCHANGED <<wakeRow, windowOver, work, arrived, notified, due, again, known,
                   notices, unsaid>>

\* Fault: a switch-off counts when it came after the transaction began.
SwitchedLater(offAt, now) == offAt > now

\* RETURNING disabled_at >= now(): now() is when the transaction began.
SwitchedOff(offAt, now) == offAt # 0 /\ offAt >= now

\* ... and commits: at the limit the URL is off, with a notice.
RecordFails(t) ==
    LET fails == wakeRow.failures + 1
        goesOff == wakeRow.on /\ fails >= FailureLimit
        offAt == IF goesOff THEN turn[t].began ELSE wakeRow.offAt
    IN
    /\ turn[t].step = "recording"
    /\ IF ~wakeRow.present
         THEN Leaves(t) /\ UNCHANGED <<wakeRow, work, notices, unsaid>>
         ELSE /\ wakeRow' = [wakeRow EXCEPT !.failures = fails, !.on = @ /\ fails < FailureLimit,
                                            !.offAt = offAt]
              /\ unsaid' = IF goesOff THEN Nothing ELSE unsaid
              /\ IF SwitchedOff(offAt, turn[t].began)
                   THEN notices' = notices + 1 /\ work' = work \cup {Notice} /\ Step(t, "off")
                   ELSE Leaves(t) /\ UNCHANGED <<notices, work>>
    /\ UNCHANGED <<windowOver, arrived, notified, due, again, known, counts>>

\* After the commit this process takes the URL to be off, and notifies.
NotesOff(t) ==
    LET p == turn[t].in IN
    /\ turn[t].step = "off"
    /\ known' = known \ {p}
    /\ notified' = notified \cup {<<p, Notice>>}
    /\ Leaves(t)
    /\ UNCHANGED <<wakeRow, windowOver, work, arrived, due, again, notices, counts,
                   unsaid>>

----------------------------------------------------------------------------
(* Setting and clearing the URL *)

\* set_wake keeps last_sent_at, and clears the failures.
SetWake(p) ==
    /\ counts.sets < MaxSets
    /\ counts' = [counts EXCEPT !.sets = @ + 1]
    /\ wakeRow' = [wakeRow EXCEPT !.present = TRUE, !.on = TRUE, !.failures = 0, !.offAt = 0]
    /\ known' = known \cup {p}
    /\ notices' = 0
    /\ UNCHANGED <<windowOver, work, arrived, notified, due, again, turn, unsaid>>

ClearWake(p) ==
    /\ wakeRow.present
    /\ wakeRow' = NoWakeUrl
    /\ known' = known \ {p}
    /\ notices' = 0 /\ unsaid' = Nothing
    /\ UNCHANGED <<windowOver, work, arrived, notified, due, again, turn, counts>>

\* Heartbeats::reload replaces what this process knows by what it read, which
\* may be some time ago by now.
Reload(p) ==
    /\ known' = known \ {p} \/ (counts.sets > 0 /\ known' = known \cup {p})
    /\ UNCHANGED <<wakeRow, windowOver, work, arrived, notified, due, again, turn,
                   notices, counts, unsaid>>

----------------------------------------------------------------------------
(* Faults *)

Errs ==
    /\ counts.errors < MaxErrors
    /\ counts' = [counts EXCEPT !.errors = @ + 1]

\* dispatch_one fails at the database: its wake is logged and forgotten.
TurnFails(t) ==
    /\ turn[t].step \in {"due", "counted", "throttled", "sending"}
    /\ Errs /\ Leaves(t)
    /\ unsaid' = [unsaid EXCEPT ![turn[t].in] = {}]
    /\ UNCHANGED <<wakeRow, windowOver, work, arrived, notified, due, again, known,
                   notices>>

\* A process restarts: all its dispatcher had in memory is gone.
Restarts(p) ==
    /\ Errs
    /\ notified' = {n \in notified : n[1] # p} /\ known' = known \ {p}
    /\ due' = [due EXCEPT ![p] = NoEntry]
    /\ again' = [again EXCEPT ![p] = {}]
    /\ turn' = [t \in Turns |-> IF turn[t] # NoTurn /\ turn[t].in = p THEN NoTurn ELSE turn[t]]
    /\ unsaid' = [unsaid EXCEPT ![p] = {}]
    /\ UNCHANGED <<wakeRow, windowOver, work, arrived, notices>>

----------------------------------------------------------------------------

WakeUrlsNext ==
    \/ \E p \in Relays :
           \/ \E x \in Works : Arrives(p, x)
           \/ \E x \in Works \cup {Notice} : TakeDispatch(p, x)
           \/ ComesBack(p)
           \/ \E t \in Turns : Fires(p, t) \/ PingNow(p, t)
           \/ SetWake(p) \/ ClearWake(p) \/ Reload(p) \/ Restarts(p)
    \/ \E t \in Turns :
           \/ CountPending(t) \/ ClaimSlot(t) \/ SlotTaken(t) \/ LookAgain(t)
           \/ RecordOk(t) \/ RecordBegins(t) \/ RecordFails(t) \/ NotesOff(t) \/ TurnFails(t)
    \/ Pulls_ \/ WindowPasses

WakeUrlsSpec == WakeUrlsInit /\ [][WakeUrlsNext]_urlVars

----------------------------------------------------------------------------
(* Properties *)

\* p's dispatcher will look at the agent.
WillLook(p) ==
    \/ due[p] # NoEntry \/ again[p] # {}
    \/ \E t \in Turns : turn[t] # NoTurn /\ turn[t].in = p
                        /\ turn[t].step \in {"due", "counted", "throttled"}

\* dispatch_one: a throttled wake comes back "when the window ends, so work
\* that arrived meanwhile still gets a ping".  Work a dispatcher took up, that
\* nobody pulled and no ping followed, has a look at the agent coming, in that
\* dispatcher, while the URL is on.  The one exception is work that came while
\* the dispatcher already had an entry with a ping it saw, or whose entry such
\* a one replaced: any newer ping then counts as covering it.
WorkIsAnnounced ==
    \A p \in Relays : wakeRow.on /\ unsaid[p] \cap work # {} => WillLook(p)

\* record: the failure that switches the URL off "tells the agent with a
\* wake_url_disabled notice".  A URL that is off has told its agent so since it
\* was set, whatever other results were recorded meanwhile.
OffIsTold == wakeRow.present /\ ~wakeRow.on => notices > 0
=============================================================================
