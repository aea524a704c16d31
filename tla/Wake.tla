-------------------------------- MODULE Wake --------------------------------
(***************************************************************************)
(* Waking pull agents: a pull that finds nothing waits in its relay        *)
(* process until work is queued for its agent, in whichever process.  One  *)
(* agent's one feed; every process has a hub, a sender and a listener.     *)
(*                                                                         *)
(* The watch channel of a process is the set of its waiting pulls that     *)
(* have a change to see.  Messages of one process to another are alike, so *)
(* some or none are waiting to be received.                                *)
(***************************************************************************)
EXTENDS Naturals, FiniteSets

CONSTANTS
    Processes, Pulls, Items,
    NoProcess,
    MaxWaiters,   \* INBOX_MAX_WAITERS
    MaxPublishFailures,  \* bound: publishes that fail
    MaxDrops,     \* bound: times a listener's connection drops
    MaxOutages    \* bound: drops it is not at once re-established after

ASSUME WakeAssumption ==
    /\ {MaxWaiters, MaxPublishFailures, MaxDrops, MaxOutages} \subseteq Nat
    /\ NoProcess \notin Processes

VARIABLES
    pending,   \* items committed and not claimed
    queued,    \* items ever committed
    owed,      \* processes between a commit and its call of notify
    outbound,  \* processes whose hub holds the key for the others
    permit,    \* processes whose outbound_ready has a permit stored
    sender,    \* each send_loop: waiting, gathering or publishing
    mail,      \* processes whose listener has messages to receive
    listener,  \* each listen_loop: on, dropped or off
    rousing,   \* processes with a wake_everyone under way: spawned, signalling
    pull,      \* each pull: idle, claiming, empty (claimed nothing) or waiting
    at,        \* the process a pull is in
    changed,   \* waiting pulls with a change to see
    closed,    \* processes shutting down
    faults     \* failed publishes, drops and outages so far

busVars == <<outbound, permit, sender, mail, listener, rousing, faults>>
pullVars == <<pull, at, changed>>
wakeVars == <<pending, queued, owed, busVars, pullVars, closed>>

Subscribed(p) == {w \in Pulls : pull[w] # "idle" /\ at[w] = p}

WakeTypeOK ==
    /\ pending \subseteq queued /\ queued \subseteq Items
    /\ {owed, outbound, permit, mail, closed} \subseteq SUBSET Processes
    /\ sender \in [Processes -> {"waiting", "gathering", "publishing"}]
    /\ listener \in [Processes -> {"on", "dropped", "off"}]
    /\ rousing \in [Processes -> SUBSET {"spawned", "signalling"}]
    /\ pull \in [Pulls -> {"idle", "claiming", "empty", "waiting"}]
    /\ at \in [Pulls -> Processes \cup {NoProcess}]
    /\ changed \subseteq {w \in Pulls : pull[w] # "idle"}
    /\ \A p \in Processes : Cardinality(Subscribed(p)) <= MaxWaiters
    /\ faults \in [{"failures", "drops", "outages"} -> Nat]

WakeInit ==
    /\ pending = {} /\ queued = {} /\ owed = {}
    /\ outbound = {} /\ permit = {} /\ mail = {} /\ closed = {}
    /\ sender = [p \in Processes |-> "waiting"]
    /\ listener = [p \in Processes |-> "on"]
    /\ rousing = [p \in Processes |-> {}]
    /\ pull = [w \in Pulls |-> "idle"]
    /\ at = [w \in Pulls |-> NoProcess]
    /\ changed = {}
    /\ faults = [f \in {"failures", "drops", "outages"} |-> 0]

Counts(fault, bound) ==
    /\ faults[fault] < bound
    /\ faults' = [faults EXCEPT ![fault] = @ + 1]

----------------------------------------------------------------------------
(* The hub *)

\* A transaction queues work ...
Commit(p, x) ==
    /\ x \notin queued /\ p \notin owed
    /\ pending' = pending \cup {x}
    /\ queued' = queued \cup {x}
    /\ owed' = owed \cup {p}
    /\ UNCHANGED <<busVars, pullVars, closed>>

\* signal_local: every pull waiting here has a change to see.
SignalLocal(p) == changed' = changed \cup Subscribed(p)

\* ... and the handler that committed it calls notify.
Notify(p) ==
    /\ p \in owed
    /\ owed' = owed \ {p}
    /\ SignalLocal(p)
    /\ outbound' = outbound \cup {p}
    /\ permit' = permit \cup {p}
    /\ UNCHANGED <<pending, queued, sender, mail, listener, rousing, faults, pull, at, closed>>

HasSlot(p) == Cardinality(Subscribed(p)) < MaxWaiters

\* try_wait, before the first claim, marks what there was as seen.
TryWait(w, p) ==
    /\ pull[w] = "idle" /\ p \notin closed /\ HasSlot(p)
    /\ pull' = [pull EXCEPT ![w] = "claiming"]
    /\ at' = [at EXCEPT ![w] = p]
    /\ UNCHANGED <<pending, queued, owed, busVars, changed, closed>>

Returns(w) ==
    /\ pull' = [pull EXCEPT ![w] = "idle"]
    /\ at' = [at EXCEPT ![w] = NoProcess]
    /\ changed' = changed \ {w}

\* A pull that doesn't wait, or may not, claims once.
ClaimAtOnce(p) ==
    /\ \E taken \in SUBSET pending \ {{}} : pending' = pending \ taken
    /\ UNCHANGED <<queued, owed, busVars, pullVars, closed>>

Claim(w) ==
    /\ pull[w] = "claiming" /\ pending # {}
    /\ \E taken \in SUBSET pending \ {{}} : pending' = pending \ taken
    /\ Returns(w)
    /\ UNCHANGED <<queued, owed, busVars, closed>>

\* A claim that finds nothing ...
ClaimNothing(w) ==
    /\ pull[w] = "claiming" /\ pending = {}
    /\ pull' = [pull EXCEPT ![w] = "empty"]
    /\ UNCHANGED <<pending, queued, owed, busVars, at, changed, closed>>

\* Fault: what changed up to now is marked as seen when the wait starts.
SeenAtWait(w) == changed \ {w}

\* What there is to see when the wait starts: all since the last look.
KeptForWait(w) == changed

\* ... and the wait that follows it.
StartWait(w) ==
    /\ pull[w] = "empty"
    /\ pull' = [pull EXCEPT ![w] = "waiting"]
    /\ changed' = KeptForWait(w)
    /\ UNCHANGED <<pending, queued, owed, busVars, at, closed>>

\* Waiter::changed: Woke::Changed, and claim again.
WokeChanged(w) ==
    /\ pull[w] = "waiting" /\ w \in changed
    /\ pull' = [pull EXCEPT ![w] = "claiming"]
    /\ changed' = changed \ {w}
    /\ UNCHANGED <<pending, queued, owed, busVars, at, closed>>

\* Woke::Closed: shutting down, return without claiming.
WokeClosed(w) ==
    /\ pull[w] = "waiting" /\ at[w] \in closed
    /\ Returns(w)
    /\ UNCHANGED <<pending, queued, owed, busVars, closed>>

\* Woke::Deadline, a claim that failed, or a caller that went away.
GivesUp(w) ==
    /\ pull[w] # "idle"
    /\ Returns(w)
    /\ UNCHANGED <<pending, queued, owed, busVars, closed>>

\* Shutting down: new pulls don't wait.
Close(p) ==
    /\ p \notin closed
    /\ closed' = closed \cup {p}
    /\ UNCHANGED <<pending, queued, owed, busVars, pullVars>>

----------------------------------------------------------------------------
(* The bus *)

\* send_loop takes the permit and lets keys gather ...
Gather(p) ==
    /\ sender[p] = "waiting" /\ p \in permit
    /\ permit' = permit \ {p}
    /\ sender' = [sender EXCEPT ![p] = "gathering"]
    /\ UNCHANGED <<pending, queued, owed, outbound, mail, listener, rousing, faults,
                   pullVars, closed>>

\* ... drains them, if there are any ...
Drain(p) ==
    /\ sender[p] = "gathering"
    /\ sender' = [sender EXCEPT ![p] = IF p \in outbound THEN "publishing" ELSE "waiting"]
    /\ outbound' = outbound \ {p}
    /\ UNCHANGED <<pending, queued, owed, permit, mail, listener, rousing, faults,
                   pullVars, closed>>

\* ... and publishes to the listeners that are connected.
Publish(p) ==
    /\ sender[p] = "publishing"
    /\ sender' = [sender EXCEPT ![p] = "waiting"]
    /\ mail' = mail \cup {q \in Processes \ {p} : listener[q] = "on"}
    /\ UNCHANGED <<pending, queued, owed, outbound, permit, listener, rousing, faults,
                   pullVars, closed>>

\* Fault: a failed batch is put back and nothing sends it.
NoPermit(p) == permit

\* After a failed send the loop gives itself a permit again.
Repermit(p) == permit \cup {p}

PublishFails(p) ==
    /\ sender[p] = "publishing"
    /\ Counts("failures", MaxPublishFailures)
    /\ sender' = [sender EXCEPT ![p] = "waiting"]
    /\ outbound' = outbound \cup {p}
    /\ permit' = Repermit(p)
    /\ UNCHANGED <<pending, queued, owed, mail, listener, rousing, pullVars, closed>>

Receive(p) ==
    /\ p \in mail /\ listener[p] = "on"
    /\ mail' = mail \ {p}
    /\ SignalLocal(p)
    /\ UNCHANGED <<pending, queued, owed, outbound, permit, sender, listener, rousing, faults,
                   pull, at, closed>>

\* The connection drops, and what was sent to it is lost.
Drop(p) ==
    /\ listener[p] = "on"
    /\ Counts("drops", MaxDrops)
    /\ listener' = [listener EXCEPT ![p] = "dropped"]
    /\ mail' = mail \ {p}
    /\ UNCHANGED <<pending, queued, owed, outbound, permit, sender, rousing, pullVars, closed>>

Rouse(p) == [rousing EXCEPT ![p] = @ \cup {"spawned"}]

\* try_recv re-established it: Ok(None), and everyone is woken.
Reconnected(p) ==
    /\ listener[p] = "dropped"
    /\ listener' = [listener EXCEPT ![p] = "on"]
    /\ rousing' = Rouse(p)
    /\ UNCHANGED <<pending, queued, owed, outbound, permit, sender, mail, faults, pullVars,
                   closed>>

\* try_recv could not: Err, and everyone is woken before the next attempt ...
ReconnectFails(p) ==
    /\ listener[p] = "dropped"
    /\ Counts("outages", MaxOutages)
    /\ listener' = [listener EXCEPT ![p] = "off"]
    /\ rousing' = Rouse(p)
    /\ UNCHANGED <<pending, queued, owed, outbound, permit, sender, mail, pullVars, closed>>

\* ... and nobody after it, nor after the first connect of the process.
Connect(p) ==
    /\ listener[p] = "off"
    /\ listener' = [listener EXCEPT ![p] = "on"]
    /\ UNCHANGED <<pending, queued, owed, outbound, permit, sender, mail, rousing, faults,
                   pullVars, closed>>

\* wake_everyone notes the keys waited on ...
WaitedKeys(p) ==
    /\ "spawned" \in rousing[p]
    /\ rousing' = [rousing EXCEPT ![p] =
                      (@ \ {"spawned"}) \cup IF Subscribed(p) # {} THEN {"signalling"} ELSE {}]
    /\ UNCHANGED <<pending, queued, owed, outbound, permit, sender, mail, listener, faults,
                   pullVars, closed>>

\* ... and signals them over a second.
WakeEveryone(p) ==
    /\ "signalling" \in rousing[p]
    /\ rousing' = [rousing EXCEPT ![p] = @ \ {"signalling"}]
    /\ SignalLocal(p)
    /\ UNCHANGED <<pending, queued, owed, outbound, permit, sender, mail, listener, faults,
                   pull, at, closed>>

----------------------------------------------------------------------------

Sends(p) == Gather(p) \/ Drain(p) \/ Publish(p)
Listens(p) == Receive(p) \/ Reconnected(p) \/ Connect(p)
Rouses(p) == WaitedKeys(p) \/ WakeEveryone(p)
Proceeds(w) == Claim(w) \/ ClaimNothing(w) \/ StartWait(w) \/ WokeChanged(w)

WakeNext ==
    \/ \E p \in Processes :
           \/ \E x \in Items : Commit(p, x)
           \/ \E w \in Pulls : TryWait(w, p)
           \/ Notify(p) \/ ClaimAtOnce(p) \/ Close(p)
           \/ Sends(p) \/ PublishFails(p)
           \/ Listens(p) \/ Drop(p) \/ ReconnectFails(p) \/ Rouses(p)
    \/ \E w \in Pulls : Proceeds(w) \/ WokeClosed(w) \/ GivesUp(w)

WakeSpec == WakeInit /\ [][WakeNext]_wakeVars

\* The background loops and the pulls run; nothing makes a deadline pass, so
\* what is claimed in time was not left to it.
WakeFairness ==
    /\ \A p \in Processes :
           /\ WF_wakeVars(Notify(p)) /\ WF_wakeVars(Sends(p))
           /\ WF_wakeVars(Listens(p)) /\ WF_wakeVars(Rouses(p))
    /\ \A w \in Pulls : WF_wakeVars(Proceeds(w)) /\ WF_wakeVars(WokeClosed(w))

WakeFairSpec == WakeSpec /\ WakeFairness

----------------------------------------------------------------------------
(* Properties *)

\* A wake that will reach the pulls waiting in p.
OnTheWay(p) ==
    \/ owed # {} \/ p \in mail \/ rousing[p] # {} \/ listener[p] = "dropped"
    \/ \E q \in Processes \ {p} : q \in outbound \/ sender[q] = "publishing"

\* bus: if the listener's connection drops, "every local waiter is woken to
\* claim again, since messages sent meanwhile are lost".  No pull waits while
\* there is work, with no change to see and no wake on its way to it.
NoLostWake ==
    \A w \in Pulls :
        pull[w] = "waiting" /\ w \notin changed /\ pending # {} => OnTheWay(at[w])

\* That much is so, whatever is published late, twice or never, until a
\* dropped connection can not be re-established at once.
WokenUnlessOut == faults["outages"] = 0 => NoLostWake

\* A pull does not wait through work for ever, although only its deadline
\* ends a wait that nothing woke and nothing here makes a deadline pass, until
\* a dropped connection can not be re-established at once.
WorkEndsTheWait ==
    \A w \in Pulls :
        (pull[w] = "waiting" /\ pending # {} /\ faults["outages"] = 0)
            ~> (pull[w] # "waiting" \/ pending = {} \/ faults["outages"] > 0)
=============================================================================
