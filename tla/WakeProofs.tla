----------------------------- MODULE WakeProofs -----------------------------
(***************************************************************************)
(* Proofs about the wake hub and the wake URLs, for any number of relay    *)
(* processes, waiting pulls, items of work and dispatches under way.       *)
(*                                                                         *)
(* No wake is lost because a pull that found nothing and has not seen a    *)
(* change since has a wake coming at every point between a commit and the  *)
(* last signal it leads to, whichever process committed.  No work behind a *)
(* wake URL is forgotten because a dispatcher that took it up keeps a look *)
(* at the agent coming that no newer ping has covered.                     *)
(***************************************************************************)
EXTENDS Wake, WakeUrls, FiniteSetTheorems, TLAPS

----------------------------------------------------------------------------
(* The wake hub *)

\* A listener that is off had a drop it was not at once re-established after.
OffAfterOutage ==
    \A p \in Processes : listener[p] = "off" => faults["outages"] > 0

\* A pull that claimed nothing, waiting by now or not, has a wake coming when
\* there is work.
EmptyHandedAreWoken ==
    faults["outages"] = 0 =>
        \A w \in Pulls :
            pull[w] \in {"empty", "waiting"} /\ w \notin changed /\ pending # {}
                => OnTheWay(at[w])

\* A pull under way is in a process.
PullsArePlaced == \A w \in Pulls : pull[w] # "idle" => at[w] \in Processes

FewWaiters ==
    \A p \in Processes :
        /\ IsFiniteSet(Subscribed(p))
        /\ Cardinality(Subscribed(p)) <= MaxWaiters

\* The types, but for the number of waiters.
HubTypes ==
    /\ pending \subseteq queued /\ queued \subseteq Items
    /\ owed \subseteq Processes /\ outbound \subseteq Processes
    /\ permit \subseteq Processes /\ mail \subseteq Processes
    /\ closed \subseteq Processes
    /\ sender \in [Processes -> {"waiting", "gathering", "publishing"}]
    /\ listener \in [Processes -> {"on", "dropped", "off"}]
    /\ rousing \in [Processes -> SUBSET {"spawned", "signalling"}]
    /\ pull \in [Pulls -> {"idle", "claiming", "empty", "waiting"}]
    /\ at \in [Pulls -> Processes \cup {NoProcess}]
    /\ changed \subseteq {w \in Pulls : pull[w] # "idle"}
    /\ faults \in [{"failures", "drops", "outages"} -> Nat]
    /\ PullsArePlaced
    /\ OffAfterOutage

HubInv == HubTypes /\ FewWaiters /\ EmptyHandedAreWoken

\* Every step keeps the types, the places of pulls in their process, and a
\* switched-off bus without subscribers.
LEMMA HubTypesStep == ASSUME HubTypes, [WakeNext]_wakeVars PROVE HubTypes'
<1> USE WakeAssumption
    DEF HubTypes, PullsArePlaced, OffAfterOutage, wakeVars, busVars, pullVars,
        Subscribed, SignalLocal, Counts, Returns
<1>1. ASSUME NEW p \in Processes, NEW x \in Items, Commit(p, x) PROVE HubTypes'
  BY <1>1 DEF Commit
<1>2. ASSUME NEW p \in Processes, NEW w \in Pulls, TryWait(w, p)
      PROVE HubTypes'
  BY <1>2 DEF TryWait
<1>3. ASSUME NEW p \in Processes, Notify(p) PROVE HubTypes'
  BY <1>3 DEF Notify
<1>4. ASSUME NEW p \in Processes, ClaimAtOnce(p) \/ Close(p) PROVE HubTypes'
  BY <1>4 DEF ClaimAtOnce, Close
<1>5. ASSUME NEW p \in Processes, Gather(p) PROVE HubTypes'
  BY <1>5 DEF Gather
<1>6. ASSUME NEW p \in Processes, Drain(p) PROVE HubTypes'
  BY <1>6 DEF Drain
<1>7. ASSUME NEW p \in Processes, Publish(p) PROVE HubTypes'
  BY <1>7 DEF Publish
<1>8. ASSUME NEW p \in Processes, PublishFails(p) PROVE HubTypes'
  BY <1>8 DEF PublishFails, Repermit
<1>9. ASSUME NEW p \in Processes, Receive(p) PROVE HubTypes'
  BY <1>9 DEF Receive
<1>10. ASSUME NEW p \in Processes, Drop(p) PROVE HubTypes'
  BY <1>10 DEF Drop
<1>11. ASSUME NEW p \in Processes, Reconnected(p) PROVE HubTypes'
  BY <1>11 DEF Reconnected, Rouse
<1>12. ASSUME NEW p \in Processes, ReconnectFails(p) PROVE HubTypes'
  BY <1>12 DEF ReconnectFails, Rouse
<1>13. ASSUME NEW p \in Processes, Connect(p) PROVE HubTypes'
  BY <1>13 DEF Connect
<1>14. ASSUME NEW p \in Processes, WaitedKeys(p) PROVE HubTypes'
  BY <1>14 DEF WaitedKeys
<1>15. ASSUME NEW p \in Processes, WakeEveryone(p) PROVE HubTypes'
  BY <1>15 DEF WakeEveryone
<1>16. ASSUME NEW w \in Pulls, Claim(w) PROVE HubTypes'
  BY <1>16 DEF Claim
<1>17. ASSUME NEW w \in Pulls,
              ClaimNothing(w) \/ StartWait(w) \/ WokeChanged(w)
       PROVE HubTypes'
  BY <1>17 DEF ClaimNothing, StartWait, WokeChanged, KeptForWait
<1>18. ASSUME NEW w \in Pulls, WokeClosed(w) \/ GivesUp(w) PROVE HubTypes'
  BY <1>18 DEF WokeClosed, GivesUp
<1>19. CASE UNCHANGED wakeVars
  BY <1>19
<1> HIDE DEF HubTypes, wakeVars
<1> QED
  BY <1>1, <1>2, <1>3, <1>4, <1>5, <1>6, <1>7, <1>8, <1>9, <1>10, <1>11,
     <1>12, <1>13, <1>14, <1>15, <1>16, <1>17, <1>18, <1>19
  DEF WakeNext, Sends, Listens, Rouses, Proceeds

\* A pull takes its waiter's slot in try_wait and nowhere else.
LEMMA FewWaitersStep == ASSUME HubTypes, FewWaiters, [WakeNext]_wakeVars
                        PROVE  FewWaiters'
<1> USE DEF HubTypes
<1>1. ASSUME NEW p \in Processes, NEW w \in Pulls, TryWait(w, p)
      PROVE FewWaiters'
  <2>1. Subscribed(p)' = Subscribed(p) \cup {w}
    BY <1>1 DEF TryWait, Subscribed
  <2>2. \A q \in Processes \ {p} : Subscribed(q)' = Subscribed(q)
    BY <1>1 DEF TryWait, Subscribed
  <2>3. IsFiniteSet(Subscribed(p)) /\ Cardinality(Subscribed(p)) < MaxWaiters
    BY <1>1 DEF TryWait, HasSlot, FewWaiters
  <2>4. /\ IsFiniteSet(Subscribed(p)')
        /\ Cardinality(Subscribed(p)') <= Cardinality(Subscribed(p)) + 1
        /\ Cardinality(Subscribed(p)) \in Nat
    <3>1. /\ IsFiniteSet(Subscribed(p) \cup {w})
          /\ Cardinality(Subscribed(p) \cup {w}) =
                IF w \in Subscribed(p) THEN Cardinality(Subscribed(p))
                ELSE Cardinality(Subscribed(p)) + 1
      BY <2>3, FS_AddElement
    <3>2. Cardinality(Subscribed(p)) \in Nat
      BY <2>3, FS_CardinalityType
    <3> QED
      BY <2>1, <3>1, <3>2
  <2>5. Cardinality(Subscribed(p)') \in Nat
    BY <2>4, FS_CardinalityType
  <2>6. Cardinality(Subscribed(p)') <= MaxWaiters
    BY <2>3, <2>4, <2>5, WakeAssumption
  <2> QED
    BY <2>2, <2>4, <2>6 DEF FewWaiters
<1>2. ASSUME \A p \in Processes : Subscribed(p)' \subseteq Subscribed(p)
      PROVE FewWaiters'
  <2> SUFFICES ASSUME NEW p \in Processes
               PROVE  /\ IsFiniteSet(Subscribed(p)')
                      /\ Cardinality(Subscribed(p)') <= MaxWaiters
    BY DEF FewWaiters
  <2>1. /\ IsFiniteSet(Subscribed(p)')
        /\ Cardinality(Subscribed(p)') <= Cardinality(Subscribed(p))
    BY <1>2, FS_Subset DEF FewWaiters
  <2>2. Cardinality(Subscribed(p)') \in Nat /\ Cardinality(Subscribed(p)) \in Nat
    BY <2>1, FS_CardinalityType DEF FewWaiters
  <2> QED
    BY <2>1, <2>2, WakeAssumption DEF FewWaiters
<1>3. CASE UNCHANGED <<pull, at>>
  BY <1>2, <1>3 DEF Subscribed
<1>4. ASSUME NEW w \in Pulls, Claim(w) \/ WokeClosed(w) \/ GivesUp(w)
      PROVE FewWaiters'
  BY <1>2, <1>4 DEF Claim, WokeClosed, GivesUp, Returns, Subscribed
<1>5. ASSUME NEW w \in Pulls, ClaimNothing(w) \/ StartWait(w) \/ WokeChanged(w)
      PROVE FewWaiters'
  BY <1>2, <1>5 DEF ClaimNothing, StartWait, WokeChanged, Subscribed
<1> HIDE DEF HubTypes
<1> QED
  BY <1>1, <1>3, <1>4, <1>5
  DEF WakeNext, Commit, Notify, ClaimAtOnce, Close, Sends, Gather, Drain,
      Publish, PublishFails, Listens, Receive, Reconnected, Connect, Drop,
      ReconnectFails, Rouses, WaitedKeys, WakeEveryone, Proceeds, wakeVars,
      pullVars

\* A wake is handed on until it is a change to see: commit, notify, drain,
\* publish, receive; what a dropped connection lost, waking everyone makes up.
LEMMA EmptyHandedStep == ASSUME HubInv, HubTypes', [WakeNext]_wakeVars
                         PROVE  EmptyHandedAreWoken'
<1> USE WakeAssumption
    DEF HubInv, HubTypes, PullsArePlaced, OffAfterOutage, EmptyHandedAreWoken,
        OnTheWay, wakeVars, busVars, pullVars, Subscribed, SignalLocal, Counts,
        Returns
<1> DEFINE Goal == EmptyHandedAreWoken'
<1>1. ASSUME NEW p \in Processes, NEW x \in Items, Commit(p, x) PROVE Goal
  BY <1>1 DEF Commit
<1>2. ASSUME NEW p \in Processes, NEW w \in Pulls, TryWait(w, p) PROVE Goal
  BY <1>2 DEF TryWait
<1>3. ASSUME NEW p \in Processes, Notify(p) PROVE Goal
  BY <1>3 DEF Notify
<1>4. ASSUME NEW p \in Processes, ClaimAtOnce(p) \/ Close(p) PROVE Goal
  BY <1>4 DEF ClaimAtOnce, Close
<1>5. ASSUME NEW p \in Processes, Gather(p) PROVE Goal
  BY <1>5 DEF Gather
<1>6. ASSUME NEW p \in Processes, Drain(p) PROVE Goal
  BY <1>6 DEF Drain
<1>7. ASSUME NEW p \in Processes, Publish(p) PROVE Goal
  BY <1>7 DEF Publish
<1>8. ASSUME NEW p \in Processes, PublishFails(p) PROVE Goal
  BY <1>8 DEF PublishFails, Repermit
<1>9. ASSUME NEW p \in Processes, Receive(p) PROVE Goal
  BY <1>9 DEF Receive
<1>10. ASSUME NEW p \in Processes, Drop(p) PROVE Goal
  BY <1>10 DEF Drop
<1>11. ASSUME NEW p \in Processes, Reconnected(p) PROVE Goal
  BY <1>11 DEF Reconnected, Rouse
<1>12. ASSUME NEW p \in Processes, ReconnectFails(p) PROVE Goal
  BY <1>12 DEF ReconnectFails, Rouse
<1>13. ASSUME NEW p \in Processes, Connect(p) PROVE Goal
  BY <1>13 DEF Connect
<1>14. ASSUME NEW p \in Processes, WaitedKeys(p) PROVE Goal
  BY <1>14 DEF WaitedKeys
<1>15. ASSUME NEW p \in Processes, WakeEveryone(p) PROVE Goal
  BY <1>15 DEF WakeEveryone
<1>16. ASSUME NEW w \in Pulls, Claim(w) PROVE Goal
  BY <1>16 DEF Claim
<1>17. ASSUME NEW w \in Pulls, ClaimNothing(w) PROVE Goal
  BY <1>17 DEF ClaimNothing
<1>18. ASSUME NEW w \in Pulls, StartWait(w) \/ WokeChanged(w) PROVE Goal
  BY <1>18 DEF StartWait, WokeChanged, KeptForWait
<1>19. ASSUME NEW w \in Pulls, WokeClosed(w) \/ GivesUp(w) PROVE Goal
  BY <1>19 DEF WokeClosed, GivesUp
<1>20. CASE UNCHANGED wakeVars
  BY <1>20
<1> HIDE DEF HubInv, EmptyHandedAreWoken, wakeVars
<1> QED
  BY <1>1, <1>2, <1>3, <1>4, <1>5, <1>6, <1>7, <1>8, <1>9, <1>10, <1>11,
     <1>12, <1>13, <1>14, <1>15, <1>16, <1>17, <1>18, <1>19, <1>20
  DEF WakeNext, Sends, Listens, Rouses, Proceeds

\* A pull that came up empty-handed has its wake coming until it is woken.
THEOREM HubInvariant == WakeSpec => []HubInv
<1>1. WakeInit => HubInv
  <2> SUFFICES ASSUME WakeInit PROVE HubInv
    OBVIOUS
  <2>1. HubTypes /\ EmptyHandedAreWoken
    BY DEF WakeInit, HubTypes, PullsArePlaced, OffAfterOutage,
           EmptyHandedAreWoken
  <2>2. \A p \in Processes : Subscribed(p) = {}
    BY DEF WakeInit, Subscribed
  <2>3. FewWaiters
    BY <2>2, FS_EmptySet, WakeAssumption DEF FewWaiters
  <2> QED
    BY <2>1, <2>3 DEF HubInv
<1>2. HubInv /\ [WakeNext]_wakeVars => HubInv'
  BY HubTypesStep, FewWaitersStep, EmptyHandedStep DEF HubInv
<1> QED
  BY <1>1, <1>2, PTL DEF WakeSpec

\* What the hub, the sender and the listener keep has its types, and a process
\* never holds more waiting pulls than INBOX_MAX_WAITERS.
THEOREM HubTypeCorrect == WakeSpec => []WakeTypeOK
<1>1. HubInv => WakeTypeOK
  BY DEF HubInv, HubTypes, FewWaiters, WakeTypeOK
<1> QED
  BY <1>1, HubInvariant, PTL

\* No pull waits while there is work with neither a change to see nor a wake
\* on its way to it, whatever is published late, twice or not at all, until a
\* dropped connection can not be re-established at once.
THEOREM NoWakeIsLost == WakeSpec => []WokenUnlessOut
<1>1. HubInv => WokenUnlessOut
  BY DEF HubInv, EmptyHandedAreWoken, WokenUnlessOut, NoLostWake
<1> QED
  BY <1>1, HubInvariant, PTL

----------------------------------------------------------------------------
(* Wake URLs: the notice that a URL is off *)

TurnSteps == {"due", "counted", "throttled", "sending", "recording", "off"}

UrlTypes ==
    /\ wakeRow \in [present : BOOLEAN, on : BOOLEAN, failures : Nat, sent : Nat,
                    offAt : Nat]
    /\ arrived \subseteq Works
    /\ work \subseteq arrived \cup {Notice}
    /\ due \in [Relays -> {NoEntry} \cup [at : {"group", "window"}, seen : Nat]]
    /\ again \in [Relays -> SUBSET Nat]
    /\ turn \in [Turns -> {NoTurn} \cup [step : TurnSteps, in : Relays,
                                         covered : Nat, began : Nat]]
    /\ notices \in Nat
    /\ counts \in [pings : Nat, records : Nat, sets : Nat, errors : Nat]
    /\ unsaid \in [Relays -> SUBSET (arrived \cup {Notice})]

\* A transaction that records a failure began at some time.
RecordingBegan ==
    \A t \in Turns : turn[t].step = "recording" => turn[t].began > 0

\* A URL that is on was not switched off since it was set.
OnWasNotOff == wakeRow.on => wakeRow.offAt = 0

UrlInv == UrlTypes /\ RecordingBegan /\ OnWasNotOff /\ OffIsTold

\* Every step of a dispatcher, its pings and the owner keeps a URL that is off
\* announced as off.
LEMMA UrlStep == ASSUME UrlInv, [WakeUrlsNext]_urlVars PROVE UrlInv'
<1> USE WakeUrlsAssumption
    DEF UrlInv, UrlTypes, RecordingBegan, OnWasNotOff, OffIsTold, TurnSteps,
        NoTurn, NoEntry, NoWakeUrl, Unseen, urlVars, Nothing, Step, Leaves,
        Slots, Errs
<1>1. ASSUME NEW p \in Relays, NEW x \in Works, Arrives(p, x) PROVE UrlInv'
  BY <1>1 DEF Arrives
<1>2. ASSUME NEW p \in Relays, NEW x \in Works \cup {Notice}, TakeDispatch(p, x)
      PROVE UrlInv'
  BY <1>2 DEF TakeDispatch
<1>3. ASSUME NEW p \in Relays, ComesBack(p) PROVE UrlInv'
  BY <1>3 DEF ComesBack
<1>4. ASSUME NEW p \in Relays, NEW t \in Turns, Fires(p, t) PROVE UrlInv'
  BY <1>4 DEF Fires, IsReady
<1>5. ASSUME NEW p \in Relays, NEW t \in Turns, PingNow(p, t) PROVE UrlInv'
  BY <1>5 DEF PingNow
<1>6. ASSUME NEW p \in Relays, SetWake(p) PROVE UrlInv'
  <2>1. wakeRow' = [wakeRow EXCEPT !.present = TRUE, !.on = TRUE, !.failures = 0,
                                   !.offAt = 0]
    BY <1>6 DEF SetWake
  <2>2. wakeRow' \in [present : BOOLEAN, on : BOOLEAN, failures : Nat,
                      sent : Nat, offAt : Nat]
    BY <2>1
  <2>3. wakeRow'.on /\ wakeRow'.offAt = 0
    BY <2>1
  <2>4. counts' \in [pings : Nat, records : Nat, sets : Nat, errors : Nat]
    BY <1>6 DEF SetWake
  <2>5. UNCHANGED <<work, arrived, due, again, turn, unsaid>> /\ notices' = 0
    BY <1>6 DEF SetWake
  <2> QED
    BY <2>2, <2>3, <2>4, <2>5
<1>7. ASSUME NEW p \in Relays, ClearWake(p) PROVE UrlInv'
  BY <1>7 DEF ClearWake
<1>8. ASSUME NEW p \in Relays, Reload(p) PROVE UrlInv'
  BY <1>8 DEF Reload
<1>9. ASSUME NEW p \in Relays, Restarts(p) PROVE UrlInv'
  BY <1>9 DEF Restarts
<1>10. ASSUME NEW t \in Turns, CountPending(t) PROVE UrlInv'
  BY <1>10 DEF CountPending
<1>11. ASSUME NEW t \in Turns, ClaimSlot(t) PROVE UrlInv'
  BY <1>11 DEF ClaimSlot
<1>12. ASSUME NEW t \in Turns, SlotTaken(t) PROVE UrlInv'
  BY <1>12 DEF SlotTaken
<1>13. ASSUME NEW t \in Turns, LookAgain(t) PROVE UrlInv'
  BY <1>13 DEF LookAgain
<1>14. ASSUME NEW t \in Turns, RecordOk(t) PROVE UrlInv'
  BY <1>14 DEF RecordOk
<1>15. ASSUME NEW t \in Turns, RecordBegins(t) PROVE UrlInv'
  <2>1. counts.records + 1 \in Nat /\ counts.records + 1 > 0
    OBVIOUS
  <2>2. counts' \in [pings : Nat, records : Nat, sets : Nat, errors : Nat]
    BY <1>15 DEF RecordBegins
  <2>3. turn' = [turn EXCEPT ![t] = [@ EXCEPT !.step = "recording",
                                              !.began = counts.records + 1]]
    BY <1>15 DEF RecordBegins
  <2>4. turn[t] \in [step : TurnSteps, in : Relays, covered : Nat, began : Nat]
    BY <1>15 DEF RecordBegins
  <2>5. [turn[t] EXCEPT !.step = "recording", !.began = counts.records + 1]
            \in [step : TurnSteps, in : Relays, covered : Nat, began : Nat]
    BY <2>1, <2>4
  <2>6. RecordingBegan'
    BY <2>1, <2>3, <2>4
  <2>7. UNCHANGED <<wakeRow, work, arrived, due, again, notices, unsaid>>
    BY <1>15 DEF RecordBegins
  <2> QED
    BY <2>2, <2>3, <2>5, <2>6, <2>7
<1>16. ASSUME NEW t \in Turns, RecordFails(t) PROVE UrlInv'
  <2>1. turn[t].step = "recording" /\ turn[t].began \in Nat \ {0}
    BY <1>16 DEF RecordFails
  <2>2. CASE ~wakeRow.present
    BY <1>16, <2>2 DEF RecordFails
  <2>3. CASE wakeRow.present
    <3> DEFINE fails == wakeRow.failures + 1
               goesOff == wakeRow.on /\ fails >= FailureLimit
               offAt == IF goesOff THEN turn[t].began ELSE wakeRow.offAt
    <3>1. /\ wakeRow' = [wakeRow EXCEPT !.failures = fails,
                                        !.on = wakeRow.on /\ fails < FailureLimit,
                                        !.offAt = offAt]
          /\ unsaid' = IF goesOff THEN Nothing ELSE unsaid
          /\ UNCHANGED <<arrived, due, again, counts>>
      BY <1>16, <2>3 DEF RecordFails
    <3>2. IF offAt # 0 /\ offAt >= turn[t].began
          THEN notices' = notices + 1 /\ work' = work \cup {Notice} /\ Step(t, "off")
          ELSE Leaves(t) /\ UNCHANGED <<notices, work>>
      BY <1>16, <2>3 DEF RecordFails, SwitchedOff
    <3>3. offAt \in Nat /\ fails \in Nat
      BY <2>1
    <3>4. wakeRow' \in [present : BOOLEAN, on : BOOLEAN, failures : Nat,
                        sent : Nat, offAt : Nat]
      BY <3>1, <3>3
    <3>5. wakeRow'.on <=> wakeRow.on /\ fails < FailureLimit
      BY <3>1
    <3>6. wakeRow'.present /\ wakeRow'.offAt = offAt
      BY <2>3, <3>1
    <3>7. goesOff => notices' > 0
      BY <2>1, <3>2
    <3>8. OnWasNotOff'
      BY <3>3, <3>5, <3>6
    <3>9. OffIsTold'
      <4>1. notices' \in Nat /\ notices' >= notices
        BY <3>2
      <4> QED
        BY <2>3, <3>3, <3>5, <3>7, <4>1
    <3>10. turn' = [turn EXCEPT ![t] = NoTurn] \/ turn' = [turn EXCEPT ![t].step = "off"]
      BY <3>2
    <3>11. RecordingBegan'
      BY <3>10
    <3>12. UrlTypes'
      <4>1. turn' \in [Turns -> {NoTurn} \cup [step : TurnSteps, in : Relays,
                                               covered : Nat, began : Nat]]
        BY <2>1, <3>10
      <4>2. unsaid' \in [Relays -> SUBSET (arrived' \cup {Notice})]
        BY <3>1
      <4>3. notices' \in Nat /\ work' \subseteq arrived' \cup {Notice}
        BY <3>1, <3>2
      <4> HIDE DEF NoEntry, NoTurn, TurnSteps, Nothing
      <4> QED
        BY <3>1, <3>4, <4>1, <4>2, <4>3
    <3> QED
      BY <3>8, <3>9, <3>11, <3>12
  <2> QED
    BY <2>2, <2>3
<1>17. ASSUME NEW t \in Turns, NotesOff(t) PROVE UrlInv'
  BY <1>17 DEF NotesOff
<1>18. ASSUME NEW t \in Turns, TurnFails(t) PROVE UrlInv'
  BY <1>18 DEF TurnFails
<1>19. CASE Pulls_
  BY <1>19 DEF Pulls_
<1>20. CASE WindowPasses
  BY <1>20 DEF WindowPasses
<1>21. CASE UNCHANGED urlVars
  BY <1>21
<1> HIDE DEF UrlInv, urlVars
<1> QED
  BY <1>1, <1>2, <1>3, <1>4, <1>5, <1>6, <1>7, <1>8, <1>9, <1>10, <1>11,
     <1>12, <1>13, <1>14, <1>15, <1>16, <1>17, <1>18, <1>19, <1>20, <1>21
  DEF WakeUrlsNext

\* A wake URL that was switched off for its failures has a notice of it.
THEOREM UrlInvariant == WakeUrlsSpec => []UrlInv
<1>1. WakeUrlsInit => UrlInv
  BY WakeUrlsAssumption
  DEF WakeUrlsInit, UrlInv, UrlTypes, RecordingBegan, OnWasNotOff, OffIsTold,
      NoWakeUrl, NoTurn, NoEntry, TurnSteps
<1>2. UrlInv /\ [WakeUrlsNext]_urlVars => UrlInv'
  BY UrlStep
<1> QED
  BY <1>1, <1>2, PTL DEF WakeUrlsSpec

\* The failure that switches a URL off leaves a notice of it, whatever other
\* results are recorded meanwhile: now() of its own transaction is not later
\* than its own disabled_at.
THEOREM OffIsAlwaysTold == WakeUrlsSpec => []OffIsTold
BY UrlInvariant, PTL DEF UrlInv

----------------------------------------------------------------------------
(* Wake URLs: work is announced *)

\* A look at the agent that no newer ping covers by now: an entry of p's
\* dispatcher, a throttled turn on its way back, or a turn not yet decided,
\* which comes back if the slot it was throttled by is still there.
FreshLook(p) ==
    \/ due[p] # NoEntry /\ NotCovered(wakeRow.sent, due[p].seen)
    \/ \E seen \in again[p] : NotCovered(wakeRow.sent, seen)
    \/ \E t \in Turns :
           /\ turn[t] # NoTurn /\ turn[t].in = p
           /\ NotCovered(wakeRow.sent, turn[t].covered)
           /\ \/ turn[t].step \in {"due", "counted"}
              \/ turn[t].step = "throttled" /\ wakeRow.sent # 0

\* Work a dispatcher took up and no ping followed has such a look coming.
UnsaidHasFreshLook ==
    \A p \in Relays : wakeRow.on /\ unsaid[p] \cap work # {} => FreshLook(p)

\* Nothing is owed to a URL that is off.
OffOwesNothing == ~wakeRow.on => \A p \in Relays : unsaid[p] = {}

LookInv == UnsaidHasFreshLook /\ OffOwesNothing

\* A failure that is recorded does not touch the last ping.
LEMMA FailureKeepsSent ==
    ASSUME UrlInv, NEW t \in Turns, RecordFails(t) PROVE wakeRow'.sent = wakeRow.sent
<1>1. CASE ~wakeRow.present
  BY <1>1 DEF RecordFails
<1>2. CASE wakeRow.present
  <2>1. PICK fails, on, off :
            wakeRow' = [wakeRow EXCEPT !.failures = fails, !.on = on, !.offAt = off]
    <3> DEFINE fails == wakeRow.failures + 1
               off == IF wakeRow.on /\ fails >= FailureLimit THEN turn[t].began ELSE wakeRow.offAt
    <3>1. wakeRow' = [wakeRow EXCEPT !.failures = fails, !.on = @ /\ fails < FailureLimit,
                                     !.offAt = off]
      BY <1>2 DEF RecordFails
    <3> HIDE DEF fails, off
    <3> QED
      BY <3>1
  <2>2. wakeRow = [present |-> wakeRow.present, on |-> wakeRow.on,
                   failures |-> wakeRow.failures, sent |-> wakeRow.sent,
                   offAt |-> wakeRow.offAt]
    BY DEF UrlInv, UrlTypes
  <2> QED
    BY <2>1, <2>2
<1> QED
  BY <1>1, <1>2

\* Every step of the dispatchers keeps a look coming at work not announced.
LEMMA LookStep == ASSUME UrlInv, LookInv, [WakeUrlsNext]_urlVars PROVE LookInv'
<1> USE WakeUrlsAssumption
    DEF UrlInv, UrlTypes, OnWasNotOff, LookInv, UnsaidHasFreshLook,
        OffOwesNothing, FreshLook, NotCovered, TurnSteps, NoTurn, NoEntry,
        NoWakeUrl, Unseen, urlVars, Nothing, Step, Leaves, Slots, Errs
<1>1. ASSUME NEW p \in Relays, NEW x \in Works, Arrives(p, x) PROVE LookInv'
  BY <1>1 DEF Arrives
<1>2. ASSUME NEW p \in Relays, NEW x \in Works \cup {Notice}, TakeDispatch(p, x)
      PROVE LookInv'
  <2>1. UNCHANGED <<wakeRow, work, again, turn>>
    BY <1>2 DEF TakeDispatch
  <2>2. CASE p \in known
    <3>1. /\ due' = IF due[p] = NoEntry
                     THEN [due EXCEPT ![p] = [at |-> "group", seen |-> Unseen]] ELSE due
          /\ unsaid' = IF wakeRow.on /\ (due[p] = NoEntry \/ due[p].seen = Unseen)
                        THEN [unsaid EXCEPT ![p] = @ \cup work] ELSE unsaid
      BY <1>2, <2>2 DEF TakeDispatch
    <3> QED
      BY <2>1, <3>1
  <2>3. CASE p \notin known
    <3>1. UNCHANGED <<due, unsaid>>
      BY <1>2, <2>3 DEF TakeDispatch
    <3> QED
      BY <2>1, <3>1
  <2> QED
    BY <2>2, <2>3
<1>3. ASSUME NEW p \in Relays, ComesBack(p) PROVE LookInv'
  BY <1>3 DEF ComesBack
<1>4. ASSUME NEW p \in Relays, NEW t \in Turns, Fires(p, t) PROVE LookInv'
  BY <1>4 DEF Fires, IsReady
<1>5. ASSUME NEW p \in Relays, NEW t \in Turns, PingNow(p, t) PROVE LookInv'
  BY <1>5 DEF PingNow
<1>6. ASSUME NEW p \in Relays, SetWake(p) PROVE LookInv'
  BY <1>6 DEF SetWake
<1>7. ASSUME NEW p \in Relays, ClearWake(p) PROVE LookInv'
  BY <1>7 DEF ClearWake
<1>8. ASSUME NEW p \in Relays, Reload(p) PROVE LookInv'
  BY <1>8 DEF Reload
<1>9. ASSUME NEW p \in Relays, Restarts(p) PROVE LookInv'
  BY <1>9 DEF Restarts
<1>10. ASSUME NEW t \in Turns, CountPending(t) PROVE LookInv'
  BY <1>10 DEF CountPending
<1>11. ASSUME NEW t \in Turns, ClaimSlot(t) PROVE LookInv'
  BY <1>11 DEF ClaimSlot
<1>12. ASSUME NEW t \in Turns, SlotTaken(t) PROVE LookInv'
  BY <1>12 DEF SlotTaken, SlotFree
<1>13. ASSUME NEW t \in Turns, LookAgain(t) PROVE LookInv'
  <2>1. /\ turn[t].step = "throttled" /\ turn' = [turn EXCEPT ![t] = NoTurn]
        /\ UNCHANGED <<wakeRow, work, due, unsaid>>
    BY <1>13 DEF LookAgain
  <2>2. \A u \in Turns : turn'[u] # turn[u] => u = t
    BY <2>1
  <2>3. CASE /\ wakeRow.on /\ wakeRow.sent # 0
             /\ NotCovered(wakeRow.sent, turn[t].covered)
    <3>1. again' = [again EXCEPT ![turn[t].in] = @ \cup {wakeRow.sent}]
      BY <1>13, <2>3 DEF LookAgain
    <3>2. wakeRow.sent \in Nat /\ turn[t].in \in Relays
      BY <2>1
    <3>3. \A p \in Relays : again[p] \subseteq again'[p]
      BY <3>1
    <3>4. wakeRow.sent \in again'[turn[t].in] /\ NotCovered(wakeRow.sent, wakeRow.sent)
      BY <3>1, <3>2
    <3>5. ASSUME NEW p \in Relays, FreshLook(p) PROVE FreshLook(p)'
      BY <2>1, <2>2, <3>3, <3>4, <3>5
    <3> HIDE DEF FreshLook
    <3> QED
      BY <2>1, <3>5
  <2>4. CASE ~ (/\ wakeRow.on /\ wakeRow.sent # 0
                /\ NotCovered(wakeRow.sent, turn[t].covered))
    <3>1. again' = again
      BY <1>13, <2>4 DEF LookAgain
    <3>2. ASSUME NEW p \in Relays, wakeRow.on, FreshLook(p) PROVE FreshLook(p)'
      BY <2>1, <2>2, <2>4, <3>1, <3>2
    <3> HIDE DEF FreshLook
    <3> QED
      BY <2>1, <3>2
  <2> QED
    BY <2>3, <2>4
<1>14. ASSUME NEW t \in Turns, RecordOk(t) PROVE LookInv'
  BY <1>14 DEF RecordOk
<1>15. ASSUME NEW t \in Turns, RecordBegins(t) PROVE LookInv'
  <2>1. /\ turn[t].step = "sending"
        /\ turn' = [turn EXCEPT ![t].step = "recording", ![t].began = counts.records + 1]
        /\ UNCHANGED <<wakeRow, work, due, again, unsaid>>
    BY <1>15 DEF RecordBegins
  <2>2. \A u \in Turns : turn[u] # turn'[u] => u = t
    BY <2>1
  <2>3. \A p \in Relays : FreshLook(p) => FreshLook(p)'
    BY <2>1, <2>2
  <2> HIDE DEF FreshLook
  <2> QED
    BY <2>1, <2>3
<1>16. ASSUME NEW t \in Turns, RecordFails(t) PROVE LookInv'
  <2>1. turn[t].step = "recording" /\ turn[t].began \in Nat
    BY <1>16 DEF RecordFails
  <2>2. /\ turn' = [turn EXCEPT ![t] = NoTurn] \/ turn' = [turn EXCEPT ![t].step = "off"]
        /\ UNCHANGED <<due, again>>
    BY <1>16 DEF RecordFails
  <2>3. wakeRow'.sent = wakeRow.sent
    BY <1>16, FailureKeepsSent
  <2>4. \A p \in Relays : FreshLook(p) => FreshLook(p)'
    BY <2>1, <2>2, <2>3
  <2>5. CASE ~wakeRow.present
    <3>1. UNCHANGED <<wakeRow, work, unsaid>>
      BY <1>16, <2>5 DEF RecordFails
    <3> HIDE DEF FreshLook
    <3> QED
      BY <2>4, <3>1
  <2>6. CASE wakeRow.present /\ wakeRow.on
    <3>1. CASE wakeRow.failures + 1 >= FailureLimit
      <4>1. \A p \in Relays : unsaid'[p] = {}
        BY <1>16, <2>6, <3>1 DEF RecordFails
      <4> QED
        BY <4>1
    <3>2. CASE ~(wakeRow.failures + 1 >= FailureLimit)
      <4>1. UNCHANGED <<unsaid, work>> /\ wakeRow'.on
        <5>1. ~SwitchedOff(wakeRow.offAt, turn[t].began)
          BY <2>6 DEF SwitchedOff
        <5>2. UNCHANGED <<unsaid, work>>
          BY <1>16, <2>6, <3>2, <5>1 DEF RecordFails
        <5>3. wakeRow'.on
          <6>1. wakeRow' = [wakeRow EXCEPT
                    !.failures = wakeRow.failures + 1,
                    !.on = @ /\ wakeRow.failures + 1 < FailureLimit,
                    !.offAt = wakeRow.offAt]
            BY <1>16, <2>6, <3>2 DEF RecordFails
          <6>2. wakeRow.failures + 1 < FailureLimit
            BY <3>2
          <6> QED
            BY <2>6, <6>1, <6>2
        <5> QED
          BY <5>2, <5>3
      <4> HIDE DEF FreshLook
      <4> QED
        BY <2>4, <2>6, <4>1
    <3> QED
      BY <3>1, <3>2
  <2>7. CASE wakeRow.present /\ ~wakeRow.on
    <3>1. ~wakeRow'.on /\ UNCHANGED unsaid
      BY <1>16, <2>7 DEF RecordFails
    <3> QED
      BY <2>7, <3>1
  <2> QED
    BY <2>5, <2>6, <2>7
<1>17. ASSUME NEW t \in Turns, NotesOff(t) PROVE LookInv'
  BY <1>17 DEF NotesOff
<1>18. ASSUME NEW t \in Turns, TurnFails(t) PROVE LookInv'
  <2> DEFINE r == turn[t].in
  <2>1. turn[t] # NoTurn /\ r \in Relays
    BY <1>18 DEF TurnFails
  <2>2. /\ turn' = [turn EXCEPT ![t] = NoTurn]
        /\ unsaid' = [unsaid EXCEPT ![r] = {}]
        /\ UNCHANGED <<wakeRow, work, due, again>>
    BY <1>18 DEF TurnFails
  <2>3. \A p \in Relays \ {r} : FreshLook(p) => FreshLook(p)'
    BY <2>1, <2>2
  <2> HIDE DEF FreshLook
  <2> QED
    BY <2>1, <2>2, <2>3
<1>19. CASE Pulls_
  BY <1>19 DEF Pulls_
<1>20. CASE WindowPasses
  BY <1>20 DEF WindowPasses
<1>21. CASE UNCHANGED urlVars
  BY <1>21
<1> HIDE DEF UrlInv, LookInv, urlVars
<1> QED
  BY <1>1, <1>2, <1>3, <1>4, <1>5, <1>6, <1>7, <1>8, <1>9, <1>10, <1>11,
     <1>12, <1>13, <1>14, <1>15, <1>16, <1>17, <1>18, <1>19, <1>20, <1>21
  DEF WakeUrlsNext

\* Work a dispatcher took up and has not announced has a look coming that no
\* newer ping covered, and none is owed to a URL that is off.
THEOREM LookInvariant == WakeUrlsSpec => []LookInv
<1>1. WakeUrlsInit => LookInv
  BY DEF WakeUrlsInit, LookInv, UnsaidHasFreshLook, OffOwesNothing, NoWakeUrl
<1>2. UrlInv /\ LookInv /\ [WakeUrlsNext]_urlVars => LookInv'
  BY LookStep
<1> QED
  BY <1>1, <1>2, UrlInvariant, PTL DEF WakeUrlsSpec

\* Work a dispatcher took up, that nobody pulled and no ping followed, has a
\* look at the agent coming while the URL is on, however its entries, throttled
\* turns and those of the other processes meet (dispatch_one, look_again).
THEOREM WorkIsAlwaysAnnounced == WakeUrlsSpec => []WorkIsAnnounced
<1>1. UrlInv /\ LookInv => WorkIsAnnounced
  BY DEF UrlInv, UrlTypes, LookInv, UnsaidHasFreshLook, FreshLook,
         WorkIsAnnounced, WillLook, NoTurn
<1> QED
  BY <1>1, UrlInvariant, LookInvariant, PTL
=============================================================================
