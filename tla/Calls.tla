-------------------------------- MODULE Calls --------------------------------
(***************************************************************************)
(* Calls between two agents: invited, answered, spoken in, ended, and      *)
(* their content deleted.  A handler reads the call, screens what it was   *)
(* given while others run, and then commits in one transaction that holds  *)
(* the call's row.  A request whose transaction looks again at all it read *)
(* is one step; the others are a step that loads and a step that commits.  *)
(* The workers, the tagger of call memory and invocations made in a call   *)
(* run beside them.                                                        *)
(*                                                                         *)
(* When a day, an idle time or a TTL has passed is left open: a worker may *)
(* act on any call whose state it looks for.                               *)
(***************************************************************************)
EXTENDS Naturals, Sequences, FiniteSets

CONSTANTS
    CallIds, Agents, Nobody,
    Requests,       \* handlers running at once
    Invs,           \* invocations made in calls
    MaxActive,      \* CALLS_MAX_ACTIVE_PER_AGENT
    MaxMessages,    \* CALLS_MAX_MESSAGES
    MaxAttempts,    \* tagger::MAX_ATTEMPTS
    TagsOn,         \* whether calls are placed with a memory that has tags
    MaxSends,       \* bound: messages tried in a call
    MaxCrashes      \* bound: taggers that stop between claim and answer

ASSUME CallsAssumption ==
    /\ {MaxActive, MaxMessages, MaxAttempts, MaxSends, MaxCrashes} \subseteq Nat
    /\ TagsOn \in BOOLEAN
    /\ IsFiniteSet(Requests)
    /\ Nobody \notin Agents

VARIABLES
    call,      \* the row of each call
    entries,   \* its transcript, in seq order
    unread,    \* deliveries not yet pulled: <<call, seq, agent>>
    read,      \* deliveries pulled
    charged,   \* call_charge_queue: <<call, seq>>
    gone,      \* tombstoned agents
    request,   \* each handler's loaded view between its load and its commit
    tagger,    \* the calls a tagging pass has as due and what it has claimed
    inv        \* relay_invocations made in calls

transcript == <<entries, unread, charged>>
callVars == <<call, entries, unread, read, charged, gone, request, tagger, inv>>

States == {"none", "ringing", "active", "declined", "missed", "ended"}
Final == {"declined", "missed", "ended"}
Idle == [op |-> "idle"]

Open(c) == call[c].state \in {"ringing", "active"}
Parties(c) == {call[c].caller, call[c].callee}
Other(c, a) == CHOOSE b \in Parties(c) : b # a
Live(c) == Parties(c) \ gone
SpokenAt(c) == {s \in DOMAIN entries[c] : entries[c][s].kind = "message"}

CallsTypeOK ==
    /\ call \in [CallIds -> [state : States, caller : Agents \cup {Nobody},
                             callee : Agents \cup {Nobody},
                             note : BOOLEAN, count : Nat, purged : BOOLEAN]]
    /\ \A c \in CallIds : \A s \in DOMAIN entries[c] :
           entries[c][s] \in [kind : {"invite", "accepted", "message", "blocked", "invocation"} \cup Final,
                              from : Agents \cup {Nobody}, text : BOOLEAN, tags : BOOLEAN,
                              tag : {"none", "pending", "done", "error"}, tries : Nat]
    /\ \A d \in unread \cup read : d[2] \in DOMAIN entries[d[1]] /\ d[3] \in Parties(d[1])
    /\ unread \cap read = {}
    /\ gone \subseteq Agents
    /\ inv \in [Invs -> [call : CallIds \cup {Nobody}, status : {"none", "open", "closed"},
                         preview : BOOLEAN]]
    /\ tagger.crashes <= MaxCrashes

CallsInit ==
    /\ call = [c \in CallIds |-> [state |-> "none", caller |-> Nobody, callee |-> Nobody,
                                  note |-> FALSE, count |-> 0, purged |-> FALSE]]
    /\ entries = [c \in CallIds |-> <<>>]
    /\ unread = {} /\ read = {} /\ charged = {} /\ gone = {}
    /\ request = [r \in Requests |-> Idle]
    /\ tagger = [due |-> {}, claimed |-> {}, crashes |-> 0]
    /\ inv = [i \in Invs |-> [call |-> Nobody, status |-> "none", preview |-> FALSE]]

----------------------------------------------------------------------------
(* The transcript *)

Event(kind, from) ==
    [kind |-> kind, from |-> from, text |-> FALSE, tags |-> FALSE, tag |-> "none", tries |-> 0]

Message(from) ==
    [Event("message", from) EXCEPT !.text = TRUE, !.tag = IF TagsOn THEN "pending" ELSE "none"]

\* Fault: a refused message is charged too.
ChargesAny(e) == e.kind \in {"message", "blocked"}

\* What queue_message_charge is called for.
Charges(e) == e.kind = "message"

\* append: the next seqs, each with whom it is delivered to; the row lock taken
\* with the first orders them.  A message is charged to its sender.
Append_(c, new, to) ==
    LET n == Len(entries[c]) IN
    /\ entries' = [entries EXCEPT ![c] = @ \o new]
    /\ unread' = unread \cup UNION {{<<c, n + k, a>> : a \in to} : k \in DOMAIN new}
    /\ charged' = charged \cup {<<c, n + k>> : k \in {j \in DOMAIN new : Charges(new[j])}}

\* What a handler commits ends its request, whether or not it wrote anything.
Refuses(r) ==
    /\ request[r] # Idle
    /\ request' = [request EXCEPT ![r] = Idle]
    /\ UNCHANGED <<call, transcript, read, gone, tagger, inv>>

Loads(r, view) ==
    /\ request[r] = Idle
    /\ request' = [request EXCEPT ![r] = view]
    /\ UNCHANGED <<call, transcript, read, gone, tagger, inv>>

Commits(r) ==
    /\ request' = [request EXCEPT ![r] = Idle]
    /\ UNCHANGED <<read, gone, tagger>>

----------------------------------------------------------------------------
(* Inviting and answering *)

ActiveOf(a) == {c \in CallIds : call[c].state = "active" /\ a \in Parties(c)}
Placing(a) == {c \in CallIds : call[c].state = "ringing" /\ call[c].caller = a}

\* invite, up to screening the topic and the opening message.
InviteChecks(r, a, b) ==
    /\ {a, b} \cap gone = {} /\ a # b
    /\ Cardinality(ActiveOf(a)) + Cardinality(Placing(a)) < MaxActive
    /\ Cardinality(ActiveOf(b)) < MaxActive
    /\ Loads(r, [op |-> "invite", from |-> a, to |-> b])

\* calls_ringing_pair
RingingPair(a, b) == \E c \in Placing(a) : call[c].callee = b

\* ... and its transaction: the call, its invite, and an opening message.
InviteInserts(r, c) ==
    LET v == request[r] IN
    /\ v.op = "invite" /\ ~RingingPair(v.from, v.to)
    /\ call[c].state = "none"
    /\ \E opening \in BOOLEAN :
           /\ call' = [call EXCEPT ![c] = [state |-> "ringing", caller |-> v.from,
                          callee |-> v.to, note |-> TRUE,
                          count |-> IF opening THEN 1 ELSE 0, purged |-> FALSE]]
           /\ Append_(c, <<Event("invite", v.from)>> \o
                             (IF opening THEN <<Message(v.from)>> ELSE <<>>), {v.to})
    /\ Commits(r) /\ UNCHANGED inv

\* accept, up to screening its first reply.
AcceptChecks(r, c) ==
    /\ call[c].state = "ringing" /\ call[c].callee \notin gone
    /\ Cardinality(ActiveOf(call[c].callee)) < MaxActive
    /\ Loads(r, [op |-> "accept", call |-> c])

AcceptCommits(r) ==
    LET v == request[r]  c == v.call IN
    /\ v.op = "accept" /\ call[c].state = "ringing"
    /\ \E reply \in BOOLEAN :
           /\ call' = [call EXCEPT ![c].state = "active",
                                   ![c].count = @ + IF reply THEN 1 ELSE 0]
           /\ Append_(c, <<Event("accepted", call[c].callee)>> \o
                             (IF reply THEN <<Message(call[c].callee)>> ELSE <<>>),
                      {call[c].caller})
    /\ Commits(r) /\ UNCHANGED inv

\* decline, up to screening its reason.
DeclineChecks(r, c) ==
    /\ call[c].state = "ringing" /\ call[c].callee \notin gone
    /\ Loads(r, [op |-> "decline", call |-> c])

\* ... and its transaction, with a reason or none.
DeclineCommits(r) ==
    LET v == request[r]  c == v.call IN
    /\ v.op = "decline" /\ call[c].state = "ringing"
    /\ \E reason \in BOOLEAN :
           /\ call' = [call EXCEPT ![c].state = "declined", ![c].note = @ \/ reason]
           /\ Append_(c, <<[Event("declined", call[c].callee) EXCEPT !.text = reason]>>,
                      {call[c].caller})
    /\ Commits(r) /\ UNCHANGED inv

----------------------------------------------------------------------------
(* Messages *)

\* send, up to screening the message.
SendChecks(r, c, a) ==
    /\ a \in Live(c) /\ call[c].state = "active"
    /\ call[c].count < MaxMessages
    /\ Len(entries[c]) < MaxSends
    /\ Loads(r, [op |-> "send", call |-> c, from |-> a])

\* Fault: the transaction doesn't look at the call again.
AsLoaded(c) == TRUE

\* ... and its transaction, which locks the row of a call still active.
StillActive(c) == call[c].state = "active"

\* A refused message leaves a stand-in, neither delivered nor charged.
SendBlocked(r) ==
    LET v == request[r] IN
    /\ v.op = "send" /\ StillActive(v.call)
    /\ Append_(v.call, <<Event("blocked", v.from)>>, {})
    /\ Commits(r) /\ UNCHANGED <<call, inv>>

SendCommits(r) ==
    LET v == request[r] IN
    /\ v.op = "send" /\ StillActive(v.call)
    /\ call' = [call EXCEPT ![v.call].count = @ + 1]
    /\ Append_(v.call, <<Message(v.from)>>, {Other(v.call, v.from)} \ gone)
    /\ Commits(r) /\ UNCHANGED inv

\* The calls feed: an agent's undelivered entries.
Pull(a) ==
    /\ a \notin gone
    /\ LET mine == {d \in unread : d[3] = a} IN
           mine # {} /\ unread' = unread \ mine /\ read' = read \cup mine
    /\ UNCHANGED <<call, entries, charged, gone, request, tagger, inv>>

----------------------------------------------------------------------------
(* Ending *)

\* end_in: an open call ends, and those it is told to are told.
EndIn(c, from, to) ==
    /\ Open(c)
    /\ call' = [call EXCEPT ![c].state = "ended"]
    /\ Append_(c, <<Event("ended", from)>>, to)
    /\ UNCHANGED <<read, gone, request, tagger, inv>>

\* end: a party hangs up or withdraws its invite.
End(c, a) == a \in Live(c) /\ EndIn(c, a, {Other(c, a)} \ gone)

OwnerEnd(c) == EndIn(c, Nobody, Live(c))

\* delete_content of a call seen open or seen final.
DeleteLoads(r, c) ==
    /\ call[c].state # "none"
    /\ Loads(r, [op |-> "delete", call |-> c, open |-> Open(c)])

\* Fault: a purge keeps what the tagger wrote.
KeepTags(e) == [e EXCEPT !.text = FALSE]

Emptied(e) == [e EXCEPT !.text = FALSE, !.tags = FALSE]

\* Fault: what was not pulled in time is not delivered any more.
AllUnread(c, d) == d[1] = c

\* Entries that carried content are dropped from the feed.
Dropped(c, d) == d[1] = c /\ entries[c][d[2]].kind \in {"message", "declined"}

\* cancel_for_call, then purge_call: the previews of all its invocations go.
CloseInvocations(c) ==
    inv' = [i \in Invs |-> IF inv[i].call # c THEN inv[i]
                           ELSE [inv[i] EXCEPT !.status = IF @ = "open" THEN "closed" ELSE @,
                                               !.preview = FALSE]]

PurgedRow(row) == [row EXCEPT !.note = FALSE, !.purged = TRUE]
EmptiedAll(es) == [s \in DOMAIN es |-> Emptied(es[s])]

\* delete_content of a call seen open ends it first ...
DeleteOpen(r) ==
    LET v == request[r]  c == v.call IN
    /\ v.op = "delete" /\ v.open /\ Open(c)
    /\ call' = [call EXCEPT ![c] = [PurgedRow(@) EXCEPT !.state = "ended"]]
    /\ entries' = [entries EXCEPT ![c] = EmptiedAll(Append(@, Event("ended", Nobody)))]
    /\ unread' = {d \in unread : ~Dropped(c, d)} \cup
                     {<<c, Len(entries[c]) + 1, a>> : a \in Live(c)}
    /\ CloseInvocations(c)
    /\ Commits(r) /\ UNCHANGED charged

Purges(c) ==
    /\ call' = [call EXCEPT ![c] = PurgedRow(@)]
    /\ entries' = [entries EXCEPT ![c] = EmptiedAll(@)]
    /\ unread' = {d \in unread : ~Dropped(c, d)}
    /\ CloseInvocations(c)
    /\ UNCHANGED charged

\* ... and of one seen final does not.
DeleteFinal(r) ==
    /\ request[r].op = "delete" /\ ~request[r].open
    /\ Purges(request[r].call)
    /\ Commits(r)

----------------------------------------------------------------------------
(* Workers *)

WorkerEnds(c, state, to) ==
    /\ call' = [call EXCEPT ![c].state = state]
    /\ Append_(c, <<Event(state, Nobody)>>, to)
    /\ UNCHANGED <<read, gone, request, tagger, inv>>

MarkMissed(c) == call[c].state = "ringing" /\ WorkerEnds(c, "missed", {call[c].caller})

EndIdle(c) == call[c].state = "active" /\ WorkerEnds(c, "ended", Live(c))

EndGone(c) == Open(c) /\ Live(c) # Parties(c) /\ WorkerEnds(c, "ended", Live(c))

\* purge_due: a final call whose TTL has run out, once.
PurgeDue(c) ==
    /\ call[c].state \in Final /\ ~call[c].purged
    /\ Purges(c)
    /\ UNCHANGED <<read, gone, request, tagger>>

Tombstone(a) ==
    /\ gone' = gone \cup {a}
    /\ UNCHANGED <<call, transcript, read, request, tagger, inv>>

----------------------------------------------------------------------------
(* Invocations in a call *)

\* link::check, before limits, screening and the insert.
LinkCheck(r, c, a) ==
    /\ a \in Live(c) /\ call[c].state = "active"
    /\ Loads(r, [op |-> "invoke", call |-> c, from |-> a])

\* The invocation's row carries its call.
InvokeInserts(r, i) ==
    LET v == request[r] IN
    /\ v.op = "invoke" /\ inv[i].status = "none"
    /\ inv' = [inv EXCEPT ![i] = [call |-> v.call, status |-> "open", preview |-> TRUE]]
    /\ request' = [request EXCEPT ![r].op = "note"]
    /\ UNCHANGED <<call, transcript, read, gone, tagger>>

\* link::note, right after and best effort (Refuses): an entry for nobody.
Note(r) ==
    LET v == request[r] IN
    /\ v.op = "note"
    /\ Append_(v.call, <<Event("invocation", v.from)>>, {})
    /\ Commits(r) /\ UNCHANGED <<call, inv>>

----------------------------------------------------------------------------
(* Call memory: the tagger *)

PendingOf(c) == {s \in DOMAIN entries[c] : entries[c][s].tag = "pending"}

\* A pass lists the calls with something to tag ...
TagDue ==
    /\ tagger.due = {} /\ tagger.claimed = {}
    /\ LET due == {c \in CallIds : PendingOf(c) # {} /\ ~call[c].purged} IN
       due # {} /\ tagger' = [tagger EXCEPT !.due = due]
    /\ UNCHANGED <<call, transcript, read, gone, request, inv>>

\* A claim counts the attempt.
Tried(e) == [e EXCEPT !.tries = @ + 1]

\* ... claims theirs, one call at a time ...
TagClaims(c) ==
    /\ c \in tagger.due /\ tagger.claimed = {}
    /\ LET batch == PendingOf(c) IN
           /\ tagger' = [tagger EXCEPT !.due = @ \ {c}, !.claimed = {c} \X batch]
           /\ entries' = [entries EXCEPT ![c] = [s \in DOMAIN @ |->
                             IF s \in batch THEN Tried(@[s]) ELSE @[s]]]
    /\ UNCHANGED <<call, unread, charged, read, gone, request, inv>>

Claimed(c, s) == <<c, s>> \in tagger.claimed

\* ... and stores what it is answered, looking at nothing again.
TagAnswered ==
    /\ tagger.claimed # {}
    /\ entries' = [c \in CallIds |-> [s \in DOMAIN entries[c] |->
                      IF Claimed(c, s) THEN [entries[c][s] EXCEPT !.tags = TRUE, !.tag = "done"]
                                       ELSE entries[c][s]]]
    /\ tagger' = [tagger EXCEPT !.claimed = {}]
    /\ UNCHANGED <<call, unread, charged, read, gone, request, inv>>

Spent(e) == e.tries >= MaxAttempts

TagFails ==
    /\ tagger.claimed # {}
    /\ entries' = [c \in CallIds |-> [s \in DOMAIN entries[c] |->
                      IF Claimed(c, s) /\ Spent(entries[c][s])
                      THEN [entries[c][s] EXCEPT !.tag = "error"] ELSE entries[c][s]]]
    /\ tagger' = [tagger EXCEPT !.claimed = {}]
    /\ UNCHANGED <<call, unread, charged, read, gone, request, inv>>

\* A tagger that stops leaves its claims to a lease.
TaggerCrash ==
    /\ tagger.claimed # {} /\ tagger.crashes < MaxCrashes
    /\ tagger' = [due |-> {}, claimed |-> {}, crashes |-> tagger.crashes + 1]
    /\ UNCHANGED <<call, transcript, read, gone, request, inv>>

----------------------------------------------------------------------------

Handles(r) ==
    \/ \E a, b \in Agents : InviteChecks(r, a, b)
    \/ \E c \in CallIds :
           \/ InviteInserts(r, c) \/ AcceptChecks(r, c) \/ DeclineChecks(r, c)
           \/ DeleteLoads(r, c)
           \/ \E a \in Agents : SendChecks(r, c, a) \/ LinkCheck(r, c, a)
    \/ AcceptCommits(r) \/ DeclineCommits(r) \/ SendBlocked(r) \/ SendCommits(r)
    \/ DeleteOpen(r) \/ DeleteFinal(r)
    \/ \E i \in Invs : InvokeInserts(r, i)
    \/ Note(r) \/ Refuses(r)

Tags == TagDue \/ (\E c \in CallIds : TagClaims(c)) \/ TagAnswered \/ TagFails

CallsNext ==
    \/ \E r \in Requests : Handles(r)
    \/ \E c \in CallIds : OwnerEnd(c) \/ \E a \in Agents : End(c, a)
    \/ \E c \in CallIds : MarkMissed(c) \/ EndIdle(c) \/ EndGone(c) \/ PurgeDue(c)
    \/ \E a \in Agents : Pull(a) \/ Tombstone(a)
    \/ Tags \/ TaggerCrash

CallsSpec == CallsInit /\ [][CallsNext]_callVars

----------------------------------------------------------------------------
(* Properties *)

\* A final call is read-only: one entry says how it ended, the state agrees
\* with it, and only the notes of invocations checked before it come later.
NothingSaidAfterTheEnd ==
    \A c \in CallIds :
        LET ends == {s \in DOMAIN entries[c] : entries[c][s].kind \in Final} IN
        /\ call[c].state \in Final <=> ends # {}
        /\ \A s \in ends : \A t \in DOMAIN entries[c] :
               /\ entries[c][s].kind = call[c].state
               /\ t > s => entries[c][t].kind = "invocation"

\* Whoever is left learns how a call ended: its end is delivered, or to be
\* delivered, to every party still there that did not end it itself (a missed
\* call only to its caller).  That a call was missed or ended outlives the
\* deletion of its content; that it was declined does not, with a reason or
\* without: a caller that has not pulled it by then is not told any more.
EndsAreTold ==
    \A c \in CallIds : \A s \in DOMAIN entries[c] :
        LET e == entries[c][s] IN
        e.kind \in Final =>
            \A a \in Live(c) \ {e.from} :
                \/ <<c, s, a>> \in unread \cup read
                \/ e.kind = "missed" /\ a = call[c].callee
                \/ e.kind = "declined" /\ call[c].purged

\* Every message that was delivered is charged once and counted, a refused one
\* neither; the count passes the limit by no more than the handlers that
\* checked it together, or by the two messages that ride on invite and accept.
CountedAndCharged ==
    \A c \in CallIds :
        /\ {x \in charged : x[1] = c} = {c} \X SpokenAt(c)
        /\ call[c].count = Cardinality(SpokenAt(c))
        /\ \/ call[c].count <= 2
           \/ call[c].count < MaxMessages + Cardinality(Requests)

\* What is left of a call's content.
Content(c) ==
    {<<"text", s>> : s \in {s \in DOMAIN entries[c] : entries[c][s].text}} \cup
    {<<"tags", s>> : s \in {s \in DOMAIN entries[c] : entries[c][s].tags}} \cup
    {<<"preview", i>> : i \in {i \in Invs : inv[i].call = c /\ inv[i].preview}} \cup
    IF call[c].note THEN {<<"note", c>>} ELSE {}

\* The invocations of a call that were checked and not yet inserted.
Linking(c) == {r \in Requests : request[r].op = "invoke" /\ request[r].call = c}

\* A tagging pass has the call as due or holds claims in it.
Tagging(c) == c \in tagger.due \/ \E x \in tagger.claimed : x[1] = c

\* What may still be stored of a call that is purged.
Outstanding(c) ==
    {<<"tags", s>> : s \in {s \in DOMAIN entries[c] : Claimed(c, s)}} \cup
    IF Linking(c) # {} THEN {<<"preview", i>> : i \in Invs} ELSE {}

\* A purge leaves no content of the call, nothing open in it and no entry to
\* deliver that carried content.  Neither text, topic nor reason ever comes back.
\* Tags and previews can: the tagging pass and the invocations under way at the
\* purge don't look at it and store what they have.  No more of them starts, so
\* that what they store is the last.
OnlyLateWritesComeBack ==
    [][\A c \in CallIds :
          /\ call'[c].purged /\ ~call[c].purged =>
                 /\ Content(c)' = {}
                 /\ ~\E i \in Invs : inv'[i].call = c /\ inv'[i].status = "open"
                 /\ ~\E d \in unread' : d[1] = c /\ entries'[c][d[2]].kind \in {"message", "declined"}
          /\ call[c].purged =>
                 /\ Content(c)' \subseteq Content(c) \cup Outstanding(c)
                 /\ Linking(c)' \subseteq Linking(c)
                 /\ Tagging(c)' => Tagging(c)]_callVars

\* link: "The invocation row is created with call_id in the same statement, so
\* the purge always finds it".
PurgeFindsInvocations ==
    \A c \in CallIds : call[c].purged => ~\E i \in Invs : inv[i].call = c /\ inv[i].preview
=============================================================================
