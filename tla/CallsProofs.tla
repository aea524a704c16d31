---------------------------- MODULE CallsProofs ----------------------------
(***************************************************************************)
(* Proofs about calls, for any number of calls, agents, handlers and       *)
(* invocations and any limits.                                             *)
(*                                                                         *)
(* Every step of a handler, worker or tagger does one of few things to a   *)
(* call: it leaves what was said in it, it adds a note, a stand-in or a    *)
(* message, or it opens, accepts or ends it.  That is shown once           *)
(* (CallMoves), and the properties are shown of those moves.               *)
(***************************************************************************)
EXTENDS Calls, FiniteSetTheorems, SequenceTheorems, TLAPS

----------------------------------------------------------------------------
(* Types *)

Kinds == {"invite", "accepted", "message", "blocked", "invocation",
          "declined", "missed", "ended"}

\* Whoever an entry is from or for, or nobody.
Names == Agents \cup {Nobody}

Entries == [kind : Kinds, from : Names, text : BOOLEAN, tags : BOOLEAN,
            tag : {"none", "pending", "done", "error"}, tries : Nat]

CallRows == [state : States, caller : Names, callee : Names,
             note : BOOLEAN, count : Nat, purged : BOOLEAN]

Views ==
    {Idle}
        \cup [op : {"invite"}, from : Agents, to : Agents]
        \cup [op : {"accept", "decline"}, call : CallIds]
        \cup [op : {"send", "invoke", "note"}, call : CallIds, from : Agents]
        \cup [op : {"delete"}, call : CallIds, open : BOOLEAN]

InvRows == [call : CallIds \cup {Nobody}, status : {"none", "open", "closed"},
            preview : BOOLEAN]

CallsTypes ==
    /\ call \in [CallIds -> CallRows]
    /\ entries \in [CallIds -> Seq(Entries)]
    /\ request \in [Requests -> Views]
    /\ inv \in [Invs -> InvRows]

\* What handlers, workers and the tagger write are entries.
LEMMA EntriesMade ==
    /\ \A kind \in Kinds, from \in Names :
           /\ Event(kind, from) \in Entries
           /\ Event(kind, from).kind = kind
           /\ Event(kind, from).from = from
           /\ Event(kind, from).text = FALSE
           /\ Event(kind, from).tags = FALSE
    /\ \A from \in Names :
           /\ Message(from) \in Entries
           /\ Message(from).kind = "message"
           /\ Message(from).from = from
<1>1. ASSUME NEW kind \in Kinds, NEW from \in Names
      PROVE  /\ Event(kind, from) \in Entries
             /\ Event(kind, from).kind = kind
             /\ Event(kind, from).from = from
             /\ Event(kind, from).text = FALSE
             /\ Event(kind, from).tags = FALSE
  BY DEF Event, Entries
<1>2. ASSUME NEW from \in Names
      PROVE  /\ Message(from) \in Entries
             /\ Message(from).kind = "message"
             /\ Message(from).from = from
  <2>1. "message" \in Kinds
    BY DEF Kinds
  <2>2. Event("message", from) \in Entries /\ Event("message", from).kind = "message"
        /\ Event("message", from).from = from
    BY <1>1, <2>1
  <2> QED
    BY <2>2 DEF Message, Entries
<1> QED
  BY <1>1, <1>2

\* What the purge and the tagger make of an entry.
LEMMA EntriesChanged ==
    ASSUME NEW e \in Entries
    PROVE  /\ Emptied(e) \in Entries
           /\ Emptied(e).kind = e.kind /\ Emptied(e).from = e.from
           /\ Emptied(e).text = FALSE /\ Emptied(e).tags = FALSE
           /\ Tried(e) \in Entries
           /\ Tried(e).kind = e.kind
           /\ Tried(e).from = e.from
           /\ [e EXCEPT !.tags = TRUE, !.tag = "done"] \in Entries
           /\ [e EXCEPT !.tags = TRUE, !.tag = "done"].kind = e.kind
           /\ [e EXCEPT !.tags = TRUE, !.tag = "done"].from = e.from
           /\ [e EXCEPT !.tag = "error"] \in Entries
           /\ [e EXCEPT !.tag = "error"].kind = e.kind
           /\ [e EXCEPT !.tag = "error"].from = e.from
<1>1. ASSUME NEW d \in Entries
      PROVE  LET f == [d EXCEPT !.text = FALSE] IN
             f \in Entries /\ f.kind = d.kind /\ f.from = d.from /\ f.text = FALSE
  BY DEF Entries
<1>2. ASSUME NEW d \in Entries, NEW b \in BOOLEAN
      PROVE  LET f == [d EXCEPT !.tags = b] IN
             /\ f \in Entries /\ f.kind = d.kind /\ f.from = d.from
             /\ f.text = d.text /\ f.tags = b
  BY DEF Entries
<1>3. ASSUME NEW d \in Entries, NEW t \in {"done", "error"}
      PROVE  LET f == [d EXCEPT !.tag = t] IN
             f \in Entries /\ f.kind = d.kind /\ f.from = d.from
  BY DEF Entries
<1>4. Tried(e) \in Entries /\ Tried(e).kind = e.kind /\ Tried(e).from = e.from
  BY DEF Entries, Tried
<1>5. /\ Emptied(e) \in Entries
      /\ Emptied(e).kind = e.kind /\ Emptied(e).from = e.from
      /\ Emptied(e).text = FALSE /\ Emptied(e).tags = FALSE
  <2> DEFINE f == [e EXCEPT !.text = FALSE]
  <2>1. f \in Entries /\ f.kind = e.kind /\ f.from = e.from /\ f.text = FALSE
    BY <1>1
  <2>2. Emptied(e) = [f EXCEPT !.tags = FALSE]
    BY DEF Emptied
  <2> HIDE DEF f
  <2> QED
    BY <1>2, <2>1, <2>2
<1>6. LET f == [e EXCEPT !.tags = TRUE, !.tag = "done"] IN
      f \in Entries /\ f.kind = e.kind /\ f.from = e.from
  <2> DEFINE f == [e EXCEPT !.tags = TRUE]
  <2>1. f \in Entries /\ f.kind = e.kind /\ f.from = e.from
    BY <1>2
  <2>2. [e EXCEPT !.tags = TRUE, !.tag = "done"] = [f EXCEPT !.tag = "done"]
    OBVIOUS
  <2> HIDE DEF f
  <2> QED
    BY <1>3, <2>1, <2>2
<1> QED
  BY <1>3, <1>4, <1>5, <1>6

\* A transcript whose entries are replaced one by one stays one.
LEMMA EntryByEntry ==
    ASSUME NEW es \in Seq(Entries), NEW f, f = [s \in DOMAIN es |-> f[s]],
           \A s \in DOMAIN es : f[s] \in Entries
    PROVE  f \in Seq(Entries) /\ DOMAIN f = DOMAIN es
<1>1. Len(es) \in Nat /\ DOMAIN es = 1 .. Len(es)
  BY LenProperties
<1>2. f \in [1 .. Len(es) -> Entries]
  BY <1>1
<1> QED
  BY <1>1, <1>2, SeqDef

\* What is appended to a transcript, and where it ends up.
LEMMA Appended ==
    ASSUME NEW es \in Seq(Entries), NEW new \in Seq(Entries)
    PROVE  /\ es \o new \in Seq(Entries)
           /\ Len(es) \in Nat
           /\ DOMAIN (es \o new) = DOMAIN es \cup {Len(es) + k : k \in DOMAIN new}
           /\ DOMAIN es \cap {Len(es) + k : k \in DOMAIN new} = {}
           /\ \A s \in DOMAIN es : (es \o new)[s] = es[s] /\ s <= Len(es)
           /\ \A k \in DOMAIN new : (es \o new)[Len(es) + k] = new[k]
<1>1. /\ Len(es) \in Nat /\ DOMAIN es = 1 .. Len(es)
      /\ Len(new) \in Nat /\ DOMAIN new = 1 .. Len(new)
  BY LenProperties
<1>2. /\ es \o new \in Seq(Entries) /\ Len(es \o new) = Len(es) + Len(new)
      /\ \A i \in 1 .. Len(es) + Len(new) :
             (es \o new)[i] = IF i <= Len(es) THEN es[i] ELSE new[i - Len(es)]
  BY ConcatProperties
<1>3. DOMAIN (es \o new) = 1 .. Len(es) + Len(new)
  BY <1>2, LenProperties
<1>4. \A i : i \in 1 .. Len(es) + Len(new)
               <=> i \in 1 .. Len(es) \/ \E k \in 1 .. Len(new) : i = Len(es) + k
  <2>1. ASSUME NEW i \in 1 .. Len(es) + Len(new), i > Len(es)
        PROVE  i = Len(es) + (i - Len(es)) /\ i - Len(es) \in 1 .. Len(new)
    BY <1>1, <2>1
  <2>2. ASSUME NEW i \in 1 .. Len(es) + Len(new), i <= Len(es)
        PROVE  i \in 1 .. Len(es)
    BY <1>1, <2>2
  <2>3. 1 .. Len(es) \subseteq 1 .. Len(es) + Len(new)
    BY <1>1
  <2>4. \A k \in 1 .. Len(new) : Len(es) + k \in 1 .. Len(es) + Len(new)
    BY <1>1
  <2>5. \A i \in 1 .. Len(es) + Len(new) : i <= Len(es) \/ i > Len(es)
    BY <1>1
  <2> QED
    BY <2>1, <2>2, <2>3, <2>4, <2>5
<1>5. DOMAIN (es \o new) = DOMAIN es \cup {Len(es) + k : k \in DOMAIN new}
  BY <1>1, <1>3, <1>4
<1>6. \A k \in DOMAIN new : (es \o new)[Len(es) + k] = new[k] /\ Len(es) + k \notin DOMAIN es
  <2> SUFFICES ASSUME NEW k \in DOMAIN new
               PROVE  (es \o new)[Len(es) + k] = new[k] /\ Len(es) + k \notin DOMAIN es
    OBVIOUS
  <2>1. /\ Len(es) + k \in 1 .. Len(es) + Len(new)
        /\ ~(Len(es) + k <= Len(es)) /\ Len(es) + k - Len(es) = k
    BY <1>1
  <2> QED
    BY <1>1, <1>2, <2>1
<1>7. \A s \in DOMAIN es : (es \o new)[s] = es[s] /\ s <= Len(es)
  BY <1>1, <1>2
<1> QED
  BY <1>1, <1>2, <1>5, <1>6, <1>7

----------------------------------------------------------------------------
(* What a step does to a call *)

Delivered(c) == {d \in unread \cup read : d[1] = c}
ChargedIn(c) == {x \in charged : x[1] = c}

SameSaid(e, f) == e.kind = f.kind /\ e.from = f.from

\* Nothing delivered is taken back, but messages and, of a call that is purged,
\* that it was declined.
StaysDelivered(c) ==
    \A d \in Delivered(c) :
        \/ d \in Delivered(c)'
        \/ entries[c][d[2]].kind = "message"
        \/ entries[c][d[2]].kind = "declined" /\ call'[c].purged

\* The transcript is left as it is, but for content and tags.
Keeps(c) ==
    /\ DOMAIN entries'[c] = DOMAIN entries[c]
    /\ \A s \in DOMAIN entries[c] : SameSaid(entries'[c][s], entries[c][s])
    /\ ChargedIn(c)' = ChargedIn(c)
    /\ StaysDelivered(c)

\* The entries new are added and delivered to the agents in to.
Adds(c, new, to) ==
    LET n == Len(entries[c]) IN
    /\ n \in Nat
    /\ DOMAIN entries'[c] = DOMAIN entries[c] \cup {n + k : k \in DOMAIN new}
    /\ \A s \in DOMAIN entries[c] :
           SameSaid(entries'[c][s], entries[c][s]) /\ s \in Nat /\ s <= n
    /\ \A k \in DOMAIN new :
           /\ SameSaid(entries'[c][n + k], new[k])
           /\ k \in Nat /\ k > 0
           /\ \A a \in to : <<c, n + k, a>> \in Delivered(c)'
    /\ ChargedIn(c)' = ChargedIn(c) \cup
           {<<c, n + k>> : k \in {j \in DOMAIN new : new[j].kind = "message"}}
    /\ StaysDelivered(c)

SameParties(c) ==
    call'[c].caller = call[c].caller /\ call'[c].callee = call[c].callee

SameRow(c) ==
    /\ call'[c].state = call[c].state /\ call'[c].count = call[c].count
    /\ call[c].purged => call'[c].purged
    /\ SameParties(c)

Rests(c) == SameRow(c) /\ Keeps(c)

Notes(c) ==
    /\ SameRow(c)
    /\ \E e \in Entries : e.kind = "invocation" /\ Adds(c, <<e>>, {})

\* Something is said that does not end the call: with one message or none.
Talks(c) ==
    /\ call[c].state \notin Final /\ call'[c].state \notin Final
    /\ \E new \in Seq(Entries), to \in SUBSET Names :
           /\ Adds(c, new, to)
           /\ \A k \in DOMAIN new : new[k].kind \notin Final
           /\ LET said == {k \in DOMAIN new : new[k].kind = "message"} IN
                  \/ said = {} /\ call'[c].count = call[c].count
                  \/ /\ \E k \in DOMAIN new : said = {k}
                     /\ call'[c].count = call[c].count + 1

Ends(c) ==
    /\ call[c].state \notin Final /\ call'[c].state \in Final
    /\ call'[c].count = call[c].count /\ SameParties(c)
    /\ \E e \in Entries, to \in SUBSET Names :
           /\ Adds(c, <<e>>, to)
           /\ e.kind = call'[c].state
           /\ \A a \in Live(c) \ {e.from} :
                  a \in to \/ (e.kind = "missed" /\ a = call[c].callee)

Moves(c) == Rests(c) \/ Notes(c) \/ Talks(c) \/ Ends(c)

\* append adds to one call's transcript and leaves the others.
LEMMA AppendAdds ==
    ASSUME CallsTypes, NEW c \in CallIds, NEW new \in Seq(Entries), NEW to,
           Append_(c, new, to), read' = read
    PROVE  /\ Adds(c, new, to)
           /\ \A d \in CallIds \ {c} : Keeps(d)
           /\ entries' \in [CallIds -> Seq(Entries)]
<1> DEFINE n == Len(entries[c])
<1>1. /\ entries \in [CallIds -> Seq(Entries)] /\ entries[c] \in Seq(Entries)
      /\ \A d \in CallIds : \A s \in DOMAIN entries[d] : entries[d][s] \in Entries
  <2>1. entries \in [CallIds -> Seq(Entries)]
    BY DEF CallsTypes
  <2>2. \A d \in CallIds : \A s \in DOMAIN entries[d] : entries[d][s] \in Entries
    BY <2>1, LenProperties
  <2> QED
    BY <2>1, <2>2
<1>2. /\ entries' = [entries EXCEPT ![c] = @ \o new]
      /\ unread' = unread \cup UNION {{<<c, n + k, a>> : a \in to} : k \in DOMAIN new}
      /\ charged' = charged \cup
             {<<c, n + k>> : k \in {j \in DOMAIN new : new[j].kind = "message"}}
  BY DEF Append_, Charges
<1>3. entries'[c] = entries[c] \o new /\ \A d \in CallIds \ {c} : entries'[d] = entries[d]
  BY <1>1, <1>2
<1>4. /\ entries[c] \o new \in Seq(Entries)
      /\ n \in Nat
      /\ DOMAIN (entries[c] \o new) = DOMAIN entries[c] \cup {n + k : k \in DOMAIN new}
      /\ \A s \in DOMAIN entries[c] : (entries[c] \o new)[s] = entries[c][s] /\ s <= n
      /\ \A k \in DOMAIN new : (entries[c] \o new)[n + k] = new[k]
  BY <1>1, Appended
<1>5. /\ \A s \in DOMAIN entries[c] : s \in Nat
      /\ \A k \in DOMAIN new : k \in Nat /\ k > 0
  BY <1>1, LenProperties
<1>6. entries' \in [CallIds -> Seq(Entries)]
  BY <1>1, <1>2, <1>4
<1>7. \A d \in CallIds : StaysDelivered(d)
  BY <1>2 DEF StaysDelivered, Delivered
<1>8. \A k \in DOMAIN new : \A a \in to : <<c, n + k, a>> \in Delivered(c)'
  BY <1>2 DEF Delivered
<1>9. /\ ChargedIn(c)' = ChargedIn(c) \cup
             {<<c, n + k>> : k \in {j \in DOMAIN new : new[j].kind = "message"}}
      /\ \A d \in CallIds \ {c} : ChargedIn(d)' = ChargedIn(d)
  BY <1>2 DEF ChargedIn
<1>10. Adds(c, new, to)
  BY <1>3, <1>4, <1>5, <1>7, <1>8, <1>9 DEF Adds, SameSaid
<1>11. \A d \in CallIds \ {c} : Keeps(d)
  BY <1>3, <1>7, <1>9 DEF Keeps, SameSaid
<1> QED
  BY <1>6, <1>10, <1>11

\* Entries changed one by one keep what was said.
LEMMA ChangedKeeps ==
    ASSUME CallsTypes, NEW c \in CallIds,
           DOMAIN entries'[c] = DOMAIN entries[c],
           \A s \in DOMAIN entries[c] : SameSaid(entries'[c][s], entries[c][s]),
           charged' = charged, StaysDelivered(c)
    PROVE  Keeps(c)
BY DEF Keeps, ChargedIn

\* Nothing but the content and the tags of a call's transcript changes when the
\* transcripts are not touched.
LEMMA UntouchedKeeps ==
    ASSUME CallsTypes, NEW c \in CallIds, UNCHANGED <<entries, charged>>,
           unread \cup read \subseteq unread' \cup read'
    PROVE  Keeps(c)
BY DEF Keeps, SameSaid, ChargedIn, StaysDelivered, Delivered

\* The entries a step appends.
LEMMA NewEntries ==
    /\ \A e \in Entries : <<e>> \in Seq(Entries) /\ DOMAIN <<e>> = {1} /\ <<e>>[1] = e
    /\ \A e, f \in Entries :
           /\ <<e>> \o <<f>> \in Seq(Entries)
           /\ DOMAIN (<<e>> \o <<f>>) = {1, 2}
           /\ (<<e>> \o <<f>>)[1] = e /\ (<<e>> \o <<f>>)[2] = f
    /\ \A e \in Entries : <<e>> \o <<>> = <<e>>
<1>1. ASSUME NEW e \in Entries
      PROVE  <<e>> \in Seq(Entries) /\ DOMAIN <<e>> = {1} /\ <<e>>[1] = e
             /\ Len(<<e>>) = 1
  OBVIOUS
<1>2. ASSUME NEW e \in Entries, NEW f \in Entries
      PROVE  /\ <<e>> \o <<f>> \in Seq(Entries)
             /\ DOMAIN (<<e>> \o <<f>>) = {1, 2}
             /\ (<<e>> \o <<f>>)[1] = e /\ (<<e>> \o <<f>>)[2] = f
  <2>1. /\ Len(<<e>> \o <<f>>) = 2
        /\ <<e>> \o <<f>> \in Seq(Entries)
        /\ \A i \in 1 .. 2 : (<<e>> \o <<f>>)[i] = IF i <= 1 THEN <<e>>[i] ELSE <<f>>[i - 1]
    BY <1>1, ConcatProperties
  <2>2. DOMAIN (<<e>> \o <<f>>) = 1 .. 2
    BY <2>1, LenProperties
  <2> QED
    BY <2>1, <2>2
<1>3. ASSUME NEW e \in Entries PROVE <<e>> \o <<>> = <<e>>
  BY <1>1, ConcatEmptySeq
<1> QED
  BY <1>1, <1>2, <1>3

\* A step at one call leaves the others.
LEMMA OneCallMoves ==
    ASSUME NEW c \in CallIds, Moves(c), \A d \in CallIds \ {c} : Keeps(d) /\ SameRow(d)
    PROVE  \A d \in CallIds : Moves(d)
BY DEF Moves, Rests

\* The transaction of an invite or an accept: an event, and a message or none.
LEMMA EventAndMessageTalks ==
    ASSUME CallsTypes, NEW c \in CallIds, NEW kind \in Kinds \ (Final \cup {"message"}),
           NEW from \in Names, NEW to \in SUBSET Names, NEW more \in BOOLEAN,
           Append_(c, <<Event(kind, from)>> \o (IF more THEN <<Message(from)>> ELSE <<>>), to),
           read' = read,
           call[c].state \notin Final, call'[c].state \notin Final,
           call'[c].count = call[c].count + IF more THEN 1 ELSE 0,
           call[c].count \in Nat
    PROVE  Talks(c) /\ \A d \in CallIds \ {c} : Keeps(d)
<1> DEFINE e == Event(kind, from)
           m == Message(from)
<1>1. /\ e \in Entries /\ e.kind = kind
      /\ m \in Entries /\ m.kind = "message"
  BY EntriesMade
<1> HIDE DEF e, m
<1>2. CASE more
  <2> DEFINE new == <<e>> \o <<m>>
  <2>1. new \in Seq(Entries) /\ DOMAIN new = {1, 2} /\ new[1] = e /\ new[2] = m
    BY <1>1, NewEntries
  <2>2. Append_(c, new, to)
    BY <1>2 DEF e, m
  <2> HIDE DEF new
  <2>3. Adds(c, new, to) /\ \A d \in CallIds \ {c} : Keeps(d)
    BY <2>1, <2>2, AppendAdds
  <2>4. {k \in DOMAIN new : new[k].kind = "message"} = {2}
    BY <1>1, <2>1
  <2>5. \A k \in DOMAIN new : new[k].kind \notin Final
    BY <1>1, <2>1 DEF Final
  <2> QED
    BY <1>2, <2>1, <2>3, <2>4, <2>5 DEF Talks
<1>3. CASE ~more
  <2> DEFINE new == <<e>>
  <2>1. new \in Seq(Entries) /\ DOMAIN new = {1} /\ new[1] = e
    BY <1>1, NewEntries
  <2>2. Append_(c, new, to)
    <3>1. <<e>> \o <<>> = <<e>>
      BY <1>1, NewEntries
    <3> QED
      BY <1>3, <3>1 DEF e
  <2> HIDE DEF new
  <2>3. Adds(c, new, to) /\ \A d \in CallIds \ {c} : Keeps(d)
    BY <2>1, <2>2, AppendAdds
  <2>4. {k \in DOMAIN new : new[k].kind = "message"} = {}
    BY <1>1, <2>1
  <2>5. \A k \in DOMAIN new : new[k].kind \notin Final
    BY <1>1, <2>1
  <2>6. call'[c].count = call[c].count
    BY <1>3
  <2> QED
    BY <2>1, <2>3, <2>4, <2>5, <2>6 DEF Talks
<1> QED
  BY <1>2, <1>3

\* The state of a call and whom it is between are typed.
LEMMA RowTypes ==
    ASSUME CallsTypes, NEW c \in CallIds
    PROVE  /\ call[c].state \in States /\ call[c].count \in Nat
           /\ call[c].caller \in Names
           /\ call[c].callee \in Names
BY DEF CallsTypes, CallRows

\* The row of a purged call.
LEMMA RowPurged ==
    ASSUME NEW row \in CallRows
    PROVE  /\ PurgedRow(row) \in CallRows
           /\ PurgedRow(row).state = row.state /\ PurgedRow(row).count = row.count
           /\ PurgedRow(row).caller = row.caller /\ PurgedRow(row).callee = row.callee
           /\ PurgedRow(row).note = FALSE /\ PurgedRow(row).purged = TRUE
<1> DEFINE f == [row EXCEPT !.note = FALSE]
<1>1. /\ f \in CallRows /\ f.state = row.state /\ f.note = FALSE
      /\ f.count = row.count /\ f.caller = row.caller /\ f.callee = row.callee
  BY DEF CallRows
<1>2. PurgedRow(row) = [f EXCEPT !.purged = TRUE]
  BY DEF PurgedRow
<1> HIDE DEF f
<1> QED
  BY <1>1, <1>2 DEF CallRows

\* A call ends.
LEMMA EventEnds ==
    ASSUME CallsTypes, NEW c \in CallIds, NEW e \in Entries, NEW to,
           Append_(c, <<e>>, to), read' = read,
           call' = [call EXCEPT ![c].state = e.kind],
           call[c].state \notin Final, e.kind \in Final,
           \A a \in Live(c) \ {e.from} :
               a \in to \/ (e.kind = "missed" /\ a = call[c].callee)
    PROVE  \A d \in CallIds : Moves(d)
<1>1. Adds(c, <<e>>, to) /\ \A d \in CallIds \ {c} : Keeps(d)
  BY AppendAdds, NewEntries
<1>2. call \in [CallIds -> CallRows] /\ call[c] \in CallRows
  BY DEF CallsTypes
<1>3. call'[c] = [call[c] EXCEPT !.state = e.kind]
  BY <1>2
<1>4. call'[c].state = e.kind /\ call'[c].count = call[c].count /\ SameParties(c)
  BY <1>2, <1>3 DEF CallRows, SameParties
<1>5. \A d \in CallIds \ {c} : SameRow(d)
  BY <1>2 DEF SameRow, SameParties
<1>6. Adds(c, <<e>>, to \cap Names)
  BY <1>1 DEF Adds
<1>7. Live(c) \subseteq Names
  BY RowTypes DEF Live, Parties
<1>8. \A a \in Live(c) \ {e.from} :
          a \in to \cap Names \/ (e.kind = "missed" /\ a = call[c].callee)
  BY <1>7
<1>9. call[c].state \notin Final /\ call'[c].state \in Final /\ e.kind = call'[c].state
  BY <1>4
<1> DEFINE heard == to \cap Names
<1>10. heard \in SUBSET Names
  OBVIOUS
<1> HIDE DEF heard
<1>11. Ends(c)
  BY <1>4, <1>6, <1>8, <1>9, <1>10 DEF Ends, heard
<1> QED
  BY <1>1, <1>5, <1>11, OneCallMoves DEF Moves

\* A call that was not placed has no messages.
Fresh == \A c \in CallIds : call[c].state = "none" => call[c].count = 0

\* The step of any handler, worker or tagger (invite to purge, invoke_tick, the
\* recaps and tags) is, for each call, one of the moves.
LEMMA CallMoves ==
    ASSUME CallsTypes, Fresh, [CallsNext]_callVars
    PROVE  \A c \in CallIds : Moves(c)
<1> DEFINE Goal == \A c \in CallIds : Moves(c)
<1>0. /\ call \in [CallIds -> CallRows] /\ request \in [Requests -> Views]
      /\ \A c \in CallIds : \A s \in DOMAIN entries[c] : entries[c][s] \in Entries
  <2>1. \A c \in CallIds : entries[c] \in Seq(Entries)
    BY DEF CallsTypes
  <2>2. \A c \in CallIds : \A s \in DOMAIN entries[c] : entries[c][s] \in Entries
    BY <2>1, LenProperties
  <2> QED
    BY <2>2 DEF CallsTypes
<1>1. ASSUME \A c \in CallIds : SameRow(c) /\ Keeps(c) PROVE Goal
  BY <1>1 DEF Moves, Rests
<1>2. ASSUME UNCHANGED <<call, entries, charged>>,
             unread \cup read \subseteq unread' \cup read'
      PROVE Goal
  BY <1>1, <1>2, UntouchedKeeps DEF SameRow, SameParties
<1>3. ASSUME NEW r \in Requests, NEW c \in CallIds, InviteInserts(r, c) PROVE Goal
  <2> DEFINE v == request[r]
  <2>1. v.from \in Names /\ v.to \in Names
    BY <1>0, <1>3 DEF InviteInserts, Views, Idle, Names
  <2>2. PICK opening \in BOOLEAN :
            /\ call' = [call EXCEPT ![c] = [state |-> "ringing", caller |-> v.from,
                           callee |-> v.to, note |-> TRUE,
                           count |-> IF opening THEN 1 ELSE 0, purged |-> FALSE]]
            /\ Append_(c, <<Event("invite", v.from)>> \o
                              (IF opening THEN <<Message(v.from)>> ELSE <<>>), {v.to})
    BY <1>3 DEF InviteInserts
  <2>3. call[c].state = "none" /\ call[c].count = 0 /\ read' = read
    BY <1>3 DEF InviteInserts, Fresh, Commits
  <2>4. call'[c].state = "ringing" /\ call'[c].count = IF opening THEN 1 ELSE 0
    BY <1>0, <2>2
  <2> HIDE DEF v
  <2>5. Talks(c) /\ \A d \in CallIds \ {c} : Keeps(d)
    <3>1. "invite" \in Kinds \ (Final \cup {"message"}) /\ {v.to} \in SUBSET Names
      BY <2>1 DEF Kinds, Final
    <3>2. /\ call[c].state \notin Final /\ call'[c].state \notin Final
          /\ call[c].count \in Nat
          /\ call'[c].count = call[c].count + IF opening THEN 1 ELSE 0
      BY <2>3, <2>4 DEF Final
    <3> QED
      BY <2>1, <2>2, <2>3, <3>1, <3>2, EventAndMessageTalks
  <2>6. \A d \in CallIds \ {c} : SameRow(d)
    BY <1>0, <2>2 DEF SameRow, SameParties
  <2> QED
    BY <2>5, <2>6, OneCallMoves DEF Moves
<1>4. ASSUME NEW r \in Requests, AcceptCommits(r) PROVE Goal
  <2>1. PICK c \in CallIds : c = request[r].call
    BY <1>0, <1>4 DEF AcceptCommits, Views, Idle
  <2> DEFINE from == call[c].callee
             to == {call[c].caller}
  <2>2. PICK reply \in BOOLEAN :
            /\ call' = [call EXCEPT ![c].state = "active",
                                    ![c].count = @ + IF reply THEN 1 ELSE 0]
            /\ Append_(c, <<Event("accepted", from)>> \o
                              (IF reply THEN <<Message(from)>> ELSE <<>>), to)
    BY <1>4, <2>1 DEF AcceptCommits
  <2>3. /\ call[c].state = "ringing" /\ read' = read
        /\ call[c].count \in Nat /\ from \in Names /\ to \in SUBSET Names
    BY <1>4, <2>1, RowTypes DEF AcceptCommits, Commits
  <2>4. /\ call'[c].state = "active"
        /\ call'[c].count = call[c].count + IF reply THEN 1 ELSE 0
    <3>1. call[c] \in CallRows
      BY <1>0
    <3>2. call'[c] = [[call[c] EXCEPT !.state = "active"]
                         EXCEPT !.count = @ + IF reply THEN 1 ELSE 0]
      BY <1>0, <2>2
    <3> QED
      BY <3>1, <3>2 DEF CallRows
  <2> HIDE DEF from, to
  <2>5. Talks(c) /\ \A d \in CallIds \ {c} : Keeps(d)
    <3>1. "accepted" \in Kinds \ (Final \cup {"message"})
      BY DEF Kinds, Final
    <3>2. call[c].state \notin Final /\ call'[c].state \notin Final
      BY <2>3, <2>4 DEF Final
    <3> QED
      BY <2>2, <2>3, <2>4, <3>1, <3>2, EventAndMessageTalks
  <2>6. \A d \in CallIds \ {c} : SameRow(d)
    BY <1>0, <2>2 DEF SameRow, SameParties
  <2> QED
    BY <2>5, <2>6, OneCallMoves DEF Moves
<1>5. ASSUME NEW r \in Requests, DeclineCommits(r) PROVE Goal
  <2>0. PICK c \in CallIds : c = request[r].call
    BY <1>0, <1>5 DEF DeclineCommits, Views, Idle
  <2>1. PICK reason \in BOOLEAN :
            /\ call' = [call EXCEPT ![c].state = "declined", ![c].note = @ \/ reason]
            /\ Append_(c, <<[Event("declined", call[c].callee) EXCEPT !.text = reason]>>,
                       {call[c].caller})
    BY <1>5, <2>0 DEF DeclineCommits
  <2> DEFINE e == [Event("declined", call[c].callee) EXCEPT !.text = reason]
  <2>2. e \in Entries /\ e.kind = "declined" /\ e.from = call[c].callee
    <3>1. /\ Event("declined", call[c].callee) \in Entries
          /\ Event("declined", call[c].callee).kind = "declined"
          /\ Event("declined", call[c].callee).from = call[c].callee
      BY EntriesMade, RowTypes DEF Kinds, Names
    <3> HIDE DEF Event
    <3> QED
      BY <3>1 DEF Entries
  <2> HIDE DEF e
  <2>3. Adds(c, <<e>>, {call[c].caller}) /\ \A d \in CallIds \ {c} : Keeps(d)
    <3>1. <<e>> \in Seq(Entries) /\ Append_(c, <<e>>, {call[c].caller}) /\ read' = read
      BY <1>5, <2>0, <2>1, <2>2, NewEntries DEF DeclineCommits, Commits, e
    <3> QED
      BY <3>1, AppendAdds
  <2>4. /\ call'[c].state = "declined" /\ call'[c].count = call[c].count
        /\ SameParties(c)
    <3>1. call[c] \in CallRows
      BY <1>0
    <3>2. call'[c] = [[call[c] EXCEPT !.state = "declined"] EXCEPT !.note = @ \/ reason]
      BY <1>0, <2>1
    <3>3. /\ call'[c].state = "declined" /\ call'[c].count = call[c].count
          /\ call'[c].caller = call[c].caller /\ call'[c].callee = call[c].callee
      BY <3>1, <3>2 DEF CallRows
    <3> QED
      BY <3>3 DEF SameParties
  <2>5. Ends(c)
    <3>1. {call[c].caller} \in SUBSET Names /\ call[c].state \notin Final
      BY <1>5, <2>0, RowTypes DEF DeclineCommits, Final, Names
    <3>2. \A a \in Live(c) \ {e.from} : a \in {call[c].caller}
      BY <2>2 DEF Live, Parties
    <3> QED
      BY <2>2, <2>3, <2>4, <3>1, <3>2 DEF Ends, Final
  <2>6. \A d \in CallIds \ {c} : SameRow(d)
    BY <1>0, <2>1 DEF SameRow, SameParties
  <2> QED
    BY <2>3, <2>5, <2>6, OneCallMoves DEF Moves
<1>6. ASSUME NEW r \in Requests, SendBlocked(r) PROVE Goal
  <2>1. PICK c \in CallIds, from \in Agents : c = request[r].call /\ from = request[r].from
    BY <1>0, <1>6 DEF SendBlocked, Views, Idle
  <2> DEFINE e == Event("blocked", from)
  <2>2. e \in Entries /\ e.kind = "blocked"
    BY EntriesMade DEF Kinds, Names
  <2> HIDE DEF e
  <2>3. <<e>> \in Seq(Entries) /\ DOMAIN <<e>> = {1} /\ <<e>>[1] = e
    BY <2>2, NewEntries
  <2>4. Adds(c, <<e>>, {}) /\ \A d \in CallIds \ {c} : Keeps(d)
    <3>1. Append_(c, <<e>>, {}) /\ read' = read
      BY <1>6, <2>1 DEF SendBlocked, Commits, e
    <3> QED
      BY <2>3, <3>1, AppendAdds
  <2>5. /\ \A d \in CallIds : SameRow(d)
        /\ call[c].state = "active"
    BY <1>6, <2>1 DEF SendBlocked, SameRow, SameParties, StillActive
  <2>6. Talks(c)
    <3>1. {k \in DOMAIN <<e>> : <<e>>[k].kind = "message"} = {}
      BY <2>2, <2>3
    <3>2. \A k \in DOMAIN <<e>> : <<e>>[k].kind \notin Final
      BY <2>2, <2>3 DEF Final
    <3>3. call[c].state \notin Final /\ call'[c].state \notin Final
      BY <2>5 DEF SameRow, Final
    <3> QED
      BY <2>3, <2>4, <2>5, <3>1, <3>2, <3>3 DEF Talks, SameRow
  <2> QED
    BY <2>4, <2>5, <2>6, OneCallMoves DEF Moves
<1>7. ASSUME NEW r \in Requests, SendCommits(r) PROVE Goal
  <2>1. PICK c \in CallIds, from \in Agents : c = request[r].call /\ from = request[r].from
    BY <1>0, <1>7 DEF SendCommits, Views, Idle
  <2> DEFINE m == Message(from)
             to == ({Other(c, from)} \ gone) \cap Names
  <2>2. m \in Entries /\ m.kind = "message"
    BY EntriesMade DEF Names
  <2> HIDE DEF m
  <2>3. <<m>> \in Seq(Entries) /\ DOMAIN <<m>> = {1} /\ <<m>>[1] = m
    BY <2>2, NewEntries
  <2>4. Adds(c, <<m>>, {Other(c, from)} \ gone) /\ \A d \in CallIds \ {c} : Keeps(d)
    <3>1. Append_(c, <<m>>, {Other(c, from)} \ gone) /\ read' = read
      BY <1>7, <2>1 DEF SendCommits, Commits, m
    <3> QED
      BY <2>3, <3>1, AppendAdds
  <2>5. /\ call' = [call EXCEPT ![c].count = @ + 1]
        /\ call[c].state = "active"
    BY <1>7, <2>1 DEF SendCommits, StillActive
  <2>6. /\ call'[c].state = "active" /\ call'[c].count = call[c].count + 1
        /\ \A d \in CallIds \ {c} : SameRow(d)
    BY <1>0, <2>5 DEF SameRow, SameParties, CallRows
  <2>7. Adds(c, <<m>>, to)
    BY <2>4 DEF Adds
  <2>8. Talks(c)
    <3>1. {k \in DOMAIN <<m>> : <<m>>[k].kind = "message"} = {1}
      BY <2>2, <2>3
    <3>2. \A k \in DOMAIN <<m>> : <<m>>[k].kind \notin Final
      BY <2>2, <2>3 DEF Final
    <3>3. /\ call[c].state \notin Final /\ call'[c].state \notin Final
          /\ to \in SUBSET Names
      BY <2>5, <2>6 DEF Final
    <3> HIDE DEF to
    <3> QED
      BY <2>3, <2>6, <2>7, <3>1, <3>2, <3>3 DEF Talks
  <2> QED
    BY <2>4, <2>6, <2>8, OneCallMoves DEF Moves
<1>8. ASSUME NEW r \in Requests, Note(r) PROVE Goal
  <2>1. PICK c \in CallIds, from \in Agents : c = request[r].call /\ from = request[r].from
    BY <1>0, <1>8 DEF Note, Views, Idle
  <2> DEFINE e == Event("invocation", from)
  <2>2. e \in Entries /\ e.kind = "invocation"
    BY EntriesMade DEF Kinds, Names
  <2> HIDE DEF e
  <2>3. Adds(c, <<e>>, {}) /\ \A d \in CallIds \ {c} : Keeps(d)
    <3>1. Append_(c, <<e>>, {}) /\ read' = read /\ <<e>> \in Seq(Entries)
      BY <1>8, <2>1, <2>2, NewEntries DEF Note, Commits, e
    <3> QED
      BY <3>1, AppendAdds
  <2>4. \A d \in CallIds : SameRow(d)
    BY <1>8 DEF Note, SameRow, SameParties
  <2> QED
    BY <2>2, <2>3, <2>4, OneCallMoves DEF Moves, Notes
<1>9. ASSUME NEW c \in CallIds, NEW from \in Names, NEW to,
             EndIn(c, from, to), \A a \in Live(c) \ {from} : a \in to
      PROVE Goal
  <2>1. /\ Event("ended", from) \in Entries /\ Event("ended", from).kind = "ended"
        /\ Event("ended", from).from = from
    BY EntriesMade DEF Kinds, Names
  <2>2. /\ Append_(c, <<Event("ended", from)>>, to) /\ read' = read
        /\ call' = [call EXCEPT ![c].state = "ended"]
        /\ call[c].state \notin Final
    BY <1>9 DEF EndIn, Open, Final
  <2>3. "ended" \in Final
    BY DEF Final
  <2> HIDE DEF Event
  <2> QED
    BY <1>9, <2>1, <2>2, <2>3, EventEnds
<1>10. ASSUME NEW c \in CallIds, NEW state \in {"ended", "missed"}, NEW to,
              WorkerEnds(c, state, to), call[c].state \notin Final,
              \A a \in Live(c) : a \in to \/ (state = "missed" /\ a = call[c].callee)
       PROVE Goal
  <2>1. /\ Event(state, Nobody) \in Entries /\ Event(state, Nobody).kind = state
        /\ Event(state, Nobody).from = Nobody
    BY EntriesMade DEF Kinds, Names
  <2>2. /\ Append_(c, <<Event(state, Nobody)>>, to) /\ read' = read
        /\ call' = [call EXCEPT ![c].state = state]
    BY <1>10 DEF WorkerEnds
  <2>3. state \in Final
    BY DEF Final
  <2> HIDE DEF Event
  <2> QED
    BY <1>10, <2>1, <2>2, <2>3, EventEnds
<1>11. ASSUME NEW c \in CallIds, NEW a \in Agents, End(c, a) PROVE Goal
  <2>1. \A b \in Parties(c) : b # a => b = Other(c, a)
    <3>1. \A b \in Parties(c) : b # a => Other(c, a) \in Parties(c) /\ Other(c, a) # a
      BY DEF Other
    <3> QED
      BY <1>11, <3>1 DEF End, Live, Parties
  <2>2. \A b \in Live(c) \ {a} : b \in {Other(c, a)} \ gone
    BY <2>1 DEF Live
  <2> QED
    BY <1>9, <1>11, <2>2 DEF End, Names
<1>12. ASSUME NEW c \in CallIds, OwnerEnd(c) PROVE Goal
  BY <1>9, <1>12 DEF OwnerEnd, Names
<1>13. ASSUME NEW c \in CallIds, MarkMissed(c) PROVE Goal
  BY <1>10, <1>13 DEF MarkMissed, Final, Live, Parties
<1>14. ASSUME NEW c \in CallIds, EndIdle(c) \/ EndGone(c) PROVE Goal
  BY <1>10, <1>14 DEF EndIdle, EndGone, Open, Final
<1>15. ASSUME NEW c \in CallIds, Purges(c), read' = read PROVE Goal
  <2>1. /\ call' = [call EXCEPT ![c] = PurgedRow(@)]
        /\ entries' = [entries EXCEPT ![c] = EmptiedAll(@)]
        /\ unread' = {d \in unread : ~Dropped(c, d)}
        /\ charged' = charged
    BY <1>15 DEF Purges
  <2>2. \A d \in CallIds : SameRow(d)
    <3>1. SameRow(c)
      <4>1. call[c] \in CallRows
        BY <1>0
      <4>2. call'[c] = PurgedRow(call[c])
        BY <1>0, <2>1
      <4> QED
        BY <4>1, <4>2, RowPurged DEF SameRow, SameParties
    <3>2. \A d \in CallIds \ {c} : SameRow(d)
      BY <1>0, <2>1 DEF SameRow, SameParties
    <3> QED
      BY <3>1, <3>2
  <2>3. \A d \in CallIds : StaysDelivered(d)
    <3>1. call'[c].purged
      BY <1>0, <2>1, RowPurged
    <3> QED
      BY <1>15, <2>1, <3>1 DEF StaysDelivered, Delivered, Dropped
  <2>4. \A d \in CallIds :
            /\ DOMAIN entries'[d] = DOMAIN entries[d]
            /\ \A s \in DOMAIN entries[d] : SameSaid(entries'[d][s], entries[d][s])
    <3>1. entries'[c] = [s \in DOMAIN entries[c] |-> Emptied(entries[c][s])]
      BY <2>1 DEF EmptiedAll, CallsTypes
    <3>2. \A s \in DOMAIN entries[c] : SameSaid(Emptied(entries[c][s]), entries[c][s])
      BY <1>0, EntriesChanged DEF SameSaid
    <3>3. \A d \in CallIds \ {c} : entries'[d] = entries[d]
      BY <2>1 DEF CallsTypes
    <3> QED
      BY <3>1, <3>2, <3>3 DEF SameSaid
  <2>5. \A d \in CallIds : Keeps(d)
    BY <2>1, <2>3, <2>4, ChangedKeeps
  <2> QED
    BY <1>1, <2>2, <2>5
<1>16. ASSUME NEW r \in Requests, DeleteFinal(r) PROVE Goal
  <2>1. request[r].call \in CallIds
    BY <1>0, <1>16 DEF DeleteFinal, Views, Idle
  <2> QED
    BY <1>15, <1>16, <2>1 DEF DeleteFinal, Commits
<1>17. ASSUME NEW c \in CallIds, PurgeDue(c) PROVE Goal
  BY <1>15, <1>17 DEF PurgeDue
<1>18. ASSUME NEW r \in Requests, DeleteOpen(r) PROVE Goal
  <2>1. PICK c \in CallIds : c = request[r].call
    BY <1>0, <1>18 DEF DeleteOpen, Views, Idle
  <2> DEFINE e == Event("ended", Nobody)
             n == Len(entries[c])
  <2>2. /\ Open(c)
        /\ call' = [call EXCEPT ![c] = [PurgedRow(@) EXCEPT !.state = "ended"]]
        /\ entries' = [entries EXCEPT ![c] = EmptiedAll(Append(@, e))]
        /\ unread' = {d \in unread : ~Dropped(c, d)} \cup
                         {<<c, n + 1, a>> : a \in Live(c)}
        /\ charged' = charged /\ read' = read
    BY <1>18, <2>1 DEF DeleteOpen, Commits
  <2>3. e \in Entries /\ e.kind = "ended" /\ e.from = Nobody
    BY EntriesMade DEF Kinds, Names
  <2> HIDE DEF e
  <2>4. entries[c] \in Seq(Entries)
    BY DEF CallsTypes
  <2>5. <<e>> \in Seq(Entries) /\ DOMAIN <<e>> = {1} /\ <<e>>[1] = e
    BY <2>3, NewEntries
  <2>6. Append(entries[c], e) = entries[c] \o <<e>>
    BY <2>3, <2>4, AppendIsConcat
  <2> DEFINE es == entries[c] \o <<e>>
  <2>7. /\ es \in Seq(Entries) /\ n \in Nat
        /\ DOMAIN es = DOMAIN entries[c] \cup {n + k : k \in DOMAIN <<e>>}
        /\ \A s \in DOMAIN entries[c] : es[s] = entries[c][s] /\ s <= n
        /\ \A k \in DOMAIN <<e>> : es[n + k] = <<e>>[k]
    BY <2>4, <2>5, Appended
  <2>8. \A s \in DOMAIN es : es[s] \in Entries
    BY <2>7, LenProperties
  <2>9. \A s \in DOMAIN entries[c] : s \in Nat
    BY <2>4, LenProperties
  <2> HIDE DEF es
  <2>10. entries'[c] = [s \in DOMAIN es |-> Emptied(es[s])]
    BY <2>2, <2>6 DEF EmptiedAll, CallsTypes, es
  <2>11. \A s \in DOMAIN es : SameSaid(entries'[c][s], es[s])
    <3> SUFFICES ASSUME NEW s \in DOMAIN es PROVE SameSaid(entries'[c][s], es[s])
      OBVIOUS
    <3>1. entries'[c][s] = Emptied(es[s]) /\ es[s] \in Entries
      BY <2>8, <2>10
    <3> QED
      BY <3>1, EntriesChanged DEF SameSaid
  <2>12. \A d \in CallIds : StaysDelivered(d)
    <3>1. call[c] \in CallRows /\ call'[c] = [PurgedRow(call[c]) EXCEPT !.state = "ended"]
      BY <1>0, <2>2
    <3>2. PurgedRow(call[c]) \in CallRows /\ PurgedRow(call[c]).purged = TRUE
      BY <3>1, RowPurged
    <3>3. call'[c].purged
      BY <3>1, <3>2 DEF CallRows
    <3> QED
      BY <2>2, <3>3 DEF StaysDelivered, Delivered, Dropped
  <2>13. \A d \in CallIds : ChargedIn(d)' = ChargedIn(d)
    BY <2>2 DEF ChargedIn
  <2>14. \A a \in Live(c) : <<c, n + 1, a>> \in Delivered(c)'
    BY <2>2 DEF Delivered
  <2>15. Adds(c, <<e>>, Live(c))
    <3>1. {<<c, n + k>> : k \in {j \in DOMAIN <<e>> : <<e>>[j].kind = "message"}} = {}
      BY <2>3, <2>5
    <3>2. DOMAIN entries'[c] = DOMAIN entries[c] \cup {n + k : k \in DOMAIN <<e>>}
      BY <2>7, <2>10
    <3>3. \A s \in DOMAIN entries[c] :
              SameSaid(entries'[c][s], entries[c][s]) /\ s \in Nat /\ s <= n
      BY <2>7, <2>9, <2>11
    <3>4. \A k \in DOMAIN <<e>> :
              /\ SameSaid(entries'[c][n + k], <<e>>[k])
              /\ k \in Nat /\ k > 0
              /\ \A a \in Live(c) : <<c, n + k, a>> \in Delivered(c)'
      <4>1. n + 1 \in DOMAIN es /\ es[n + 1] = <<e>>[1]
        BY <2>5, <2>7
      <4>2. SameSaid(entries'[c][n + 1], <<e>>[1])
        BY <2>11, <4>1
      <4> QED
        BY <2>5, <2>14, <4>2
    <3> QED
      BY <2>7, <2>12, <2>13, <3>1, <3>2, <3>3, <3>4 DEF Adds
  <2>16. \A d \in CallIds \ {c} : Keeps(d)
    <3>1. \A d \in CallIds \ {c} : entries'[d] = entries[d]
      BY <2>2 DEF CallsTypes
    <3> QED
      BY <2>12, <2>13, <3>1 DEF Keeps, SameSaid
  <2>17. /\ call'[c].state = "ended" /\ call'[c].count = call[c].count
         /\ SameParties(c)
    <3>1. call[c] \in CallRows
      BY <1>0
    <3> DEFINE f == [call[c] EXCEPT !.note = FALSE]
               g == [f EXCEPT !.purged = TRUE]
    <3>2. f \in CallRows /\ f.count = call[c].count /\ f.caller = call[c].caller
          /\ f.callee = call[c].callee
      BY <3>1 DEF CallRows
    <3>3. call'[c] = [g EXCEPT !.state = "ended"]
      BY <1>0, <2>2 DEF PurgedRow
    <3> HIDE DEF f
    <3>4. g \in CallRows /\ g.count = f.count /\ g.caller = f.caller
          /\ g.callee = f.callee
      BY <3>2 DEF CallRows
    <3> HIDE DEF g
    <3>5. /\ call'[c].state = "ended" /\ call'[c].count = call[c].count
          /\ call'[c].caller = call[c].caller /\ call'[c].callee = call[c].callee
      BY <3>2, <3>3, <3>4 DEF CallRows
    <3> QED
      BY <3>5 DEF SameParties
  <2>18. \A d \in CallIds \ {c} : SameRow(d)
    BY <1>0, <2>2 DEF SameRow, SameParties
  <2>19. Ends(c)
    <3>1. call[c].state \notin Final /\ "ended" \in Final
      BY <2>2 DEF Open, Final
    <3>2. Live(c) \in SUBSET Names
      BY RowTypes DEF Live, Parties
    <3> QED
      BY <2>3, <2>15, <2>17, <3>1, <3>2 DEF Ends
  <2> QED
    BY <2>16, <2>18, <2>19, OneCallMoves DEF Moves
<1>19. ASSUME NEW r \in Requests,
              \/ \E a, b \in Agents : InviteChecks(r, a, b)
              \/ \E c \in CallIds :
                     \/ AcceptChecks(r, c) \/ DeclineChecks(r, c) \/ DeleteLoads(r, c)
                     \/ \E a \in Agents : SendChecks(r, c, a) \/ LinkCheck(r, c, a)
              \/ Refuses(r)
       PROVE Goal
  BY <1>2, <1>19
  DEF InviteChecks, AcceptChecks, DeclineChecks, DeleteLoads, SendChecks, LinkCheck,
      Refuses, Loads, transcript
<1>20. ASSUME NEW r \in Requests, NEW i \in Invs, InvokeInserts(r, i) PROVE Goal
  BY <1>2, <1>20 DEF InvokeInserts, transcript
<1>21. ASSUME NEW a \in Agents, Pull(a) PROVE Goal
  <2>1. unread \cup read \subseteq unread' \cup read'
    BY <1>21 DEF Pull
  <2> QED
    BY <1>2, <1>21, <2>1 DEF Pull
<1>22. ASSUME NEW a \in Agents, Tombstone(a) PROVE Goal
  BY <1>2, <1>22 DEF Tombstone, transcript
<1>23. ASSUME TagDue \/ TaggerCrash PROVE Goal
  BY <1>2, <1>23 DEF TagDue, TaggerCrash, transcript
<1>24. ASSUME UNCHANGED <<call, unread, charged, read>>,
              \A c \in CallIds :
                  /\ DOMAIN entries'[c] = DOMAIN entries[c]
                  /\ \A s \in DOMAIN entries[c] : SameSaid(entries'[c][s], entries[c][s])
       PROVE Goal
  <2>1. \A c \in CallIds : StaysDelivered(c)
    BY <1>24 DEF StaysDelivered, Delivered
  <2>2. \A c \in CallIds : Keeps(c)
    BY <1>24, <2>1, ChangedKeeps
  <2> QED
    BY <1>1, <1>24, <2>2 DEF SameRow, SameParties
<1>25. ASSUME NEW c \in CallIds, TagClaims(c) PROVE Goal
  <2>1. entries' = [entries EXCEPT ![c] = [s \in DOMAIN entries[c] |->
                       IF s \in PendingOf(c) THEN Tried(entries[c][s])
                       ELSE entries[c][s]]]
    BY <1>25 DEF TagClaims
  <2>2. \A s \in DOMAIN entries[c] :
            SameSaid(Tried(entries[c][s]), entries[c][s])
    BY <1>0, EntriesChanged DEF SameSaid
  <2>3. /\ DOMAIN entries'[c] = DOMAIN entries[c]
        /\ \A s \in DOMAIN entries[c] : SameSaid(entries'[c][s], entries[c][s])
    BY <2>1, <2>2 DEF SameSaid, CallsTypes
  <2>4. \A d \in CallIds \ {c} : entries'[d] = entries[d]
    BY <2>1 DEF CallsTypes
  <2> QED
    BY <1>24, <1>25, <2>3, <2>4 DEF TagClaims, SameSaid
<1>26. ASSUME TagAnswered PROVE Goal
  <2>1. \A c \in CallIds :
            entries'[c] = [s \in DOMAIN entries[c] |->
                IF Claimed(c, s) THEN [entries[c][s] EXCEPT !.tags = TRUE, !.tag = "done"]
                ELSE entries[c][s]]
    BY <1>26 DEF TagAnswered
  <2>2. \A c \in CallIds : \A s \in DOMAIN entries[c] :
            SameSaid([entries[c][s] EXCEPT !.tags = TRUE, !.tag = "done"], entries[c][s])
    BY <1>0, EntriesChanged DEF SameSaid
  <2>3. \A c \in CallIds :
            /\ DOMAIN entries'[c] = DOMAIN entries[c]
            /\ \A s \in DOMAIN entries[c] : SameSaid(entries'[c][s], entries[c][s])
    <3> SUFFICES ASSUME NEW c \in CallIds
                 PROVE  /\ DOMAIN entries'[c] = DOMAIN entries[c]
                        /\ \A s \in DOMAIN entries[c] : SameSaid(entries'[c][s], entries[c][s])
      OBVIOUS
    <3> DEFINE done(s) == [entries[c][s] EXCEPT !.tags = TRUE, !.tag = "done"]
    <3>1. entries'[c] = [s \in DOMAIN entries[c] |->
                             IF Claimed(c, s) THEN done(s) ELSE entries[c][s]]
      BY <2>1
    <3>2. \A s \in DOMAIN entries[c] : SameSaid(done(s), entries[c][s])
      BY <2>2
    <3> HIDE DEF done
    <3>3. \A s \in DOMAIN entries[c] : entries'[c][s] \in {done(s), entries[c][s]}
      BY <3>1
    <3>4. \A e : SameSaid(e, e)
      BY DEF SameSaid
    <3> QED
      BY <3>1, <3>2, <3>3, <3>4
  <2> QED
    BY <1>24, <1>26, <2>3 DEF TagAnswered
<1>27. ASSUME TagFails PROVE Goal
  <2>1. \A c \in CallIds :
            entries'[c] = [s \in DOMAIN entries[c] |->
                IF Claimed(c, s) /\ Spent(entries[c][s])
                THEN [entries[c][s] EXCEPT !.tag = "error"] ELSE entries[c][s]]
    BY <1>27 DEF TagFails
  <2>2. \A c \in CallIds : \A s \in DOMAIN entries[c] :
            SameSaid([entries[c][s] EXCEPT !.tag = "error"], entries[c][s])
    BY <1>0, EntriesChanged DEF SameSaid
  <2>3. \A c \in CallIds :
            /\ DOMAIN entries'[c] = DOMAIN entries[c]
            /\ \A s \in DOMAIN entries[c] : SameSaid(entries'[c][s], entries[c][s])
    <3> SUFFICES ASSUME NEW c \in CallIds
                 PROVE  /\ DOMAIN entries'[c] = DOMAIN entries[c]
                        /\ \A s \in DOMAIN entries[c] : SameSaid(entries'[c][s], entries[c][s])
      OBVIOUS
    <3> DEFINE failed(s) == [entries[c][s] EXCEPT !.tag = "error"]
    <3>1. entries'[c] = [s \in DOMAIN entries[c] |->
                             IF Claimed(c, s) /\ Spent(entries[c][s])
                             THEN failed(s) ELSE entries[c][s]]
      BY <2>1
    <3>2. \A s \in DOMAIN entries[c] : SameSaid(failed(s), entries[c][s])
      BY <2>2
    <3> HIDE DEF failed
    <3>3. \A s \in DOMAIN entries[c] : entries'[c][s] \in {failed(s), entries[c][s]}
      BY <3>1
    <3>4. \A e : SameSaid(e, e)
      BY DEF SameSaid
    <3> QED
      BY <3>1, <3>2, <3>3, <3>4
  <2> QED
    BY <1>24, <1>27, <2>3 DEF TagFails
<1>28. ASSUME UNCHANGED callVars PROVE Goal
  BY <1>2, <1>28 DEF callVars, transcript
<1>29. Goal
  <2> HIDE DEF Goal
  <2> QED
    BY <1>3, <1>4, <1>5, <1>6, <1>7, <1>8, <1>11, <1>12, <1>13, <1>14, <1>16, <1>17,
       <1>18, <1>19, <1>20, <1>21, <1>22, <1>23, <1>25, <1>26, <1>27, <1>28
    DEF CallsNext, Handles, Tags
<1> QED
  BY <1>29

\* The transcripts stay transcripts.
LEMMA EntriesStep ==
    ASSUME CallsTypes, [CallsNext]_callVars
    PROVE  entries' \in [CallIds -> Seq(Entries)]
<1> DEFINE Goal == entries' \in [CallIds -> Seq(Entries)]
<1>0. /\ entries \in [CallIds -> Seq(Entries)] /\ request \in [Requests -> Views]
      /\ \A c \in CallIds : \A s \in DOMAIN entries[c] : entries[c][s] \in Entries
  <2>1. \A c \in CallIds : entries[c] \in Seq(Entries)
    BY DEF CallsTypes
  <2>2. \A c \in CallIds : \A s \in DOMAIN entries[c] : entries[c][s] \in Entries
    BY <2>1, LenProperties
  <2> QED
    BY <2>2 DEF CallsTypes
<1>1. ASSUME NEW c \in CallIds, NEW new \in Seq(Entries), NEW to, Append_(c, new, to)
      PROVE Goal
  <2>1. entries' = [entries EXCEPT ![c] = @ \o new]
    BY <1>1 DEF Append_
  <2>2. entries[c] \o new \in Seq(Entries)
    BY <1>0, Appended
  <2> QED
    BY <1>0, <2>1, <2>2
<1>2. ASSUME UNCHANGED entries PROVE Goal
  BY <1>0, <1>2
<1>3. ASSUME NEW e \in Entries, NEW f \in Entries, NEW more \in BOOLEAN
      PROVE  <<e>> \o (IF more THEN <<f>> ELSE <<>>) \in Seq(Entries)
             /\ <<e>> \in Seq(Entries)
  BY NewEntries
<1>4. ASSUME NEW r \in Requests, NEW c \in CallIds, InviteInserts(r, c) PROVE Goal
  <2>1. request[r].from \in Names
    BY <1>0, <1>4 DEF InviteInserts, Views, Idle, Names
  <2>2. Event("invite", request[r].from) \in Entries /\ Message(request[r].from) \in Entries
    BY <2>1, EntriesMade DEF Kinds
  <2> QED
    BY <1>1, <1>3, <1>4, <2>2 DEF InviteInserts
<1>5. ASSUME NEW r \in Requests, AcceptCommits(r) PROVE Goal
  <2>1. PICK c \in CallIds : c = request[r].call
    BY <1>0, <1>5 DEF AcceptCommits, Views, Idle
  <2>2. Event("accepted", call[c].callee) \in Entries /\ Message(call[c].callee) \in Entries
    BY EntriesMade, RowTypes DEF Kinds, Names
  <2> QED
    BY <1>1, <1>3, <1>5, <2>1, <2>2 DEF AcceptCommits
<1>6. ASSUME NEW r \in Requests, DeclineCommits(r) PROVE Goal
  <2>0. PICK c \in CallIds : c = request[r].call
    BY <1>0, <1>6 DEF DeclineCommits, Views, Idle
  <2>1. Event("declined", call[c].callee) \in Entries
    BY EntriesMade, RowTypes DEF Kinds, Names
  <2>2. ASSUME NEW reason \in BOOLEAN
        PROVE  [Event("declined", call[c].callee) EXCEPT !.text = reason] \in Entries
    BY <2>1 DEF Entries
  <2> QED
    BY <1>1, <1>3, <1>6, <2>0, <2>2 DEF DeclineCommits
<1>7. ASSUME NEW r \in Requests, SendBlocked(r) PROVE Goal
  <2>1. PICK c \in CallIds, from \in Agents : c = request[r].call /\ from = request[r].from
    BY <1>0, <1>7 DEF SendBlocked, Views, Idle
  <2>2. Event("blocked", from) \in Entries
    BY EntriesMade DEF Kinds, Names
  <2> QED
    BY <1>1, <1>3, <1>7, <2>1, <2>2 DEF SendBlocked
<1>8. ASSUME NEW r \in Requests, SendCommits(r) PROVE Goal
  <2>1. PICK c \in CallIds, from \in Agents : c = request[r].call /\ from = request[r].from
    BY <1>0, <1>8 DEF SendCommits, Views, Idle
  <2>2. Message(from) \in Entries
    BY EntriesMade DEF Names
  <2> QED
    BY <1>1, <1>3, <1>8, <2>1, <2>2 DEF SendCommits
<1>9. ASSUME NEW r \in Requests, Note(r) PROVE Goal
  <2>1. PICK c \in CallIds, from \in Agents : c = request[r].call /\ from = request[r].from
    BY <1>0, <1>9 DEF Note, Views, Idle
  <2>2. Event("invocation", from) \in Entries
    BY EntriesMade DEF Kinds, Names
  <2> QED
    BY <1>1, <1>3, <1>9, <2>1, <2>2 DEF Note
<1>10. ASSUME NEW c \in CallIds, NEW from \in Names, NEW to, EndIn(c, from, to)
       PROVE Goal
  <2>1. Event("ended", from) \in Entries
    BY EntriesMade DEF Kinds
  <2> QED
    BY <1>1, <1>3, <1>10, <2>1 DEF EndIn
<1>11. ASSUME NEW c \in CallIds, OwnerEnd(c) \/ \E a \in Agents : End(c, a) PROVE Goal
  BY <1>10, <1>11 DEF OwnerEnd, End, Names
<1>12. ASSUME NEW c \in CallIds, MarkMissed(c) \/ EndIdle(c) \/ EndGone(c) PROVE Goal
  <2>1. Event("missed", Nobody) \in Entries /\ Event("ended", Nobody) \in Entries
    BY EntriesMade DEF Kinds, Names
  <2> QED
    BY <1>1, <1>3, <1>12, <2>1 DEF MarkMissed, EndIdle, EndGone, WorkerEnds
<1>13. ASSUME NEW es \in Seq(Entries) PROVE EmptiedAll(es) \in Seq(Entries)
  <2>1. \A s \in DOMAIN es : Emptied(es[s]) \in Entries
    <3>1. \A s \in DOMAIN es : es[s] \in Entries
      BY LenProperties
    <3> QED
      BY <3>1, EntriesChanged
  <2>2. EmptiedAll(es) = [s \in DOMAIN es |-> EmptiedAll(es)[s]]
    BY DEF EmptiedAll
  <2>3. \A s \in DOMAIN es : EmptiedAll(es)[s] \in Entries
    BY <2>1 DEF EmptiedAll
  <2> QED
    BY <2>2, <2>3, EntryByEntry
<1>14. ASSUME NEW c \in CallIds, Purges(c) PROVE Goal
  BY <1>0, <1>13, <1>14 DEF Purges
<1>15. ASSUME NEW r \in Requests, DeleteFinal(r) PROVE Goal
  <2>1. request[r].call \in CallIds
    BY <1>0, <1>15 DEF DeleteFinal, Views, Idle
  <2> QED
    BY <1>14, <1>15, <2>1 DEF DeleteFinal
<1>16. ASSUME NEW r \in Requests, DeleteOpen(r) PROVE Goal
  <2>1. PICK c \in CallIds : c = request[r].call
    BY <1>0, <1>16 DEF DeleteOpen, Views, Idle
  <2>2. Event("ended", Nobody) \in Entries
    BY EntriesMade DEF Kinds, Names
  <2>3. Append(entries[c], Event("ended", Nobody)) \in Seq(Entries)
    BY <1>0, <2>2, AppendProperties
  <2>4. entries' = [entries EXCEPT ![c] = EmptiedAll(Append(@, Event("ended", Nobody)))]
    BY <1>16, <2>1 DEF DeleteOpen
  <2> QED
    BY <1>0, <1>13, <2>3, <2>4
<1>17. ASSUME NEW c \in CallIds, NEW f, f = [s \in DOMAIN entries[c] |-> f[s]],
              \A s \in DOMAIN entries[c] : f[s] \in Entries
       PROVE  f \in Seq(Entries)
  BY <1>0, <1>17, EntryByEntry
<1>18. ASSUME NEW c \in CallIds, TagClaims(c) PROVE Goal
  <2> DEFINE f == [s \in DOMAIN entries[c] |->
                      IF s \in PendingOf(c) THEN Tried(entries[c][s]) ELSE entries[c][s]]
  <2>1. entries' = [entries EXCEPT ![c] = f]
    BY <1>18 DEF TagClaims
  <2>2. \A s \in DOMAIN entries[c] : f[s] \in Entries
    BY <1>0, EntriesChanged
  <2>3. f \in Seq(Entries)
    BY <1>17, <2>2
  <2> HIDE DEF f
  <2> QED
    BY <1>0, <2>1, <2>3
<1>19. ASSUME entries' = [c \in CallIds |-> entries'[c]],
              \A c \in CallIds :
                  /\ entries'[c] = [s \in DOMAIN entries[c] |-> entries'[c][s]]
                  /\ \A s \in DOMAIN entries[c] : entries'[c][s] \in Entries
       PROVE Goal
  BY <1>17, <1>19
<1>20. ASSUME TagAnswered PROVE Goal
  <2>1. \A c \in CallIds : \A s \in DOMAIN entries[c] :
            [entries[c][s] EXCEPT !.tags = TRUE, !.tag = "done"] \in Entries
    BY <1>0, EntriesChanged
  <2>2. /\ entries' = [c \in CallIds |-> entries'[c]]
        /\ \A c \in CallIds : entries'[c] = [s \in DOMAIN entries[c] |-> entries'[c][s]]
    BY <1>20 DEF TagAnswered
  <2>3. \A c \in CallIds : \A s \in DOMAIN entries[c] :
            \/ entries'[c][s] = [entries[c][s] EXCEPT !.tags = TRUE, !.tag = "done"]
            \/ entries'[c][s] = entries[c][s]
    BY <1>20 DEF TagAnswered
  <2>4. \A c \in CallIds : \A s \in DOMAIN entries[c] : entries'[c][s] \in Entries
    BY <1>0, <2>1, <2>3
  <2> QED
    BY <1>19, <2>2, <2>4
<1>21. ASSUME TagFails PROVE Goal
  <2>1. \A c \in CallIds : \A s \in DOMAIN entries[c] :
            [entries[c][s] EXCEPT !.tag = "error"] \in Entries
    BY <1>0, EntriesChanged
  <2>2. /\ entries' = [c \in CallIds |-> entries'[c]]
        /\ \A c \in CallIds : entries'[c] = [s \in DOMAIN entries[c] |-> entries'[c][s]]
    BY <1>21 DEF TagFails
  <2>3. \A c \in CallIds : \A s \in DOMAIN entries[c] :
            \/ entries'[c][s] = [entries[c][s] EXCEPT !.tag = "error"]
            \/ entries'[c][s] = entries[c][s]
    BY <1>21 DEF TagFails
  <2>4. \A c \in CallIds : \A s \in DOMAIN entries[c] : entries'[c][s] \in Entries
    BY <1>0, <2>1, <2>3
  <2> QED
    BY <1>19, <2>2, <2>4
<1>22. ASSUME NEW r \in Requests,
              \/ \E a, b \in Agents : InviteChecks(r, a, b)
              \/ \E c \in CallIds :
                     \/ AcceptChecks(r, c) \/ DeclineChecks(r, c) \/ DeleteLoads(r, c)
                     \/ \E a \in Agents : SendChecks(r, c, a) \/ LinkCheck(r, c, a)
              \/ Refuses(r)
              \/ \E i \in Invs : InvokeInserts(r, i)
       PROVE Goal
  BY <1>2, <1>22
  DEF InviteChecks, AcceptChecks, DeclineChecks, DeleteLoads, SendChecks, LinkCheck,
      Refuses, Loads, InvokeInserts, transcript
<1>23. ASSUME TagDue \/ TaggerCrash \/ UNCHANGED callVars PROVE Goal
  BY <1>2, <1>23 DEF TagDue, TaggerCrash, transcript, callVars
<1>24. ASSUME NEW a \in Agents, Pull(a) \/ Tombstone(a) PROVE Goal
  BY <1>2, <1>24 DEF Pull, Tombstone, transcript
<1>25. ASSUME NEW c \in CallIds, PurgeDue(c) PROVE Goal
  BY <1>14, <1>25 DEF PurgeDue
<1>26. Goal
  <2> HIDE DEF Goal
  <2> QED
    BY <1>4, <1>5, <1>6, <1>7, <1>8, <1>9, <1>11, <1>12, <1>15, <1>16, <1>18, <1>20,
       <1>21, <1>22, <1>23, <1>24, <1>25
    DEF CallsNext, Handles, Tags
<1> QED
  BY <1>26

\* The rows of the calls stay rows, and one that was not placed counts no
\* messages.
LEMMA RowsStep ==
    ASSUME CallsTypes, Fresh, [CallsNext]_callVars
    PROVE  call' \in [CallIds -> CallRows] /\ Fresh'
<1> DEFINE Goal == call' \in [CallIds -> CallRows] /\ Fresh'
<1>0. call \in [CallIds -> CallRows] /\ request \in [Requests -> Views]
  BY DEF CallsTypes
<1>1. ASSUME NEW c \in CallIds, NEW row \in CallRows, call' = [call EXCEPT ![c] = row],
             row.state = "none" => row.count = 0
      PROVE Goal
  BY <1>0, <1>1 DEF Fresh
<1>2. ASSUME UNCHANGED call PROVE Goal
  BY <1>0, <1>2 DEF Fresh
<1>3. ASSUME NEW c \in CallIds, NEW state \in States \ {"none"},
             call' = [call EXCEPT ![c].state = state]
      PROVE Goal
  <2> DEFINE row == [call[c] EXCEPT !.state = state]
  <2>1. row \in CallRows /\ row.state # "none"
    BY <1>0 DEF CallRows
  <2>2. call' = [call EXCEPT ![c] = row]
    BY <1>3
  <2> HIDE DEF row
  <2> QED
    BY <1>1, <2>1, <2>2
<1>4. ASSUME NEW r \in Requests, NEW c \in CallIds, InviteInserts(r, c) PROVE Goal
  <2>1. request[r].from \in Names /\ request[r].to \in Names
    BY <1>0, <1>4 DEF InviteInserts, Views, Idle, Names
  <2>2. PICK opening \in BOOLEAN :
            call' = [call EXCEPT ![c] = [state |-> "ringing", caller |-> request[r].from,
                        callee |-> request[r].to, note |-> TRUE,
                        count |-> IF opening THEN 1 ELSE 0, purged |-> FALSE]]
    BY <1>4 DEF InviteInserts
  <2> DEFINE row == [state |-> "ringing", caller |-> request[r].from,
                     callee |-> request[r].to, note |-> TRUE,
                     count |-> IF opening THEN 1 ELSE 0, purged |-> FALSE]
  <2>3. row \in CallRows /\ row.state # "none"
    BY <2>1 DEF CallRows, States
  <2>4. call' = [call EXCEPT ![c] = row]
    BY <2>2
  <2> HIDE DEF row
  <2> QED
    BY <1>1, <2>3, <2>4
<1>5. ASSUME NEW r \in Requests, AcceptCommits(r) PROVE Goal
  <2>1. PICK c \in CallIds : c = request[r].call
    BY <1>0, <1>5 DEF AcceptCommits, Views, Idle
  <2>2. PICK reply \in BOOLEAN :
            call' = [call EXCEPT ![c].state = "active",
                                 ![c].count = @ + IF reply THEN 1 ELSE 0]
    BY <1>5, <2>1 DEF AcceptCommits
  <2> DEFINE f == [call[c] EXCEPT !.state = "active"]
             row == [f EXCEPT !.count = @ + IF reply THEN 1 ELSE 0]
  <2>3. f \in CallRows /\ f.state = "active"
    BY <1>0 DEF CallRows, States
  <2>4. call' = [call EXCEPT ![c] = row]
    BY <1>0, <2>2
  <2> HIDE DEF f
  <2>5. row \in CallRows /\ row.state = "active"
    BY <2>3 DEF CallRows
  <2> HIDE DEF row
  <2> QED
    BY <1>1, <2>4, <2>5
<1>6. ASSUME NEW r \in Requests, DeclineCommits(r) PROVE Goal
  <2>0. PICK c \in CallIds : c = request[r].call
    BY <1>0, <1>6 DEF DeclineCommits, Views, Idle
  <2>1. PICK reason \in BOOLEAN :
            call' = [call EXCEPT ![c].state = "declined", ![c].note = @ \/ reason]
    BY <1>6, <2>0 DEF DeclineCommits
  <2> DEFINE f == [call[c] EXCEPT !.state = "declined"]
             noted == f.note \/ reason
             row == [f EXCEPT !.note = noted]
  <2>2. f \in CallRows /\ f.state = "declined"
    BY <1>0 DEF CallRows, States
  <2>3. call' = [call EXCEPT ![c] = row]
    BY <1>0, <2>1
  <2>4. noted \in BOOLEAN
    BY <2>2 DEF CallRows
  <2> HIDE DEF f, noted
  <2>5. row \in CallRows /\ row.state = "declined"
    BY <2>2, <2>4 DEF CallRows
  <2> HIDE DEF row
  <2> QED
    BY <1>1, <2>3, <2>5
<1>7. ASSUME NEW r \in Requests, SendCommits(r) PROVE Goal
  <2>1. PICK c \in CallIds : c = request[r].call
    BY <1>0, <1>7 DEF SendCommits, Views, Idle
  <2> DEFINE row == [call[c] EXCEPT !.count = @ + 1]
  <2>2. row \in CallRows /\ row.state = "active"
    BY <1>0, <1>7, <2>1 DEF CallRows, SendCommits, StillActive
  <2>3. call' = [call EXCEPT ![c] = row]
    BY <1>7, <2>1 DEF SendCommits
  <2> HIDE DEF row
  <2> QED
    BY <1>1, <2>2, <2>3
<1>8. ASSUME NEW c \in CallIds
      PROVE  /\ PurgedRow(call[c]) \in CallRows
             /\ PurgedRow(call[c]).state = call[c].state
             /\ PurgedRow(call[c]).count = call[c].count
  <2> DEFINE f == [call[c] EXCEPT !.note = FALSE]
  <2>1. f \in CallRows /\ f.state = call[c].state /\ f.count = call[c].count
    BY <1>0 DEF CallRows
  <2>2. PurgedRow(call[c]) = [f EXCEPT !.purged = TRUE]
    BY DEF PurgedRow
  <2> HIDE DEF f
  <2> QED
    BY <2>1, <2>2 DEF CallRows
<1>9. ASSUME NEW c \in CallIds, Purges(c) PROVE Goal
  <2>1. call' = [call EXCEPT ![c] = PurgedRow(call[c])]
    BY <1>9 DEF Purges
  <2> QED
    BY <1>1, <1>8, <2>1 DEF Fresh
<1>10. ASSUME NEW r \in Requests, DeleteOpen(r) PROVE Goal
  <2>1. PICK c \in CallIds : c = request[r].call
    BY <1>0, <1>10 DEF DeleteOpen, Views, Idle
  <2> DEFINE f == PurgedRow(call[c])
             row == [f EXCEPT !.state = "ended"]
  <2>2. call' = [call EXCEPT ![c] = row]
    BY <1>10, <2>1 DEF DeleteOpen
  <2>3. f \in CallRows
    BY <1>8
  <2> HIDE DEF f
  <2>4. row \in CallRows /\ row.state = "ended"
    BY <2>3 DEF CallRows, States
  <2> HIDE DEF row
  <2> QED
    BY <1>1, <2>2, <2>4
<1>11. ASSUME NEW r \in Requests, DeleteFinal(r) PROVE Goal
  <2>1. request[r].call \in CallIds
    BY <1>0, <1>11 DEF DeleteFinal, Views, Idle
  <2> QED
    BY <1>9, <1>11, <2>1 DEF DeleteFinal
<1>12. ASSUME NEW c \in CallIds,
              \/ OwnerEnd(c) \/ \E a \in Agents : End(c, a)
              \/ MarkMissed(c) \/ EndIdle(c) \/ EndGone(c)
       PROVE Goal
  <2>1. PICK state \in {"ended", "missed"} : call' = [call EXCEPT ![c].state = state]
    BY <1>12 DEF OwnerEnd, End, EndIn, MarkMissed, EndIdle, EndGone, WorkerEnds
  <2> QED
    BY <1>3, <2>1 DEF States
<1>13. ASSUME NEW c \in CallIds, PurgeDue(c) PROVE Goal
  BY <1>9, <1>13 DEF PurgeDue
<1>14. ASSUME NEW r \in Requests,
              \/ \E a, b \in Agents : InviteChecks(r, a, b)
              \/ \E c \in CallIds :
                     \/ AcceptChecks(r, c) \/ DeclineChecks(r, c) \/ DeleteLoads(r, c)
                     \/ \E a \in Agents : SendChecks(r, c, a) \/ LinkCheck(r, c, a)
              \/ SendBlocked(r) \/ Note(r) \/ Refuses(r)
              \/ \E i \in Invs : InvokeInserts(r, i)
       PROVE Goal
  BY <1>2, <1>14
  DEF InviteChecks, AcceptChecks, DeclineChecks, DeleteLoads, SendChecks, LinkCheck,
      Refuses, Loads, InvokeInserts, SendBlocked, Note
<1>15. ASSUME \/ TagDue \/ (\E c \in CallIds : TagClaims(c)) \/ TagAnswered \/ TagFails
              \/ TaggerCrash \/ UNCHANGED callVars
       PROVE Goal
  BY <1>2, <1>15 DEF TagDue, TagClaims, TagAnswered, TagFails, TaggerCrash, callVars
<1>16. ASSUME NEW a \in Agents, Pull(a) \/ Tombstone(a) PROVE Goal
  BY <1>2, <1>16 DEF Pull, Tombstone
<1>17. Goal
  <2> HIDE DEF Goal
  <2> QED
    BY <1>4, <1>5, <1>6, <1>7, <1>10, <1>11, <1>12, <1>13, <1>14, <1>15, <1>16
    DEF CallsNext, Handles, Tags
<1> QED
  BY <1>17

\* What a handler carries from its load to its commit stays typed.
LEMMA ViewsStep ==
    ASSUME CallsTypes, [CallsNext]_callVars
    PROVE  request' \in [Requests -> Views]
<1> DEFINE Goal == request' \in [Requests -> Views]
<1>0. request \in [Requests -> Views]
  BY DEF CallsTypes
<1>1. ASSUME NEW r \in Requests, NEW v \in Views, request' = [request EXCEPT ![r] = v]
      PROVE Goal
  BY <1>0, <1>1
<1>2. ASSUME UNCHANGED request PROVE Goal
  BY <1>0, <1>2
<1>3. ASSUME NEW r \in Requests, request' = [request EXCEPT ![r] = Idle] PROVE Goal
  BY <1>1, <1>3 DEF Views
<1>4. ASSUME NEW r \in Requests, NEW a \in Agents, NEW b \in Agents, InviteChecks(r, a, b)
      PROVE Goal
  BY <1>1, <1>4 DEF InviteChecks, Loads, Views
<1>5. ASSUME NEW r \in Requests, NEW c \in CallIds,
             AcceptChecks(r, c) \/ DeclineChecks(r, c) \/ DeleteLoads(r, c)
      PROVE Goal
  <2>1. [op |-> "accept", call |-> c] \in Views /\ [op |-> "decline", call |-> c] \in Views
    BY DEF Views
  <2>2. Open(c) \in BOOLEAN
    BY DEF Open
  <2>3. [op |-> "delete", call |-> c, open |-> Open(c)] \in Views
    BY <2>2 DEF Views
  <2> QED
    BY <1>1, <1>5, <2>1, <2>3 DEF AcceptChecks, DeclineChecks, DeleteLoads, Loads
<1>6. ASSUME NEW r \in Requests, NEW c \in CallIds, NEW a \in Agents,
             SendChecks(r, c, a) \/ LinkCheck(r, c, a)
      PROVE Goal
  <2>1. /\ [op |-> "send", call |-> c, from |-> a] \in Views
        /\ [op |-> "invoke", call |-> c, from |-> a] \in Views
    BY DEF Views
  <2> QED
    BY <1>1, <1>6, <2>1 DEF SendChecks, LinkCheck, Loads
<1>7. ASSUME NEW r \in Requests, NEW i \in Invs, InvokeInserts(r, i) PROVE Goal
  <2> DEFINE v == [request[r] EXCEPT !.op = "note"]
  <2>1. request[r] \in [op : {"send", "invoke", "note"}, call : CallIds, from : Agents]
    BY <1>0, <1>7 DEF InvokeInserts, Views, Idle
  <2>2. v \in [op : {"send", "invoke", "note"}, call : CallIds, from : Agents]
    BY <2>1
  <2>3. request' = [request EXCEPT ![r] = v]
    BY <1>7 DEF InvokeInserts
  <2> HIDE DEF v
  <2>4. v \in Views
    BY <2>2 DEF Views
  <2> QED
    BY <1>1, <2>3, <2>4
<1>8. ASSUME NEW r \in Requests,
             \/ \E c \in CallIds : InviteInserts(r, c)
             \/ AcceptCommits(r) \/ DeclineCommits(r) \/ SendBlocked(r) \/ SendCommits(r)
             \/ DeleteOpen(r) \/ DeleteFinal(r) \/ Note(r) \/ Refuses(r)
      PROVE Goal
  <2>1. request' = [request EXCEPT ![r] = Idle]
    BY <1>8 DEF InviteInserts, AcceptCommits, DeclineCommits, SendBlocked, SendCommits,
       DeleteOpen, DeleteFinal, Note, Refuses, Commits
  <2> QED
    BY <1>3, <2>1
<1>9. ASSUME NEW c \in CallIds,
             \/ OwnerEnd(c) \/ \E a \in Agents : End(c, a)
             \/ MarkMissed(c) \/ EndIdle(c) \/ EndGone(c) \/ PurgeDue(c)
      PROVE Goal
  BY <1>2, <1>9 DEF OwnerEnd, End, EndIn, MarkMissed, EndIdle, EndGone,
     WorkerEnds, PurgeDue
<1>10. ASSUME \/ TagDue \/ (\E c \in CallIds : TagClaims(c)) \/ TagAnswered \/ TagFails
              \/ TaggerCrash \/ UNCHANGED callVars
       PROVE Goal
  BY <1>2, <1>10 DEF TagDue, TagClaims, TagAnswered, TagFails, TaggerCrash, callVars
<1>11. ASSUME NEW a \in Agents, Pull(a) \/ Tombstone(a) PROVE Goal
  BY <1>2, <1>11 DEF Pull, Tombstone
<1>12. Goal
  <2> HIDE DEF Goal
  <2> QED
    BY <1>4, <1>5, <1>6, <1>7, <1>8, <1>9, <1>10, <1>11 DEF CallsNext, Handles, Tags
<1> QED
  BY <1>12

\* The rows of the invocations made in calls stay typed.
LEMMA InvStep ==
    ASSUME CallsTypes, [CallsNext]_callVars
    PROVE  inv' \in [Invs -> InvRows]
<1> DEFINE Goal == inv' \in [Invs -> InvRows]
<1>0. inv \in [Invs -> InvRows] /\ request \in [Requests -> Views]
  BY DEF CallsTypes
<1>1. ASSUME UNCHANGED inv PROVE Goal
  BY <1>0, <1>1
<1>2. ASSUME NEW i \in Invs
      PROVE  [inv[i] EXCEPT !.status = IF @ = "open" THEN "closed" ELSE @,
                            !.preview = FALSE] \in InvRows
  <2> DEFINE f == [inv[i] EXCEPT !.status = IF @ = "open" THEN "closed" ELSE @]
  <2>1. f \in InvRows
    BY <1>0 DEF InvRows
  <2>2. [inv[i] EXCEPT !.status = IF @ = "open" THEN "closed" ELSE @, !.preview = FALSE]
            = [f EXCEPT !.preview = FALSE]
    OBVIOUS
  <2> HIDE DEF f
  <2> QED
    BY <2>1, <2>2 DEF InvRows
<1>3. ASSUME NEW c, CloseInvocations(c) PROVE Goal
  BY <1>0, <1>2, <1>3 DEF CloseInvocations
<1>4. ASSUME NEW r \in Requests, NEW i \in Invs, InvokeInserts(r, i) PROVE Goal
  <2>1. request[r].call \in CallIds
    BY <1>0, <1>4 DEF InvokeInserts, Views, Idle
  <2>2. [call |-> request[r].call, status |-> "open", preview |-> TRUE] \in InvRows
    BY <2>1 DEF InvRows
  <2> QED
    BY <1>0, <1>4, <2>2 DEF InvokeInserts
<1>5. ASSUME NEW r \in Requests,
             \/ \E a, b \in Agents : InviteChecks(r, a, b)
             \/ \E c \in CallIds :
                    \/ AcceptChecks(r, c) \/ DeclineChecks(r, c) \/ DeleteLoads(r, c)
                    \/ InviteInserts(r, c)
                    \/ \E a \in Agents : SendChecks(r, c, a) \/ LinkCheck(r, c, a)
             \/ AcceptCommits(r) \/ DeclineCommits(r) \/ SendBlocked(r) \/ SendCommits(r)
             \/ Note(r) \/ Refuses(r)
      PROVE Goal
  BY <1>1, <1>5
  DEF InviteChecks, AcceptChecks, DeclineChecks, DeleteLoads, SendChecks, LinkCheck,
      Refuses, Loads, InviteInserts, AcceptCommits, DeclineCommits, SendBlocked, SendCommits, Note
<1>6. ASSUME NEW r \in Requests, DeleteOpen(r) \/ DeleteFinal(r) PROVE Goal
  BY <1>3, <1>6 DEF DeleteOpen, DeleteFinal, Purges
<1>7. ASSUME NEW c \in CallIds,
             \/ OwnerEnd(c) \/ \E a \in Agents : End(c, a)
             \/ MarkMissed(c) \/ EndIdle(c) \/ EndGone(c)
      PROVE Goal
  BY <1>1, <1>7 DEF OwnerEnd, End, EndIn, MarkMissed, EndIdle, EndGone,
     WorkerEnds
<1>8. ASSUME NEW c \in CallIds, PurgeDue(c) PROVE Goal
  BY <1>3, <1>8 DEF PurgeDue, Purges
<1>9. ASSUME \/ TagDue \/ (\E c \in CallIds : TagClaims(c)) \/ TagAnswered \/ TagFails
             \/ TaggerCrash \/ UNCHANGED callVars
      PROVE Goal
  BY <1>1, <1>9 DEF TagDue, TagClaims, TagAnswered, TagFails, TaggerCrash, callVars
<1>10. ASSUME NEW a \in Agents, Pull(a) \/ Tombstone(a) PROVE Goal
  BY <1>1, <1>10 DEF Pull, Tombstone
<1>11. Goal
  <2> HIDE DEF Goal
  <2> QED
    BY <1>4, <1>5, <1>6, <1>7, <1>8, <1>9, <1>10 DEF CallsNext, Handles, Tags
<1> QED
  BY <1>11

\* An agent that was tombstoned stays so.
LEMMA GoneStaysGone ==
    ASSUME [CallsNext]_callVars
    PROVE  gone \subseteq gone'
<1>1. ASSUME NEW r \in Requests, Handles(r) PROVE gone \subseteq gone'
  BY <1>1
  DEF Handles, InviteChecks, AcceptChecks, DeclineChecks, DeleteLoads, SendChecks, LinkCheck,
      Refuses, Loads, InviteInserts, AcceptCommits, DeclineCommits, SendBlocked,
      SendCommits, DeleteOpen, DeleteFinal, InvokeInserts, Note, Commits
<1>2. ASSUME NEW c \in CallIds,
             \/ OwnerEnd(c) \/ \E a \in Agents : End(c, a)
             \/ MarkMissed(c) \/ EndIdle(c) \/ EndGone(c) \/ PurgeDue(c)
      PROVE gone \subseteq gone'
  BY <1>2 DEF OwnerEnd, End, EndIn, MarkMissed, EndIdle, EndGone,
     WorkerEnds, PurgeDue
<1>3. ASSUME Tags \/ TaggerCrash \/ UNCHANGED callVars PROVE gone \subseteq gone'
  BY <1>3 DEF Tags, TagDue, TagClaims, TagAnswered, TagFails, TaggerCrash, callVars
<1>4. ASSUME NEW a \in Agents, Pull(a) \/ Tombstone(a) PROVE gone \subseteq gone'
  BY <1>4 DEF Pull, Tombstone
<1> QED
  BY <1>1, <1>2, <1>3, <1>4 DEF CallsNext

----------------------------------------------------------------------------
(* What was said, and who was told *)

\* The parts of the properties that are about one call.
EndsOf(c) == {s \in DOMAIN entries[c] : entries[c][s].kind \in Final}

EndedOnce(c) ==
    /\ call[c].state \in Final <=> EndsOf(c) # {}
    /\ \A s \in EndsOf(c) : \A t \in DOMAIN entries[c] :
           /\ entries[c][s].kind = call[c].state
           /\ t > s => entries[c][t].kind = "invocation"

EndTold(c) ==
    \A s \in DOMAIN entries[c] :
        entries[c][s].kind \in Final =>
            \A a \in Live(c) \ {entries[c][s].from} :
                \/ <<c, s, a>> \in Delivered(c)
                \/ entries[c][s].kind = "missed" /\ a = call[c].callee
                \/ entries[c][s].kind = "declined" /\ call[c].purged

\* The entries before and after one is added.
LEMMA OneAdded ==
    ASSUME NEW c \in CallIds, NEW e \in Entries, NEW to, Adds(c, <<e>>, to)
    PROVE  LET n == Len(entries[c]) IN
           /\ n \in Nat
           /\ DOMAIN entries'[c] = DOMAIN entries[c] \cup {n + 1}
           /\ \A s \in DOMAIN entries[c] :
                  /\ entries'[c][s].kind = entries[c][s].kind
                  /\ entries'[c][s].from = entries[c][s].from
                  /\ s \in Nat /\ s <= n
           /\ entries'[c][n + 1].kind = e.kind
           /\ entries'[c][n + 1].from = e.from
           /\ \A a \in to : <<c, n + 1, a>> \in Delivered(c)'
           /\ StaysDelivered(c)
<1>1. DOMAIN <<e>> = {1} /\ <<e>>[1] = e
  BY NewEntries
<1> QED
  BY <1>1 DEF Adds, SameSaid

\* A call ends once, whatever a step does to it.
LEMMA EndedOnceStep ==
    ASSUME NEW c \in CallIds, EndedOnce(c), Moves(c)
    PROVE  EndedOnce(c)'
<1>1. CASE Rests(c)
  <2>1. /\ call'[c].state = call[c].state
        /\ DOMAIN entries'[c] = DOMAIN entries[c]
        /\ \A s \in DOMAIN entries[c] : entries'[c][s].kind = entries[c][s].kind
    BY <1>1 DEF Rests, SameRow, Keeps, SameSaid
  <2>2. EndsOf(c)' = EndsOf(c)
    BY <2>1 DEF EndsOf
  <2> QED
    BY <2>1, <2>2 DEF EndedOnce, EndsOf
<1>2. CASE Notes(c)
  <2>1. PICK e \in Entries : e.kind = "invocation" /\ Adds(c, <<e>>, {})
    BY <1>2 DEF Notes
  <2> DEFINE n == Len(entries[c])
  <2>2. /\ n \in Nat
        /\ DOMAIN entries'[c] = DOMAIN entries[c] \cup {n + 1}
        /\ \A s \in DOMAIN entries[c] :
               entries'[c][s].kind = entries[c][s].kind /\ s \in Nat /\ s <= n
        /\ entries'[c][n + 1].kind = "invocation"
    BY <2>1, OneAdded
  <2>3. call'[c].state = call[c].state
    BY <1>2 DEF Notes, SameRow
  <2> HIDE DEF n
  <2>4. EndsOf(c)' = EndsOf(c)
    BY <2>2 DEF EndsOf, Final
  <2> QED
    BY <2>2, <2>3, <2>4 DEF EndedOnce, EndsOf
<1>3. CASE Talks(c)
  <2>1. PICK new \in Seq(Entries), to \in SUBSET Names :
            Adds(c, new, to) /\ \A k \in DOMAIN new : new[k].kind \notin Final
    BY <1>3 DEF Talks
  <2>2. EndsOf(c) = {}
    BY <1>3 DEF Talks, EndedOnce
  <2> DEFINE n == Len(entries[c])
  <2>3. /\ DOMAIN entries'[c] = DOMAIN entries[c] \cup {n + k : k \in DOMAIN new}
        /\ \A s \in DOMAIN entries[c] : entries'[c][s].kind = entries[c][s].kind
        /\ \A k \in DOMAIN new : entries'[c][n + k].kind = new[k].kind
    BY <2>1 DEF Adds, SameSaid
  <2> HIDE DEF n
  <2>4. \A s \in DOMAIN entries'[c] : entries'[c][s].kind \notin Final
    BY <2>1, <2>2, <2>3 DEF EndsOf
  <2>5. EndsOf(c)' = {}
    BY <2>4 DEF EndsOf
  <2> QED
    BY <1>3, <2>5 DEF EndedOnce, Talks
<1>4. CASE Ends(c)
  <2>1. PICK e \in Entries, to \in SUBSET Names : Adds(c, <<e>>, to) /\ e.kind = call'[c].state
    BY <1>4 DEF Ends
  <2> DEFINE n == Len(entries[c])
  <2>2. /\ n \in Nat
        /\ DOMAIN entries'[c] = DOMAIN entries[c] \cup {n + 1}
        /\ \A s \in DOMAIN entries[c] :
               entries'[c][s].kind = entries[c][s].kind /\ s \in Nat /\ s <= n
        /\ entries'[c][n + 1].kind = e.kind
    BY <2>1, OneAdded
  <2>3. EndsOf(c) = {} /\ call'[c].state \in Final
    BY <1>4 DEF Ends, EndedOnce
  <2> HIDE DEF n
  <2>4. EndsOf(c)' = {n + 1}
    BY <2>1, <2>2, <2>3 DEF EndsOf
  <2>5. \A t \in DOMAIN entries'[c] : ~(t > n + 1)
    BY <2>2
  <2> QED
    BY <2>1, <2>2, <2>3, <2>4, <2>5 DEF EndedOnce
<1> QED
  BY <1>1, <1>2, <1>3, <1>4 DEF Moves

\* Whoever is left is told of the end, whatever a step does to a call.
LEMMA EndToldStep ==
    ASSUME NEW c \in CallIds, EndedOnce(c), EndTold(c), Moves(c), gone \subseteq gone'
    PROVE  EndTold(c)'
<1>1. ASSUME SameParties(c) PROVE Live(c)' \subseteq Live(c)
  BY <1>1 DEF SameParties, Live, Parties
<1>2. ASSUME SameRow(c), StaysDelivered(c), NEW s \in DOMAIN entries[c],
             entries[c][s].kind \in Final,
             NEW a \in Live(c)' \ {entries[c][s].from}
      PROVE  \/ <<c, s, a>> \in Delivered(c)'
             \/ entries[c][s].kind = "missed" /\ a = call'[c].callee
             \/ entries[c][s].kind = "declined" /\ call'[c].purged
  <2>1. \/ <<c, s, a>> \in Delivered(c)
        \/ entries[c][s].kind = "missed" /\ a = call[c].callee
        \/ entries[c][s].kind = "declined" /\ call[c].purged
    BY <1>1, <1>2 DEF EndTold, SameRow
  <2>2. <<c, s, a>> \in Delivered(c) =>
            \/ <<c, s, a>> \in Delivered(c)'
            \/ entries[c][s].kind = "declined" /\ call'[c].purged
    BY <1>2 DEF StaysDelivered, Final
  <2> QED
    BY <1>2, <2>1, <2>2 DEF SameRow, SameParties
<1>3. CASE Rests(c)
  <2>1. /\ DOMAIN entries'[c] = DOMAIN entries[c]
        /\ \A s \in DOMAIN entries[c] :
               /\ entries'[c][s].kind = entries[c][s].kind
               /\ entries'[c][s].from = entries[c][s].from
        /\ SameRow(c) /\ StaysDelivered(c)
    BY <1>3 DEF Rests, Keeps, SameSaid
  <2> QED
    BY <1>2, <2>1 DEF EndTold
<1>4. CASE Notes(c)
  <2>1. PICK e \in Entries : e.kind = "invocation" /\ Adds(c, <<e>>, {})
    BY <1>4 DEF Notes
  <2> DEFINE n == Len(entries[c])
  <2>2. /\ DOMAIN entries'[c] = DOMAIN entries[c] \cup {n + 1}
        /\ \A s \in DOMAIN entries[c] :
               /\ entries'[c][s].kind = entries[c][s].kind
               /\ entries'[c][s].from = entries[c][s].from
        /\ entries'[c][n + 1].kind = "invocation"
        /\ StaysDelivered(c)
    BY <2>1, OneAdded
  <2>3. SameRow(c)
    BY <1>4 DEF Notes
  <2> HIDE DEF n
  <2> QED
    BY <1>2, <2>2, <2>3 DEF EndTold, Final
<1>5. CASE Talks(c)
  <2>1. EndsOf(c)' = {}
    BY <1>5, EndedOnceStep DEF EndedOnce, Talks
  <2> QED
    BY <2>1 DEF EndsOf, EndTold, Final
<1>6. CASE Ends(c)
  <2>1. PICK e \in Entries, to \in SUBSET Names :
            /\ Adds(c, <<e>>, to)
            /\ \A a \in Live(c) \ {e.from} :
                   a \in to \/ (e.kind = "missed" /\ a = call[c].callee)
    BY <1>6 DEF Ends
  <2> DEFINE n == Len(entries[c])
  <2>2. /\ DOMAIN entries'[c] = DOMAIN entries[c] \cup {n + 1}
        /\ \A s \in DOMAIN entries[c] : entries'[c][s].kind = entries[c][s].kind
        /\ entries'[c][n + 1].kind = e.kind
        /\ entries'[c][n + 1].from = e.from
        /\ \A a \in to : <<c, n + 1, a>> \in Delivered(c)'
    BY <2>1, OneAdded
  <2>3. SameParties(c) /\ EndsOf(c) = {}
    BY <1>6 DEF Ends, EndedOnce
  <2> HIDE DEF n
  <2>4. \A s \in DOMAIN entries[c] : entries'[c][s].kind \notin Final
    BY <2>2, <2>3 DEF EndsOf
  <2>5. call'[c].callee = call[c].callee
    BY <2>3 DEF SameParties
  <2>6. ASSUME NEW a \in Live(c)' \ {e.from}
        PROVE  \/ <<c, n + 1, a>> \in Delivered(c)'
               \/ e.kind = "missed" /\ a = call'[c].callee
    BY <1>1, <2>1, <2>2, <2>3, <2>5, <2>6
  <2> QED
    BY <2>2, <2>4, <2>6 DEF EndTold
<1> QED
  BY <1>3, <1>4, <1>5, <1>6 DEF Moves

CallsInv ==
    /\ CallsTypes /\ Fresh
    /\ \A c \in CallIds : EndedOnce(c) /\ EndTold(c)

\* The invariant: the rows are typed, a call not placed counts nothing, and of
\* each call, however it is answered, ended and deleted, the end is one and told.
THEOREM CallsInvariant == CallsSpec => []CallsInv
<1>1. CallsInit => CallsInv
  <2> SUFFICES ASSUME CallsInit PROVE CallsInv
    OBVIOUS
  <2>1. CallsTypes
    <3>1. [state |-> "none", caller |-> Nobody, callee |-> Nobody,
           note |-> FALSE, count |-> 0, purged |-> FALSE] \in CallRows
      BY DEF CallRows, States, Names
    <3>2. [call |-> Nobody, status |-> "none", preview |-> FALSE] \in InvRows
      BY DEF InvRows
    <3>3. <<>> \in Seq(Entries) /\ Idle \in Views
      BY DEF Views
    <3> QED
      BY <3>1, <3>2, <3>3 DEF CallsInit, CallsTypes
  <2>2. \A c \in CallIds :
            call[c].state = "none" /\ call[c].count = 0 /\ DOMAIN entries[c] = {}
    BY DEF CallsInit
  <2>3. \A c \in CallIds : EndedOnce(c) /\ EndTold(c)
    BY <2>2 DEF EndedOnce, EndTold, EndsOf, Final
  <2> QED
    BY <2>1, <2>2, <2>3 DEF CallsInv, Fresh
<1>2. CallsInv /\ [CallsNext]_callVars => CallsInv'
  <2> SUFFICES ASSUME CallsInv, [CallsNext]_callVars PROVE CallsInv'
    OBVIOUS
  <2>1. CallsTypes /\ Fresh
    BY DEF CallsInv
  <2>2. CallsTypes' /\ Fresh'
    BY <2>1, EntriesStep, RowsStep, ViewsStep, InvStep DEF CallsTypes
  <2>3. \A c \in CallIds : Moves(c)
    BY <2>1, CallMoves
  <2>4. \A c \in CallIds : EndedOnce(c)' /\ EndTold(c)'
    BY <2>3, EndedOnceStep, EndToldStep, GoneStaysGone DEF CallsInv
  <2> QED
    BY <2>2, <2>4 DEF CallsInv
<1> QED
  BY <1>1, <1>2, PTL DEF CallsSpec

\* A final call is read-only (NothingSaidAfterTheEnd): whichever of its parties,
\* the owner, a worker or a deletion ends it, one entry says how, the row agrees
\* with it, and only notes of invocations come after it.
THEOREM TheEndIsFinal == CallsSpec => []NothingSaidAfterTheEnd
<1>1. CallsInv => NothingSaidAfterTheEnd
  BY DEF CallsInv, NothingSaidAfterTheEnd, EndedOnce, EndsOf
<1> QED
  BY <1>1, CallsInvariant, PTL

\* Whoever is left learns how a call ended (EndsAreTold): of a call missed or
\* ended also when its content is deleted, and parties of it are tombstoned,
\* before they pull; of one declined as long as its content is not deleted.
THEOREM TheEndIsTold == CallsSpec => []EndsAreTold
<1>1. CallsInv => EndsAreTold
  BY DEF CallsInv, EndsAreTold, EndTold, Delivered
<1> QED
  BY <1>1, CallsInvariant, PTL

----------------------------------------------------------------------------
(* What is counted and charged *)

\* The handlers that found a call below its limit and have not sent.
Sending(c) == {r \in Requests : request[r].op = "send" /\ request[r].call = c}

\* Every message is charged and counted.
Counted(c) ==
    /\ ChargedIn(c) = {c} \X SpokenAt(c)
    /\ call[c].count = Cardinality(SpokenAt(c))

\* Handlers that checked together pass the limit together.
Limited(c) ==
    /\ call[c].state = "none" => call[c].count = 0 /\ Sending(c) = {}
    /\ call[c].state = "ringing" => call[c].count <= 1 /\ Sending(c) = {}
    /\ Sending(c) # {} =>
           call[c].count + Cardinality(Sending(c)) < MaxMessages + Cardinality(Requests)
    /\ \/ call[c].count <= 2
       \/ call[c].count < MaxMessages + Cardinality(Requests)

\* A call has finitely many messages, so they can be counted.
LEMMA SpokenFinite ==
    ASSUME CallsTypes, NEW c \in CallIds
    PROVE  IsFiniteSet(SpokenAt(c))
<1>1. entries[c] \in Seq(Entries)
  BY DEF CallsTypes
<1>2. DOMAIN entries[c] = 1 .. Len(entries[c]) /\ Len(entries[c]) \in Nat
  BY <1>1, LenProperties
<1>3. IsFiniteSet(1 .. Len(entries[c]))
  BY <1>2, FS_Interval
<1>4. SpokenAt(c) \subseteq 1 .. Len(entries[c])
  BY <1>2 DEF SpokenAt
<1> QED
  BY <1>3, <1>4, FS_Subset

\* A message is counted and charged with the step that says it, and no other
\* step does either.
LEMMA CountedStep ==
    ASSUME CallsTypes, NEW c \in CallIds, Counted(c), Moves(c)
    PROVE  Counted(c)'
<1>1. CASE Rests(c)
  <2>1. SpokenAt(c)' = SpokenAt(c)
    BY <1>1 DEF Rests, Keeps, SameSaid, SpokenAt
  <2> QED
    BY <1>1, <2>1 DEF Counted, Rests, SameRow, Keeps
<1>2. ASSUME NEW e \in Entries, NEW to, Adds(c, <<e>>, to), e.kind # "message",
             call'[c].count = call[c].count
      PROVE  Counted(c)'
  <2> DEFINE n == Len(entries[c])
  <2>1. /\ DOMAIN entries'[c] = DOMAIN entries[c] \cup {n + 1}
        /\ \A s \in DOMAIN entries[c] : entries'[c][s].kind = entries[c][s].kind
        /\ entries'[c][n + 1].kind = e.kind
    BY <1>2, OneAdded
  <2>2. ChargedIn(c)' = ChargedIn(c)
    <3>1. {k \in DOMAIN <<e>> : <<e>>[k].kind = "message"} = {}
      BY <1>2, NewEntries
    <3> QED
      BY <1>2, <3>1 DEF Adds
  <2> HIDE DEF n
  <2>3. SpokenAt(c)' = SpokenAt(c)
    BY <1>2, <2>1 DEF SpokenAt
  <2> QED
    BY <1>2, <2>2, <2>3 DEF Counted
<1>3. CASE Notes(c)
  BY <1>2, <1>3 DEF Notes, SameRow
<1>4. CASE Ends(c)
  BY <1>2, <1>4 DEF Ends, Final
<1>5. CASE Talks(c)
  <2> DEFINE n == Len(entries[c])
  <2>1. PICK new \in Seq(Entries), to \in SUBSET Names :
            /\ Adds(c, new, to)
            /\ \/ /\ {k \in DOMAIN new : new[k].kind = "message"} = {}
                  /\ call'[c].count = call[c].count
               \/ /\ \E k \in DOMAIN new : {j \in DOMAIN new : new[j].kind = "message"} = {k}
                  /\ call'[c].count = call[c].count + 1
    BY <1>5 DEF Talks
  <2> DEFINE said == {k \in DOMAIN new : new[k].kind = "message"}
  <2>2. /\ n \in Nat
        /\ DOMAIN entries'[c] = DOMAIN entries[c] \cup {n + k : k \in DOMAIN new}
        /\ \A s \in DOMAIN entries[c] :
               entries'[c][s].kind = entries[c][s].kind /\ s \in Nat /\ s <= n
        /\ \A k \in DOMAIN new :
               entries'[c][n + k].kind = new[k].kind /\ k \in Nat /\ k > 0
        /\ ChargedIn(c)' = ChargedIn(c) \cup {<<c, n + k>> : k \in said}
    BY <2>1 DEF Adds, SameSaid
  <2> HIDE DEF n
  <2>3. SpokenAt(c)' = SpokenAt(c) \cup {n + k : k \in said}
    <3>1. ASSUME NEW s \in SpokenAt(c)' PROVE s \in SpokenAt(c) \cup {n + k : k \in said}
      <4>1. s \in DOMAIN entries'[c] /\ entries'[c][s].kind = "message"
        BY <3>1 DEF SpokenAt
      <4>2. CASE s \in DOMAIN entries[c]
        BY <2>2, <4>1, <4>2 DEF SpokenAt
      <4>3. CASE s \notin DOMAIN entries[c]
        <5>1. PICK k \in DOMAIN new : s = n + k
          BY <2>2, <4>1, <4>3
        <5>2. new[k].kind = "message"
          BY <2>2, <4>1, <5>1
        <5> QED
          BY <5>1, <5>2
      <4> QED
        BY <4>2, <4>3
    <3>2. ASSUME NEW s \in SpokenAt(c) PROVE s \in SpokenAt(c)'
      BY <2>2, <3>2 DEF SpokenAt
    <3>3. ASSUME NEW k \in said PROVE n + k \in SpokenAt(c)'
      BY <2>2, <3>3 DEF SpokenAt
    <3> HIDE DEF said
    <3> QED
      BY <3>1, <3>2, <3>3
  <2>4. \A k \in said : n + k \notin SpokenAt(c)
    <3>1. \A k \in said : n + k \notin DOMAIN entries[c]
      BY <2>2
    <3> QED
      BY <3>1 DEF SpokenAt
  <2>5. \/ said = {} /\ call'[c].count = call[c].count
        \/ /\ \E k \in DOMAIN new : said = {k}
           /\ call'[c].count = call[c].count + 1
    BY <2>1
  <2> HIDE DEF said
  <2>6. ChargedIn(c)' = {c} \X SpokenAt(c)'
    BY <2>2, <2>3 DEF Counted
  <2>7. call'[c].count = Cardinality(SpokenAt(c)')
    <3>1. CASE said = {} /\ call'[c].count = call[c].count
      <4>1. SpokenAt(c)' = SpokenAt(c)
        BY <2>3, <3>1
      <4> QED
        BY <3>1, <4>1 DEF Counted
    <3>2. CASE (\E k \in DOMAIN new : said = {k}) /\ call'[c].count = call[c].count + 1
      <4>1. PICK k \in DOMAIN new : said = {k}
        BY <3>2
      <4>2. SpokenAt(c)' = SpokenAt(c) \cup {n + k} /\ n + k \notin SpokenAt(c)
        BY <2>3, <2>4, <4>1
      <4>3. Cardinality(SpokenAt(c) \cup {n + k}) = Cardinality(SpokenAt(c)) + 1
        BY <4>2, SpokenFinite, FS_AddElement
      <4> QED
        BY <3>2, <4>2, <4>3 DEF Counted
    <3> QED
      BY <2>5, <3>1, <3>2
  <2> QED
    BY <2>6, <2>7 DEF Counted
<1> QED
  BY <1>1, <1>3, <1>4, <1>5 DEF Moves

\* What a step does to the handlers that are sending in a call: it leaves them
\* or has some give up, ...
Waits(c) ==
    /\ call'[c].count = call[c].count
    /\ Sending(c)' \subseteq Sending(c)
    /\ call'[c].state \in {"none", "ringing"} => call'[c].state = call[c].state

\* ... it has one check the limit, ...
Enters(c) ==
    /\ call[c].count < MaxMessages
    /\ call'[c].count = call[c].count
    /\ Sending(c)' \subseteq Requests
    /\ call'[c].state \notin {"none", "ringing"}

\* ... it has one send, ...
Sends(c) ==
    /\ call'[c].count = call[c].count + 1
    /\ \E r \in Sending(c) : Sending(c)' = Sending(c) \ {r}
    /\ call'[c].state \notin {"none", "ringing"}

\* ... or it places or accepts the call, when nothing can be sent.
Opens(c) ==
    /\ Sending(c)' = {}
    /\ call'[c].state # "none"
    /\ call'[c].state = "ringing" => call'[c].count <= 1
    /\ call'[c].count <= 2

\* A step does one of these to each call.
LEMMA SendingMoves ==
    ASSUME CallsTypes, [CallsNext]_callVars, \A c \in CallIds : Limited(c)
    PROVE  \A c \in CallIds : Waits(c) \/ Enters(c) \/ Sends(c) \/ Opens(c)
<1> DEFINE Goal == \A c \in CallIds : Waits(c) \/ Enters(c) \/ Sends(c) \/ Opens(c)
<1>0. call \in [CallIds -> CallRows] /\ request \in [Requests -> Views]
  BY DEF CallsTypes
<1>1. ASSUME \A c \in CallIds :
                 /\ call'[c].count = call[c].count
                 /\ call'[c].state \in {"none", "ringing"} => call'[c].state = call[c].state,
             \A c \in CallIds : Sending(c)' \subseteq Sending(c)
      PROVE Goal
  BY <1>1 DEF Waits
\* A request that does not come to send in a call does not join it.
<1>2. ASSUME NEW r \in Requests, NEW v, request' = [request EXCEPT ![r] = v], v.op # "send"
      PROVE  \A c \in CallIds : Sending(c)' = Sending(c) \ {r}
  BY <1>0, <1>2 DEF Sending
<1>3. ASSUME UNCHANGED request PROVE \A c \in CallIds : Sending(c)' = Sending(c)
  BY <1>3 DEF Sending
<1>4. ASSUME NEW r \in Requests, request' = [request EXCEPT ![r] = Idle]
      PROVE  \A c \in CallIds : Sending(c)' = Sending(c) \ {r}
  <2>1. Idle.op # "send"
    BY DEF Idle
  <2> QED
    BY <1>2, <1>4, <2>1
<1>5. ASSUME NEW r \in Requests, NEW c \in CallIds, InviteInserts(r, c) PROVE Goal
  <2>1. PICK opening \in BOOLEAN :
            call' = [call EXCEPT ![c] = [state |-> "ringing", caller |-> request[r].from,
                        callee |-> request[r].to, note |-> TRUE,
                        count |-> IF opening THEN 1 ELSE 0, purged |-> FALSE]]
    BY <1>5 DEF InviteInserts
  <2>2. /\ call'[c].state = "ringing" /\ call'[c].count <= 1 /\ call'[c].count <= 2
        /\ \A d \in CallIds \ {c} : call'[d] = call[d]
    BY <1>0, <2>1
  <2>3. \A d \in CallIds : Sending(d)' \subseteq Sending(d)
    BY <1>4, <1>5 DEF InviteInserts, Commits
  <2>4. Sending(c) = {}
    BY <1>5 DEF InviteInserts, Limited
  <2> QED
    BY <2>2, <2>3, <2>4 DEF Opens, Waits
<1>6. ASSUME NEW r \in Requests, AcceptCommits(r) PROVE Goal
  <2>1. PICK c \in CallIds : c = request[r].call
    BY <1>0, <1>6 DEF AcceptCommits, Views, Idle
  <2>2. PICK reply \in BOOLEAN :
            call' = [call EXCEPT ![c].state = "active",
                                 ![c].count = @ + IF reply THEN 1 ELSE 0]
    BY <1>6, <2>1 DEF AcceptCommits
  <2>3. call[c].count <= 1 /\ call[c].count \in Nat /\ Sending(c) = {}
    BY <1>6, <2>1, RowTypes DEF AcceptCommits, Limited
  <2>4. call'[c].state = "active" /\ call'[c].count <= 2
    <3> DEFINE f == [call[c] EXCEPT !.state = "active"]
    <3>1. f \in CallRows /\ f.state = "active" /\ f.count = call[c].count
      BY <1>0 DEF CallRows, States
    <3>2. call'[c] = [f EXCEPT !.count = @ + IF reply THEN 1 ELSE 0]
      BY <1>0, <2>2
    <3> HIDE DEF f
    <3> QED
      BY <2>3, <3>1, <3>2 DEF CallRows
  <2>5. \A d \in CallIds \ {c} : call'[d] = call[d]
    BY <1>0, <2>2
  <2>6. \A d \in CallIds : Sending(d)' \subseteq Sending(d)
    BY <1>4, <1>6 DEF AcceptCommits, Commits
  <2> QED
    BY <2>3, <2>4, <2>5, <2>6 DEF Opens, Waits
<1>7. ASSUME NEW r \in Requests, NEW c \in CallIds, NEW a \in Agents, SendChecks(r, c, a)
      PROVE Goal
  <2>1. /\ call' = call /\ call[c].count < MaxMessages
        /\ call[c].state \notin {"none", "ringing"}
    BY <1>7 DEF SendChecks, Loads
  <2>2. \A d \in CallIds \ {c} : Sending(d)' = Sending(d)
    <3>1. request' = [request EXCEPT ![r] = [op |-> "send", call |-> c, from |-> a]]
          /\ request[r] = Idle
      BY <1>7 DEF SendChecks, Loads
    <3> QED
      BY <1>0, <3>1 DEF Sending, Idle
  <2>3. Sending(c)' \subseteq Requests
    BY DEF Sending
  <2> QED
    BY <2>1, <2>2, <2>3 DEF Enters, Waits
<1>8. ASSUME NEW r \in Requests, SendCommits(r) PROVE Goal
  <2>1. PICK c \in CallIds : c = request[r].call
    BY <1>0, <1>8 DEF SendCommits, Views, Idle
  <2>2. /\ call' = [call EXCEPT ![c].count = @ + 1]
        /\ call[c].state = "active" /\ r \in Sending(c)
    BY <1>8, <2>1 DEF SendCommits, StillActive, Sending
  <2>3. /\ call'[c].count = call[c].count + 1 /\ call'[c].state = "active"
        /\ \A d \in CallIds \ {c} : call'[d] = call[d]
    BY <1>0, <2>2 DEF CallRows
  <2>4. \A d \in CallIds : Sending(d)' = Sending(d) \ {r}
    BY <1>4, <1>8 DEF SendCommits, Commits
  <2> QED
    BY <2>2, <2>3, <2>4 DEF Sends, Waits
<1>9. ASSUME NEW c \in CallIds, NEW state \in States \ {"none", "ringing"},
             call' = [call EXCEPT ![c].state = state], UNCHANGED request
      PROVE Goal
  <2>1. call'[c].state = state /\ call'[c].count = call[c].count
        /\ \A d \in CallIds \ {c} : call'[d] = call[d]
    BY <1>0, <1>9 DEF CallRows
  <2> QED
    BY <1>1, <1>3, <1>9, <2>1
<1>10. ASSUME NEW r \in Requests, DeclineCommits(r) PROVE Goal
  <2>0. PICK c \in CallIds : c = request[r].call
    BY <1>0, <1>10 DEF DeclineCommits, Views, Idle
  <2>1. PICK reason \in BOOLEAN :
            call' = [call EXCEPT ![c].state = "declined", ![c].note = @ \/ reason]
    BY <1>10, <2>0 DEF DeclineCommits
  <2>2. call'[c].state = "declined" /\ call'[c].count = call[c].count
    <3> DEFINE f == [call[c] EXCEPT !.state = "declined"]
    <3>1. f \in CallRows /\ f.state = "declined" /\ f.count = call[c].count
      BY <1>0 DEF CallRows, States
    <3>2. call'[c] = [f EXCEPT !.note = @ \/ reason]
      BY <1>0, <2>1
    <3> HIDE DEF f
    <3> QED
      BY <3>1, <3>2 DEF CallRows
  <2>3. \A d \in CallIds \ {c} : call'[d] = call[d]
    BY <1>0, <2>1
  <2>4. \A d \in CallIds : Sending(d)' \subseteq Sending(d)
    BY <1>4, <1>10 DEF DeclineCommits, Commits
  <2> QED
    BY <1>1, <2>2, <2>3, <2>4
<1>11. ASSUME NEW c \in CallIds
       PROVE  /\ PurgedRow(call[c]) \in CallRows
              /\ PurgedRow(call[c]).state = call[c].state
              /\ PurgedRow(call[c]).count = call[c].count
  <2> DEFINE f == [call[c] EXCEPT !.note = FALSE]
  <2>1. f \in CallRows /\ f.state = call[c].state /\ f.count = call[c].count
    BY <1>0 DEF CallRows
  <2>2. PurgedRow(call[c]) = [f EXCEPT !.purged = TRUE]
    BY DEF PurgedRow
  <2> HIDE DEF f
  <2> QED
    BY <2>1, <2>2 DEF CallRows
<1>12. ASSUME NEW c \in CallIds, Purges(c), \A d \in CallIds : Sending(d)' \subseteq Sending(d)
       PROVE Goal
  <2>1. call' = [call EXCEPT ![c] = PurgedRow(call[c])]
    BY <1>12 DEF Purges
  <2>2. \A d \in CallIds : call'[d].state = call[d].state /\ call'[d].count = call[d].count
    BY <1>0, <1>11, <2>1
  <2> QED
    BY <1>1, <1>12, <2>2
<1>13. ASSUME NEW r \in Requests, DeleteOpen(r) PROVE Goal
  <2>1. PICK c \in CallIds : c = request[r].call
    BY <1>0, <1>13 DEF DeleteOpen, Views, Idle
  <2>2. call' = [call EXCEPT ![c] = [PurgedRow(call[c]) EXCEPT !.state = "ended"]]
    BY <1>13, <2>1 DEF DeleteOpen
  <2>3. /\ call'[c].state = "ended" /\ call'[c].count = call[c].count
        /\ \A d \in CallIds \ {c} : call'[d] = call[d]
    <3> DEFINE f == PurgedRow(call[c])
    <3>1. f \in CallRows /\ f.count = call[c].count
      BY <1>11
    <3>2. call'[c] = [f EXCEPT !.state = "ended"]
      BY <1>0, <2>2
    <3> HIDE DEF f
    <3>3. \A d \in CallIds \ {c} : call'[d] = call[d]
      BY <1>0, <2>2
    <3> QED
      BY <3>1, <3>2, <3>3 DEF CallRows
  <2>4. \A d \in CallIds : Sending(d)' \subseteq Sending(d)
    BY <1>4, <1>13 DEF DeleteOpen, Commits
  <2> QED
    BY <1>1, <2>3, <2>4
<1>14. ASSUME NEW r \in Requests, DeleteFinal(r) PROVE Goal
  <2>1. request[r].call \in CallIds
    BY <1>0, <1>14 DEF DeleteFinal, Views, Idle
  <2>2. \A d \in CallIds : Sending(d)' \subseteq Sending(d)
    BY <1>4, <1>14 DEF DeleteFinal, Commits
  <2> QED
    BY <1>12, <1>14, <2>1, <2>2 DEF DeleteFinal
<1>15. ASSUME NEW c \in CallIds, PurgeDue(c) PROVE Goal
  BY <1>3, <1>12, <1>15 DEF PurgeDue
<1>16. ASSUME NEW c \in CallIds,
              \/ OwnerEnd(c) \/ \E a \in Agents : End(c, a)
              \/ MarkMissed(c) \/ EndIdle(c) \/ EndGone(c)
       PROVE Goal
  <2>1. PICK state \in {"ended", "missed"} :
            call' = [call EXCEPT ![c].state = state] /\ UNCHANGED request
    BY <1>16 DEF OwnerEnd, End, EndIn, MarkMissed, EndIdle, EndGone, WorkerEnds
  <2> QED
    BY <1>9, <2>1 DEF States
<1>17. ASSUME NEW r \in Requests, NEW v, request' = [request EXCEPT ![r] = v],
              v.op # "send", UNCHANGED call
       PROVE Goal
  BY <1>1, <1>2, <1>17
<1>18. ASSUME NEW r \in Requests,
              \/ \E a, b \in Agents : InviteChecks(r, a, b)
              \/ \E c \in CallIds :
                     \/ AcceptChecks(r, c) \/ DeclineChecks(r, c) \/ DeleteLoads(r, c)
                     \/ \E a \in Agents : LinkCheck(r, c, a)
       PROVE Goal
  <2> HIDE DEF Goal
  <2>1. PICK v : Loads(r, v) /\ v.op # "send"
    <3>1. CASE \E a, b \in Agents : InviteChecks(r, a, b)
      BY <3>1 DEF InviteChecks
    <3>2. CASE \E c \in CallIds : AcceptChecks(r, c) \/ DeclineChecks(r, c)
      BY <3>2 DEF AcceptChecks, DeclineChecks
    <3>3. CASE \E c \in CallIds : DeleteLoads(r, c)
      BY <3>3 DEF DeleteLoads
    <3>4. CASE \E c \in CallIds : \E a \in Agents : LinkCheck(r, c, a)
      BY <3>4 DEF LinkCheck
    <3> QED
      BY <1>18, <3>1, <3>2, <3>3, <3>4
  <2> QED
    BY <1>17, <2>1 DEF Loads
<1>19. ASSUME NEW r \in Requests, SendBlocked(r) \/ Note(r) \/ Refuses(r) PROVE Goal
  <2>1. request' = [request EXCEPT ![r] = Idle] /\ UNCHANGED call
    BY <1>19 DEF SendBlocked, Note, Refuses, Commits
  <2>2. Idle.op # "send"
    BY DEF Idle
  <2> HIDE DEF Goal
  <2> QED
    BY <1>17, <2>1, <2>2
<1>20. ASSUME NEW r \in Requests, NEW i \in Invs, InvokeInserts(r, i) PROVE Goal
  <2> DEFINE v == [request[r] EXCEPT !.op = "note"]
  <2>1. request' = [request EXCEPT ![r] = v] /\ UNCHANGED call
    BY <1>20 DEF InvokeInserts
  <2>2. v.op # "send"
    <3>1. request[r] \in [op : {"send", "invoke", "note"}, call : CallIds, from : Agents]
      BY <1>0, <1>20 DEF InvokeInserts, Views, Idle
    <3> QED
      BY <3>1
  <2> HIDE DEF v
  <2> QED
    BY <1>17, <2>1, <2>2
<1>21. ASSUME UNCHANGED <<call, request>> PROVE Goal
  BY <1>1, <1>3, <1>21
<1>22. ASSUME \/ TagDue \/ (\E c \in CallIds : TagClaims(c)) \/ TagAnswered \/ TagFails
              \/ TaggerCrash \/ UNCHANGED callVars
       PROVE Goal
  BY <1>21, <1>22 DEF TagDue, TagClaims, TagAnswered, TagFails, TaggerCrash, callVars
<1>23. ASSUME NEW a \in Agents, Pull(a) \/ Tombstone(a) PROVE Goal
  BY <1>21, <1>23 DEF Pull, Tombstone
<1>24. Goal
  <2> HIDE DEF Goal
  <2> QED
    BY <1>5, <1>6, <1>7, <1>8, <1>10, <1>13, <1>14, <1>15, <1>16, <1>18, <1>19, <1>20,
       <1>22, <1>23
    DEF CallsNext, Handles, Tags
<1> QED
  BY <1>24

\* The limit is passed by no more handlers than there are.
LEMMA LimitedStep ==
    ASSUME CallsTypes, CallsTypes', NEW c \in CallIds, Limited(c),
           Waits(c) \/ Enters(c) \/ Sends(c) \/ Opens(c)
    PROVE  Limited(c)'
<1>0. /\ call[c].count \in Nat /\ call'[c].count \in Nat
      /\ MaxMessages \in Nat /\ IsFiniteSet(Requests)
      /\ Sending(c) \subseteq Requests /\ Sending(c)' \subseteq Requests
  BY RowTypes, CallsAssumption DEF CallsTypes, CallRows, Sending
<1> DEFINE Many == Cardinality(Requests)
           Before == Cardinality(Sending(c))
           After == Cardinality(Sending(c)')
<1>1. /\ IsFiniteSet(Sending(c)) /\ IsFiniteSet(Sending(c)')
      /\ Many \in Nat /\ Before \in Nat /\ After \in Nat /\ After <= Many
  BY <1>0, FS_Subset, FS_CardinalityType
<1>2. CASE Waits(c)
  <2>1. After <= Before
    BY <1>1, <1>2, FS_Subset DEF Waits
  <2>2. Sending(c)' # {} => Sending(c) # {}
    BY <1>2 DEF Waits
  <2> HIDE DEF Many, Before, After
  <2>3. /\ call'[c].count = call[c].count
        /\ Sending(c) = {} => Sending(c)' = {}
        /\ call'[c].state \in {"none", "ringing"} => call'[c].state = call[c].state
    BY <1>2 DEF Waits
  <2>4. Sending(c)' # {} => call'[c].count + After < MaxMessages + Many
    BY <1>0, <1>1, <2>1, <2>2, <2>3 DEF Limited, Before, Many
  <2> QED
    BY <2>3, <2>4 DEF Limited, After, Many
<1>3. CASE Enters(c)
  <2> HIDE DEF Before, After, Many
  <2>1. call'[c].count + After < MaxMessages + Many /\ call'[c].count < MaxMessages + Many
    BY <1>0, <1>1, <1>3 DEF Enters
  <2> QED
    BY <1>3, <2>1 DEF Limited, Enters, After, Many
<1>4. CASE Sends(c)
  <2>1. PICK r \in Sending(c) : Sending(c)' = Sending(c) \ {r}
    BY <1>4 DEF Sends
  <2>2. After = Before - 1
    BY <1>1, <2>1, FS_RemoveElement
  <2>3. call[c].count + Before < MaxMessages + Many
    BY <2>1 DEF Limited
  <2> HIDE DEF Before, After, Many
  <2>4. call'[c].count + After < MaxMessages + Many /\ call'[c].count < MaxMessages + Many
    BY <1>0, <1>1, <1>4, <2>2, <2>3 DEF Sends
  <2> QED
    BY <1>4, <2>4 DEF Limited, Sends, After, Many
<1>5. CASE Opens(c)
  BY <1>5 DEF Opens, Limited
<1> QED
  BY <1>2, <1>3, <1>4, <1>5

\* CallsInv with the counts.
CountsHold == \A c \in CallIds : Counted(c) /\ Limited(c)
CountsInv == CallsInv /\ CountsHold

\* The invariant for the counts: what the handlers that are sending may still
\* add is below the limit and the handlers together.
THEOREM CountsInvariant == CallsSpec => []CountsInv
<1>1. CallsInit => CountsHold
  <2> SUFFICES ASSUME CallsInit, NEW c \in CallIds PROVE Counted(c) /\ Limited(c)
    BY DEF CountsHold
  <2>1. /\ call[c].state = "none" /\ call[c].count = 0
        /\ SpokenAt(c) = {} /\ ChargedIn(c) = {} /\ Sending(c) = {}
    BY DEF CallsInit, SpokenAt, ChargedIn, Sending, Idle
  <2> QED
    BY <2>1, FS_EmptySet DEF Counted, Limited
<1>2. CountsInv /\ CallsInv' /\ [CallsNext]_callVars => CountsHold'
  <2> SUFFICES ASSUME CountsInv, CallsInv', [CallsNext]_callVars PROVE CountsHold'
    OBVIOUS
  <2>1. CallsTypes /\ CallsTypes' /\ Fresh /\ \A c \in CallIds : Counted(c) /\ Limited(c)
    BY DEF CountsInv, CallsInv, CountsHold
  <2>2. \A c \in CallIds : Counted(c)'
    BY <2>1, CallMoves, CountedStep
  <2>3. \A c \in CallIds : Limited(c)'
    BY <2>1, SendingMoves, LimitedStep
  <2> QED
    BY <2>2, <2>3 DEF CountsHold
<1> QED
  BY <1>1, <1>2, CallsInvariant, PTL DEF CallsSpec, CountsInv

\* Every message is charged and counted once, and a call passes its limit by no
\* more than the handlers that checked it together (CountedAndCharged), for any
\* limit and any number of handlers.
THEOREM MessagesAreCharged == CallsSpec => []CountedAndCharged
<1>1. CountsInv => CountedAndCharged
  BY DEF CountsInv, CountsHold, CountedAndCharged, Counted, Limited, ChargedIn
<1> QED
  BY <1>1, CountsInvariant, PTL

----------------------------------------------------------------------------
(* What a purge leaves, and what can come back *)

\* A call is purged when it is over, a handler that saw it over still does,
\* and what is to be delivered is in the transcript.
PurgedIsOver == \A c \in CallIds : call[c].purged => call[c].state \in Final
SeenOver ==
    \A r \in Requests :
        request[r].op = "delete" /\ ~request[r].open => call[request[r].call].state \in Final
UnreadKnown == \A d \in unread : d[1] \in CallIds /\ d[2] \in DOMAIN entries[d[1]]

TaggerTypes ==
    tagger \in [due : SUBSET CallIds, claimed : SUBSET (CallIds \X Nat), crashes : Nat]

\* What of a call's content a step stores was stored, was claimed by the tagger,
\* or is of an invocation checked before.
ComesBack(c) ==
    /\ \A s \in DOMAIN entries'[c] :
           /\ entries'[c][s].text => s \in DOMAIN entries[c] /\ entries[c][s].text
           /\ entries'[c][s].tags =>
                  s \in DOMAIN entries[c] /\ (entries[c][s].tags \/ Claimed(c, s))
    /\ \A i \in Invs : inv'[i].call = c /\ inv'[i].preview =>
           \/ inv[i].call = c /\ inv[i].preview
           \/ \E r \in Requests : request[r].op = "invoke" /\ request[r].call = c
    /\ call'[c].note => call[c].note

\* A step leaves nothing of a call's content.
Empties(c) ==
    /\ call'[c].state \in Final /\ ~call'[c].note
    /\ \A s \in DOMAIN entries'[c] : ~entries'[c][s].text /\ ~entries'[c][s].tags
    /\ \A i \in Invs : inv'[i].call = c => ~inv'[i].preview /\ inv'[i].status # "open"
    /\ \A d \in unread' :
           d[1] = c => entries'[c][d[2]].kind \notin {"message", "declined"}

Forgets(c) ==
    /\ call[c].purged => ComesBack(c)
    /\ call'[c].purged /\ ~call[c].purged => Empties(c)

\* What tagging leaves of an entry.
LEMMA TagsChange ==
    ASSUME NEW e \in Entries
    PROVE  /\ Tried(e).text = e.text /\ Tried(e).tags = e.tags
           /\ [e EXCEPT !.tags = TRUE, !.tag = "done"].text = e.text
           /\ [e EXCEPT !.tag = "error"].text = e.text
           /\ [e EXCEPT !.tag = "error"].tags = e.tags
<1>1. Tried(e).text = e.text /\ Tried(e).tags = e.tags
  BY DEF Entries, Tried
<1>2. [e EXCEPT !.tag = "error"].text = e.text /\ [e EXCEPT !.tag = "error"].tags = e.tags
  BY DEF Entries
<1>3. [e EXCEPT !.tags = TRUE, !.tag = "done"].text = e.text
  <2> DEFINE f == [e EXCEPT !.tags = TRUE]
  <2>1. f \in Entries /\ f.text = e.text
    BY DEF Entries
  <2>2. [e EXCEPT !.tags = TRUE, !.tag = "done"] = [f EXCEPT !.tag = "done"]
    OBVIOUS
  <2> HIDE DEF f
  <2> QED
    BY <2>1, <2>2 DEF Entries
<1> QED
  BY <1>1, <1>2, <1>3

\* A purge closes the invocations of its call and no others.
LEMMA InvsPurged ==
    ASSUME CallsTypes, NEW c, CloseInvocations(c), NEW i \in Invs
    PROVE  /\ inv'[i].call = inv[i].call
           /\ inv[i].call = c => ~inv'[i].preview /\ inv'[i].status # "open"
           /\ inv[i].call # c => inv'[i] = inv[i]
<1>1. inv[i] \in InvRows
  BY DEF CallsTypes
<1>2. CASE inv[i].call = c
  <2> DEFINE f == [inv[i] EXCEPT !.status = IF @ = "open" THEN "closed" ELSE @]
  <2>1. f \in InvRows /\ f.call = inv[i].call /\ f.status # "open"
    BY <1>1 DEF InvRows
  <2>2. inv'[i] = [f EXCEPT !.preview = FALSE]
    BY <1>2 DEF CloseInvocations
  <2> HIDE DEF f
  <2>3. inv'[i].call = f.call /\ inv'[i].preview = FALSE /\ inv'[i].status = f.status
    BY <2>1, <2>2 DEF InvRows
  <2> QED
    BY <1>2, <2>1, <2>3
<1>3. CASE inv[i].call # c
  BY <1>3 DEF CloseInvocations
<1> QED
  BY <1>2, <1>3

\* A purge of a call that is over leaves nothing of it.
LEMMA PurgeForgets ==
    ASSUME CallsTypes, UnreadKnown, NEW c \in CallIds, Purges(c), call[c].state \in Final
    PROVE  \A d \in CallIds : Forgets(d)
<1>1. /\ call' = [call EXCEPT ![c] = PurgedRow(call[c])]
      /\ entries' = [entries EXCEPT ![c] = EmptiedAll(entries[c])]
      /\ unread' = {d \in unread : ~Dropped(c, d)}
      /\ CloseInvocations(c)
  BY DEF Purges
<1>2. call'[c] = PurgedRow(call[c]) /\ call[c] \in CallRows
      /\ \A d \in CallIds \ {c} : call'[d] = call[d] /\ entries'[d] = entries[d]
  BY <1>1 DEF CallsTypes
<1>3. entries'[c] = EmptiedAll(entries[c])
  BY <1>1 DEF CallsTypes
<1>4. \A s \in DOMAIN entries[c] : entries[c][s] \in Entries
  <2>1. entries[c] \in Seq(Entries)
    BY DEF CallsTypes
  <2> QED
    BY <2>1, LenProperties
<1>5. /\ DOMAIN entries'[c] = DOMAIN entries[c]
      /\ \A s \in DOMAIN entries[c] :
             /\ entries'[c][s].kind = entries[c][s].kind
             /\ entries'[c][s].text = FALSE /\ entries'[c][s].tags = FALSE
  <2>1. \A s \in DOMAIN entries[c] :
            /\ Emptied(entries[c][s]).kind = entries[c][s].kind
            /\ Emptied(entries[c][s]).text = FALSE /\ Emptied(entries[c][s]).tags = FALSE
    BY <1>4, EntriesChanged
  <2>2. entries'[c] = [s \in DOMAIN entries[c] |-> Emptied(entries[c][s])]
    BY <1>3 DEF EmptiedAll
  <2> QED
    BY <2>1, <2>2
<1>6. Empties(c)
  <2>1. call'[c].state \in Final /\ ~call'[c].note
    BY <1>2, RowPurged
  <2>2. \A i \in Invs : inv'[i].call = c => ~inv'[i].preview /\ inv'[i].status # "open"
    BY <1>1, InvsPurged
  <2>3. \A d \in unread' : d[1] = c => entries'[c][d[2]].kind \notin {"message", "declined"}
    BY <1>1, <1>5 DEF Dropped, UnreadKnown
  <2> QED
    BY <1>5, <2>1, <2>2, <2>3 DEF Empties
<1>7. ComesBack(c)
  BY <1>6 DEF Empties, ComesBack
<1>8. ASSUME NEW d \in CallIds \ {c} PROVE Forgets(d)
  <2>1. \A i \in Invs : inv'[i].call = d => inv'[i] = inv[i]
    BY <1>1, InvsPurged
  <2>2. ComesBack(d)
    BY <1>2, <2>1 DEF ComesBack
  <2> QED
    BY <1>2, <2>2 DEF Forgets
<1> QED
  BY <1>6, <1>7, <1>8 DEF Forgets

\* A step forgets a call it purges, and brings back nothing of one purged but
\* what was under way.
LEMMA StepForgets ==
    ASSUME CallsTypes, PurgedIsOver, SeenOver, UnreadKnown, [CallsNext]_callVars
    PROVE  \A c \in CallIds : Forgets(c)
<1> DEFINE Goal == \A c \in CallIds : Forgets(c)
<1>0. /\ call \in [CallIds -> CallRows] /\ request \in [Requests -> Views]
      /\ inv \in [Invs -> InvRows]
      /\ \A c \in CallIds : entries[c] \in Seq(Entries)
      /\ \A c \in CallIds : \A s \in DOMAIN entries[c] : entries[c][s] \in Entries
  <2>1. \A c \in CallIds : entries[c] \in Seq(Entries)
    BY DEF CallsTypes
  <2>2. \A c \in CallIds : \A s \in DOMAIN entries[c] : entries[c][s] \in Entries
    BY <2>1, LenProperties
  <2> QED
    BY <2>1, <2>2 DEF CallsTypes
<1>1. ASSUME UNCHANGED <<call, inv>>,
             \A c \in CallIds : \A s \in DOMAIN entries'[c] :
                 /\ entries'[c][s].text => s \in DOMAIN entries[c] /\ entries[c][s].text
                 /\ entries'[c][s].tags =>
                        s \in DOMAIN entries[c] /\ (entries[c][s].tags \/ Claimed(c, s))
      PROVE Goal
  BY <1>1 DEF Forgets, ComesBack
<1>2. ASSUME UNCHANGED <<call, entries, inv>> PROVE Goal
  BY <1>1, <1>2
<1>3. ASSUME NEW c \in CallIds, ~call[c].purged, ~call'[c].purged, UNCHANGED inv,
             \A d \in CallIds \ {c} : call'[d] = call[d] /\ entries'[d] = entries[d]
      PROVE Goal
  BY <1>3 DEF Forgets, ComesBack
<1>4. ASSUME NEW c \in CallIds, NEW new, NEW to, Append_(c, new, to)
      PROVE  \A d \in CallIds \ {c} : entries'[d] = entries[d]
  BY <1>4 DEF Append_, CallsTypes
<1>5. ASSUME NEW r \in Requests, NEW c \in CallIds, InviteInserts(r, c) PROVE Goal
  <2>1. PICK opening \in BOOLEAN :
            /\ call' = [call EXCEPT ![c] = [state |-> "ringing", caller |-> request[r].from,
                           callee |-> request[r].to, note |-> TRUE,
                           count |-> IF opening THEN 1 ELSE 0, purged |-> FALSE]]
            /\ Append_(c, <<Event("invite", request[r].from)>> \o
                              (IF opening THEN <<Message(request[r].from)>> ELSE <<>>),
                       {request[r].to})
    BY <1>5 DEF InviteInserts
  <2>2. \A d \in CallIds \ {c} : call'[d] = call[d] /\ entries'[d] = entries[d]
    BY <1>0, <1>4, <2>1
  <2>3. ~call'[c].purged
    BY <1>0, <2>1
  <2>4. ~call[c].purged /\ UNCHANGED inv
    BY <1>5 DEF InviteInserts, PurgedIsOver, Final
  <2> QED
    BY <1>3, <2>2, <2>3, <2>4
<1>6. ASSUME NEW r \in Requests, AcceptCommits(r) PROVE Goal
  <2>1. PICK c \in CallIds : c = request[r].call
    BY <1>0, <1>6 DEF AcceptCommits, Views, Idle
  <2>2. PICK reply \in BOOLEAN :
            /\ call' = [call EXCEPT ![c].state = "active",
                                    ![c].count = @ + IF reply THEN 1 ELSE 0]
            /\ Append_(c, <<Event("accepted", call[c].callee)>> \o
                              (IF reply THEN <<Message(call[c].callee)>> ELSE <<>>),
                       {call[c].caller})
    BY <1>6, <2>1 DEF AcceptCommits
  <2>3. \A d \in CallIds \ {c} : call'[d] = call[d] /\ entries'[d] = entries[d]
    BY <1>0, <1>4, <2>2
  <2>4. call'[c].purged = call[c].purged
    <3> DEFINE f == [call[c] EXCEPT !.state = "active"]
    <3>1. f \in CallRows /\ f.purged = call[c].purged
      BY <1>0 DEF CallRows, States
    <3>2. call'[c] = [f EXCEPT !.count = @ + IF reply THEN 1 ELSE 0]
      BY <1>0, <2>2
    <3> HIDE DEF f
    <3> QED
      BY <3>1, <3>2 DEF CallRows
  <2>5. ~call[c].purged /\ UNCHANGED inv
    BY <1>6, <2>1 DEF AcceptCommits, PurgedIsOver, Final
  <2> QED
    BY <1>3, <2>3, <2>4, <2>5
<1>7. ASSUME NEW r \in Requests, DeclineCommits(r) PROVE Goal
  <2>0. PICK c \in CallIds : c = request[r].call
    BY <1>0, <1>7 DEF DeclineCommits, Views, Idle
  <2>1. PICK reason \in BOOLEAN :
            /\ call' = [call EXCEPT ![c].state = "declined", ![c].note = @ \/ reason]
            /\ Append_(c, <<[Event("declined", call[c].callee) EXCEPT !.text = reason]>>,
                       {call[c].caller})
    BY <1>7, <2>0 DEF DeclineCommits
  <2>2. \A d \in CallIds \ {c} : call'[d] = call[d] /\ entries'[d] = entries[d]
    BY <1>0, <1>4, <2>1
  <2>3. call'[c].purged = call[c].purged
    <3> DEFINE f == [call[c] EXCEPT !.state = "declined"]
    <3>1. f \in CallRows /\ f.purged = call[c].purged
      BY <1>0 DEF CallRows, States
    <3>2. call'[c] = [f EXCEPT !.note = @ \/ reason]
      BY <1>0, <2>1
    <3> HIDE DEF f
    <3> QED
      BY <3>1, <3>2 DEF CallRows
  <2>4. ~call[c].purged /\ UNCHANGED inv
    BY <1>7, <2>0 DEF DeclineCommits, PurgedIsOver, Final
  <2> QED
    BY <1>3, <2>2, <2>3, <2>4
<1>8. ASSUME NEW r \in Requests, SendBlocked(r) PROVE Goal
  <2>1. PICK c \in CallIds : c = request[r].call
    BY <1>0, <1>8 DEF SendBlocked, Views, Idle
  <2>2. /\ call' = call /\ UNCHANGED inv
        /\ \A d \in CallIds \ {c} : entries'[d] = entries[d]
    BY <1>4, <1>8, <2>1 DEF SendBlocked
  <2>3. ~call[c].purged
    BY <1>8, <2>1 DEF SendBlocked, StillActive, PurgedIsOver, Final
  <2> QED
    BY <1>3, <2>2, <2>3
<1>9. ASSUME NEW r \in Requests, SendCommits(r) PROVE Goal
  <2>1. PICK c \in CallIds : c = request[r].call
    BY <1>0, <1>9 DEF SendCommits, Views, Idle
  <2>2. /\ call' = [call EXCEPT ![c].count = @ + 1] /\ UNCHANGED inv
        /\ \A d \in CallIds \ {c} : entries'[d] = entries[d]
    BY <1>4, <1>9, <2>1 DEF SendCommits
  <2>3. ~call[c].purged
    BY <1>9, <2>1 DEF SendCommits, StillActive, PurgedIsOver, Final
  <2>4. call'[c].purged = call[c].purged /\ \A d \in CallIds \ {c} : call'[d] = call[d]
    BY <1>0, <2>2 DEF CallRows
  <2> QED
    BY <1>3, <2>2, <2>3, <2>4
<1>10. ASSUME NEW c \in CallIds, call[c].state \notin Final, NEW state,
              call' = [call EXCEPT ![c].state = state],
              \A d \in CallIds \ {c} : entries'[d] = entries[d], UNCHANGED inv
       PROVE Goal
  <2>1. call'[c].purged = call[c].purged /\ \A d \in CallIds \ {c} : call'[d] = call[d]
    BY <1>0, <1>10 DEF CallRows
  <2>2. ~call[c].purged
    BY <1>10 DEF PurgedIsOver
  <2> QED
    BY <1>3, <1>10, <2>1, <2>2
<1>11. ASSUME NEW c \in CallIds, NEW from, NEW to, EndIn(c, from, to) PROVE Goal
  <2>1. \A d \in CallIds \ {c} : entries'[d] = entries[d]
    BY <1>4, <1>11 DEF EndIn
  <2> QED
    BY <1>10, <1>11, <2>1 DEF EndIn, Open, Final
<1>12. ASSUME NEW c \in CallIds, OwnerEnd(c) \/ \E a \in Agents : End(c, a) PROVE Goal
  BY <1>11, <1>12 DEF OwnerEnd, End
<1>13. ASSUME NEW c \in CallIds, MarkMissed(c) \/ EndIdle(c) \/ EndGone(c) PROVE Goal
  <2>1. PICK state, to : state \in States /\ WorkerEnds(c, state, to)
    BY <1>13 DEF MarkMissed, EndIdle, EndGone, States
  <2>2. \A d \in CallIds \ {c} : entries'[d] = entries[d]
    BY <1>4, <2>1 DEF WorkerEnds
  <2>3. call[c].state \notin Final
    BY <1>13 DEF MarkMissed, EndIdle, EndGone, Open, Final
  <2> QED
    BY <1>10, <2>1, <2>2, <2>3 DEF WorkerEnds
<1>14. ASSUME NEW r \in Requests, Note(r) PROVE Goal
  <2>1. PICK c \in CallIds, from \in Agents : c = request[r].call /\ from = request[r].from
    BY <1>0, <1>14 DEF Note, Views, Idle
  <2> DEFINE e == Event("invocation", from)
  <2>2. e \in Entries /\ e.text = FALSE /\ e.tags = FALSE
    BY EntriesMade DEF Kinds, Names
  <2>3. Append_(c, <<e>>, {}) /\ UNCHANGED <<call, inv>>
    BY <1>14, <2>1 DEF Note
  <2> HIDE DEF e
  <2>4. \A d \in CallIds \ {c} : entries'[d] = entries[d]
    BY <1>4, <2>3
  <2> DEFINE n == Len(entries[c])
  <2>5. entries'[c] = entries[c] \o <<e>>
    BY <2>3 DEF Append_, CallsTypes
  <2>6. DOMAIN <<e>> = {1} /\ <<e>>[1] = e /\ <<e>> \in Seq(Entries)
    BY <2>2, NewEntries
  <2>7. /\ DOMAIN entries'[c] = DOMAIN entries[c] \cup {n + k : k \in DOMAIN <<e>>}
        /\ \A s \in DOMAIN entries[c] : entries'[c][s] = entries[c][s]
        /\ \A k \in DOMAIN <<e>> : entries'[c][n + k] = <<e>>[k]
    BY <1>0, <2>5, <2>6, Appended
  <2> HIDE DEF n
  <2>8. \A s \in DOMAIN entries'[c] :
            \/ s \in DOMAIN entries[c] /\ entries'[c][s] = entries[c][s]
            \/ ~entries'[c][s].text /\ ~entries'[c][s].tags
    <3>1. DOMAIN entries'[c] = DOMAIN entries[c] \cup {n + 1} /\ entries'[c][n + 1] = e
      <4>1. {n + k : k \in DOMAIN <<e>>} = {n + 1} /\ 1 \in DOMAIN <<e>>
        BY <2>6
      <4>2. entries'[c][n + 1] = <<e>>[1]
        BY <2>7, <4>1
      <4> QED
        BY <2>6, <2>7, <4>1, <4>2
    <3>2. \A s \in DOMAIN entries[c] : entries'[c][s] = entries[c][s]
      BY <2>7
    <3>3. ~entries'[c][n + 1].text /\ ~entries'[c][n + 1].tags
      BY <2>2, <3>1
    <3> QED
      BY <3>1, <3>2, <3>3
  <2> QED
    BY <1>1, <2>3, <2>4, <2>8
<1>15. ASSUME NEW r \in Requests, DeleteFinal(r) PROVE Goal
  <2>1. request[r].call \in CallIds
    BY <1>0, <1>15 DEF DeleteFinal, Views, Idle
  <2>2. call[request[r].call].state \in Final
    BY <1>15 DEF DeleteFinal, SeenOver
  <2> QED
    BY <1>15, <2>1, <2>2, PurgeForgets DEF DeleteFinal
<1>16. ASSUME NEW c \in CallIds, PurgeDue(c) PROVE Goal
  BY <1>16, PurgeForgets DEF PurgeDue
<1>17. ASSUME NEW r \in Requests, DeleteOpen(r) PROVE Goal
  <2>1. PICK c \in CallIds : c = request[r].call
    BY <1>0, <1>17 DEF DeleteOpen, Views, Idle
  <2> DEFINE e == Event("ended", Nobody)
             es == Append(entries[c], e)
             n == Len(entries[c])
  <2>2. /\ call' = [call EXCEPT ![c] = [PurgedRow(call[c]) EXCEPT !.state = "ended"]]
        /\ entries' = [entries EXCEPT ![c] = EmptiedAll(es)]
        /\ unread' = {d \in unread : ~Dropped(c, d)} \cup {<<c, n + 1, a>> : a \in Live(c)}
        /\ CloseInvocations(c) /\ call[c].state \notin Final
    BY <1>17, <2>1 DEF DeleteOpen, Open, Final
  <2>3. e \in Entries /\ e.kind = "ended"
    BY EntriesMade DEF Kinds, Names
  <2> HIDE DEF e
  <2>4. /\ es \in Seq(Entries) /\ n \in Nat
        /\ DOMAIN es = DOMAIN entries[c] \cup {n + 1}
        /\ es[n + 1] = e
        /\ \A s \in DOMAIN entries[c] : es[s] = entries[c][s] /\ s # n + 1
    <3>1. DOMAIN entries[c] = 1 .. n /\ n \in Nat
      BY <1>0, LenProperties
    <3>2. /\ es \in Seq(Entries) /\ Len(es) = n + 1
          /\ \A i \in 1 .. n : es[i] = entries[c][i]
          /\ es[n + 1] = e
      BY <1>0, <2>3, AppendProperties
    <3>3. DOMAIN es = 1 .. n + 1
      BY <3>2, LenProperties
    <3> HIDE DEF n, es
    <3> QED
      BY <3>1, <3>2, <3>3
  <2>5. \A s \in DOMAIN es : es[s] \in Entries
    BY <2>4, LenProperties
  <2> HIDE DEF es, n
  <2>6. /\ DOMAIN entries'[c] = DOMAIN es
        /\ \A s \in DOMAIN es :
               /\ entries'[c][s].kind = es[s].kind
               /\ entries'[c][s].text = FALSE /\ entries'[c][s].tags = FALSE
    <3>1. entries'[c] = EmptiedAll(es)
      BY <2>2 DEF CallsTypes
    <3>2. \A s \in DOMAIN es :
              /\ Emptied(es[s]).kind = es[s].kind
              /\ Emptied(es[s]).text = FALSE /\ Emptied(es[s]).tags = FALSE
      BY <2>5, EntriesChanged
    <3>3. entries'[c] = [s \in DOMAIN es |-> Emptied(es[s])]
      BY <3>1 DEF EmptiedAll
    <3> QED
      BY <3>2, <3>3
  <2>7. call'[c].state = "ended" /\ ~call'[c].note
    <3> DEFINE f == PurgedRow(call[c])
    <3>1. f \in CallRows /\ f.note = FALSE
      BY <1>0, RowPurged
    <3>2. call'[c] = [f EXCEPT !.state = "ended"]
      BY <1>0, <2>2
    <3> HIDE DEF f
    <3> QED
      BY <3>1, <3>2 DEF CallRows
  <2>8. \A d \in unread' : d[1] = c => entries'[c][d[2]].kind \notin {"message", "declined"}
    <3> SUFFICES ASSUME NEW d \in unread', d[1] = c
                 PROVE  entries'[c][d[2]].kind \notin {"message", "declined"}
      OBVIOUS
    <3>1. CASE d \in unread /\ ~Dropped(c, d)
      <4>1. d[2] \in DOMAIN entries[c] /\ entries[c][d[2]].kind \notin {"message", "declined"}
        BY <3>1 DEF Dropped, UnreadKnown
      <4> QED
        BY <2>4, <2>6, <4>1
    <3>2. CASE d[2] = n + 1
      BY <2>3, <2>4, <2>6, <3>2
    <3> QED
      BY <2>2, <3>1, <3>2
  <2>9. Empties(c)
    <3>1. \A i \in Invs : inv'[i].call = c => ~inv'[i].preview /\ inv'[i].status # "open"
      BY <2>2, InvsPurged
    <3> QED
      BY <2>6, <2>7, <2>8, <3>1 DEF Empties, Final
  <2>10. ~call[c].purged
    BY <2>2 DEF PurgedIsOver
  <2>11. ASSUME NEW d \in CallIds \ {c} PROVE Forgets(d)
    <3>1. call'[d] = call[d] /\ entries'[d] = entries[d]
      BY <2>2 DEF CallsTypes
    <3>2. \A i \in Invs : inv'[i].call = d => inv'[i] = inv[i]
      BY <2>2, InvsPurged
    <3> QED
      BY <3>1, <3>2 DEF Forgets, ComesBack
  <2> QED
    BY <2>9, <2>10, <2>11 DEF Forgets
<1>18. ASSUME NEW r \in Requests, NEW i \in Invs, InvokeInserts(r, i) PROVE Goal
  <2>1. /\ UNCHANGED <<call, entries>> /\ request[r].op = "invoke"
        /\ inv' = [inv EXCEPT ![i] = [call |-> request[r].call, status |-> "open",
                                      preview |-> TRUE]]
    BY <1>18 DEF InvokeInserts, transcript
  <2>2. /\ \A j \in Invs \ {i} : inv'[j] = inv[j]
        /\ inv'[i].call = request[r].call
    BY <1>0, <2>1
  <2> QED
    BY <2>1, <2>2 DEF Forgets, ComesBack
<1>19. ASSUME NEW c \in CallIds, TagClaims(c) PROVE Goal
  <2>1. entries' = [entries EXCEPT ![c] = [s \in DOMAIN entries[c] |->
                       IF s \in PendingOf(c) THEN Tried(entries[c][s])
                       ELSE entries[c][s]]]
    BY <1>19 DEF TagClaims
  <2>2. entries'[c] = [s \in DOMAIN entries[c] |->
                       IF s \in PendingOf(c) THEN Tried(entries[c][s])
                       ELSE entries[c][s]]
        /\ \A d \in CallIds \ {c} : entries'[d] = entries[d]
    BY <2>1 DEF CallsTypes
  <2>3. \A s \in DOMAIN entries[c] :
            /\ entries'[c][s].text = entries[c][s].text
            /\ entries'[c][s].tags = entries[c][s].tags
    BY <1>0, <2>2, TagsChange
  <2> QED
    BY <1>1, <1>19, <2>2, <2>3 DEF TagClaims
<1>20. ASSUME TagAnswered PROVE Goal
  <2>1. \A c \in CallIds :
            entries'[c] = [s \in DOMAIN entries[c] |->
                IF Claimed(c, s) THEN [entries[c][s] EXCEPT !.tags = TRUE, !.tag = "done"]
                ELSE entries[c][s]]
    BY <1>20 DEF TagAnswered
  <2>2. \A c \in CallIds : \A s \in DOMAIN entries[c] :
            /\ entries'[c][s].text = entries[c][s].text
            /\ Claimed(c, s) \/ entries'[c][s] = entries[c][s]
    <3> SUFFICES ASSUME NEW c \in CallIds, NEW s \in DOMAIN entries[c]
                 PROVE  /\ entries'[c][s].text = entries[c][s].text
                        /\ Claimed(c, s) \/ entries'[c][s] = entries[c][s]
      OBVIOUS
    <3>1. \/ /\ Claimed(c, s)
             /\ entries'[c][s] = [entries[c][s] EXCEPT !.tags = TRUE, !.tag = "done"]
          \/ entries'[c][s] = entries[c][s]
      <4> DEFINE done(n) == [entries[c][n] EXCEPT !.tags = TRUE, !.tag = "done"]
      <4>1. entries'[c] = [n \in DOMAIN entries[c] |->
                               IF Claimed(c, n) THEN done(n) ELSE entries[c][n]]
        BY <2>1
      <4>2. (Claimed(c, s) /\ entries'[c][s] = done(s)) \/ entries'[c][s] = entries[c][s]
        <5> HIDE DEF done
        <5> QED
          BY <4>1
      <4> QED
        BY <4>2
    <3>2. [entries[c][s] EXCEPT !.tags = TRUE, !.tag = "done"].text = entries[c][s].text
      BY <1>0, TagsChange
    <3> QED
      BY <3>1, <3>2
  <2>3. \A c \in CallIds : DOMAIN entries'[c] = DOMAIN entries[c]
    BY <2>1
  <2> QED
    BY <1>1, <1>20, <2>2, <2>3 DEF TagAnswered
<1>21. ASSUME TagFails PROVE Goal
  <2>1. \A c \in CallIds :
            entries'[c] = [s \in DOMAIN entries[c] |->
                IF Claimed(c, s) /\ Spent(entries[c][s])
                THEN [entries[c][s] EXCEPT !.tag = "error"] ELSE entries[c][s]]
    BY <1>21 DEF TagFails
  <2>2. \A c \in CallIds : \A s \in DOMAIN entries[c] :
            \/ entries'[c][s] = [entries[c][s] EXCEPT !.tag = "error"]
            \/ entries'[c][s] = entries[c][s]
    <3> SUFFICES ASSUME NEW c \in CallIds, NEW s \in DOMAIN entries[c]
                 PROVE  \/ entries'[c][s] = [entries[c][s] EXCEPT !.tag = "error"]
                        \/ entries'[c][s] = entries[c][s]
      OBVIOUS
    <3> DEFINE failed(n) == [entries[c][n] EXCEPT !.tag = "error"]
    <3>1. entries'[c] = [n \in DOMAIN entries[c] |->
                             IF Claimed(c, n) /\ Spent(entries[c][n])
                             THEN failed(n) ELSE entries[c][n]]
      BY <2>1
    <3>2. entries'[c][s] = failed(s) \/ entries'[c][s] = entries[c][s]
      <4> HIDE DEF failed
      <4> QED
        BY <3>1
    <3> QED
      BY <3>2
  <2>3. \A c \in CallIds : \A s \in DOMAIN entries[c] :
            /\ entries'[c][s].text = entries[c][s].text
            /\ entries'[c][s].tags = entries[c][s].tags
    BY <1>0, <2>2, TagsChange
  <2>4. \A c \in CallIds : DOMAIN entries'[c] = DOMAIN entries[c]
    BY <2>1
  <2> QED
    BY <1>1, <1>21, <2>3, <2>4 DEF TagFails
<1>22. ASSUME NEW r \in Requests,
              \/ \E a, b \in Agents : InviteChecks(r, a, b)
              \/ \E c \in CallIds :
                     \/ AcceptChecks(r, c) \/ DeclineChecks(r, c) \/ DeleteLoads(r, c)
                     \/ \E a \in Agents : SendChecks(r, c, a) \/ LinkCheck(r, c, a)
              \/ Refuses(r)
       PROVE Goal
  BY <1>2, <1>22
  DEF InviteChecks, AcceptChecks, DeclineChecks, DeleteLoads, SendChecks, LinkCheck,
      Refuses, Loads, transcript
<1>23. ASSUME TagDue \/ TaggerCrash \/ UNCHANGED callVars PROVE Goal
  BY <1>2, <1>23 DEF TagDue, TaggerCrash, transcript, callVars
<1>24. ASSUME NEW a \in Agents, Pull(a) \/ Tombstone(a) PROVE Goal
  BY <1>2, <1>24 DEF Pull, Tombstone, transcript
<1>25. Goal
  <2> HIDE DEF Goal
  <2> QED
    BY <1>5, <1>6, <1>7, <1>8, <1>9, <1>12, <1>13, <1>14, <1>15, <1>16, <1>17, <1>18,
       <1>19, <1>20, <1>21, <1>22, <1>23, <1>24
    DEF CallsNext, Handles, Tags
<1> QED
  BY <1>25

\* A handler comes to delete a call by loading it, and the row isn't touched by
\* that.
LEMMA DeletesLoaded ==
    ASSUME CallsTypes, [CallsNext]_callVars, NEW q \in Requests
    PROVE  \/ request'[q] = request[q]
           \/ request'[q].op # "delete"
           \/ \E c \in CallIds :
                  /\ request'[q] = [op |-> "delete", call |-> c, open |-> Open(c)]
                  /\ call' = call /\ call[c].state # "none"
<1> DEFINE Goal == \/ request'[q] = request[q]
                   \/ request'[q].op # "delete"
                   \/ \E c \in CallIds :
                          /\ request'[q] = [op |-> "delete", call |-> c, open |-> Open(c)]
                          /\ call' = call /\ call[c].state # "none"
<1>0. request \in [Requests -> Views]
  BY DEF CallsTypes
<1>1. ASSUME NEW r \in Requests, NEW v, request' = [request EXCEPT ![r] = v], v.op # "delete"
      PROVE Goal
  BY <1>0, <1>1
<1>2. ASSUME UNCHANGED request PROVE Goal
  BY <1>2
<1>3. ASSUME NEW r \in Requests, NEW c \in CallIds, DeleteLoads(r, c) PROVE Goal
  BY <1>0, <1>3 DEF DeleteLoads, Loads
<1>4. ASSUME NEW r \in Requests, NEW i \in Invs, InvokeInserts(r, i) PROVE Goal
  <2>1. request[r] \in [op : {"send", "invoke", "note"}, call : CallIds, from : Agents]
    BY <1>0, <1>4 DEF InvokeInserts, Views, Idle
  <2>2. [request[r] EXCEPT !.op = "note"].op # "delete"
    BY <2>1
  <2>3. request' = [request EXCEPT ![r] = [request[r] EXCEPT !.op = "note"]]
    BY <1>4 DEF InvokeInserts
  <2> HIDE DEF Goal
  <2> QED
    BY <1>1, <2>2, <2>3
<1>5. ASSUME NEW r \in Requests,
             \/ \E c \in CallIds : InviteInserts(r, c)
             \/ AcceptCommits(r) \/ DeclineCommits(r) \/ SendBlocked(r) \/ SendCommits(r)
             \/ DeleteOpen(r) \/ DeleteFinal(r) \/ Note(r) \/ Refuses(r)
      PROVE Goal
  <2>1. request' = [request EXCEPT ![r] = Idle] /\ Idle.op # "delete"
    BY <1>5 DEF InviteInserts, AcceptCommits, DeclineCommits, SendBlocked, SendCommits,
       DeleteOpen, DeleteFinal, Note, Refuses, Commits, Idle
  <2> HIDE DEF Goal
  <2> QED
    BY <1>1, <2>1
<1>6. ASSUME NEW r \in Requests,
             \/ \E a, b \in Agents : InviteChecks(r, a, b)
             \/ \E c \in CallIds :
                    \/ AcceptChecks(r, c) \/ DeclineChecks(r, c)
                    \/ \E a \in Agents : SendChecks(r, c, a) \/ LinkCheck(r, c, a)
      PROVE Goal
  <2> HIDE DEF Goal
  <2>1. PICK v : Loads(r, v) /\ v.op # "delete"
    <3>1. CASE \E a, b \in Agents : InviteChecks(r, a, b)
      BY <3>1 DEF InviteChecks
    <3>2. CASE \E c \in CallIds : AcceptChecks(r, c) \/ DeclineChecks(r, c)
      BY <3>2 DEF AcceptChecks, DeclineChecks
    <3>3. CASE \E c \in CallIds : \E a \in Agents : SendChecks(r, c, a)
      BY <3>3 DEF SendChecks
    <3>4. CASE \E c \in CallIds : \E a \in Agents : LinkCheck(r, c, a)
      BY <3>4 DEF LinkCheck
    <3> QED
      BY <1>6, <3>1, <3>2, <3>3, <3>4
  <2> QED
    BY <1>1, <2>1 DEF Loads
<1>7. ASSUME NEW c \in CallIds,
             \/ OwnerEnd(c) \/ \E a \in Agents : End(c, a)
             \/ MarkMissed(c) \/ EndIdle(c) \/ EndGone(c) \/ PurgeDue(c)
      PROVE Goal
  BY <1>2, <1>7 DEF OwnerEnd, End, EndIn, MarkMissed, EndIdle, EndGone,
     WorkerEnds, PurgeDue
<1>8. ASSUME \/ TagDue \/ (\E c \in CallIds : TagClaims(c)) \/ TagAnswered \/ TagFails
             \/ TaggerCrash \/ UNCHANGED callVars
      PROVE Goal
  BY <1>2, <1>8 DEF TagDue, TagClaims, TagAnswered, TagFails, TaggerCrash, callVars
<1>9. ASSUME NEW a \in Agents, Pull(a) \/ Tombstone(a) PROVE Goal
  BY <1>2, <1>9 DEF Pull, Tombstone
<1>10. Goal
  <2> HIDE DEF Goal
  <2> QED
    BY <1>3, <1>4, <1>5, <1>6, <1>7, <1>8, <1>9 DEF CallsNext, Handles, Tags
<1> QED
  BY <1>10

\* What a step delivers is of an entry it appends.
LEMMA UnreadStep ==
    ASSUME CallsTypes, [CallsNext]_callVars
    PROVE  \A d \in unread' \ unread : d[1] \in CallIds /\ d[2] \in DOMAIN entries'[d[1]]
<1> DEFINE Goal == \A d \in unread' \ unread :
                       d[1] \in CallIds /\ d[2] \in DOMAIN entries'[d[1]]
<1>0. /\ request \in [Requests -> Views] /\ \A c \in CallIds : entries[c] \in Seq(Entries)
  BY DEF CallsTypes
<1>1. ASSUME unread' \subseteq unread PROVE Goal
  BY <1>1
<1>2. ASSUME NEW c \in CallIds, NEW new \in Seq(Entries), NEW to, Append_(c, new, to)
      PROVE Goal
  <2>1. entries'[c] = entries[c] \o new
    BY <1>2 DEF Append_, CallsTypes
  <2>2. DOMAIN entries'[c] = DOMAIN entries[c] \cup {Len(entries[c]) + k : k \in DOMAIN new}
    BY <1>0, <2>1, Appended
  <2>3. unread' = unread \cup
            UNION {{<<c, Len(entries[c]) + k, a>> : a \in to} : k \in DOMAIN new}
    BY <1>2 DEF Append_
  <2> QED
    BY <2>2, <2>3
<1>3. ASSUME NEW e \in Entries, NEW f \in Entries, NEW more \in BOOLEAN
      PROVE  <<e>> \o (IF more THEN <<f>> ELSE <<>>) \in Seq(Entries)
             /\ <<e>> \in Seq(Entries)
  BY NewEntries
<1>4. ASSUME NEW r \in Requests, NEW c \in CallIds, InviteInserts(r, c) PROVE Goal
  <2>1. request[r].from \in Names
    BY <1>0, <1>4 DEF InviteInserts, Views, Idle, Names
  <2>2. Event("invite", request[r].from) \in Entries /\ Message(request[r].from) \in Entries
    BY <2>1, EntriesMade DEF Kinds
  <2> HIDE DEF Goal
  <2> QED
    BY <1>2, <1>3, <1>4, <2>2 DEF InviteInserts
<1>5. ASSUME NEW r \in Requests, AcceptCommits(r) PROVE Goal
  <2>1. PICK c \in CallIds : c = request[r].call
    BY <1>0, <1>5 DEF AcceptCommits, Views, Idle
  <2>2. Event("accepted", call[c].callee) \in Entries /\ Message(call[c].callee) \in Entries
    BY EntriesMade, RowTypes DEF Kinds, Names
  <2> HIDE DEF Goal
  <2> QED
    BY <1>2, <1>3, <1>5, <2>1, <2>2 DEF AcceptCommits
<1>6. ASSUME NEW r \in Requests, DeclineCommits(r) PROVE Goal
  <2>0. PICK c \in CallIds : c = request[r].call
    BY <1>0, <1>6 DEF DeclineCommits, Views, Idle
  <2>1. Event("declined", call[c].callee) \in Entries
    BY EntriesMade, RowTypes DEF Kinds, Names
  <2>2. ASSUME NEW reason \in BOOLEAN
        PROVE  [Event("declined", call[c].callee) EXCEPT !.text = reason] \in Entries
    BY <2>1 DEF Entries
  <2> HIDE DEF Goal
  <2> QED
    BY <1>2, <1>3, <1>6, <2>0, <2>2 DEF DeclineCommits
<1>7. ASSUME NEW r \in Requests, SendBlocked(r) \/ SendCommits(r) \/ Note(r) PROVE Goal
  <2>1. PICK c \in CallIds, from \in Agents : c = request[r].call /\ from = request[r].from
    BY <1>0, <1>7 DEF SendBlocked, SendCommits, Note, Views, Idle
  <2>2. /\ Event("blocked", from) \in Entries /\ Message(from) \in Entries
        /\ Event("invocation", from) \in Entries
    BY EntriesMade DEF Kinds, Names
  <2> HIDE DEF Goal
  <2> QED
    BY <1>2, <1>3, <1>7, <2>1, <2>2 DEF SendBlocked, SendCommits, Note
<1>8. ASSUME NEW c \in CallIds, NEW from \in Names, NEW to, EndIn(c, from, to)
      PROVE Goal
  <2>1. Event("ended", from) \in Entries
    BY EntriesMade DEF Kinds
  <2> HIDE DEF Goal
  <2> QED
    BY <1>2, <1>3, <1>8, <2>1 DEF EndIn
<1>9. ASSUME NEW c \in CallIds, OwnerEnd(c) \/ \E a \in Agents : End(c, a) PROVE Goal
  <2> HIDE DEF Goal
  <2> QED
    BY <1>8, <1>9 DEF OwnerEnd, End, Names
<1>10. ASSUME NEW c \in CallIds, MarkMissed(c) \/ EndIdle(c) \/ EndGone(c) PROVE Goal
  <2>1. Event("missed", Nobody) \in Entries /\ Event("ended", Nobody) \in Entries
    BY EntriesMade DEF Kinds, Names
  <2> HIDE DEF Goal
  <2> QED
    BY <1>2, <1>3, <1>10, <2>1 DEF MarkMissed, EndIdle, EndGone, WorkerEnds
<1>11. ASSUME NEW r \in Requests, DeleteOpen(r) PROVE Goal
  <2>1. PICK c \in CallIds : c = request[r].call
    BY <1>0, <1>11 DEF DeleteOpen, Views, Idle
  <2> DEFINE es == Append(entries[c], Event("ended", Nobody))
             n == Len(entries[c])
  <2>2. /\ entries' = [entries EXCEPT ![c] = EmptiedAll(es)]
        /\ \A d \in unread' \ unread : \E a : d = <<c, n + 1, a>>
    BY <1>11, <2>1 DEF DeleteOpen
  <2>3. n \in Nat /\ n + 1 \in DOMAIN es
    <3>1. Event("ended", Nobody) \in Entries
      BY EntriesMade DEF Kinds, Names
    <3>2. n \in Nat /\ es \in Seq(Entries) /\ Len(es) = n + 1
      BY <1>0, <3>1, AppendProperties, LenProperties
    <3>3. DOMAIN es = 1 .. n + 1
      BY <3>2, LenProperties
    <3> HIDE DEF es, n
    <3> QED
      BY <3>2, <3>3
  <2> HIDE DEF es, n
  <2>4. DOMAIN entries'[c] = DOMAIN es
    BY <2>2 DEF CallsTypes, EmptiedAll
  <2> QED
    BY <2>2, <2>3, <2>4
<1>12. ASSUME NEW r \in Requests, DeleteFinal(r) PROVE Goal
  BY <1>1, <1>12 DEF DeleteFinal, Purges
<1>13. ASSUME NEW c \in CallIds, PurgeDue(c) PROVE Goal
  BY <1>1, <1>13 DEF PurgeDue, Purges
<1>14. ASSUME NEW r \in Requests,
              \/ \E a, b \in Agents : InviteChecks(r, a, b)
              \/ \E c \in CallIds :
                     \/ AcceptChecks(r, c) \/ DeclineChecks(r, c) \/ DeleteLoads(r, c)
                     \/ \E a \in Agents : SendChecks(r, c, a) \/ LinkCheck(r, c, a)
              \/ Refuses(r)
              \/ \E i \in Invs : InvokeInserts(r, i)
       PROVE Goal
  BY <1>1, <1>14
  DEF InviteChecks, AcceptChecks, DeclineChecks, DeleteLoads, SendChecks, LinkCheck,
      Refuses, Loads, InvokeInserts, transcript
<1>15. ASSUME \/ TagDue \/ (\E c \in CallIds : TagClaims(c)) \/ TagAnswered \/ TagFails
              \/ TaggerCrash \/ UNCHANGED callVars
       PROVE Goal
  BY <1>1, <1>15 DEF TagDue, TagClaims, TagAnswered, TagFails, TaggerCrash, callVars,
     transcript
<1>16. ASSUME NEW a \in Agents, Pull(a) \/ Tombstone(a) PROVE Goal
  BY <1>1, <1>16 DEF Pull, Tombstone, transcript
<1>17. Goal
  <2> HIDE DEF Goal
  <2> QED
    BY <1>4, <1>5, <1>6, <1>7, <1>9, <1>10, <1>11, <1>12, <1>13, <1>14, <1>15, <1>16
    DEF CallsNext, Handles, Tags
<1> QED
  BY <1>17

\* Of a purged call no more invocation is checked.
LEMMA NoMoreLinking ==
    ASSUME CallsTypes, PurgedIsOver, [CallsNext]_callVars,
           NEW c \in CallIds, call[c].purged
    PROVE  Linking(c)' \subseteq Linking(c)
<1> DEFINE Goal == Linking(c)' \subseteq Linking(c)
<1>0. request \in [Requests -> Views]
  BY DEF CallsTypes
<1>1. ASSUME NEW r \in Requests, NEW v, request' = [request EXCEPT ![r] = v],
             v.op # "invoke" \/ v.call # c
      PROVE Goal
  <2>1. \A q \in Requests \ {r} : request'[q] = request[q]
    BY <1>0, <1>1
  <2>2. request'[r] = v
    BY <1>0, <1>1
  <2> QED
    BY <1>1, <2>1, <2>2 DEF Linking
<1>2. ASSUME UNCHANGED request PROVE Goal
  BY <1>2 DEF Linking
<1>3. ASSUME NEW r \in Requests, NEW d \in CallIds, NEW a \in Agents, LinkCheck(r, d, a)
      PROVE Goal
  <2> DEFINE v == [op |-> "invoke", call |-> d, from |-> a]
  <2>1. request' = [request EXCEPT ![r] = v] /\ d # c
    BY <1>3 DEF LinkCheck, Loads, PurgedIsOver, Final
  <2>2. v.call # c
    BY <2>1
  <2> HIDE DEF v, Goal
  <2> QED
    BY <1>1, <2>1, <2>2
<1>4. ASSUME NEW r \in Requests, NEW i \in Invs, InvokeInserts(r, i) PROVE Goal
  <2>1. request[r] \in [op : {"send", "invoke", "note"}, call : CallIds, from : Agents]
    BY <1>0, <1>4 DEF InvokeInserts, Views, Idle
  <2>2. [request[r] EXCEPT !.op = "note"].op # "invoke"
    BY <2>1
  <2>3. request' = [request EXCEPT ![r] = [request[r] EXCEPT !.op = "note"]]
    BY <1>4 DEF InvokeInserts
  <2> HIDE DEF Goal
  <2> QED
    BY <1>1, <2>2, <2>3
<1>5. ASSUME NEW r \in Requests,
             \/ \E d \in CallIds : InviteInserts(r, d)
             \/ AcceptCommits(r) \/ DeclineCommits(r) \/ SendBlocked(r) \/ SendCommits(r)
             \/ DeleteOpen(r) \/ DeleteFinal(r) \/ Note(r) \/ Refuses(r)
      PROVE Goal
  <2>1. request' = [request EXCEPT ![r] = Idle] /\ Idle.op # "invoke"
    BY <1>5 DEF InviteInserts, AcceptCommits, DeclineCommits, SendBlocked, SendCommits,
       DeleteOpen, DeleteFinal, Note, Refuses, Commits, Idle
  <2> HIDE DEF Goal
  <2> QED
    BY <1>1, <2>1
<1>6. ASSUME NEW r \in Requests,
             \/ \E a, b \in Agents : InviteChecks(r, a, b)
             \/ \E d \in CallIds :
                    \/ AcceptChecks(r, d) \/ DeclineChecks(r, d) \/ DeleteLoads(r, d)
                    \/ \E a \in Agents : SendChecks(r, d, a)
      PROVE Goal
  <2> HIDE DEF Goal
  <2>1. PICK v : Loads(r, v) /\ v.op # "invoke"
    <3>1. CASE \E a, b \in Agents : InviteChecks(r, a, b)
      BY <3>1 DEF InviteChecks
    <3>2. CASE \E d \in CallIds : AcceptChecks(r, d) \/ DeclineChecks(r, d)
      BY <3>2 DEF AcceptChecks, DeclineChecks
    <3>3. CASE \E d \in CallIds : \E a \in Agents : SendChecks(r, d, a)
      BY <3>3 DEF SendChecks
    <3>4. CASE \E d \in CallIds : DeleteLoads(r, d)
      BY <3>4 DEF DeleteLoads
    <3> QED
      BY <1>6, <3>1, <3>2, <3>3, <3>4
  <2> QED
    BY <1>1, <2>1 DEF Loads
<1>7. ASSUME NEW d \in CallIds,
             \/ OwnerEnd(d) \/ \E a \in Agents : End(d, a)
             \/ MarkMissed(d) \/ EndIdle(d) \/ EndGone(d) \/ PurgeDue(d)
      PROVE Goal
  BY <1>2, <1>7 DEF OwnerEnd, End, EndIn, MarkMissed, EndIdle, EndGone,
     WorkerEnds, PurgeDue
<1>8. ASSUME \/ TagDue \/ (\E d \in CallIds : TagClaims(d)) \/ TagAnswered \/ TagFails
             \/ TaggerCrash \/ UNCHANGED callVars
      PROVE Goal
  BY <1>2, <1>8 DEF TagDue, TagClaims, TagAnswered, TagFails, TaggerCrash, callVars
<1>9. ASSUME NEW a \in Agents, Pull(a) \/ Tombstone(a) PROVE Goal
  BY <1>2, <1>9 DEF Pull, Tombstone
<1>10. Goal
  <2> HIDE DEF Goal
  <2> QED
    BY <1>3, <1>4, <1>5, <1>6, <1>7, <1>8, <1>9 DEF CallsNext, Handles, Tags
<1> QED
  BY <1>10

\* The tagger stays typed, and of a purged call no other tagging pass starts.
LEMMA TaggerStep ==
    ASSUME CallsTypes, TaggerTypes, [CallsNext]_callVars
    PROVE  /\ TaggerTypes'
           /\ \A c \in CallIds : call[c].purged /\ Tagging(c)' => Tagging(c)
<1> DEFINE Goal == /\ TaggerTypes'
                   /\ \A c \in CallIds : call[c].purged /\ Tagging(c)' => Tagging(c)
<1>1. ASSUME UNCHANGED tagger PROVE Goal
  BY <1>1 DEF Tagging, TaggerTypes
<1>2. ASSUME TagDue PROVE Goal
  <2> DEFINE due == {d \in CallIds : PendingOf(d) # {} /\ ~call[d].purged}
  <2>1. tagger' = [tagger EXCEPT !.due = due] /\ tagger.claimed = {}
    BY <1>2 DEF TagDue
  <2>2. due \in SUBSET CallIds /\ \A c \in CallIds : call[c].purged => c \notin due
    OBVIOUS
  <2> HIDE DEF due
  <2>3. TaggerTypes' /\ tagger'.due = due /\ tagger'.claimed = {}
    BY <2>1, <2>2 DEF TaggerTypes
  <2> QED
    BY <2>2, <2>3 DEF Tagging
<1>3. ASSUME NEW d \in CallIds, TagClaims(d) PROVE Goal
  <2> DEFINE f == [tagger EXCEPT !.due = @ \ {d}]
             mine == {d} \X PendingOf(d)
  <2>1. tagger' = [f EXCEPT !.claimed = mine] /\ d \in tagger.due
    BY <1>3 DEF TagClaims
  <2>2. mine \in SUBSET (CallIds \X Nat) /\ \A x \in mine : x[1] = d
    <3>1. entries[d] \in Seq(Entries)
      BY DEF CallsTypes
    <3>2. PendingOf(d) \subseteq Nat
      BY <3>1, LenProperties DEF PendingOf
    <3> QED
      BY <3>2
  <2> HIDE DEF mine
  <2>3. /\ f \in [due : SUBSET CallIds, claimed : SUBSET (CallIds \X Nat), crashes : Nat]
        /\ f.due = tagger.due \ {d}
    BY DEF TaggerTypes
  <2> HIDE DEF f
  <2>4. TaggerTypes' /\ tagger'.due = tagger.due \ {d} /\ tagger'.claimed = mine
    BY <2>1, <2>2, <2>3 DEF TaggerTypes
  <2> QED
    BY <2>1, <2>2, <2>4 DEF Tagging
<1>4. ASSUME TagAnswered \/ TagFails PROVE Goal
  <2>1. tagger' = [tagger EXCEPT !.claimed = {}]
    BY <1>4 DEF TagAnswered, TagFails
  <2>2. TaggerTypes' /\ tagger'.due = tagger.due /\ tagger'.claimed = {}
    BY <2>1 DEF TaggerTypes
  <2> QED
    BY <2>2 DEF Tagging
<1>5. ASSUME TaggerCrash PROVE Goal
  <2>1. tagger' = [due |-> {}, claimed |-> {}, crashes |-> tagger.crashes + 1]
    BY <1>5 DEF TaggerCrash
  <2> QED
    BY <2>1 DEF Tagging, TaggerTypes
<1>6. ASSUME NEW r \in Requests, Handles(r) PROVE Goal
  <2>1. UNCHANGED tagger
    BY <1>6
    DEF Handles, InviteChecks, AcceptChecks, DeclineChecks, DeleteLoads, SendChecks, LinkCheck,
        Refuses, Loads, InviteInserts, AcceptCommits, DeclineCommits, SendBlocked,
        SendCommits, DeleteOpen, DeleteFinal, InvokeInserts, Note, Commits
  <2> QED
    BY <1>1, <2>1
<1>7. ASSUME NEW c \in CallIds,
             \/ OwnerEnd(c) \/ \E a \in Agents : End(c, a)
             \/ MarkMissed(c) \/ EndIdle(c) \/ EndGone(c) \/ PurgeDue(c)
      PROVE Goal
  BY <1>1, <1>7 DEF OwnerEnd, End, EndIn, MarkMissed, EndIdle, EndGone,
     WorkerEnds, PurgeDue
<1>8. ASSUME (\E a \in Agents : Pull(a) \/ Tombstone(a)) \/ UNCHANGED callVars PROVE Goal
  BY <1>1, <1>8 DEF Pull, Tombstone, callVars
<1>9. Goal
  <2> HIDE DEF Goal
  <2> QED
    BY <1>2, <1>3, <1>4, <1>5, <1>6, <1>7, <1>8 DEF CallsNext, Tags
<1> QED
  BY <1>9

\* CallsInv with what a purge relies on.
PurgesInv == CallsInv /\ PurgedIsOver /\ SeenOver /\ UnreadKnown /\ TaggerTypes

\* The invariant behind the purge: only a call that is over is purged, and only
\* what is in a transcript is to be delivered.
THEOREM PurgesInvariant == CallsSpec => []PurgesInv
<1>1. CallsInit => PurgedIsOver /\ SeenOver /\ UnreadKnown /\ TaggerTypes
  BY DEF CallsInit, PurgedIsOver, SeenOver, UnreadKnown, TaggerTypes, Idle
<1>2. PurgesInv /\ CallsInv' /\ [CallsNext]_callVars
          => PurgedIsOver' /\ SeenOver' /\ UnreadKnown' /\ TaggerTypes'
  <2> SUFFICES ASSUME PurgesInv, CallsInv', [CallsNext]_callVars
               PROVE  PurgedIsOver' /\ SeenOver' /\ UnreadKnown' /\ TaggerTypes'
    OBVIOUS
  <2>1. /\ CallsTypes /\ CallsTypes' /\ Fresh /\ PurgedIsOver /\ SeenOver /\ UnreadKnown
        /\ request' \in [Requests -> Views]
    BY DEF PurgesInv, CallsInv, CallsTypes
  <2>2. \A c \in CallIds : Moves(c) /\ Forgets(c)
    BY <2>1, CallMoves, StepForgets
  <2>3. \A c \in CallIds :
            /\ call[c].state \in Final => call'[c].state \in Final
            /\ DOMAIN entries[c] \subseteq DOMAIN entries'[c]
    BY <2>2 DEF Moves, Rests, Notes, Talks, Ends, SameRow, Keeps, Adds
  <2>4. PurgedIsOver'
    BY <2>1, <2>2, <2>3 DEF PurgedIsOver, Forgets, Empties
  <2>5. SeenOver'
    <3> SUFFICES ASSUME NEW q \in Requests, request'[q].op = "delete", ~request'[q].open
                 PROVE  call'[request'[q].call].state \in Final
      BY DEF SeenOver
    <3>1. CASE request'[q] = request[q]
      <4>1. request[q].call \in CallIds
        <5>1. request[q] \in Views /\ request[q].op = "delete"
          BY <2>1, <3>1 DEF CallsTypes
        <5> QED
          BY <5>1 DEF Views, Idle
      <4> QED
        BY <2>1, <2>3, <3>1, <4>1 DEF SeenOver
    <3>2. CASE \E c \in CallIds :
                   /\ request'[q] = [op |-> "delete", call |-> c, open |-> Open(c)]
                   /\ call' = call /\ call[c].state # "none"
      <4>1. PICK c \in CallIds :
                /\ request'[q] = [op |-> "delete", call |-> c, open |-> Open(c)]
                /\ call' = call /\ call[c].state # "none"
        BY <3>2
      <4>2. ~Open(c) /\ call[c].state \in States
        BY <2>1, <4>1, RowTypes
      <4> QED
        BY <4>1, <4>2 DEF Open, States, Final
    <3> QED
      BY <2>1, <3>1, <3>2, DeletesLoaded
  <2>6. UnreadKnown'
    BY <2>1, <2>3, UnreadStep DEF UnreadKnown
  <2>7. TaggerTypes'
    BY <2>1, TaggerStep DEF PurgesInv
  <2> QED
    BY <2>4, <2>5, <2>6, <2>7
<1> QED
  BY <1>1, <1>2, CallsInvariant, PTL DEF CallsSpec, PurgesInv

\* What is stored of a call after its purge (OnlyLateWritesComeBack): the step that
\* purges a call leaves nothing of its content, its text, topic and reason never
\* come back, and tags and previews only from the tagging pass and the invocations
\* under way at the purge, which none follow, from any state the calls reach.
THEOREM OnlyLateWritesFollowAPurge == CallsSpec => OnlyLateWritesComeBack
<1> DEFINE Step ==
        \A c \in CallIds :
            /\ call'[c].purged /\ ~call[c].purged =>
                   /\ Content(c)' = {}
                   /\ ~\E i \in Invs : inv'[i].call = c /\ inv'[i].status = "open"
                   /\ ~\E d \in unread' :
                          d[1] = c /\ entries'[c][d[2]].kind \in {"message", "declined"}
            /\ call[c].purged =>
                   /\ Content(c)' \subseteq Content(c) \cup Outstanding(c)
                   /\ Linking(c)' \subseteq Linking(c)
                   /\ Tagging(c)' => Tagging(c)
<1>1. PurgesInv /\ [CallsNext]_callVars => Step
  <2> SUFFICES ASSUME PurgesInv, [CallsNext]_callVars PROVE Step
    OBVIOUS
  <2>1. \A c \in CallIds : Forgets(c)
    BY StepForgets DEF PurgesInv, CallsInv
  <2>2. ASSUME NEW c \in CallIds, Empties(c)
        PROVE  /\ Content(c)' = {}
               /\ ~\E i \in Invs : inv'[i].call = c /\ inv'[i].status = "open"
               /\ ~\E d \in unread' :
                      d[1] = c /\ entries'[c][d[2]].kind \in {"message", "declined"}
    BY <2>2 DEF Empties, Content
  <2>3. ASSUME NEW c \in CallIds, ComesBack(c)
        PROVE  Content(c)' \subseteq Content(c) \cup Outstanding(c)
    <3> SUFFICES ASSUME NEW x \in Content(c)'
                 PROVE  x \in Content(c) \cup Outstanding(c)
      OBVIOUS
    <3>1. CASE \E s \in DOMAIN entries'[c] : entries'[c][s].text /\ x = <<"text", s>>
      BY <2>3, <3>1 DEF ComesBack, Content
    <3>2. CASE \E s \in DOMAIN entries'[c] : entries'[c][s].tags /\ x = <<"tags", s>>
      BY <2>3, <3>2 DEF ComesBack, Content, Outstanding
    <3>3. CASE \E i \in Invs : inv'[i].call = c /\ inv'[i].preview /\ x = <<"preview", i>>
      BY <2>3, <3>3 DEF ComesBack, Content, Outstanding, Linking
    <3>4. CASE call'[c].note /\ x = <<"note", c>>
      BY <2>3, <3>4 DEF ComesBack, Content
    <3> QED
      BY <3>1, <3>2, <3>3, <3>4 DEF Content
  <2>4. CallsTypes /\ PurgedIsOver /\ TaggerTypes
    BY DEF PurgesInv, CallsInv
  <2>5. ASSUME NEW c \in CallIds, call[c].purged
        PROVE  Linking(c)' \subseteq Linking(c) /\ (Tagging(c)' => Tagging(c))
    BY <2>4, <2>5, NoMoreLinking, TaggerStep
  <2> QED
    BY <2>1, <2>2, <2>3, <2>5 DEF Forgets
<1> QED
  BY <1>1, PurgesInvariant, PTL DEF CallsSpec, OnlyLateWritesComeBack
=============================================================================
