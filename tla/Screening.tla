----------------------------- MODULE Screening -----------------------------
(***************************************************************************)
(* The screening of one message: its text is placed into queries to the    *)
(* judge (safety::plan), the queries run at once, each retried when the    *)
(* judge is busy and once at half size when it is refused                  *)
(* (ComplianceChecker::ask), and the answers decide whether the message is *)
(* blocked, and which contacts are taken out or flagged (decide).  How     *)
(* much text fits is left open: it depends on how the text is escaped.     *)
(***************************************************************************)
EXTENDS Naturals, Sequences, FiniteSets, SequencesExt

CONSTANTS
    ItemCount,    \* bound: the texts of the message, numbered as walk finds them
    TextLength,   \* bound: the pieces a text can be split into
    Contacts,     \* bound: how many contact candidates the message has
    MaxChunks,    \* the code's 4
    MaxJudged     \* the code's 16: candidates judged one by one

ASSUME ScreeningAssumption ==
    {ItemCount, TextLength, MaxChunks, MaxJudged} \subseteq Nat \ {0} /\ Contacts \in Nat

VARIABLES
    screened,   \* which texts hold an encoded span, and which contacts one hides
    stage,      \* placing, filling a chunk, asking, decided
    offset,     \* how much of each text is placed
    chunks,     \* Plan.chunks
    queries,    \* ask_chunk, for each chunk
    answered,   \* Answered
    decided     \* Decided

screenVars == <<screened, stage, offset, chunks, queries, answered, decided>>

TextItems == 1..ItemCount
Undecided == "undecided"

\* A probability is how many thresholds it reaches: for a harm the one that acts
\* in the message's language, for off_platform ACT, for a contact CORROBORATED
\* and ACT.  For the first two, none given is as good as one that reaches none.
NoAnswers == [harm |-> 0, off |-> 0, contact |-> <<>>]

\* scan: a contact found in what an encoded span decodes to is hidden.
ScreenedMessages ==
    {m \in [encoded : SUBSET TextItems, hidden : SUBSET (1..Contacts)] :
        m.hidden # {} => m.encoded # {}}

ScreeningInit ==
    /\ screened \in ScreenedMessages
    /\ stage = "placing"
    /\ offset = [i \in TextItems |-> 0]
    /\ chunks = <<>> /\ queries = <<>>
    /\ answered = [best |-> NoAnswers, failed |-> 0, first |-> FALSE, unjudged |-> {}]
    /\ decided = Undecided

Judged == {c \in 1..Contacts : c <= MaxJudged}
UnjudgedContacts == 1..Contacts \ Judged

----------------------------------------------------------------------------
(* plan *)

Queue == {i \in TextItems : offset[i] < TextLength}
NextItem == CHOOSE i \in Queue : \A j \in Queue : i <= j

OpensChunk ==
    /\ stage = "placing" /\ Queue # {} /\ Len(chunks) < MaxChunks
    /\ chunks' = Append(chunks, [fields |-> <<>>, decoded |-> {}])
    /\ stage' = "filling"
    /\ UNCHANGED <<screened, offset, queries, answered, decided>>

\* n pieces of the next text fit.  With its first piece goes what its encoded
\* spans decode to, if that fits too.  A text that was cut fills its chunk.
PlacesText(n, whole) ==
    LET i == NextItem IN
        /\ stage = "filling" /\ Queue # {} /\ n \in 1..(TextLength - offset[i])
        /\ whole => offset[i] = 0 /\ i \in screened.encoded
        /\ chunks' = [chunks EXCEPT ![Len(chunks)] =
                [fields |-> Append(@.fields, [item |-> i, from |-> offset[i] + 1, to |-> offset[i] + n]),
                 decoded |-> @.decoded \cup (IF whole THEN {i} ELSE {})]]
        /\ offset' = [offset EXCEPT ![i] = @ + n]
        /\ stage' = IF offset'[i] = TextLength THEN "filling" ELSE "placing"
        /\ UNCHANGED <<screened, queries, answered, decided>>

\* No room for another text.  A new chunk has some: what the parties write into
\* its context and candidates is capped.
ClosesChunk ==
    /\ stage = "filling" /\ Last(chunks).fields # <<>>
    /\ stage' = "placing"
    /\ UNCHANGED <<screened, offset, chunks, queries, answered, decided>>

Placed == UNION {chunks[c].decoded : c \in DOMAIN chunks}

\* Plan.unjudged: texts, or what they decode to, that did not fit.
PlanUnjudged == Queue \cup (screened.encoded \ Placed)

----------------------------------------------------------------------------
(* ask *)

AsksJudge ==
    /\ stage = "placing" /\ (Queue = {} \/ Len(chunks) = MaxChunks)
    /\ queries' = [c \in DOMAIN chunks |->
            [fields |-> chunks[c].fields, halved |-> FALSE, retried |-> FALSE,
             came |-> "nothing", reply |-> NoAnswers]]
    /\ stage' = "asking"
    /\ UNCHANGED <<screened, offset, chunks, answered, decided>>

ItemsOf(fields) == {fields[k].item : k \in DOMAIN fields}

\* halve: the first half of the fields, or of the only field's text.
Half(fields) ==
    LET f == fields[1]  cut == f.from - 1 + (f.to - f.from + 1) \div 2 IN
        IF Len(fields) > 1 THEN SubSeq(fields, 1, (Len(fields) + 1) \div 2) ELSE <<[f EXCEPT !.to = cut]>>

\* ... and the entries left over.
Leftover(fields) ==
    IF Len(fields) > 1
      THEN ItemsOf(SubSeq(fields, (Len(fields) + 1) \div 2 + 1, Len(fields)))
      ELSE ItemsOf(fields)

Pending(c) == stage = "asking" /\ queries[c].came = "nothing"

\* ChunkResult::Failed: nothing of the chunk was judged.
Fails(c) ==
    /\ queries' = [queries EXCEPT ![c].came = "failure"]
    /\ answered' = [answered EXCEPT !.failed = @ + 1, !.unjudged = @ \cup ItemsOf(chunks[c].fields)]

\* An outage, an unreadable response, or one without answers.
JudgeFails(c) ==
    /\ Pending(c) /\ Fails(c)
    /\ UNCHANGED <<screened, stage, offset, chunks, decided>>

\* A task that ends without a result is counted, and nothing is kept of what its
\* chunk held.
TaskIsLost(c) ==
    /\ Pending(c)
    /\ queries' = [queries EXCEPT ![c].came = "lost"]
    /\ answered' = [answered EXCEPT !.failed = @ + 1]
    /\ UNCHANGED <<screened, stage, offset, chunks, decided>>

\* 429 or 529: post tries once more.
JudgeIsBusy(c) ==
    /\ Pending(c)
    /\ IF queries[c].retried
         THEN Fails(c)
         ELSE queries' = [queries EXCEPT ![c].retried = TRUE] /\ UNCHANGED answered
    /\ UNCHANGED <<screened, stage, offset, chunks, decided>>

\* Another 4xx: ask_chunk tries once more, with half of the chunk.
JudgeRefuses(c) ==
    /\ Pending(c)
    /\ IF queries[c].halved
         THEN Fails(c)
         ELSE /\ queries' = [queries EXCEPT ![c].halved = TRUE, ![c].retried = FALSE,
                                              ![c].fields = Half(@)]
              /\ UNCHANGED answered
    /\ UNCHANGED <<screened, stage, offset, chunks, decided>>

\* What the judge can say of a chunk.  Contacts are asked about with the first;
\* a question without a number in the response is passed over.
Answers(c) ==
    [harm : 0..1, off : 0..1,
     contact : UNION {[asked -> 0..2] : asked \in SUBSET (IF c = 1 THEN Judged ELSE {})}]

Greater(m, n) == IF m >= n THEN m ELSE n

\* Fault: the answer that comes last wins.
Latest(best, a) ==
    [harm |-> a.harm, off |-> a.off, contact |-> IF a.contact = <<>> THEN best.contact ELSE a.contact]

\* The highest probability per question wins.
Merged(best, a) ==
    [harm |-> Greater(best.harm, a.harm), off |-> Greater(best.off, a.off),
     contact |-> IF a.contact = <<>> THEN best.contact ELSE a.contact]

JudgeAnswers(c, a) ==
    /\ Pending(c)
    /\ queries' = [queries EXCEPT ![c].came = "answers", ![c].reply = a]
    /\ answered' = [answered EXCEPT
            !.best = Merged(@, a), !.first = @ \/ c = 1,
            !.unjudged = @ \cup (IF queries[c].halved THEN Leftover(chunks[c].fields) ELSE {})]
    /\ UNCHANGED <<screened, stage, offset, chunks, decided>>

----------------------------------------------------------------------------
(* decide *)

AllFailed == Len(chunks) > 0 /\ answered.failed = Len(chunks)

\* Answers that redact a contact: its own, or with a message that moves off the
\* platform as a whole, a weaker one or a hidden contact.
Convinces(c) ==
    LET best == answered.best IN
        \/ best.contact[c] = 2
        \/ best.off = 1 /\ (c \in screened.hidden \/ best.contact[c] = 1)

\* Nothing is redacted without the judge.
Redacted ==
    IF AllFailed THEN {}
    ELSE {c \in Judged \cap DOMAIN answered.best.contact : Convinces(c)}
           \cup (IF answered.best.off = 1 THEN UnjudgedContacts ELSE {})

\* Flagged without an answer.
Flagged ==
    IF AllFailed THEN 1..Contacts
    ELSE (IF answered.first THEN {} ELSE Judged) \cup (UnjudgedContacts \ Redacted)

Blocked == ~AllFailed /\ answered.best.harm = 1

DecidesMessage ==
    /\ stage = "asking" /\ \A c \in DOMAIN queries : queries[c].came # "nothing"
    /\ decided' = [redacted |-> Redacted, flagged |-> Flagged, blocked |-> Blocked,
                   unjudged |-> PlanUnjudged \cup answered.unjudged]
    /\ stage' = "decided"
    /\ UNCHANGED <<screened, offset, chunks, queries, answered>>

ScreeningNext ==
    \/ OpensChunk \/ ClosesChunk \/ AsksJudge \/ DecidesMessage
    \/ \E n \in 1..TextLength, whole \in BOOLEAN : PlacesText(n, whole)
    \/ \E c \in DOMAIN queries :
           \/ JudgeFails(c) \/ TaskIsLost(c) \/ JudgeIsBusy(c) \/ JudgeRefuses(c)
           \/ \E a \in Answers(c) : JudgeAnswers(c, a)

ScreeningSpec == ScreeningInit /\ [][ScreeningNext]_screenVars

----------------------------------------------------------------------------
(* Properties *)

GotAnswers == {c \in DOMAIN queries : queries[c].came = "answers"}

\* The pieces of text that were in a request the judge answered.
Pieces(f) == {f.item} \X (f.from .. f.to)
ReadByJudge == UNION {UNION {Pieces(queries[c].fields[k]) : k \in DOMAIN queries[c].fields} : c \in GotAnswers}

\* The texts whose encoded spans were.
ReadDecoded == UNION {chunks[c].decoded : c \in GotAnswers}

\* The texts of a task that was lost: nobody is told of them.
LostTexts ==
    UNION {ItemsOf(chunks[c].fields) : c \in {d \in DOMAIN queries : queries[d].came = "lost"}}

\* Budget.rs says that "padding could switch screening off", and that it must not:
\* of a screened message, every piece of text and every encoded span was in a
\* request that was answered, or its text is reported as unjudged, but for what
\* a lost task held; and every contact was redacted, flagged, or asked about in a
\* request that was answered, though the answer may have passed it over.
NothingPassesUnseen ==
    stage = "decided" =>
        /\ \A i \in TextItems \ (decided.unjudged \cup LostTexts) :
               /\ {i} \X (1..TextLength) \subseteq ReadByJudge
               /\ i \in screened.encoded => i \in ReadDecoded
        /\ \A c \in 1..Contacts \ (decided.redacted \cup decided.flagged) :
               c \in Judged /\ 1 \in GotAnswers

SaysOffPlatform == \E c \in GotAnswers : queries[c].reply.off = 1

\* One request's finding is the message's, in whatever order the answers come and
\* whichever others fail: a harm that acts blocks it; a contact the judge answered
\* on is taken out when that answer acts, or when it is hidden or corroborated
\* and some request says that the message moves off the platform; and then those
\* not judged are taken out too.
AnyChunkDecides ==
    stage = "decided" =>
        /\ \A c \in GotAnswers : queries[c].reply.harm = 1 => decided.blocked
        /\ SaysOffPlatform => UnjudgedContacts \subseteq decided.redacted
        /\ 1 \in GotAnswers => \A x \in DOMAIN queries[1].reply.contact :
               \/ queries[1].reply.contact[x] = 2
               \/ SaysOffPlatform /\ (x \in screened.hidden \/ queries[1].reply.contact[x] = 1)
               => x \in decided.redacted

\* A screened message gets nothing past the screening that the judge was asked
\* and answered about: what was not asked or not answered is told of (but for the
\* two gaps above), and no finding is hidden by another request's answer or failure.
NothingSlipsThrough == NothingPassesUnseen /\ AnyChunkDecides
=============================================================================
