----------------------------- MODULE Heartbeats -----------------------------
(***************************************************************************)
(* When an agent was last seen: polls recorded in a relay's memory, flushed *)
(* in batches to agent_heartbeats, and reloaded from there, so that every  *)
(* relay knows of polls that reached another.  Times are 1, 2, ...; every  *)
(* poll has its own.                                                       *)
(***************************************************************************)
EXTENDS Naturals, FiniteSets, FiniteSetsExt

CONSTANTS
    Copies_,    \* relay processes
    MaxPolls,   \* bound: polls, which are also the times
    MaxDown     \* bound: restarts of a relay

ASSUME HeartbeatsAssumption == MaxPolls \in Nat /\ MaxDown \in Nat

VARIABLES
    polls,      \* how many there have been
    unflushed,  \* Inner.unflushed: the time each relay has yet to flush, or 0
    flushing,   \* the batch each relay has taken out to write, or 0
    presence,   \* Inner.presence: when each relay last saw the agent, or 0
    loading,    \* what a reload has read from the table, or Unread
    heartbeat,  \* agent_heartbeats.last_polled_at, or 0
    down,       \* restarts
    seenBy      \* history: the last poll each relay took since it started

heartVars == <<polls, unflushed, flushing, presence, loading, heartbeat, down, seenBy>>

Unread == MaxPolls + 1
Zeros == [p \in Copies_ |-> 0]

HeartbeatsInit ==
    /\ polls = 0 /\ heartbeat = 0 /\ down = 0
    /\ unflushed = Zeros /\ flushing = Zeros /\ presence = Zeros /\ seenBy = Zeros
    /\ loading = [p \in Copies_ |-> Unread]

Later(s, t) == Max({s, t})

\* record: both maps at once, under the lock.
RecordsPoll(p) ==
    /\ polls < MaxPolls
    /\ polls' = polls + 1
    /\ unflushed' = [unflushed EXCEPT ![p] = polls + 1]
    /\ presence' = [presence EXCEPT ![p] = polls + 1]
    /\ seenBy' = [seenBy EXCEPT ![p] = polls + 1]
    /\ UNCHANGED <<flushing, loading, heartbeat, down>>

\* The flusher flushes, then reloads, one after the other: flush takes the
\* batch out of the map ...
Drains(p) ==
    /\ flushing[p] = 0 /\ loading[p] = Unread /\ unflushed[p] # 0
    /\ flushing' = [flushing EXCEPT ![p] = unflushed[p]]
    /\ unflushed' = [unflushed EXCEPT ![p] = 0]
    /\ UNCHANGED <<polls, presence, loading, heartbeat, down, seenBy>>

\* Fault: the time that is written last wins.
WrittenLast(p) == flushing[p]

\* GREATEST.
Greatest(p) == Later(heartbeat, flushing[p])

\* ... writes it ...
FlushWrites(p) ==
    /\ flushing[p] # 0
    /\ heartbeat' = Greatest(p)
    /\ flushing' = [flushing EXCEPT ![p] = 0]
    /\ UNCHANGED <<polls, unflushed, presence, loading, down, seenBy>>

\* restore: polls that came meanwhile stand.
Restored(p) == Later(unflushed[p], flushing[p])

\* ... or fails, whether or not the write took effect, and puts it back.
FlushFails(p) ==
    /\ flushing[p] # 0
    /\ heartbeat' \in {heartbeat, Greatest(p)}
    /\ unflushed' = [unflushed EXCEPT ![p] = Restored(p)]
    /\ flushing' = [flushing EXCEPT ![p] = 0]
    /\ UNCHANGED <<polls, presence, loading, down, seenBy>>

\* reload reads the table without the lock ...
ReloadReads(p) ==
    /\ flushing[p] = 0 /\ loading[p] = Unread
    /\ loading' = [loading EXCEPT ![p] = heartbeat]
    /\ UNCHANGED <<polls, unflushed, flushing, presence, heartbeat, down, seenBy>>

\* ... and merges what it read with what the relay saw itself meanwhile.
ReloadMerges(p) ==
    /\ loading[p] # Unread
    /\ presence' = [presence EXCEPT ![p] = Later(loading[p], presence[p])]
    /\ loading' = [loading EXCEPT ![p] = Unread]
    /\ UNCHANGED <<polls, unflushed, flushing, heartbeat, down, seenBy>>

\* A restart loses what was not flushed: seconds of polls.
RestartsRelay(p) ==
    /\ down < MaxDown
    /\ down' = down + 1
    /\ unflushed' = [unflushed EXCEPT ![p] = 0]
    /\ flushing' = [flushing EXCEPT ![p] = 0]
    /\ loading' = [loading EXCEPT ![p] = Unread]
    /\ presence' = [presence EXCEPT ![p] = 0]
    /\ seenBy' = [seenBy EXCEPT ![p] = 0]
    /\ UNCHANGED <<polls, heartbeat>>

HeartbeatsNext ==
    \E p \in Copies_ :
        \/ RecordsPoll(p) \/ Drains(p) \/ FlushWrites(p) \/ FlushFails(p)
        \/ ReloadReads(p) \/ ReloadMerges(p) \/ RestartsRelay(p)

HeartbeatsSpec == HeartbeatsInit /\ [][HeartbeatsNext]_heartVars

----------------------------------------------------------------------------
(* Properties *)

\* What a relay saw since it started is not lost between its flushes, reloads
\* and those of the other relays: its own memory is never behind it, and it is
\* in the table, in a batch or waiting for one.
PollsAreKept ==
    \A p \in Copies_ :
        /\ presence[p] >= seenBy[p]
        /\ Max({heartbeat, unflushed[p], flushing[p]}) >= seenBy[p]
=============================================================================
