------------------------------ MODULE MCParts ------------------------------
(***************************************************************************)
(* The safety of the components that share no state with each other:       *)
(* friendships, the auto-friendship policy, credentials, reviews, counted  *)
(* limits, the wake hub, wake URLs, slugs, heartbeats and the SDKs' serve  *)
(* loop.  One of them moves in each behaviour, chosen at the start, so that *)
(* the state spaces add up instead of multiplying.                         *)
(***************************************************************************)
EXTENDS Relationships, AutoFriendship, Access, Reviews, Limits,
        Wake, WakeUrls, Slugs, Heartbeats, ServeLoop, TLC

VARIABLE moves  \* the component that moves

PartsInit ==
    /\ moves \in {"friends", "policy", "access", "reviews", "limits",
                  "wake", "urls", "slugs", "heartbeats", "serve"}
    /\ Init
    /\ AutoInit /\ (moves = "policy" \/ ~enabled)
    /\ AccessInit /\ (moves = "access" \/ madeBy = [x \in Agents_ |-> Unmade])
    /\ ReviewsInit /\ (moves = "reviews" \/ asks = {})
    /\ LimitsInit
    /\ WakeInit
    /\ WakeUrlsInit
    /\ SlugsInit
    /\ HeartbeatsInit
    /\ ServeInit

peopleVars == <<vars, autoVars, accessVars, reviewVars, limitVars>>
agentVars == <<wakeVars, urlVars, slugVars, heartVars, serveVars>>

PartsNext ==
    /\ \/ moves = "friends" /\ Next /\ UNCHANGED <<autoVars, accessVars, reviewVars, limitVars, agentVars>>
       \/ moves = "policy" /\ AutoNext /\ UNCHANGED <<vars, accessVars, reviewVars, limitVars, agentVars>>
       \/ moves = "access" /\ AccessNext /\ UNCHANGED <<vars, autoVars, reviewVars, limitVars, agentVars>>
       \/ moves = "reviews" /\ ReviewsNext /\ UNCHANGED <<vars, autoVars, accessVars, limitVars, agentVars>>
       \/ moves = "limits" /\ LimitsNext /\ UNCHANGED <<vars, autoVars, accessVars, reviewVars, agentVars>>
       \/ moves = "wake" /\ WakeNext /\ UNCHANGED <<urlVars, slugVars, heartVars, serveVars, peopleVars>>
       \/ moves = "urls" /\ WakeUrlsNext /\ UNCHANGED <<wakeVars, slugVars, heartVars, serveVars, peopleVars>>
       \/ moves = "slugs" /\ SlugsNext /\ UNCHANGED <<wakeVars, urlVars, heartVars, serveVars, peopleVars>>
       \/ moves = "heartbeats" /\ HeartbeatsNext /\ UNCHANGED <<wakeVars, urlVars, slugVars, serveVars, peopleVars>>
       \/ moves = "serve" /\ ServeNext /\ UNCHANGED <<wakeVars, urlVars, slugVars, heartVars, peopleVars>>
    /\ UNCHANGED moves

PartsSpec == PartsInit /\ [][PartsNext]_<<moves, peopleVars, agentVars>>

\* Ids are interchangeable.  The components share their model values, which
\* keeps the group of permutations small.
PartsSymmetry == Permutations(Agents)

\* Bounds: the person pairs apps and devices or makes keys, not both.  There are
\* two keys at most, or one rotated twice; two requests at a time only while there
\* is one key and the one it is rotated into.
OneKindOfCredential ==
    (\A g \in Grants : pairing[g].state = "none") \/ (\A k \in Keys : keyState[k] = "none")

FewKeys ==
    LET used == {k \in Keys : keyState[k] # "none"}
        families == {rootOf[k] : k \in used}
    IN
    /\ Cardinality(used) <= 2 \/ Cardinality(families) = 1
    /\ Cardinality({r \in Asks : ask[r] # NotAsking}) > 1 =>
           Cardinality(used) <= 2 /\ Cardinality(families) <= 1

\* Two of the faults that the bus can meet happen, not all three.
FewFaults == faults["failures"] + faults["drops"] + faults["outages"] <= 2

\* The wake URL is set twice, or once with an error on the way, which takes the
\* place of a ping.  The second time it stays, and both processes know of it
\* while it is on.
FewSets ==
    /\ counts.sets + counts.errors <= 2 /\ counts.pings + counts.errors <= 2
    /\ counts.sets = 2 => wakeRow.present /\ (wakeRow.on => known = Relays)
=============================================================================
