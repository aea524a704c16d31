----------------------------- MODULE MCMessages -----------------------------
(***************************************************************************)
(* Calls and the screening of a message, which share no state: a handler   *)
(* of a call takes the verdict as it comes.  One of the two moves in each  *)
(* behaviour, chosen at the start.                                         *)
(***************************************************************************)
EXTENDS MCCalls, Screening

VARIABLE moves  \* the component that moves

\* Bound: whether a contact that is not judged by itself is hidden is all the
\* same to decide.
MessagesInit ==
    /\ moves \in {"calls", "screening"}
    /\ CallsInit
    /\ ScreeningInit /\ screened.hidden \cap UnjudgedContacts = {}
    /\ moves = "calls" => screened.encoded = {}

MessagesNext ==
    /\ \/ moves = "calls" /\ CallsNext /\ UNCHANGED screenVars
       \/ moves = "screening" /\ ScreeningNext /\ UNCHANGED callVars
    /\ UNCHANGED moves

MessagesSpec == MessagesInit /\ [][MessagesNext]_<<moves, callVars, screenVars>>
=============================================================================
