------------------------------ MODULE Switches ------------------------------
(***************************************************************************)
(* The switches: what each relay instance keeps in memory of who is out of *)
(* credits, over the books of Credits.  The invocation path reads only     *)
(* them.  A refresh reads the wallets in one step and swaps the snapshot   *)
(* in at a later one; a refresh that takes more than a tick is dropped,    *)
(* and a snapshot not replaced for StaleAfter ticks blocks nobody.         *)
(*                                                                         *)
(* Time passes in ticks of the sweep interval.                             *)
(***************************************************************************)
EXTENDS Credits

CONSTANT StaleAfter  \* stale_after in ticks: 3 in the code

ASSUME SwitchesAssumption == StaleAfter \in Nat

VARIABLES
    blocked,  \* the accounts each instance's snapshot blocks
    age,      \* ticks since it was swapped in; Old when never or long ago
    reading,  \* the refresh each instance has under way, [found, age]
    outAge    \* history: ticks since each account was last out of credits

switchVars == <<blocked, age, reading, outAge>>

NoReading == [found |-> {}, age |-> -1]
Old == StaleAfter + 2

\* The clock of a snapshot, as far as anything depends on it.
Older(n) == IF n < Old THEN n + 1 ELSE Old

\* Fault: a wallet not granted yet counts as one with nothing left.
OutUngranted(a) ==
    /\ a \in DOMAIN wallets
    /\ ~wallets[a].unlimited /\ wallets[a].balance < Cost

\* refresh: limited, granted wallets that can't pay for one more invocation.
Out(a) ==
    /\ a \in DOMAIN wallets
    /\ ~wallets[a].unlimited /\ wallets[a].granted # 0
    /\ wallets[a].balance < Cost

\* is_fresh.
IsFresh(n) == n <= StaleAfter

Blocks(i, a) == IsFresh(age[i]) /\ a \in blocked[i]

\* The gate of the invocation path.
Admits(i, a) == ~Blocks(i, a)

SwitchesTypeOK ==
    /\ blocked \in [Instances -> SUBSET Accounts]
    /\ age \in [Instances -> 0 .. Old]
    /\ reading \in [Instances -> [found : SUBSET Accounts, age : -1 .. 1]]
    /\ outAge \in [Accounts -> 0 .. Old]

SwitchesInit ==
    /\ Init
    /\ blocked = [i \in Instances |-> {}]
    /\ age = [i \in Instances |-> Old]
    /\ reading = [i \in Instances |-> NoReading]
    /\ outAge = [a \in Accounts |-> Old]

\* A step of the books; a crash takes the instance's memory with it.
Keep == UNCHANGED <<blocked, age, reading>>
SeesOut == outAge' = [a \in Accounts |-> IF Out(a)' THEN 0 ELSE outAge[a]]

BooksStep ==
    /\ \/ Customers \/ NextMonth
       \/ \E i \in Instances : Accounting(i)
    /\ Keep /\ SeesOut

\* An invocation gets by an instance's gate.
Invoke(i, v, a) ==
    /\ Admits(i, a)
    /\ Accept(v, a)
    /\ Keep /\ SeesOut

Restart(i) ==
    /\ crashes < MaxCrashes
    /\ crashes' = crashes + 1
    /\ work' = [work EXCEPT ![i] = Idle]
    /\ blocked' = [blocked EXCEPT ![i] = {}]
    /\ age' = [age EXCEPT ![i] = Old]
    /\ reading' = [reading EXCEPT ![i] = NoReading]
    /\ UNCHANGED <<accounts, issued, books, checkouts, month, outAge>>

\* With credits off nobody is out.
ReadSwitches(i) ==
    /\ reading[i] = NoReading
    /\ reading' = [reading EXCEPT ![i] =
                      [found |-> {a \in Accounts : Billing(i) /\ Out(a)}, age |-> 0]]
    /\ UNCHANGED <<vars, blocked, age, outAge>>

ReplaceAll(i) ==
    /\ reading[i] # NoReading
    /\ blocked' = [blocked EXCEPT ![i] = reading[i].found]
    /\ age' = [age EXCEPT ![i] = 0]
    /\ reading' = [reading EXCEPT ![i] = NoReading]
    /\ UNCHANGED <<vars, outAge>>

\* The read fails, or the loop crashed and is restarted.
RefreshFails(i) ==
    /\ reading[i] # NoReading
    /\ reading' = [reading EXCEPT ![i] = NoReading]
    /\ UNCHANGED <<vars, blocked, age, outAge>>

\* Fault: a refresh is let run as long as it takes.
RunsOn(r) == IF r = NoReading \/ r.age = 1 THEN r ELSE [r EXCEPT !.age = @ + 1]

\* refresh_switches: timeout(sweep_interval, ..) drops a refresh that was
\* under way for a whole tick.
TimedOut(r) ==
    IF r = NoReading \/ r.age = 1 THEN NoReading ELSE [r EXCEPT !.age = @ + 1]

Tick ==
    /\ age' = [i \in Instances |-> Older(age[i])]
    /\ reading' = [i \in Instances |-> TimedOut(reading[i])]
    /\ outAge' = [a \in Accounts |-> IF Out(a) THEN 0 ELSE Older(outAge[a])]
    /\ UNCHANGED <<vars, blocked>>

SwitchesNext ==
    \/ BooksStep \/ Tick
    \/ \E i \in Instances :
           \/ ReadSwitches(i) \/ ReplaceAll(i) \/ RefreshFails(i) \/ Restart(i)
           \/ \E v \in Invocations, a \in Accounts : Invoke(i, v, a)

SwitchesSpec == SwitchesInit /\ [][SwitchesNext]_<<vars, switchVars>>

----------------------------------------------------------------------------
(* Properties *)

\* An instance refuses nobody who has not been out of credits within the
\* stale_after ticks a snapshot is good for and the one a refresh may take,
\* although refreshes fail, hang and overtake top-ups.
BlocksOnlyTheRecentlyOut ==
    \A i \in Instances, a \in Accounts : Blocks(i, a) => outAge[a] <= StaleAfter + 1

\* "A wallet the worker created moments ago must not be blocked before its
\* first grant lands", although the charge that creates it overdraws it.
GrantedBeforeBlocked ==
    \A i \in Instances, a \in DOMAIN wallets : Blocks(i, a) => wallets[a].granted # 0
=============================================================================
