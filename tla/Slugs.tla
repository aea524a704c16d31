------------------------------- MODULE Slugs -------------------------------
(***************************************************************************)
(* The slugs of one account's agents: created, renamed, deleted, and the   *)
(* aliases that redirect a slug an agent had to the one it was given       *)
(* instead.  Aliases last as long as each other, so they expire in the     *)
(* order they were written.                                                *)
(***************************************************************************)
EXTENDS Naturals, Sequences, FiniteSets, SequencesExt

CONSTANTS
    Named,       \* agents
    Names,       \* slugs
    Patches,     \* bound: requests to rename, at most these under way at once
    NoName,
    MaxHops,     \* bound of the code: how far resolve_alias follows aliases
    MaxRenames   \* bound: renames, which are also the ages of aliases

ASSUME SlugsAssumption ==
    /\ NoName \notin Names /\ IsFiniteSet(Names)
    /\ MaxHops \in Nat \ {0} /\ MaxRenames \in Nat

VARIABLES
    slugOf,    \* agents.slug
    removed,   \* agents.tombstoned_at IS NOT NULL
    alias,     \* slug_aliases: where each old slug goes, and when that was written
    renaming,  \* renames under way: of an agent, from the slug it had to another
    renames,   \* how many there have been
    left,      \* history: the agent a rename last took from each slug, and when
    strayed    \* history: agents a rename took from a slug it hadn't read

slugVars == <<slugOf, removed, alias, renaming, renames, left, strayed>>

NoAlias == [to |-> NoName, at |-> 0]
NotRenaming == [who |-> NoName, from |-> NoName, to |-> NoName]
NeverLeft == [who |-> NoName, at |-> 0]

SlugsInit ==
    /\ slugOf = [x \in Named |-> NoName] /\ removed = {}
    /\ alias = [s \in Names |-> NoAlias]
    /\ renaming = [p \in Patches |-> NotRenaming]
    /\ renames = 0
    /\ left = [s \in Names |-> NeverLeft] /\ strayed = {}

\* The agents with slug s, and the live one: the partial unique index is on
\* live rows.
LiveWith(s) == {x \in Named \ removed : slugOf[x] = s}

\* create doesn't look at aliases, or at slugs that deleted agents had.
RegistersAgent(x, s) ==
    /\ slugOf[x] = NoName /\ LiveWith(s) = {}
    /\ slugOf' = [slugOf EXCEPT ![x] = s]
    /\ left' = [left EXCEPT ![s] = NeverLeft]
    /\ UNCHANGED <<removed, alias, renaming, renames, strayed>>

\* update reads the agent, and that the new slug is free, without a lock ...
ChecksRename(p, x, s) ==
    /\ renaming[p] = NotRenaming /\ x \notin removed
    /\ slugOf[x] \notin {NoName, s} /\ LiveWith(s) = {}
    /\ renaming' = [renaming EXCEPT ![p] = [who |-> x, from |-> slugOf[x], to |-> s]]
    /\ UNCHANGED <<slugOf, removed, alias, renames, left, strayed>>

\* Fault: the alias of a slug that had one stays as it was.
AliasKept(old, new) ==
    IF alias[old] = NoAlias THEN [alias EXCEPT ![old] = [to |-> new, at |-> renames + 1]] ELSE alias

\* ON CONFLICT: the most recent rename wins.
AliasWritten(old, new) == [alias EXCEPT ![old] = [to |-> new, at |-> renames + 1]]

\* ... then takes it, unless another took it meanwhile, and writes the alias of
\* the slug it read.  A deleted agent is renamed too.
RenamesTo(p) ==
    LET x == renaming[p].who  old == renaming[p].from  new == renaming[p].to IN
    /\ renaming[p] # NotRenaming /\ renames < MaxRenames
    /\ renaming' = [renaming EXCEPT ![p] = NotRenaming]
    /\ IF x \notin removed /\ LiveWith(new) \ {x} # {}
         THEN UNCHANGED <<slugOf, alias, renames, left, strayed>>
         ELSE /\ slugOf' = [slugOf EXCEPT ![x] = new]
              /\ alias' = AliasWritten(old, new)
              /\ renames' = renames + 1
              /\ left' = [left EXCEPT ![old] = [who |-> x, at |-> renames + 1], ![new] = NeverLeft]
              /\ strayed' = strayed \cup {y \in {x} : slugOf[y] \notin {old, new}}
    /\ UNCHANGED removed

DeletesNamed(x) ==
    /\ slugOf[x] # NoName /\ x \notin removed
    /\ removed' = removed \cup {x}
    /\ UNCHANGED <<slugOf, alias, renaming, renames, left, strayed>>

\* The oldest alias expires.
AliasExpires(s) ==
    /\ alias[s] # NoAlias
    /\ \A t \in Names : alias[t] = NoAlias \/ alias[s].at <= alias[t].at
    /\ alias' = [alias EXCEPT ![s] = NoAlias]
    /\ UNCHANGED <<slugOf, removed, renaming, renames, left, strayed>>

SlugsNext ==
    \/ \E x \in Named : DeletesNamed(x) \/ \E s \in Names : RegistersAgent(x, s)
    \/ \E p \in Patches : RenamesTo(p) \/ \E x \in Named, s \in Names : ChecksRename(p, x, s)
    \/ \E s \in Names : AliasExpires(s)

SlugsSpec == SlugsInit /\ [][SlugsNext]_slugVars

----------------------------------------------------------------------------
(* get_agent_card *)

Follow(s) == IF alias[s] = NoAlias THEN s ELSE alias[s].to

\* resolve_alias: up to MaxHops aliases.
ResolveAlias(s) ==
    LET at[n \in 0..MaxHops] == IF n = 0 THEN s ELSE Follow(at[n - 1]) IN at[MaxHops]

\* The agent whose card a request for slug s comes to, if any.
ServedAt(s) == LiveWith(ResolveAlias(s))

\* The slugs on the chain of aliases that starts at s.
ChainFrom(s) ==
    LET at[n \in 0..Cardinality(Names)] == IF n = 0 THEN s ELSE Follow(at[n - 1]) IN
        {at[n] : n \in 0..Cardinality(Names)}

----------------------------------------------------------------------------
(* Properties *)

\* The discovery design: "redirects collapse to head-of-chain (A always 301s
\* to C while any chain link is alive)".  A slug that a live agent left leads to
\* it while its alias is alive, as long as no rename took another agent from a
\* slug on the chain since, and the slug the agent has now has no alias itself.
\* It holds of the agents whose renames didn't cross: update takes no lock, so
\* one that read its slug before another was written leaves a slug without an
\* alias.
OldSlugsLead ==
    \A s \in Names :
        LET x == left[s].who IN
            /\ x # NoName /\ x \notin removed \cup strayed /\ alias[s] # NoAlias
            /\ alias[slugOf[x]] = NoAlias
            /\ \A t \in ChainFrom(s) : t = slugOf[x] \/ left[t].who = x
            => ServedAt(s) = {x}
=============================================================================
