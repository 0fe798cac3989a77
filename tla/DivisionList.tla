------------------------------- MODULE DivisionList -------------------------------
(***************************************************************************)
(* packages/nextjs/hooks/useDivisions.ts: the one copy of the divisions    *)
(* all components of a page show.  It is read from the contracts when the  *)
(* registry's list is seen to change and every 15 seconds as long as       *)
(* anyone watches, and only one reading runs at a time.                    *)
(*                                                                         *)
(* A list is known by its version, the n-th the registry had, and so is    *)
(* what the contracts say (phase, roll, officers); 0 is none.              *)
(***************************************************************************)
EXTENDS Naturals

CONSTANTS
    Components,
    MaxVersions  \* changes of the list, and of the contracts, are bounded

ASSUME DivisionListAssumption == MaxVersions \in Nat \ {0}

VARIABLES
    chain,    \* the versions of the registry's list and of the contracts
    seen,     \* registryDivisions: the list as wagmi last read it
    watching, \* enrichedListeners, each with the list its effect last ran for
    key,      \* lastRegistryKey
    latest,   \* latestRegList
    inFlight, \* the lists being enriched
    timer,    \* pollTimer: "none", "runs", or "stopped" with its handle kept
    shown     \* enrichedState

pageVars == <<chain, seen, watching, key, latest, inFlight, timer, shown>>

Watchers == {c \in Components : watching[c].on}

\* loadEnriched: it joins the reading that runs.
LoadEnriched(list) == inFlight' = IF inFlight = {} THEN {list} ELSE inFlight

\* subscribeEnriched.  The first to come back cannot trust what is there.
Watch(c) ==
    /\ ~watching[c].on
    /\ watching' = [watching EXCEPT ![c] = [on |-> TRUE, ranFor |-> 0]]
    /\ key' = IF Watchers = {} THEN 0 ELSE key
    /\ timer' = IF Watchers = {} /\ timer = "none" THEN "runs" ELSE timer
    /\ UNCHANGED <<chain, seen, latest, inFlight, shown>>

\* Mutant: the timer is cleared and its handle kept.
UnwatchKeepsHandle(c) ==
    /\ watching[c].on
    /\ watching' = [watching EXCEPT ![c] = [on |-> FALSE, ranFor |-> 0]]
    /\ timer' = IF Watchers = {c} /\ timer = "runs" THEN "stopped" ELSE timer
    /\ UNCHANGED <<chain, seen, key, latest, inFlight, shown>>

Unwatch(c) ==
    /\ watching[c].on
    /\ watching' = [watching EXCEPT ![c] = [on |-> FALSE, ranFor |-> 0]]
    /\ timer' = IF Watchers = {c} THEN "none" ELSE timer
    /\ UNCHANGED <<chain, seen, key, latest, inFlight, shown>>

\* The effect of a component runs when what it depends on has changed:
\* syncEnriched.
Effect(c) ==
    /\ watching[c].on /\ seen # 0 /\ watching[c].ranFor # seen
    /\ watching' = [watching EXCEPT ![c].ranFor = seen]
    /\ latest' = seen
    /\ key' = seen
    /\ IF key # seen THEN LoadEnriched(seen) ELSE UNCHANGED inFlight
    /\ UNCHANGED <<chain, seen, timer, shown>>

Poll ==
    /\ timer = "runs" /\ latest # 0
    /\ LoadEnriched(latest)
    /\ UNCHANGED <<chain, seen, watching, key, latest, timer, shown>>

\* All of the contracts answered.
ReadLive(list) ==
    /\ inFlight' = inFlight \ {list}
    /\ shown' = [list |-> list, contracts |-> chain.contracts]
    /\ UNCHANGED <<chain, seen, watching, key, latest, timer>>

\* Some did not: what the registry says of them is shown instead.
ReadFallsBack(list) ==
    /\ inFlight' = inFlight \ {list}
    /\ shown' = [list |-> list, contracts |-> 0]
    /\ UNCHANGED <<chain, seen, watching, key, latest, timer>>

\* wagmi reads the registry again with new blocks.
Refresh ==
    /\ seen' = chain.list
    /\ UNCHANGED <<chain, watching, key, latest, inFlight, timer, shown>>

ListChanges ==
    /\ chain.list < MaxVersions
    /\ chain' = [chain EXCEPT !.list = @ + 1]
    /\ UNCHANGED <<seen, watching, key, latest, inFlight, timer, shown>>

ContractsChange ==
    /\ chain.contracts < MaxVersions
    /\ chain' = [chain EXCEPT !.contracts = @ + 1]
    /\ UNCHANGED <<seen, watching, key, latest, inFlight, timer, shown>>

-----------------------------------------------------------------------------
PageInit ==
    /\ chain = [list |-> 1, contracts |-> 1]
    /\ seen = 0 /\ key = 0 /\ latest = 0
    /\ watching = [c \in Components |-> [on |-> FALSE, ranFor |-> 0]]
    /\ inFlight = {} /\ timer = "none"
    /\ shown = [list |-> 0, contracts |-> 0]

PageNext ==
    \/ \E c \in Components : Watch(c) \/ Unwatch(c) \/ Effect(c)
    \/ Poll \/ Refresh
    \/ \E list \in inFlight : ReadLive(list) \/ ReadFallsBack(list)
    \/ ListChanges \/ ContractsChange

ReadSucceeds == \E list \in inFlight : ReadLive(list)

\* Effects run, the timer fires, blocks come, and readings that are made
\* again and again do succeed.
PageFairness ==
    /\ \A c \in Components : WF_pageVars(Effect(c))
    /\ WF_pageVars(Poll) /\ WF_pageVars(Refresh)
    /\ SF_pageVars(ReadSucceeds)

PageSpec == PageInit /\ [][PageNext]_pageVars /\ PageFairness

-----------------------------------------------------------------------------
\* Who keeps watching sees the divisions as they are, whoever else came and
\* went, and although a change noticed during a reading starts none.
ListCatchesUp ==
    \A c \in Components :
        <>[](watching[c].on) => []<>(shown.list = chain.list /\ shown.contracts = chain.contracts)
=============================================================================
