-------------------------- MODULE ReviewDelivery --------------------------
(***************************************************************************)
(* Where an escalation goes after it was reported as routed: the container *)
(* and its router are built lazily and without a lock by the threads that  *)
(* serve the API (config.Container, api/app.py), the offline router keeps  *)
(* its outbox in memory (adapters/local/review_router.py), the managed one *)
(* submits during the call (adapters/gcp/review_router.py), the agent tool *)
(* and the CLI build a container of their own (agent/tools.py,             *)
(* cli/main.py), and the console tells deliveries apart by source_key.     *)
(***************************************************************************)
EXTENDS Naturals, Sequences, FiniteSets

CONSTANTS
    Threads,      \* server threads that certify at the same time
    Escalations,  \* certifications that need review: records of dataset, tenant and status
    MaxCalls,     \* bound on the calls
    MaxCrashes    \* bound on the restarts of the serving process

ASSUME DeliveryAssumption == MaxCalls \in Nat /\ MaxCrashes \in Nat

VARIABLES
    profile,   \* the adapter family of the deployment
    cached,    \* what lru_cache holds: no container, or one
    slot,      \* per container, what its cached_property holds: no router, or one
    outbox,    \* per router, the reviews pending in its outbox, in order
    pc,        \* per thread, how far it is
    work,      \* per thread, the call it serves
    mine,      \* per thread, the container and the router it got hold of
    console,   \* cases of the review console
    reported,  \* what callers were told
    calls,     \* how many calls there were
    crashes    \* how many restarts there were

vars == <<profile, cached, slot, outbox, pc, work, mine, console, reported, calls, crashes>>
lazy == <<cached, slot>>

None == 0
Profiles == {"local", "gcp", "onprem"}

\* A thread builds at most one container and one router per call, so its call names both.
Ids == 1 .. MaxCalls

Init ==
    /\ profile \in Profiles
    /\ cached = None
    /\ slot = [c \in Ids |-> None]
    /\ outbox = [r \in Ids |-> <<>>]
    /\ pc = [t \in Threads |-> "idle"]
    /\ work = [t \in Threads |-> {}]
    /\ mine = [t \in Threads |-> [container |-> None, router |-> None]]
    /\ console = {}
    /\ reported = {}
    /\ calls = 0
    /\ crashes = 0

Goto(t, place) == pc' = [pc EXCEPT ![t] = place]

\* No thread is between a miss and the store that follows it, and a router is in place.
Warm ==
    /\ cached # None /\ slot[cached] # None
    /\ \A t \in Threads : pc[t] \notin {"building container", "building router"}
-----------------------------------------------------------------------------
\* The lazy container.

Begin(t, e) ==
    /\ pc[t] = "idle" /\ calls < MaxCalls
    /\ calls' = calls + 1
    /\ work' = [work EXCEPT ![t] = {[escalation |-> e, call |-> calls', warm |-> Warm]}]
    /\ IF cached # None
       THEN Goto(t, "router") /\ mine' = [mine EXCEPT ![t].container = cached]
       ELSE Goto(t, "building container") /\ UNCHANGED mine
    /\ UNCHANGED <<profile, lazy, outbox, console, reported, crashes>>

\* lru_cache keeps the entry that another thread stored meanwhile, and returns ours.
BuildContainer(t) ==
    /\ pc[t] = "building container"
    /\ \E w \in work[t] :
        /\ cached' = IF cached = None THEN w.call ELSE cached
        /\ mine' = [mine EXCEPT ![t].container = w.call]
    /\ Goto(t, "router")
    /\ UNCHANGED <<profile, slot, outbox, work, console, reported, calls, crashes>>

\* Mutant of ReadRouter: a plain property, which builds a router on every read.
ReadRouterAnew(t) ==
    /\ pc[t] = "router"
    /\ Goto(t, "building router")
    /\ UNCHANGED <<profile, lazy, outbox, work, mine, console, reported, calls, crashes>>

\* A router in place is read; otherwise the thread goes on to build one.
ReadRouter(t) ==
    /\ pc[t] = "router"
    /\ LET r == slot[mine[t].container]
       IN IF r # None THEN Goto(t, "route") /\ mine' = [mine EXCEPT ![t].router = r]
          ELSE Goto(t, "building router") /\ UNCHANGED mine
    /\ UNCHANGED <<profile, lazy, outbox, work, console, reported, calls, crashes>>

\* cached_property stores without looking: the last builder's router stays.
BuildRouter(t) ==
    /\ pc[t] = "building router"
    /\ \E w \in work[t] :
        /\ slot' = [slot EXCEPT ![mine[t].container] = w.call]
        /\ mine' = [mine EXCEPT ![t].router = w.call]
    /\ Goto(t, "route")
    /\ UNCHANGED <<profile, cached, outbox, work, console, reported, calls, crashes>>
-----------------------------------------------------------------------------
\* Routing, and what the console makes of a delivery.

SourceKey(e) == <<e.dataset, e.status>>

\* The console opens one case for a key; a delivery under a known key is a repetition.
Delivered(e) ==
    IF \E case \in console : SourceKey(case) = SourceKey(e) THEN console ELSE console \cup {e}

Told(e, surface, outcome, warm) ==
    reported' = reported \cup
        {[escalation |-> e, surface |-> surface, outcome |-> outcome, warm |-> warm,
          epoch |-> crashes, profile |-> profile]}

\* Mutant of Enqueue: the outbox holds one review at a time.
EnqueueLast(r, e) ==
    profile = "local" /\ outbox' = [outbox EXCEPT ![r] = <<e>>] /\ UNCHANGED console

\* The offline router: the review waits in the memory of the router.
Enqueue(r, e) ==
    profile = "local" /\ outbox' = [outbox EXCEPT ![r] = Append(@, e)] /\ UNCHANGED console

\* The managed router: the console has the review, whether or not its answer comes back.
Submit(e, arrives) ==
    /\ profile = "gcp"
    /\ console' = IF arrives THEN Delivered(e) ELSE console
    /\ UNCHANGED outbox

\* The outcome of a call: an exception of the router is reported and goes no further.
Route(t) ==
    /\ pc[t] = "route"
    /\ \E w \in work[t] :
        \/ /\ Enqueue(mine[t].router, w.escalation)
           /\ Told(w.escalation, "api", "routed", w.warm)
        \/ /\ Submit(w.escalation, TRUE)
           /\ \E outcome \in {"routed", "failed"} : Told(w.escalation, "api", outcome, w.warm)
        \/ /\ Submit(w.escalation, FALSE)
           /\ Told(w.escalation, "api", "failed", w.warm)
        \/ /\ profile = "onprem"
           /\ Told(w.escalation, "api", "failed", w.warm)
           /\ UNCHANGED <<outbox, console>>
    /\ Goto(t, "idle")
    /\ work' = [work EXCEPT ![t] = {}]
    /\ mine' = [mine EXCEPT ![t] = [container |-> None, router |-> None]]
    /\ UNCHANGED <<profile, lazy, calls, crashes>>

\* The agent tool and the CLI: a container for one call, whose outbox goes with it.
CallAlone(surface, e) ==
    /\ calls < MaxCalls
    /\ calls' = calls + 1
    /\ \/ profile = "local" /\ Told(e, surface, "routed", TRUE) /\ UNCHANGED <<outbox, console>>
       \/ /\ Submit(e, TRUE)
          /\ \E outcome \in {"routed", "failed"} : Told(e, surface, outcome, TRUE)
       \/ Submit(e, FALSE) /\ Told(e, surface, "failed", TRUE)
       \/ /\ profile = "onprem" /\ Told(e, surface, "failed", TRUE)
          /\ UNCHANGED <<outbox, console>>
    /\ UNCHANGED <<profile, lazy, pc, work, mine, crashes>>

\* Whoever holds the container's router drains its outbox, oldest review first.
Flush ==
    /\ cached # None /\ slot[cached] # None
    /\ outbox[slot[cached]] # <<>>
    /\ console' = Delivered(Head(outbox[slot[cached]]))
    /\ outbox' = [outbox EXCEPT ![slot[cached]] = Tail(@)]
    /\ UNCHANGED <<profile, lazy, pc, work, mine, reported, calls, crashes>>

\* A restart of the serving process empties its memory and cuts its calls short.
Crash ==
    /\ crashes < MaxCrashes
    /\ crashes' = crashes + 1
    /\ cached' = None
    /\ slot' = [c \in Ids |-> None]
    /\ outbox' = [r \in Ids |-> <<>>]
    /\ pc' = [t \in Threads |-> "idle"]
    /\ work' = [t \in Threads |-> {}]
    /\ mine' = [t \in Threads |-> [container |-> None, router |-> None]]
    /\ UNCHANGED <<profile, console, reported, calls>>

Next ==
    \/ \E t \in Threads :
        \/ \E e \in Escalations : Begin(t, e)
        \/ BuildContainer(t) \/ ReadRouter(t) \/ BuildRouter(t) \/ Route(t)
    \/ \E surface \in {"tool", "cli"}, e \in Escalations : CallAlone(surface, e)
    \/ Flush
    \/ Crash

Spec == Init /\ [][Next]_vars
-----------------------------------------------------------------------------
\* What is in reach: pending in the router that the cached container holds.
InReach ==
    IF cached = None \/ slot[cached] = None THEN {}
    ELSE {outbox[slot[cached]][i] : i \in 1 .. Len(outbox[slot[cached]])}

AtConsole(e) == \E case \in console : SourceKey(case) = SourceKey(e)

\* An escalation that a caller was told is routed can be found: the console has a case under
\* its key, or it is pending where an operator can flush it. What the code does not hold is
\* excluded by how it came about, never by where the review went: the process restarted since;
\* a tool or the CLI served it offline; or the call began before the first ones had finished
\* building the container and its router (config.py:603-610, app.py:111-113,
\* adapters/local/review_router.py:27-37).
RoutedIsHeld ==
    \A m \in reported :
        /\ m.outcome = "routed"
        /\ m.profile = "local" => m.surface = "api" /\ m.warm /\ m.epoch = crashes
        => AtConsole(m.escalation) \/ m.escalation \in InReach

\* Once the container and its router are in place and nobody is building, the service keeps
\* that router until it restarts: calls that begin then all route through it, however they
\* overlap, so one flush reaches them all (config.py:603-610).
WarmCallsShareTheRouter ==
    \A t \in Threads : \A w \in work[t] :
        w.warm /\ pc[t] = "route" => mine[t] = [container |-> cached, router |-> slot[cached]]
=============================================================================
