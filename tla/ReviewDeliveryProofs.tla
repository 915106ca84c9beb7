------------------------ MODULE ReviewDeliveryProofs ------------------------
(***************************************************************************)
(* What a warm service promises of an escalation it reported as routed,    *)
(* for any numbers of threads, calls and restarts. The argument turns on   *)
(* Settled: once a container and its router are in place and nobody is     *)
(* building a router for that container, every step but a restart leaves   *)
(* both in place. Orphans of an early race may still be at work.           *)
(***************************************************************************)
EXTENDS ReviewDelivery, SequenceTheorems, TLAPS

Surfaces == {"api", "tool", "cli"}

Work == [escalation : Escalations, call : Ids, warm : BOOLEAN]

Hands == [container : Ids \cup {None}, router : Ids \cup {None}]

Places == {"idle", "building container", "router", "building router", "route"}

Reports == [escalation : Escalations, surface : Surfaces, outcome : {"routed", "failed"},
            warm : BOOLEAN, epoch : Nat, profile : Profiles]

Types ==
    /\ profile \in Profiles
    /\ cached \in Ids \cup {None}
    /\ slot \in [Ids -> Ids \cup {None}]
    /\ outbox \in [Ids -> Seq(Escalations)]
    /\ pc \in [Threads -> Places]
    /\ work \in [Threads -> SUBSET Work]
    /\ mine \in [Threads -> Hands]
    /\ reported \in SUBSET Reports
    /\ calls \in 0 .. MaxCalls
    /\ crashes \in Nat

(* A thread that is past a build has what it built or found. *)
InHand ==
    \A t \in Threads :
        /\ pc[t] \in {"router", "building router", "route"} => mine[t].container \in Ids
        /\ pc[t] = "route" => mine[t].router \in Ids

(* The cached container has its router and will keep it. *)
Settled ==
    /\ cached # None
    /\ slot[cached] # None
    /\ \A t \in Threads : pc[t] = "building router" => mine[t].container # cached

(* A call that began warm holds the cached container, then its router. *)
OnItsWay(t) ==
    \/ pc[t] = "router" /\ mine[t].container = cached
    \/ pc[t] = "route" /\ mine[t] = [container |-> cached, router |-> slot[cached]]

WarmWork == \A t \in Threads : \A w \in work[t] : w.warm => Settled /\ OnItsWay(t)

(* The offline promises that are still to be kept in this process. *)
Owed(m) ==
    /\ m.outcome = "routed" /\ m.profile = "local" /\ m.surface = "api"
    /\ m.warm /\ m.epoch = crashes

Held ==
    \A m \in reported :
        /\ m.epoch <= crashes
        /\ m.outcome = "routed" /\ m.profile # "local" => AtConsole(m.escalation)
        /\ Owed(m) => Settled /\ (AtConsole(m.escalation) \/ m.escalation \in InReach)

Inv == Types /\ InHand /\ WarmWork /\ Held

(* What a thread takes in hand. *)
TakesContainer(t, x) == mine' = [mine EXCEPT ![t].container = x]
TakesRouter(t, x) == mine' = [mine EXCEPT ![t].router = x]

(* It is all that changes of it. *)
LEMMA TakesContainerOnly ==
    ASSUME Types, NEW t \in Threads, NEW x \in Ids \cup {None}, TakesContainer(t, x)
    PROVE  /\ mine' \in [Threads -> Hands]
           /\ mine'[t] = [container |-> x, router |-> mine[t].router]
           /\ \A q \in Threads \ {t} : mine'[q] = mine[q]
  <1>1. mine \in [Threads -> Hands] /\ mine[t] \in Hands
    BY DEF Types
  <1>2. mine' = [mine EXCEPT ![t] = [mine[t] EXCEPT !.container = x]]
    BY <1>1 DEF TakesContainer
  <1>3. [mine[t] EXCEPT !.container = x] = [container |-> x, router |-> mine[t].router]
    BY <1>1 DEF Hands
  <1>4. [container |-> x, router |-> mine[t].router] \in Hands
    BY <1>1 DEF Hands
  <1> QED
    BY <1>1, <1>2, <1>3, <1>4

(* The same of a router. *)
LEMMA TakesRouterOnly ==
    ASSUME Types, NEW t \in Threads, NEW x \in Ids \cup {None}, TakesRouter(t, x)
    PROVE  /\ mine' \in [Threads -> Hands]
           /\ mine'[t] = [container |-> mine[t].container, router |-> x]
           /\ \A q \in Threads \ {t} : mine'[q] = mine[q]
  <1>1. mine \in [Threads -> Hands] /\ mine[t] \in Hands
    BY DEF Types
  <1>2. mine' = [mine EXCEPT ![t] = [mine[t] EXCEPT !.router = x]]
    BY <1>1 DEF TakesRouter
  <1>3. [mine[t] EXCEPT !.router = x] = [container |-> mine[t].container, router |-> x]
    BY <1>1 DEF Hands
  <1>4. [container |-> mine[t].container, router |-> x] \in Hands
    BY <1>1 DEF Hands
  <1> QED
    BY <1>1, <1>2, <1>3, <1>4

LEMMA InitInv == Init => Inv
  <1> SUFFICES ASSUME Init PROVE Inv
    OBVIOUS
  <1> USE DeliveryAssumption DEF Init
  <1>1. Types
    <2>1. <<>> \in Seq(Escalations)
      OBVIOUS
    <2> QED
      BY <2>1 DEF Types, None, Hands, Places
  <1>2. InHand /\ WarmWork /\ Held
    BY DEF InHand, WarmWork, Held
  <1> QED
    BY <1>1, <1>2 DEF Inv

(* A case at the console stays there, and a delivery puts one there. *)
LEMMA ConsoleKeeps ==
    ASSUME NEW e, NEW x,
           console' = console \/ console' = Delivered(x),
           AtConsole(e)
    PROVE  AtConsole(e)'
  BY DEF AtConsole, Delivered

LEMMA DeliveryArrives ==
    ASSUME NEW e, console' = Delivered(e)
    PROVE  AtConsole(e)'
  BY DEF AtConsole, Delivered

(* While container and router stay, and nothing leaves the outbox, what is *)
(* in reach stays in reach.                                                *)
LEMMA ReachKeeps ==
    ASSUME Settled, Settled', cached' = cached, slot'[cached] = slot[cached],
           outbox'[slot[cached]] = outbox[slot[cached]]
    PROVE  InReach' = InReach
  BY DEF InReach, Settled

(* What every step that neither routes, flushes nor restarts must show.    *)
LEMMA QuietHeld ==
    ASSUME Held,
           UNCHANGED <<outbox, console, reported, crashes>>,
           Settled => Settled' /\ cached' = cached /\ slot'[cached] = slot[cached]
    PROVE  Held'
  <1>1. \A e : AtConsole(e)' <=> AtConsole(e)
    BY DEF AtConsole
  <1>2. Settled => Settled' /\ InReach' = InReach
    BY ReachKeeps
  <1> QED
    BY <1>1, <1>2 DEF Held, Owed

LEMMA BeginInv ==
    ASSUME Inv, NEW t \in Threads, NEW e \in Escalations, Begin(t, e)
    PROVE  Inv'
  <1> USE DeliveryAssumption DEF lazy
  <1>0. /\ Types /\ InHand /\ WarmWork /\ Held
        /\ calls' = calls + 1 /\ calls < MaxCalls
        /\ pc[t] = "idle"
        /\ work' = [work EXCEPT ![t] = {[escalation |-> e, call |-> calls', warm |-> Warm]}]
        /\ UNCHANGED <<profile, cached, slot, outbox, console, reported, crashes>>
    BY DEF Inv, Begin
  <1>c. calls' \in Ids
    BY <1>0 DEF Types, Ids
  <1>w. Warm \in BOOLEAN
    BY DEF Warm
  <1>p. \/ /\ cached # None
           /\ pc' = [pc EXCEPT ![t] = "router"]
           /\ mine' = [mine EXCEPT ![t].container = cached]
        \/ /\ cached = None
           /\ pc' = [pc EXCEPT ![t] = "building container"]
           /\ mine' = mine
    BY DEF Begin, Goto
  <1>q. /\ pc'[t] = IF cached # None THEN "router" ELSE "building container"
        /\ \A q \in Threads \ {t} : pc'[q] = pc[q]
    BY <1>0, <1>p DEF Types
  <1>m. /\ mine' \in [Threads -> Hands]
        /\ cached # None => mine'[t].container = cached
        /\ \A q \in Threads \ {t} : mine'[q] = mine[q]
    <2>1. cached \in Ids \cup {None} /\ mine \in [Threads -> Hands]
      BY <1>0 DEF Types
    <2>2. CASE TakesContainer(t, cached)
      <3>1. mine'[t] = [container |-> cached, router |-> mine[t].router]
        BY <2>1, <2>2, <1>0, TakesContainerOnly
      <3> QED
        BY <3>1, <2>1, <2>2, <1>0, TakesContainerOnly
    <2>3. CASE cached = None /\ mine' = mine
      BY <2>1, <2>3
    <2> QED
      BY <1>p, <2>2, <2>3 DEF TakesContainer
  <1>1. Types'
    <2>1. [escalation |-> e, call |-> calls', warm |-> Warm] \in Work
      BY <1>c, <1>w DEF Work
    <2>2. work' \in [Threads -> SUBSET Work]
      BY <1>0, <2>1 DEF Types
    <2>3. pc' \in [Threads -> Places]
      BY <1>0, <1>p DEF Types, Places
    <2>5. calls' \in 0 .. MaxCalls
      BY <1>c DEF Ids
    <2> QED
      BY <1>0, <1>m, <2>2, <2>3, <2>5 DEF Types
  <1>2. InHand'
    <2> SUFFICES ASSUME NEW q \in Threads
                 PROVE  /\ pc'[q] \in {"router", "building router", "route"} =>
                               mine'[q].container \in Ids
                        /\ pc'[q] = "route" => mine'[q].router \in Ids
      BY DEF InHand
    <2>1. CASE q = t
      BY <2>1, <1>0, <1>q, <1>m DEF Types
    <2>2. CASE q # t
      BY <2>2, <1>0, <1>q, <1>m DEF InHand
    <2> QED
      BY <2>1, <2>2
  <1>3. Settled => Settled'
    <2> SUFFICES ASSUME Settled, NEW q \in Threads, pc'[q] = "building router"
                 PROVE  mine'[q].container # cached
      BY <1>0 DEF Settled
    <2>1. q # t
      BY <1>q
    <2> QED
      BY <2>1, <1>q, <1>m DEF Settled
  <1>4. Warm => Settled' /\ OnItsWay(t)'
    <2> SUFFICES ASSUME Warm PROVE Settled' /\ OnItsWay(t)'
      OBVIOUS
    <2>1. cached # None /\ Settled
      BY DEF Warm, Settled
    <2>2. pc'[t] = "router" /\ mine'[t].container = cached
      BY <2>1, <1>q, <1>m
    <2>3. OnItsWay(t)'
      BY <2>2, <1>0 DEF OnItsWay
    <2> QED
      BY <2>1, <2>3, <1>3
  <1>5. WarmWork'
    <2> SUFFICES ASSUME NEW q \in Threads, NEW w \in work'[q], w.warm
                 PROVE  Settled' /\ OnItsWay(q)'
      BY DEF WarmWork
    <2>1. CASE q = t
      <3>1. w = [escalation |-> e, call |-> calls', warm |-> Warm]
        BY <2>1, <1>0 DEF Types
      <3> QED
        BY <2>1, <3>1, <1>4
    <2>2. CASE q # t
      <3>1. w \in work[q] /\ pc'[q] = pc[q] /\ mine'[q] = mine[q]
        BY <2>2, <1>0, <1>q, <1>m DEF Types
      <3> QED
        BY <3>1, <1>0, <1>3 DEF WarmWork, OnItsWay
    <2> QED
      BY <2>1, <2>2
  <1>6. Held'
    BY <1>0, <1>3, QuietHeld
  <1> QED
    BY <1>1, <1>2, <1>5, <1>6 DEF Inv

LEMMA BuildContainerInv ==
    ASSUME Inv, NEW t \in Threads, BuildContainer(t)
    PROVE  Inv'
  <1>0. Types /\ InHand /\ WarmWork /\ Held
    BY DEF Inv
  <1>1. PICK w \in work[t] :
            /\ cached' = IF cached = None THEN w.call ELSE cached
            /\ mine' = [mine EXCEPT ![t].container = w.call]
    BY DEF BuildContainer
  <1>2. /\ w.call \in Ids
        /\ pc[t] = "building container"
        /\ pc' = [pc EXCEPT ![t] = "router"]
        /\ UNCHANGED <<profile, slot, outbox, work, console, reported, calls, crashes>>
    <2>1. w \in Work
      BY <1>0 DEF Types
    <2> QED
      BY <2>1 DEF BuildContainer, Goto, Work
  <1>m. /\ mine' \in [Threads -> Hands]
        /\ mine'[t].container = w.call
        /\ \A q \in Threads \ {t} : mine'[q] = mine[q]
    <2>1. TakesContainer(t, w.call)
      BY <1>1 DEF TakesContainer
    <2>2. mine'[t] = [container |-> w.call, router |-> mine[t].router]
      BY <2>1, <1>0, <1>2, TakesContainerOnly
    <2>3. /\ mine' \in [Threads -> Hands]
          /\ \A q \in Threads \ {t} : mine'[q] = mine[q]
      BY <2>1, <1>0, <1>2, TakesContainerOnly
    <2>4. mine'[t].container = w.call
      BY <2>2
    <2> QED
      BY <2>3, <2>4
  <1>3. Types'
    <2>1. cached' \in Ids \cup {None}
      BY <1>0, <1>1, <1>2 DEF Types
    <2>2. pc' \in [Threads -> Places]
      BY <1>0, <1>2 DEF Types, Places
    <2> QED
      BY <1>0, <1>2, <1>m, <2>1, <2>2 DEF Types
  <1>4. InHand'
    BY <1>0, <1>2, <1>m DEF InHand, Types
  <1>5. Settled => Settled' /\ cached' = cached
    BY <1>0, <1>1, <1>2, <1>m DEF Settled, Types
  <1>6. WarmWork'
    <2> SUFFICES ASSUME NEW q \in Threads, NEW v \in work[q], v.warm
                 PROVE  Settled' /\ OnItsWay(q)'
      BY <1>2 DEF WarmWork
    <2>1. Settled /\ OnItsWay(q)
      BY <1>0 DEF WarmWork
    <2>2. q # t
      BY <2>1, <1>2 DEF OnItsWay
    <2>3. pc'[q] = pc[q] /\ mine'[q] = mine[q]
      BY <2>2, <1>0, <1>2, <1>m DEF Types
    <2> QED
      BY <2>1, <2>3, <1>2, <1>5 DEF OnItsWay
  <1>7. Held'
    BY <1>0, <1>2, <1>5, QuietHeld
  <1> QED
    BY <1>3, <1>4, <1>6, <1>7 DEF Inv

LEMMA ReadRouterInv ==
    ASSUME Inv, NEW t \in Threads, ReadRouter(t)
    PROVE  Inv'
  <1> USE DEF lazy
  <1>0. /\ Types /\ InHand /\ WarmWork /\ Held
        /\ pc[t] = "router" /\ mine[t].container \in Ids
        /\ UNCHANGED <<profile, cached, slot, outbox, work, console, reported, calls, crashes>>
    BY DEF Inv, InHand, ReadRouter
  <1> DEFINE r == slot[mine[t].container]
  <1>r. r \in Ids \cup {None}
    BY <1>0 DEF Types
  <1>p. \/ /\ r # None
           /\ pc' = [pc EXCEPT ![t] = "route"]
           /\ mine' = [mine EXCEPT ![t].router = r]
        \/ /\ r = None
           /\ pc' = [pc EXCEPT ![t] = "building router"]
           /\ mine' = mine
    BY DEF ReadRouter, Goto
  <1> HIDE DEF r
  <1>m. /\ mine' \in [Threads -> Hands]
        /\ mine'[t].container = mine[t].container
        /\ r # None => mine'[t].router = r
        /\ \A q \in Threads \ {t} : mine'[q] = mine[q]
    <2>1. mine \in [Threads -> Hands]
      BY <1>0 DEF Types
    <2>2. CASE TakesRouter(t, r)
      <3>1. mine'[t] = [container |-> mine[t].container, router |-> r]
        BY <2>2, <1>0, <1>r, TakesRouterOnly
      <3> QED
        BY <3>1, <2>2, <1>0, <1>r, TakesRouterOnly
    <2>3. CASE r = None /\ mine' = mine
      BY <2>1, <2>3
    <2> QED
      BY <1>p, <2>2, <2>3 DEF TakesRouter
  <1>1. Types'
    <2>1. pc' \in [Threads -> Places]
      BY <1>0, <1>p DEF Types, Places
    <2> QED
      BY <1>0, <1>m, <2>1 DEF Types
  <1>2. InHand'
    <2> SUFFICES ASSUME NEW q \in Threads
                 PROVE  /\ pc'[q] \in {"router", "building router", "route"} =>
                               mine'[q].container \in Ids
                        /\ pc'[q] = "route" => mine'[q].router \in Ids
      BY DEF InHand
    <2>1. CASE q = t
      <3>1. pc'[t] = "route" => r # None
        BY <1>0, <1>p DEF Types
      <3> QED
        BY <2>1, <3>1, <1>0, <1>r, <1>m
    <2>2. CASE q # t
      <3>1. pc'[q] = pc[q] /\ mine'[q] = mine[q]
        BY <2>2, <1>0, <1>p, <1>m DEF Types
      <3> QED
        BY <3>1, <1>0 DEF InHand
    <2> QED
      BY <2>1, <2>2
  <1>3. Settled => Settled'
    <2> SUFFICES ASSUME Settled, NEW q \in Threads, pc'[q] = "building router"
                 PROVE  mine'[q].container # cached
      BY <1>0 DEF Settled
    <2>1. CASE q = t
      <3>1. r = None /\ mine' = mine
        BY <2>1, <1>p, <1>0 DEF Types
      <3> QED
        BY <2>1, <3>1 DEF Settled, r
    <2>2. CASE q # t
      BY <2>2, <1>0, <1>p DEF Settled, Types
    <2> QED
      BY <2>1, <2>2
  <1>4. WarmWork'
    <2> SUFFICES ASSUME NEW q \in Threads, NEW w \in work[q], w.warm
                 PROVE  Settled' /\ OnItsWay(q)'
      BY <1>0 DEF WarmWork
    <2>1. Settled /\ Settled' /\ OnItsWay(q)
      BY <1>0, <1>3 DEF WarmWork
    <2>2. CASE q = t
      <3>1. mine[t].container = cached
        BY <2>1, <2>2, <1>0 DEF OnItsWay
      <3>2. r = slot[cached] /\ r # None
        BY <2>1, <3>1 DEF Settled, r
      <3>3. pc'[t] = "route" /\ mine' = [mine EXCEPT ![t].router = r]
        BY <3>2, <1>p, <1>0 DEF Types
      <3>4. mine'[t] = [container |-> cached, router |-> r]
        BY <3>1, <3>3, <1>0, <1>r, TakesRouterOnly DEF TakesRouter
      <3>5. pc'[t] = "route"
        BY <3>3, <1>0 DEF Types
      <3> QED
        BY <2>1, <2>2, <3>2, <3>5, <3>3, <3>4, <1>0 DEF OnItsWay
    <2>3. CASE q # t
      <3>1. pc'[q] = pc[q] /\ mine'[q] = mine[q]
        BY <2>3, <1>0, <1>p DEF Types
      <3> QED
        BY <2>1, <3>1, <1>0 DEF OnItsWay
    <2> QED
      BY <2>1, <2>2, <2>3
  <1>5. Held'
    BY <1>0, <1>3, QuietHeld
  <1> QED
    BY <1>1, <1>2, <1>4, <1>5 DEF Inv

LEMMA BuildRouterInv ==
    ASSUME Inv, NEW t \in Threads, BuildRouter(t)
    PROVE  Inv'
  <1>0. /\ Types /\ InHand /\ WarmWork /\ Held
        /\ pc[t] = "building router" /\ mine[t].container \in Ids
        /\ pc' = [pc EXCEPT ![t] = "route"]
        /\ UNCHANGED <<profile, cached, outbox, work, console, reported, calls, crashes>>
    BY DEF Inv, InHand, BuildRouter, Goto
  <1>1. PICK w \in work[t] :
            /\ slot' = [slot EXCEPT ![mine[t].container] = w.call]
            /\ mine' = [mine EXCEPT ![t].router = w.call]
    BY DEF BuildRouter
  <1>2. w.call \in Ids
    <2>1. w \in Work
      BY <1>0 DEF Types
    <2> QED
      BY <2>1 DEF Work
  <1>m. /\ mine' \in [Threads -> Hands]
        /\ mine'[t] = [container |-> mine[t].container, router |-> w.call]
        /\ \A q \in Threads \ {t} : mine'[q] = mine[q]
    <2>1. TakesRouter(t, w.call)
      BY <1>1 DEF TakesRouter
    <2> QED
      BY <2>1, <1>0, <1>2, TakesRouterOnly
  <1>3. Types'
    <2>1. slot' \in [Ids -> Ids \cup {None}]
      BY <1>0, <1>1, <1>2 DEF Types
    <2>2. pc' \in [Threads -> Places]
      BY <1>0 DEF Types, Places
    <2> QED
      BY <1>0, <1>m, <2>1, <2>2 DEF Types
  <1>4. InHand'
    <2> SUFFICES ASSUME NEW q \in Threads
                 PROVE  /\ pc'[q] \in {"router", "building router", "route"} =>
                               mine'[q].container \in Ids
                        /\ pc'[q] = "route" => mine'[q].router \in Ids
      BY DEF InHand
    <2>1. CASE q = t
      <3>1. mine'[t].container = mine[t].container /\ mine'[t].router = w.call
        BY <1>m
      <3> QED
        BY <2>1, <3>1, <1>0, <1>2
    <2>2. CASE q # t
      BY <2>2, <1>0, <1>m DEF InHand, Types
    <2> QED
      BY <2>1, <2>2
  <1>5. Settled => Settled' /\ slot'[cached] = slot[cached]
    <2> SUFFICES ASSUME Settled PROVE Settled' /\ slot'[cached] = slot[cached]
      OBVIOUS
    <2>1. cached \in Ids /\ mine[t].container # cached
      BY <1>0 DEF Settled, Types
    <2>2. slot'[cached] = slot[cached]
      BY <2>1, <1>0, <1>1 DEF Types
    <2>3. \A q \in Threads : pc'[q] = "building router" => mine'[q].container # cached
      BY <1>0, <1>m DEF Settled, Types
    <2> QED
      BY <2>2, <2>3, <1>0 DEF Settled
  <1>6. WarmWork'
    <2> SUFFICES ASSUME NEW q \in Threads, NEW v \in work[q], v.warm
                 PROVE  Settled' /\ OnItsWay(q)'
      BY <1>0 DEF WarmWork
    <2>1. Settled /\ OnItsWay(q)
      BY <1>0 DEF WarmWork
    <2>2. q # t
      BY <2>1, <1>0 DEF OnItsWay
    <2>3. pc'[q] = pc[q] /\ mine'[q] = mine[q]
      BY <2>2, <1>0, <1>m DEF Types
    <2> QED
      BY <2>1, <2>3, <1>0, <1>5 DEF OnItsWay
  <1>7. Held'
    BY <1>0, <1>5, QuietHeld
  <1> QED
    BY <1>3, <1>4, <1>6, <1>7 DEF Inv

(* What a step that reports an outcome must show: what was in reach stays, *)
(* and the new report is true.                                             *)
LEMMA ToldHeld ==
    ASSUME Types, Held, NEW m, NEW x,
           reported' = reported \cup {m},
           crashes' = crashes,
           console' = console \/ console' = Delivered(x),
           Settled => Settled' /\ InReach \subseteq InReach',
           m.epoch = crashes,
           m.outcome = "routed" /\ m.profile # "local" => AtConsole(m.escalation)',
           Owed(m) => Settled /\ m.escalation \in InReach'
    PROVE  Held'
  <1> SUFFICES ASSUME NEW n \in reported'
               PROVE  /\ n.epoch <= crashes'
                      /\ n.outcome = "routed" /\ n.profile # "local" =>
                            AtConsole(n.escalation)'
                      /\ Owed(n)' => Settled' /\ (AtConsole(n.escalation)'
                                                 \/ n.escalation \in InReach')
    BY DEF Held
  <1>1. Owed(n)' <=> Owed(n)
    BY DEF Owed
  <1>2. CASE n \in reported
    <2>1. AtConsole(n.escalation) => AtConsole(n.escalation)'
      BY ConsoleKeeps
    <2> QED
      BY <1>1, <1>2, <2>1 DEF Held
  <1>3. CASE n = m
    BY <1>1, <1>3 DEF Types
  <1> QED
    BY <1>2, <1>3

LEMMA RouteInv ==
    ASSUME Inv, NEW t \in Threads, Route(t)
    PROVE  Inv'
  <1>0. /\ Types /\ InHand /\ WarmWork /\ Held
        /\ pc[t] = "route" /\ mine[t].router \in Ids
        /\ pc' = [pc EXCEPT ![t] = "idle"]
        /\ work' = [work EXCEPT ![t] = {}]
        /\ mine' = [mine EXCEPT ![t] = [container |-> None, router |-> None]]
        /\ UNCHANGED <<profile, cached, slot, calls, crashes>>
    BY DEF Inv, InHand, Route, Goto, lazy
  <1> DEFINE r == mine[t].router
             Report(w, o) == [escalation |-> w.escalation, surface |-> "api", outcome |-> o,
                              warm |-> w.warm, epoch |-> crashes, profile |-> profile]
  <1>1. PICK w \in work[t], o \in {"routed", "failed"} :
            /\ reported' = reported \cup {Report(w, o)}
            /\ \/ Enqueue(r, w.escalation)
               \/ Submit(w.escalation, TRUE)
               \/ Submit(w.escalation, FALSE) /\ o = "failed"
               \/ profile = "onprem" /\ o = "failed" /\ UNCHANGED <<outbox, console>>
    BY DEF Route, Told
  <1> DEFINE e == w.escalation
  <1>d. PICK m : m = Report(w, o)
    OBVIOUS
  <1>w. w \in Work /\ e \in Escalations /\ w.warm \in BOOLEAN
    <2>1. w \in Work
      BY <1>0 DEF Types
    <2> QED
      BY <2>1 DEF Work
  <1>m. /\ m.escalation = e /\ m.surface = "api" /\ m.outcome = o /\ m.warm = w.warm
        /\ m.epoch = crashes /\ m.profile = profile /\ m \in Reports
    BY <1>0, <1>w, <1>d DEF Types, Reports, Surfaces
  <1>o. outbox[r] \in Seq(Escalations) /\ outbox \in [Ids -> Seq(Escalations)]
    BY <1>0 DEF Types
  <1>a. /\ Append(outbox[r], e) \in Seq(Escalations)
        /\ Len(Append(outbox[r], e)) = Len(outbox[r]) + 1
        /\ \A i \in 1 .. Len(outbox[r]) : Append(outbox[r], e)[i] = outbox[r][i]
        /\ Append(outbox[r], e)[Len(outbox[r]) + 1] = e
        /\ Len(outbox[r]) \in Nat
    BY <1>o, <1>w, AppendProperties, LenProperties
  <1>b. \/ outbox' = [outbox EXCEPT ![r] = Append(outbox[r], e)]
        \/ outbox' = outbox
    BY <1>1 DEF Enqueue, Submit
  <1>c. console' = console \/ console' = Delivered(e)
    BY <1>1 DEF Enqueue, Submit
  <1> HIDE DEF r, e
  <1>2. Types'
    <2>1. outbox' \in [Ids -> Seq(Escalations)]
      BY <1>0, <1>a, <1>b, <1>o
    <2>2. reported' \in SUBSET Reports
      BY <1>0, <1>1, <1>d, <1>m DEF Types
    <2>3. pc' \in [Threads -> Places] /\ work' \in [Threads -> SUBSET Work]
      BY <1>0 DEF Types, Places
    <2>4. mine' \in [Threads -> Hands]
      BY <1>0 DEF Types, Hands
    <2> QED
      BY <1>0, <2>1, <2>2, <2>3, <2>4 DEF Types
  <1>3. InHand'
    BY <1>0 DEF InHand, Types
  <1>4. Settled => Settled'
    BY <1>0 DEF Settled, Types
  <1>5. WarmWork'
    <2> SUFFICES ASSUME NEW q \in Threads, NEW v \in work'[q], v.warm
                 PROVE  Settled' /\ OnItsWay(q)'
      BY DEF WarmWork
    <2>1. q # t
      BY <1>0 DEF Types
    <2>2. v \in work[q] /\ pc'[q] = pc[q] /\ mine'[q] = mine[q]
      BY <2>1, <1>0 DEF Types
    <2> QED
      BY <2>2, <1>0, <1>4 DEF WarmWork, OnItsWay
  <1>6. Settled => InReach \subseteq InReach'
    <2> SUFFICES ASSUME Settled, NEW y \in InReach PROVE y \in InReach'
      OBVIOUS
    <2>1. /\ cached # None /\ slot[cached] # None
          /\ slot[cached] \in Ids
      BY <1>0 DEF Settled, Types
    <2>2. PICK i \in 1 .. Len(outbox[slot[cached]]) : y = outbox[slot[cached]][i]
      BY <2>1 DEF InReach
    <2>3. /\ i \in 1 .. Len(outbox'[slot[cached]])
          /\ y = outbox'[slot[cached]][i]
      <3>1. CASE outbox' = outbox
        BY <3>1, <2>2
      <3>2. CASE /\ outbox' = [outbox EXCEPT ![r] = Append(outbox[r], e)]
                 /\ slot[cached] # r
        BY <3>2, <2>1, <2>2, <1>o
      <3>3. CASE /\ outbox' = [outbox EXCEPT ![r] = Append(outbox[r], e)]
                 /\ slot[cached] = r
        <4>1. outbox'[r] = Append(outbox[r], e)
          BY <3>3, <2>1, <1>o
        <4> QED
          BY <4>1, <3>3, <2>2, <1>a
      <3> QED
        BY <3>1, <3>2, <3>3, <1>b
    <2> QED
      BY <2>1, <2>3, <1>0 DEF InReach
  <1>7. m.outcome = "routed" /\ m.profile # "local" => AtConsole(m.escalation)'
    <2> SUFFICES ASSUME o = "routed", profile # "local" PROVE AtConsole(e)'
      BY <1>m
    <2>1. Submit(e, TRUE)
      BY <1>1 DEF Enqueue, e
    <2> QED
      BY <2>1, DeliveryArrives DEF Submit
  <1>8. Owed(m) => Settled /\ m.escalation \in InReach'
    <2> SUFFICES ASSUME o = "routed", profile = "local", w.warm
                 PROVE  Settled /\ e \in InReach'
      BY <1>m DEF Owed
    <2>1. outbox' = [outbox EXCEPT ![r] = Append(outbox[r], e)]
      BY <1>1 DEF Enqueue, Submit, e
    <2>2. Settled /\ OnItsWay(t)
      BY <1>0 DEF WarmWork
    <2>3. r = slot[cached] /\ r \in Ids
      BY <2>2, <1>0 DEF OnItsWay, r
    <2>4. outbox'[r] = Append(outbox[r], e)
      BY <2>1, <2>3, <1>o
    <2>5. /\ Len(outbox[r]) + 1 \in 1 .. Len(outbox'[r])
          /\ outbox'[r][Len(outbox[r]) + 1] = e
      BY <2>4, <1>a
    <2> QED
      BY <2>2, <2>3, <2>5, <1>0 DEF InReach, Settled
  <1>9. Held'
    BY <1>0, <1>1, <1>m, <1>c, <1>4, <1>6, <1>7, <1>8, <1>d, ToldHeld
  <1> QED
    BY <1>2, <1>3, <1>5, <1>9 DEF Inv

LEMMA CallAloneInv ==
    ASSUME Inv, NEW surface \in {"tool", "cli"}, NEW e \in Escalations, CallAlone(surface, e)
    PROVE  Inv'
  <1>0. /\ Types /\ InHand /\ WarmWork /\ Held
        /\ calls' = calls + 1 /\ calls < MaxCalls
        /\ UNCHANGED <<profile, cached, slot, outbox, pc, work, mine, crashes>>
    BY DEF Inv, CallAlone, lazy, Submit
  <1> DEFINE Report(o) == [escalation |-> e, surface |-> surface, outcome |-> o,
                           warm |-> TRUE, epoch |-> crashes, profile |-> profile]
  <1>1. PICK o \in {"routed", "failed"} :
            /\ reported' = reported \cup {Report(o)}
            /\ \/ profile = "local" /\ console' = console
               \/ Submit(e, TRUE)
               \/ o = "failed" /\ console' = console
    BY DEF CallAlone, Told, Submit
  <1>d. PICK m : m = Report(o)
    OBVIOUS
  <1>m. /\ m.escalation = e /\ m.surface = surface /\ m.outcome = o
        /\ m.epoch = crashes /\ m.profile = profile /\ m \in Reports
    BY <1>0, <1>d DEF Types, Reports, Surfaces
  <1>c. console' = console \/ console' = Delivered(e)
    BY <1>1 DEF Submit
  <1>2. Types'
    <2>1. reported' \in SUBSET Reports
      BY <1>0, <1>1, <1>d, <1>m DEF Types
    <2>2. calls' \in 0 .. MaxCalls
      BY <1>0, DeliveryAssumption DEF Types
    <2> QED
      BY <1>0, <2>1, <2>2 DEF Types
  <1>3. InHand'
    BY <1>0 DEF InHand
  <1>4. Settled => Settled' /\ InReach' = InReach
    BY <1>0 DEF Settled, InReach
  <1>5. WarmWork'
    BY <1>0, <1>4 DEF WarmWork, OnItsWay
  <1>7. m.outcome = "routed" /\ m.profile # "local" => AtConsole(m.escalation)'
    <2> SUFFICES ASSUME o = "routed", profile # "local" PROVE AtConsole(e)'
      BY <1>m
    <2>1. Submit(e, TRUE)
      BY <1>1
    <2> QED
      BY <2>1, DeliveryArrives DEF Submit
  <1>8. ~Owed(m)
    BY <1>m DEF Owed
  <1>9. Held'
    BY <1>0, <1>1, <1>m, <1>c, <1>4, <1>7, <1>8, <1>d, ToldHeld
  <1> QED
    BY <1>2, <1>3, <1>5, <1>9 DEF Inv

LEMMA FlushInv ==
    ASSUME Inv, Flush
    PROVE  Inv'
  <1> DEFINE r == slot[cached]
  <1>0. /\ Types /\ InHand /\ WarmWork /\ Held
        /\ cached # None /\ r # None
        /\ outbox[r] # <<>>
        /\ console' = Delivered(Head(outbox[r]))
        /\ outbox' = [outbox EXCEPT ![r] = Tail(outbox[r])]
        /\ UNCHANGED <<profile, cached, slot, pc, work, mine, reported, calls, crashes>>
    BY DEF Inv, Flush, lazy
  <1>r. r \in Ids /\ outbox[r] \in Seq(Escalations) /\ outbox \in [Ids -> Seq(Escalations)]
    BY <1>0 DEF Types
  <1>t. /\ Tail(outbox[r]) \in Seq(Escalations)
        /\ Len(Tail(outbox[r])) = Len(outbox[r]) - 1
        /\ \A i \in 1 .. Len(Tail(outbox[r])) : Tail(outbox[r])[i] = outbox[r][i + 1]
        /\ Len(outbox[r]) \in Nat
    BY <1>0, <1>r, HeadTailProperties, LenProperties
  <1>h. Head(outbox[r]) = outbox[r][1]
    BY <1>0, <1>r
  <1>1. Types'
    BY <1>0, <1>r, <1>t DEF Types
  <1>2. InHand'
    BY <1>0 DEF InHand
  <1>3. Settled => Settled'
    BY <1>0 DEF Settled
  <1>4. WarmWork'
    BY <1>0, <1>3 DEF WarmWork, OnItsWay
  <1>5. \A x : AtConsole(x) => AtConsole(x)'
    BY <1>0, ConsoleKeeps
  <1>6. ASSUME NEW x \in InReach
        PROVE  AtConsole(x)' \/ x \in InReach'
    <2>1. PICK i \in 1 .. Len(outbox[r]) : x = outbox[r][i]
      BY <1>0 DEF InReach
    <2>2. CASE i = 1
      <3>1. console' = Delivered(x)
        BY <2>1, <2>2, <1>0, <1>h
      <3> QED
        BY <3>1, DeliveryArrives
    <2>3. CASE i # 1
      <3>1. outbox'[r] = Tail(outbox[r])
        BY <1>0, <1>r
      <3>2. i - 1 \in 1 .. Len(outbox'[r]) /\ x = outbox'[r][i - 1]
        BY <2>1, <2>3, <3>1, <1>t
      <3>3. cached' # None /\ slot'[cached'] # None /\ slot'[cached'] = r
        BY <1>0
      <3> QED
        BY <3>2, <3>3 DEF InReach
    <2> QED
      BY <2>2, <2>3
  <1>7. Held'
    <2> SUFFICES ASSUME NEW m \in reported
                 PROVE  /\ m.epoch <= crashes
                        /\ m.outcome = "routed" /\ m.profile # "local" =>
                              AtConsole(m.escalation)'
                        /\ Owed(m) => Settled' /\ (AtConsole(m.escalation)'
                                                  \/ m.escalation \in InReach')
      BY <1>0 DEF Held, Owed
    <2> QED
      BY <1>0, <1>3, <1>5, <1>6 DEF Held
  <1> QED
    BY <1>1, <1>2, <1>4, <1>7 DEF Inv

LEMMA CrashInv ==
    ASSUME Inv, Crash
    PROVE  Inv'
  <1>0. /\ Types /\ Held
        /\ crashes' = crashes + 1
        /\ cached' = None
        /\ slot' = [c \in Ids |-> None]
        /\ outbox' = [r \in Ids |-> <<>>]
        /\ pc' = [t \in Threads |-> "idle"]
        /\ work' = [t \in Threads |-> {}]
        /\ mine' = [t \in Threads |-> [container |-> None, router |-> None]]
        /\ UNCHANGED <<profile, console, reported, calls>>
    BY DEF Inv, Crash
  <1>1. Types'
    <2>1. outbox' \in [Ids -> Seq(Escalations)]
      <3>1. <<>> \in Seq(Escalations)
        OBVIOUS
      <3> QED
        BY <3>1, <1>0
    <2>2. crashes' \in Nat
      BY <1>0 DEF Types
    <2>3. /\ slot' \in [Ids -> Ids \cup {None}]
          /\ pc' \in [Threads -> Places]
          /\ work' \in [Threads -> SUBSET Work]
          /\ mine' \in [Threads -> Hands]
      BY <1>0 DEF Hands, Places
    <2> QED
      BY <1>0, <2>1, <2>2, <2>3 DEF Types
  <1>2. InHand' /\ WarmWork'
    BY <1>0 DEF InHand, WarmWork
  <1>3. Held'
    <2> SUFFICES ASSUME NEW m \in reported
                 PROVE  /\ m.epoch <= crashes + 1 /\ m.epoch # crashes + 1
                        /\ m.outcome = "routed" /\ m.profile # "local" =>
                              AtConsole(m.escalation)'
      BY <1>0 DEF Held, Owed
    <2>1. m.epoch <= crashes /\ m.epoch \in Nat /\ crashes \in Nat
      <3>1. m \in Reports
        BY <1>0 DEF Types
      <3> QED
        BY <3>1, <1>0 DEF Types, Reports, Held
    <2>2. AtConsole(m.escalation) => AtConsole(m.escalation)'
      BY <1>0, ConsoleKeeps
    <2> QED
      BY <2>1, <2>2, <1>0 DEF Held
  <1> QED
    BY <1>1, <1>2, <1>3 DEF Inv

LEMMA NextInv == Inv /\ [Next]_vars => Inv'
  <1> SUFFICES ASSUME Inv, [Next]_vars PROVE Inv'
    OBVIOUS
  <1>1. ASSUME NEW t \in Threads,
               \/ \E e \in Escalations : Begin(t, e)
               \/ BuildContainer(t) \/ ReadRouter(t) \/ BuildRouter(t) \/ Route(t)
        PROVE  Inv'
    BY <1>1, BeginInv, BuildContainerInv, ReadRouterInv, BuildRouterInv, RouteInv
  <1>2. ASSUME NEW surface \in {"tool", "cli"}, NEW e \in Escalations, CallAlone(surface, e)
        PROVE  Inv'
    BY <1>2, CallAloneInv
  <1>3. CASE Flush
    BY <1>3, FlushInv
  <1>4. CASE Crash
    BY <1>4, CrashInv
  <1>5. CASE UNCHANGED vars
    BY <1>5 DEF vars, lazy, Inv, Types, InHand, WarmWork, OnItsWay, Settled, Held, Owed,
                AtConsole, InReach
  <1> QED
    BY <1>1, <1>2, <1>3, <1>4, <1>5 DEF Next

LEMMA SpecInv == Spec => []Inv
  BY InitInv, NextInv, PTL DEF Spec

(* Calls that begin once a container and its router are in place all route *)
(* through that router, however they overlap (config.py, cached_property). *)
THEOREM WarmCallsShare == Spec => []WarmCallsShareTheRouter
  <1>1. Inv => WarmCallsShareTheRouter
    BY DEF Inv, WarmWork, OnItsWay, WarmCallsShareTheRouter
  <1> QED
    BY SpecInv, <1>1, PTL

(* An escalation reported as routed has a case at the console or waits in  *)
(* the outbox an operator can flush, but for the three ways the property   *)
(* names: a restart, a container of its own, an early race.                *)
THEOREM RoutedEscalationsAreHeld == Spec => []RoutedIsHeld
  <1>1. Inv => RoutedIsHeld
    BY DEF Inv, Held, Owed, RoutedIsHeld
  <1> QED
    BY SpecInv, <1>1, PTL

=============================================================================
