---------------------------- MODULE Walkthrough ----------------------------
(***************************************************************************)
(* The walkthrough of the live demo: a server that holds one run behind a  *)
(* lock (scripts/demo_server.py), a presenter's terminal that drives it    *)
(* over HTTP and checks every step (scripts/walkthrough.py), and the page  *)
(* with its own Next and Restart buttons that the terminal opened.         *)
(*                                                                         *)
(* A request and the read of the state that follows it are two requests:   *)
(* somebody at the page may come between them. A step may raise, and the   *)
(* server may die.                                                         *)
(***************************************************************************)
EXTENDS DemoRun

CONSTANTS
    MaxRuns,    \* bound on the runs, that is on restarts
    MaxFaults,  \* bound on the steps that raise
    MaxPresses, \* bound on the presses at the page
    Jumps       \* the numbers the presenter types, brought into range

ASSUME WalkthroughAssumption ==
    /\ MaxRuns \in Nat \ {0}
    /\ MaxFaults \in Nat /\ MaxPresses \in Nat
    /\ Jumps \subseteq 1 .. Len(STEPS)

VARIABLES
    server,    \* "starting", "up" or "down"
    run,       \* the run the server holds: {} before the first
    faults,    \* how many requests raised
    spawned,   \* whether the walkthrough started the server itself
    auto,      \* whether it runs unattended
    pc,        \* where the walkthrough is
    request,   \* what it is about to post
    target,    \* the step a jump goes to, 0 without one
    state,     \* the snapshot it looks at: {} before the first
    seen,      \* the steps it checked, each with the run it checked it on
    failures,  \* the problems it found
    verdict,   \* how it ended
    presses,   \* how often the page was pressed
    meddled    \* whether the page restarted the run

vars == <<server, run, faults, spawned, auto, pc, request, target, state, seen, failures, verdict,
          presses, meddled>>
page == <<presses, meddled>>
presenter == <<spawned, auto, pc, request, target, state, seen, failures, verdict>>

Init ==
    /\ server = "starting"
    /\ run = {} /\ faults = 0 /\ presses = 0 /\ meddled = FALSE
    /\ spawned \in BOOLEAN /\ auto \in BOOLEAN
    /\ pc = "waiting" /\ request = "none" /\ target = 0 /\ state = {}
    /\ seen = {} /\ failures = {} /\ verdict = "none"

RunId == CHOOSE i \in 0 .. MaxRuns : \A r \in run : r.id = i

-----------------------------------------------------------------------------
\* The server. Each request holds the lock from its beginning to its end.

\* A request that raises leaves what it had done, and its caller without an answer.
Advanced(raised) ==
    /\ faults' = faults + If(raised) /\ faults' <= MaxFaults
    /\ \E r \in run : \E o \in Advance(r) : o.raised = raised /\ run' = {o.run}

\* A restart that raises leaves the run before it in place.
Restarted(raised) ==
    /\ faults' = faults + If(raised) /\ faults' <= MaxFaults
    /\ RunId < MaxRuns
    /\ \E o \in NewRun(RunId + 1, run) :
        o.raised = raised /\ run' = IF raised THEN run ELSE {o.run}

Boot ==
    /\ server = "starting"
    /\ \E o \in NewRun(1, {}) :
        IF o.raised THEN server' = "down" /\ UNCHANGED run ELSE server' = "up" /\ run' = {o.run}
    /\ UNCHANGED <<faults, presenter, page>>

Die ==
    /\ server = "up" /\ pc # "ended"
    /\ server' = "down"
    /\ UNCHANGED <<run, faults, presenter, page>>

\* The page: somebody presses Next or Restart. What happens to the server after the walkthrough
\* has ended is not followed.
Press == server = "up" /\ pc # "ended" /\ presses < MaxPresses /\ presses' = presses + 1

PageNext ==
    /\ Press
    /\ \E raised \in BOOLEAN : Advanced(raised)
    /\ UNCHANGED <<server, presenter, meddled>>

PageRestart ==
    /\ Press
    /\ \E raised \in BOOLEAN : Restarted(raised)
    /\ meddled' = TRUE
    /\ UNCHANGED <<server, presenter>>
-----------------------------------------------------------------------------
\* The walkthrough.

Ended(how) == pc' = "ended" /\ verdict' = how
Continue(place) == pc' = place /\ UNCHANGED verdict

\* It polls until the server answers, exits, or has had its time.
WaitFor ==
    /\ pc = "waiting"
    /\ \/ server = "up" /\ Continue("reading")
       \/ server = "down" /\ spawned /\ Ended("server-exited")
       \/ server # "up" /\ Ended("never-ready")
    /\ UNCHANGED <<server, run, faults, spawned, auto, request, target, state, seen, failures,
                   page>>

\* GET /state. A jump goes on posting until it is there.
ReadState ==
    /\ pc = "reading"
    /\ IF server = "up"
       THEN /\ state' = {Snapshot(r) : r \in run}
            /\ Continue(IF \E s \in state' : s.number < target /\ ~s.done THEN "posting"
                        ELSE "checking")
       ELSE Ended("no-answer") /\ UNCHANGED state
    /\ UNCHANGED <<server, run, faults, spawned, auto, request, target, seen, failures, page>>

\* Mutant of Check: the loop does not look whether the run is finished.
CheckGoesOn ==
    /\ pc = "checking"
    /\ \E s \in state :
        /\ failures' = failures \cup Problems(s)
        /\ seen' = seen \cup {[key |-> s.step, run |-> s.run]}
        /\ Continue("prompt")
    /\ target' = 0 /\ request' = "none"
    /\ UNCHANGED <<server, run, faults, spawned, auto, state, page>>

\* The expectations of the step the snapshot ends with; after the last step, the verdict.
Check ==
    /\ pc = "checking"
    /\ \E s \in state :
        /\ failures' = failures \cup Problems(s)
        /\ seen' = seen \cup {[key |-> s.step, run |-> s.run]}
        /\ IF s.done
           THEN Ended(IF failures' = {} /\ StepKeys \subseteq {k.key : k \in seen'}
                      THEN "pass" ELSE "fail")
           ELSE Continue("prompt")
    /\ target' = 0 /\ request' = "none"
    /\ UNCHANGED <<server, run, faults, spawned, auto, state, page>>

\* The presenter's instruction. A jump backwards, or to this step, checks it once more. The
\* snapshot of the prompt is not looked at again once something is posted.
Instruct ==
    /\ pc = "prompt"
    /\ \/ request' = "/next" /\ target' = 0 /\ state' = {} /\ Continue("posting")
       \/ ~auto /\ request' = "/restart" /\ target' = 0 /\ state' = {} /\ Continue("posting")
       \/ ~auto /\ \E n \in Jumps :
            \/ /\ \E s \in state : s.number < n
               /\ request' = "/next" /\ target' = n /\ state' = {} /\ Continue("posting")
            \/ /\ \E s \in state : s.number >= n
               /\ Continue("checking") /\ UNCHANGED <<request, target, state>>
       \/ /\ ~auto
          /\ Ended(IF failures = {} THEN "quit" ELSE "fail")
          /\ UNCHANGED <<request, target, state>>
    /\ UNCHANGED <<server, run, faults, spawned, auto, seen, failures, page>>

\* Mutant of Post: a restart does not forget the steps of the run before.
PostForgetsNothing ==
    /\ pc = "posting"
    /\ IF server # "up" THEN Ended("no-answer") /\ UNCHANGED <<run, faults>>
       ELSE \E raised \in BOOLEAN :
                /\ IF request = "/restart" THEN Restarted(raised) ELSE Advanced(raised)
                /\ IF raised THEN Ended("no-answer") ELSE Continue("reading")
    /\ UNCHANGED <<server, spawned, auto, request, target, state, seen, failures, page>>

\* POST /next or /restart. An answer that does not come ends the walkthrough; its own restart
\* forgets the steps it checked, not the problems it found.
Post ==
    /\ pc = "posting"
    /\ IF server # "up" THEN Ended("no-answer") /\ UNCHANGED <<run, faults, seen>>
       ELSE \E raised \in BOOLEAN :
                /\ IF request = "/restart" THEN Restarted(raised) ELSE Advanced(raised)
                /\ IF raised THEN Ended("no-answer") ELSE Continue("reading")
                /\ seen' = IF request = "/restart" THEN {} ELSE seen
    /\ UNCHANGED <<server, spawned, auto, request, target, state, failures, page>>

Present == WaitFor \/ ReadState \/ Check \/ Instruct \/ Post

Next == Boot \/ Die \/ PageNext \/ PageRestart \/ Present

\* The terminal goes on by itself as long as it is not waiting for somebody's instruction.
Spec == Init /\ [][Next]_vars
FairSpec == Spec /\ WF_vars(Present /\ (auto \/ pc # "prompt"))
-----------------------------------------------------------------------------
\* No false alarm: whatever was pressed, whichever steps raised halfway and were performed
\* again, and however often the demo was restarted in one process, the run the server holds
\* meets the expectations of the step it shows (demo.py:302-601 with walkthrough.py:63-144).
ClaimsHold == server = "up" => \A r \in run : Problems(Snapshot(r)) = {}

\* A pass is about one run: unless the page restarted it, every step of the arc was checked on
\* the run that the walkthrough ended with, whatever the page advanced and wherever the
\* presenter jumped (walkthrough.py:245-292).
PassIsOneRun ==
    verdict = "pass" /\ ~meddled =>
        \A s \in state : \A key \in StepKeys : [key |-> key, run |-> s.run] \in seen

\* Unattended, it comes to a verdict, whoever is at the page and whenever the server dies
\* (walkthrough.py:189-199, 245-292).
Concludes == auto ~> pc = "ended"
=============================================================================
