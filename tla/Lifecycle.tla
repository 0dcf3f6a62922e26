----------------------------- MODULE Lifecycle -----------------------------
(***************************************************************************)
(* Start, Stop and Restart of the menu bar's ProxyController               *)
(* (src/internal/menubar/controller.go).                                   *)
(*                                                                         *)
(* The application starts the proxy by itself, the user's clicks start,    *)
(* stop and restart it, and quitting stops it: three goroutines, whose     *)
(* calls overlap.  Each Start that gets as far as a listener makes a run;  *)
(* the goroutine of a run serves it, publishes how it ended, closes its    *)
(* registry and then its done channel.  Steps are cut where the            *)
(* controller's mu is released and where a goroutine waits.                *)
(*                                                                         *)
(* Abstracted: reg, cfg, baseCtx and tunnels are set and cleared together, *)
(* and are one variable; so are cancel and done.  The tunnels have a       *)
(* module of their own.  Serve does not panic (it accepts and starts       *)
(* goroutines), so the recover of a run is left out.                       *)
(***************************************************************************)
CONSTANTS
    Starters,  \* goroutines that call Start and Restart
    Stoppers,  \* goroutines that call Stop and Restart
    Runs,      \* addresses of runs
    NoRun      \* nil

ASSUME RunsAssumption == NoRun \notin Runs

Callers == Starters \cup Stoppers

VARIABLES
    state,      \* ProxyController.state
    current,    \* the run of reg, cfg, baseCtx and tunnels
    latest,     \* the run of cancel and done
    pc,         \* where each caller is
    mine,       \* the run a caller starts, or found in cancel and done
    restarting, \* the callers in Restart
    stage,      \* how far the goroutine of a run has come
    open,       \* the runs whose listener holds the port
    cancelled,  \* the runs whose context is cancelled
    crashed     \* the runs whose Accept failed by itself, the listener open

vars == <<state, current, latest, pc, mine, restarting, stage, open, cancelled,
          crashed>>

fields == <<state, current, latest>>
runVars == <<stage, open, cancelled, crashed>>

States == {"stopped", "starting", "running", "error"}

Locations == {"idle",
              "load",      \* Start: loading the configuration
              "tunnels",   \* Start: listening, building the tunnels
              "serve",     \* Start: running, Serve not yet called
              "cancel", "wait", "clear", \* Stop
              "restart"}   \* Restart: between Stop and Start

Stages == {"none",     \* no goroutine (yet)
           "serving",  \* in srv.Serve
           "served",   \* Serve has returned as it was told to
           "failed",   \* Serve has returned an unexpected error
           "closing",  \* state is settled, reg.Close runs
           "ended"}    \* done is closed

TypeOK ==
    /\ state \in States
    /\ current \in Runs \cup {NoRun}
    /\ latest \in Runs \cup {NoRun}
    /\ pc \in [Callers -> Locations]
    /\ mine \in [Callers -> Runs \cup {NoRun}]
    /\ restarting \subseteq Starters \cap Stoppers
    /\ stage \in [Runs -> Stages]
    /\ open \subseteq Runs
    /\ cancelled \subseteq Runs
    /\ crashed \subseteq Runs

Init ==
    /\ state = "stopped"
    /\ current = NoRun
    /\ latest = NoRun
    /\ pc = [a \in Callers |-> "idle"]
    /\ mine = [a \in Callers |-> NoRun]
    /\ restarting = {}
    /\ stage = [r \in Runs |-> "none"]
    /\ open = {}
    /\ cancelled = {}
    /\ crashed = {}

-----------------------------------------------------------------------------
(* Helpers *)

Goto(a, l) == pc' = [pc EXCEPT ![a] = l]

Return(a) ==
    /\ Goto(a, "idle")
    /\ mine' = [mine EXCEPT ![a] = NoRun]
    /\ restarting' = restarting \ {a}

\* An address that nothing refers to any more.
Fresh(r) ==
    /\ stage[r] \in {"none", "ended"}
    /\ r \notin open \cup {latest, current}
    /\ \A a \in Callers : mine[a] # r

-----------------------------------------------------------------------------
(* Start *)

\* Mistake: a Start at work does not keep another from beginning.
BeginStartUnlessRunning(a) ==
    /\ pc[a] = "restart" \/ (pc[a] = "idle" /\ a \in Starters)
    /\ IF state = "running"
       THEN Return(a) /\ UNCHANGED state
       ELSE /\ state' = "starting"
            /\ Goto(a, "load")
            /\ UNCHANGED <<mine, restarting>>
    /\ UNCHANGED <<current, latest, runVars>>

\* Start has taken mu: there is nothing to do, or state is Starting.
BeginStart(a) ==
    /\ pc[a] = "restart" \/ (pc[a] = "idle" /\ a \in Starters)
    /\ IF state \in {"running", "starting"}
       THEN Return(a) /\ UNCHANGED state
       ELSE /\ state' = "starting"
            /\ Goto(a, "load")
            /\ UNCHANGED <<mine, restarting>>
    /\ UNCHANGED <<current, latest, runVars>>

\* fail, and Start returns.
Fail(a) ==
    /\ state' = "error"
    /\ current' = NoRun
    /\ Return(a)

\* The configuration, the registry or the matcher is wrong, or the proxy's
\* port is taken.
StartFails(a) ==
    /\ pc[a] = "load"
    /\ Fail(a)
    /\ UNCHANGED <<latest, runVars>>

\* The proxy's port is bound.
Listen(a) ==
    /\ pc[a] = "load"
    /\ open = {}
    /\ \E r \in Runs :
          /\ Fresh(r)
          /\ mine' = [mine EXCEPT ![a] = r]
          /\ stage' = [stage EXCEPT ![r] = "none"]
          /\ open' = open \cup {r}
          /\ cancelled' = cancelled \ {r}
          /\ crashed' = crashed \ {r}
    /\ Goto(a, "tunnels")
    /\ UNCHANGED <<restarting, fields>>

\* A tunnel's port is taken: cancel, fail; the proxy's listener is left open.
TunnelsFail(a) ==
    /\ pc[a] = "tunnels"
    /\ cancelled' = cancelled \cup {mine[a]}
    /\ Fail(a)
    /\ UNCHANGED <<latest, stage, open, crashed>>

\* Mistake: cancel and done are left as they were.
PublishWithoutCancel(a) ==
    /\ pc[a] = "tunnels"
    /\ state' = "running"
    /\ current' = mine[a]
    /\ Goto(a, "serve")
    /\ UNCHANGED <<latest, mine, restarting, runVars>>

\* The tunnels are built, and the run is published under mu.
Publish(a) ==
    /\ pc[a] = "tunnels"
    /\ state' = "running"
    /\ current' = mine[a]
    /\ latest' = mine[a]
    /\ Goto(a, "serve")
    /\ UNCHANGED <<mine, restarting, runVars>>

\* The goroutine of the run is started, and Start returns.
Serve(a) ==
    /\ pc[a] = "serve"
    /\ stage' = [stage EXCEPT ![mine[a]] = "serving"]
    /\ Return(a)
    /\ UNCHANGED <<fields, open, cancelled, crashed>>

\* A listener nothing refers to is closed when it is collected (net's
\* finalizer), some time after TunnelsFail.
Collect(r) ==
    /\ stage[r] = "none"
    /\ r \in open
    /\ \A a \in Callers : mine[a] # r
    /\ open' = open \ {r}
    /\ UNCHANGED <<fields, pc, mine, restarting, stage, cancelled, crashed>>

-----------------------------------------------------------------------------
(* The goroutine of a run *)

\* Mistake: the listener is closed only while Serve runs.
CloseListenerWhileServing(r) ==
    /\ stage[r] = "serving"
    /\ r \in open \cap cancelled
    /\ open' = open \ {r}
    /\ UNCHANGED <<fields, pc, mine, restarting, stage, cancelled, crashed>>

\* The goroutine Serve leaves waiting for the context closes the listener.
CloseListener(r) ==
    /\ stage[r] # "none"
    /\ r \in open \cap cancelled
    /\ open' = open \ {r}
    /\ UNCHANGED <<fields, pc, mine, restarting, stage, cancelled, crashed>>

\* Mistake: Serve returns on cancel and leaves closing the listener for later.
ServeReturnsEarly(r) ==
    /\ stage[r] = "serving"
    /\ r \notin open \/ r \in cancelled
    /\ stage' = [stage EXCEPT ![r] = "served"]
    /\ UNCHANGED <<fields, pc, mine, restarting, open, cancelled, crashed>>

\* Accept fails because the listener was closed.
ServeReturns(r) ==
    /\ stage[r] = "serving"
    /\ r \notin open
    /\ stage' = [stage EXCEPT ![r] = "served"]
    /\ UNCHANGED <<fields, pc, mine, restarting, open, cancelled, crashed>>

\* Accept fails by itself.  If the context was cancelled meanwhile this passes
\* for the end that was asked for; otherwise the run cancels its own context.
ServeFails(r) ==
    /\ stage[r] = "serving"
    /\ r \in open
    /\ stage' = [stage EXCEPT ![r] = IF r \in cancelled THEN "served" ELSE "failed"]
    /\ cancelled' = cancelled \cup {r}
    /\ crashed' = crashed \cup {r}
    /\ UNCHANGED <<fields, pc, mine, restarting, open>>

\* How it ended is published under mu.
Settle(r) ==
    /\ stage[r] \in {"served", "failed"}
    /\ stage' = [stage EXCEPT ![r] = "closing"]
    /\ state' = IF state # "running" THEN state
                ELSE IF stage[r] = "failed" THEN "error" ELSE "stopped"
    /\ UNCHANGED <<current, latest, pc, mine, restarting, open, cancelled, crashed>>

\* reg.Close has returned, every VPN stopped, and done is closed.
End(r) ==
    /\ stage[r] = "closing"
    /\ stage' = [stage EXCEPT ![r] = "ended"]
    /\ UNCHANGED <<fields, pc, mine, restarting, open, cancelled, crashed>>

-----------------------------------------------------------------------------
(* Stop and Restart *)

\* Stop returns: to its caller, or to Restart, which calls Start.
StopReturns(a) ==
    /\ IF a \in restarting
       THEN Goto(a, "restart") /\ mine' = [mine EXCEPT ![a] = NoRun] /\ UNCHANGED restarting
       ELSE Return(a)

\* Stop has taken mu, in a call of its own or of Restart.
BeginStop(a) ==
    /\ pc[a] = "idle" /\ a \in Stoppers
    /\ restarting' \in {restarting} \cup IF a \in Starters THEN {restarting \cup {a}} ELSE {}
    /\ IF state \in {"running", "starting"}
       THEN mine' = [mine EXCEPT ![a] = latest] /\ Goto(a, "cancel")
       ELSE Goto(a, IF a \in restarting' THEN "restart" ELSE "idle") /\ UNCHANGED mine
    /\ UNCHANGED <<fields, runVars>>

Cancel(a) ==
    /\ pc[a] = "cancel"
    /\ cancelled' = cancelled \cup ({mine[a]} \ {NoRun})
    /\ Goto(a, "wait")
    /\ UNCHANGED <<fields, mine, restarting, stage, open, crashed>>

\* waitDone passes over a nil channel.
Waited(a) == \A r \in Runs : mine[a] = r => stage[r] = "ended"

WaitDone(a) ==
    /\ pc[a] = "wait"
    /\ Waited(a)
    /\ Goto(a, "clear")
    /\ UNCHANGED <<fields, mine, restarting, runVars>>

\* ShutdownTimeout is over: a VPN, or a tunnel, has not ended yet.
WaitTimeout(a) ==
    /\ pc[a] = "wait"
    /\ Goto(a, "clear")
    /\ UNCHANGED <<fields, mine, restarting, runVars>>

Clear(a) ==
    /\ pc[a] = "clear"
    /\ current' = NoRun
    /\ StopReturns(a)
    /\ UNCHANGED <<state, latest, runVars>>

-----------------------------------------------------------------------------
Start(a) ==
    BeginStart(a) \/ StartFails(a) \/ Listen(a) \/ TunnelsFail(a) \/ Publish(a) \/ Serve(a)

Run(r) ==
    Collect(r) \/ CloseListener(r) \/ ServeReturns(r) \/ ServeFails(r) \/ Settle(r) \/ End(r)

Stop(a) == BeginStop(a) \/ Cancel(a) \/ WaitDone(a) \/ WaitTimeout(a) \/ Clear(a)

Next ==
    \/ \E a \in Callers : Start(a) \/ Stop(a)
    \/ \E r \in Runs : Run(r)

Spec == Init /\ [][Next]_vars

-----------------------------------------------------------------------------
(* Fairness: a call goes on, whatever its outcome, the wait of Stop ends by  *)
(* done or by its timeout, and the goroutine of a run goes on, but for       *)
(* reg.Close, which waits for the VPNs to exit (EveryCallReturns of          *)
(* OpenConnect).  Calls are free.                                            *)

Fairness ==
    /\ \A a \in Callers :
          /\ WF_vars(pc[a] = "restart" /\ BeginStart(a))
          /\ WF_vars(StartFails(a) \/ Listen(a) \/ TunnelsFail(a) \/ Publish(a))
          /\ WF_vars(Serve(a))
          /\ WF_vars(Cancel(a) \/ WaitDone(a) \/ WaitTimeout(a) \/ Clear(a))
    /\ \A r \in Runs :
          /\ WF_vars(CloseListener(r))
          /\ WF_vars(ServeReturns(r))
          /\ WF_vars(Settle(r))

FairSpec == Spec /\ Fairness

-----------------------------------------------------------------------------
(* Safety *)

\* The runs that have been published and have not settled.
Live == {r \in Runs : stage[r] \in {"serving", "served", "failed"}
                        \/ \E a \in Callers : pc[a] = "serve" /\ mine[a] = r}

\* The state the menu shows is the proxy's: running exactly while a run is
\* live, starting exactly while a Start is at work, and never two of either,
\* however starts, stops and restarts overlap.
StateIsFaithful ==
    /\ state = "running" <=> Live # {}
    /\ state = "starting" <=> \E a \in Callers : pc[a] \in {"load", "tunnels"}
    /\ \A r, s \in Live : r = s
    /\ \A a, b \in Callers : {pc[a], pc[b]} \subseteq {"load", "tunnels", "serve"} => a = b

\* A Start finds the proxy's port free of every earlier run that ended as it
\* should, also when the Stop before it timed out ("the listener is already
\* closed, so Start can rebind", controller.go:568).
PortFreeOnStart ==
    \A a \in Callers : pc[a] = "load" => \A r \in open : r \in crashed \/ stage[r] = "none"

\* What Stop cancels is the run that runs: the cancel and done it finds are
\* never those of an older run while another is live.
LatestIsLive == Live # {} => Live = {latest}

(* Liveness *)

\* A run that was cancelled, by Stop or by its own failure, at whatever moment,
\* frees its port and comes to the closing of its registry.
CancelledRunEnds ==
    \A r \in Runs :
        stage[r] \in {"serving", "served", "failed"} /\ r \in cancelled
            ~> stage[r] \in {"closing", "ended"} /\ r \notin open

(* What the comments promise and the code does not keep *)

\* "Stop cancels the proxy and every still-running tunnel.  Returns nil if
\* already stopped" (controller.go:519): once Stop has found the proxy
\* starting or running, it does stop.
StopStops ==
    \A a \in Stoppers : pc[a] = "cancel" ~> state \notin {"starting", "running"}

=============================================================================
