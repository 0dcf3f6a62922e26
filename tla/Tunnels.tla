------------------------------ MODULE Tunnels ------------------------------
(***************************************************************************)
(* The listeners ("tunnels") of one run of the menu bar's ProxyController, *)
(* from the end of Start to the end of Stop                                *)
(* (src/internal/menubar/controller.go).                                   *)
(*                                                                         *)
(* A tunnel pinned to an upstream with a connection listens while that     *)
(* upstream is connected: every state change of a connection starts a      *)
(* goroutine that runs syncTunnels under syncMu.  Meanwhile the user stops *)
(* and starts tunnels, connectTunnel brings upstreams up, Serve goroutines *)
(* end and clean up after themselves, and Stop ends it all.                *)
(*                                                                         *)
(* Steps are cut where the controller's mu is released.  Abstracted: what  *)
(* bindTunnel creates (a listener, its context and its done channel) is    *)
(* one binding with an address in Binds; the goroutines waiting for syncMu *)
(* have no state of their own and are counted; d.State() of the pinned     *)
(* upstreams is read in one step, each change of it being announced; a     *)
(* sync takes the tunnels of a list in any order.                          *)
(***************************************************************************)
EXTENDS Naturals

CONSTANTS
    TunnelNames, \* the configured listeners
    Upstreams,   \* the upstreams with a connection (ssh, openconnect)
    Pin,         \* the upstream a tunnel is pinned to, or None
    Users,       \* goroutines that run StopTunnel and StartTunnel
    Sync,        \* the syncTunnels run that holds syncMu
    Binds,       \* addresses of bindings
    None,        \* nil, or no such thing
    MaxQueued    \* bound: syncTunnels goroutines waiting for syncMu

ASSUME PinAssumption ==
    /\ Pin \in [TunnelNames -> Upstreams \cup {None}]
    /\ None \notin Upstreams \cup TunnelNames

\* The menu runs one action at a time (runBusy, tray.go:116).
ASSUME ActorAssumption ==
    /\ Sync \notin Users
    /\ \A u, v \in Users : u = v

ASSUME BindAssumption == None \notin Binds

ASSUME BoundAssumption == MaxQueued \in Nat

Pinned == {t \in TunnelNames : Pin[t] # None}
Actors == Users \cup {Sync}

VARIABLES
    running,   \* state is StateRunning and baseCtx is not cancelled
    connected, \* the upstreams whose State() is ConnConnected
    queued,    \* syncTunnels goroutines waiting for syncMu
    toBind,    \* bind, in the running syncTunnels
    toUnbind,  \* unbind, in the running syncTunnels
    stopped,   \* the tunnels with h.stopped
    srv,       \* h.srv, and h.cancel and h.done with it
    of,        \* the tunnel a binding was made for
    open,      \* the bindings whose listener holds its port
    cancelled, \* the bindings whose h.cancel was called
    serving,   \* the bindings whose Serve goroutine has not closed done
    ups,       \* the tunnels a connectTunnel goroutine runs Up for
    pc,        \* where each actor is
    mine,      \* the binding an actor waits for, or has bound
    tun,       \* the tunnel an actor works on
    mishap     \* history: the tunnels whose last bind failed, whose Serve
               \* ended by itself, or whose unbind timed out

vars == <<running, connected, queued, toBind, toUnbind, stopped, srv, of, open,
          cancelled, serving, ups, pc, mine, tun, mishap>>

syncVars == <<queued, toBind, toUnbind>>
bindVars == <<srv, of, open, serving>>

Locations == {"idle",    \* a user: not in a call; Sync: syncMu is free
              "run",     \* Sync: between two tunnels of its lists
              "unbind",  \* a user: in StopTunnel, before unbindTunnel
              "wait",    \* unbindTunnel: waiting for done
              "bind",    \* bindTunnel: about to listen
              "publish"} \* bindTunnel: listening, h.srv not yet set

TypeOK ==
    /\ running \in BOOLEAN
    /\ connected \subseteq Upstreams
    /\ queued \in Nat
    /\ toBind \subseteq Pinned /\ toUnbind \subseteq Pinned
    /\ stopped \subseteq TunnelNames
    /\ srv \in [TunnelNames -> Binds \cup {None}]
    /\ of \in [Binds -> TunnelNames \cup {None}]
    /\ open \subseteq Binds /\ cancelled \subseteq Binds /\ serving \subseteq Binds
    /\ ups \subseteq Pinned
    /\ pc \in [Actors -> Locations]
    /\ mine \in [Actors -> Binds \cup {None}]
    /\ tun \in [Actors -> TunnelNames \cup {None}]
    /\ mishap \subseteq TunnelNames

\* Start has bound and served every tunnel that follows no connection.
Init ==
    /\ running = TRUE
    /\ connected = {}
    /\ queued = 0
    /\ toBind = {} /\ toUnbind = {}
    /\ stopped = {}
    /\ srv \in [TunnelNames -> Binds \cup {None}]
    /\ \A t \in TunnelNames : srv[t] = None <=> t \in Pinned
    /\ of \in [Binds -> TunnelNames \cup {None}]
    /\ \A t \in TunnelNames, b \in Binds : of[b] = t <=> srv[t] = b
    /\ open = {srv[t] : t \in TunnelNames \ Pinned}
    /\ cancelled = {}
    /\ serving = open
    /\ ups = {}
    /\ pc = [a \in Actors |-> "idle"]
    /\ mine = [a \in Actors |-> None]
    /\ tun = [a \in Actors |-> None]
    /\ mishap = {}

-----------------------------------------------------------------------------
(* Helpers *)

Goto(a, l) == pc' = [pc EXCEPT ![a] = l]

\* bindTunnel and unbindTunnel return to syncTunnels, or end the user's call.
Back(a) ==
    /\ Goto(a, IF a = Sync THEN "run" ELSE "idle")
    /\ mine' = [mine EXCEPT ![a] = None]
    /\ tun' = [tun EXCEPT ![a] = None]

\* The context of b is done.
Cancelled(b) == b \in cancelled \/ ~running

Fresh(b) ==
    /\ b \notin open \cup serving
    /\ \A t \in TunnelNames : srv[t] # b
    /\ \A a \in Actors : mine[a] # b

Up(t) == Pin[t] \in connected

\* unbindTunnel up to its wait: nothing to do when the tunnel is not bound.
Unbind(a, t) ==
    IF srv[t] = None
    THEN Back(a) /\ UNCHANGED cancelled
    ELSE /\ cancelled' = cancelled \cup {srv[t]}
         /\ mine' = [mine EXCEPT ![a] = srv[t]]
         /\ Goto(a, "wait")
         /\ UNCHANGED tun

-----------------------------------------------------------------------------
(* unbindTunnel and bindTunnel, called by a user or by syncTunnels *)

\* Mistake: unbindTunnel does not wait for Serve to return.
WaitDoneAtOnce(a) ==
    /\ pc[a] = "wait"
    /\ Back(a)
    /\ UNCHANGED <<running, connected, stopped, cancelled, ups, mishap, syncVars, bindVars>>

\* done is closed.
WaitDone(a) ==
    /\ pc[a] = "wait"
    /\ mine[a] \notin serving
    /\ Back(a)
    /\ UNCHANGED <<running, connected, stopped, cancelled, ups, mishap, syncVars, bindVars>>

\* ShutdownTimeout is over before Serve has returned.
WaitTimeout(a) ==
    /\ pc[a] = "wait"
    /\ mine[a] \in serving
    /\ mishap' = mishap \cup {of[mine[a]]}
    /\ Back(a)
    /\ UNCHANGED <<running, connected, stopped, cancelled, ups, syncVars, bindVars>>

\* Mistake: bindTunnel does not look whether the tunnel is bound.
ListenUnchecked(a) ==
    /\ pc[a] = "bind"
    /\ \A b \in open : of[b] # tun[a]
    /\ \E b \in Binds :
          /\ Fresh(b)
          /\ open' = open \cup {b}
          /\ of' = [of EXCEPT ![b] = tun[a]]
          /\ cancelled' = cancelled \ {b}
          /\ mine' = [mine EXCEPT ![a] = b]
    /\ Goto(a, "publish")
    /\ UNCHANGED <<running, connected, stopped, ups, tun, mishap, syncVars, srv, serving>>

\* bindTunnel: the tunnel is bound already, or its port is bound now.
Listen(a) ==
    /\ pc[a] = "bind"
    /\ IF srv[tun[a]] # None
       THEN Back(a) /\ UNCHANGED <<of, open, cancelled>>
       ELSE /\ \A b \in open : of[b] # tun[a]
            /\ \E b \in Binds :
                  /\ Fresh(b)
                  /\ open' = open \cup {b}
                  /\ of' = [of EXCEPT ![b] = tun[a]]
                  /\ cancelled' = cancelled \ {b}
                  /\ mine' = [mine EXCEPT ![a] = b]
            /\ Goto(a, "publish")
            /\ UNCHANGED tun
    /\ UNCHANGED <<running, connected, stopped, ups, mishap, syncVars, srv, serving>>

\* listener.New fails: the port is taken, by an old binding or another program.
ListenFails(a) ==
    /\ pc[a] = "bind"
    /\ srv[tun[a]] = None
    /\ mishap' = mishap \cup {tun[a]}
    /\ Back(a)
    /\ UNCHANGED <<running, connected, stopped, cancelled, ups, syncVars, bindVars>>

\* h.srv is set under mu and Serve runs on its own goroutine.
Publish(a) ==
    /\ pc[a] = "publish"
    /\ srv' = [srv EXCEPT ![tun[a]] = mine[a]]
    /\ serving' = serving \cup {mine[a]}
    /\ mishap' = mishap \ {tun[a]}
    /\ Back(a)
    /\ UNCHANGED <<running, connected, stopped, of, open, cancelled, ups, syncVars>>

-----------------------------------------------------------------------------
(* syncTunnels *)

\* Mistake: the tunnels that follow no connection are not skipped.
SyncDecideAll ==
    /\ pc[Sync] = "idle"
    /\ queued > 0
    /\ queued' = queued - 1
    /\ toBind' = {t \in TunnelNames : Up(t) /\ t \notin stopped /\ srv[t] = None}
    /\ toUnbind' = {t \in TunnelNames : (~Up(t) \/ t \in stopped) /\ srv[t] # None}
    /\ Goto(Sync, "run")
    /\ UNCHANGED <<running, connected, stopped, cancelled, ups, mine, tun, mishap, bindVars>>

\* It takes syncMu and decides, under mu, which tunnels to bind and unbind.
SyncDecide ==
    /\ pc[Sync] = "idle"
    /\ queued > 0
    /\ queued' = queued - 1
    /\ IF running
       THEN /\ toBind' = {t \in Pinned : Up(t) /\ t \notin stopped /\ srv[t] = None}
            /\ toUnbind' = {t \in Pinned : (~Up(t) \/ t \in stopped) /\ srv[t] # None}
            /\ Goto(Sync, "run")
       ELSE UNCHANGED <<toBind, toUnbind, pc>>
    /\ UNCHANGED <<running, connected, stopped, cancelled, ups, mine, tun, mishap, bindVars>>

SyncUnbind ==
    /\ pc[Sync] = "run"
    /\ \E t \in toUnbind :
          /\ toUnbind' = toUnbind \ {t}
          /\ Unbind(Sync, t)
    /\ UNCHANGED <<running, connected, queued, toBind, stopped, ups, mishap, bindVars>>

SyncBind ==
    /\ pc[Sync] = "run"
    /\ toUnbind = {}
    /\ \E t \in toBind :
          /\ toBind' = toBind \ {t}
          /\ tun' = [tun EXCEPT ![Sync] = t]
    /\ Goto(Sync, "bind")
    /\ UNCHANGED <<running, connected, queued, toUnbind, stopped, cancelled, ups, mine,
                   mishap, bindVars>>

\* It returns and releases syncMu.
SyncEnd ==
    /\ pc[Sync] = "run"
    /\ toUnbind = {} /\ toBind = {}
    /\ Goto(Sync, "idle")
    /\ UNCHANGED <<running, connected, stopped, cancelled, ups, mine, tun, mishap,
                   syncVars, bindVars>>

-----------------------------------------------------------------------------
(* The user, connectTunnel and Stop *)

StopTunnel(u, t) ==
    /\ pc[u] = "idle"
    /\ stopped' = stopped \cup {t}
    /\ tun' = [tun EXCEPT ![u] = t]
    /\ Goto(u, "unbind")
    /\ UNCHANGED <<running, connected, cancelled, ups, mine, mishap, syncVars, bindVars>>

\* mu has been released in between.
StopTunnelUnbind(u) ==
    /\ pc[u] = "unbind"
    /\ Unbind(u, tun[u])
    /\ UNCHANGED <<running, connected, stopped, ups, mishap, syncVars, bindVars>>

StartTunnel(u, t) ==
    /\ pc[u] = "idle"
    /\ running
    /\ stopped' = stopped \ {t}
    /\ IF t \in Pinned
       THEN ups' = ups \cup {t} /\ UNCHANGED <<pc, tun>>
       ELSE Goto(u, "bind") /\ tun' = [tun EXCEPT ![u] = t] /\ UNCHANGED ups
    /\ UNCHANGED <<running, connected, cancelled, mine, mishap, syncVars, bindVars>>

\* Mistake: connectTunnel leaves it to the state change to run syncTunnels.
UpReturnsUnsynced(t) ==
    /\ t \in ups
    /\ ups' = ups \ {t}
    /\ UNCHANGED <<running, connected, queued, toBind, toUnbind, stopped, cancelled, pc, mine,
                   tun, mishap, bindVars>>

\* connectTunnel: Up has returned, whatever its outcome; it calls syncTunnels.
UpReturns(t) ==
    /\ t \in ups
    /\ queued < MaxQueued
    /\ ups' = ups \ {t}
    /\ queued' = queued + 1
    /\ UNCHANGED <<running, connected, toBind, toUnbind, stopped, cancelled, pc, mine,
                   tun, mishap, bindVars>>

\* Mistake: a state change starts no syncTunnels while one is running.
StateChangeIfIdle(u) ==
    /\ queued < MaxQueued
    /\ connected' = IF u \in connected THEN connected \ {u} ELSE connected \cup {u}
    /\ queued' = IF pc[Sync] = "idle" THEN queued + 1 ELSE queued
    /\ UNCHANGED <<running, toBind, toUnbind, stopped, cancelled, ups, pc, mine, tun,
                   mishap, bindVars>>

\* A connection goes up or down; its OnStateChange hook starts a syncTunnels.
StateChange(u) ==
    /\ queued < MaxQueued
    /\ connected' = IF u \in connected THEN connected \ {u} ELSE connected \cup {u}
    /\ queued' = queued + 1
    /\ UNCHANGED <<running, toBind, toUnbind, stopped, cancelled, ups, pc, mine, tun,
                   mishap, bindVars>>

\* Stop cancels baseCtx, and every binding's context with it.
Stop ==
    /\ running
    /\ running' = FALSE
    /\ UNCHANGED <<connected, stopped, cancelled, ups, pc, mine, tun, mishap,
                   syncVars, bindVars>>

-----------------------------------------------------------------------------
(* Serve, and the goroutine serveTunnel runs it on *)

\* Some actor has b listening and has not handed it to serveTunnel yet.
Unpublished(b) == \E a \in Actors : pc[a] = "publish" /\ mine[a] = b

\* The goroutine Serve leaves waiting for the context closes the listener.
CloseListener(b) ==
    /\ b \in open
    /\ Cancelled(b) /\ ~Unpublished(b)
    /\ open' = open \ {b}
    /\ UNCHANGED <<running, connected, stopped, cancelled, ups, pc, mine, tun, mishap,
                   syncVars, srv, of, serving>>

\* serveTunnel after Serve: the handle's fields are cleared, whatever they
\* are by now, and done is closed.
Clear(b) ==
    /\ srv' = [srv EXCEPT ![of[b]] = None]
    /\ serving' = serving \ {b}

\* Mistake: Serve returns on cancel and leaves closing the listener for later.
ServeReturnsEarly(b) ==
    /\ b \in serving
    /\ b \notin open \/ Cancelled(b)
    /\ Clear(b)
    /\ UNCHANGED <<running, connected, stopped, cancelled, ups, pc, mine, tun, mishap,
                   syncVars, of, open>>

ServeReturns(b) ==
    /\ b \in serving
    /\ b \notin open
    /\ Clear(b)
    /\ UNCHANGED <<running, connected, stopped, cancelled, ups, pc, mine, tun, mishap,
                   syncVars, of, open>>

\* Accept fails though nobody has closed the listener (out of descriptors), and
\* Serve returns without closing it, before a cancel or between a cancel and
\* the close it asks for.
ServeFails(b) ==
    /\ b \in serving
    /\ b \in open
    /\ mishap' = mishap \cup {of[b]}
    /\ Clear(b)
    /\ UNCHANGED <<running, connected, stopped, cancelled, ups, pc, mine, tun,
                   syncVars, of, open>>

-----------------------------------------------------------------------------
BindOrUnbind(a) ==
    WaitDone(a) \/ WaitTimeout(a) \/ Listen(a) \/ ListenFails(a) \/ Publish(a)

SyncStep == SyncDecide \/ SyncUnbind \/ SyncBind \/ SyncEnd

Serve(b) == CloseListener(b) \/ ServeReturns(b) \/ ServeFails(b)

Next ==
    \/ \E a \in Actors : BindOrUnbind(a)
    \/ SyncStep
    \/ \E u \in Users : StopTunnelUnbind(u)
    \/ \E u \in Users, t \in TunnelNames : StopTunnel(u, t) \/ StartTunnel(u, t)
    \/ \E t \in Pinned : UpReturns(t)
    \/ \E u \in Upstreams : StateChange(u)
    \/ \E b \in Binds : Serve(b)
    \/ Stop

Spec == Init /\ [][Next]_vars

-----------------------------------------------------------------------------
(* Fairness: every goroutine that can go on does, syncMu is handed on, a      *)
(* wait ends by done or by ShutdownTimeout, and Up of an upstream that is     *)
(* connected returns.  Users, connections and failures are free, and Up of    *)
(* one that is not connected may wait for its VPN as long as it likes.        *)

Fairness ==
    /\ \A a \in Actors :
          WF_vars(WaitDone(a) \/ WaitTimeout(a) \/ Listen(a) \/ ListenFails(a) \/ Publish(a))
    /\ WF_vars(SyncStep)
    /\ \A u \in Users : WF_vars(StopTunnelUnbind(u))
    /\ \A t \in Pinned : WF_vars(Up(t) /\ UpReturns(t))
    /\ \A b \in Binds : WF_vars(CloseListener(b)) /\ WF_vars(ServeReturns(b))

FairSpec == Spec /\ Fairness

-----------------------------------------------------------------------------
(* Safety *)

Listening(t) == srv[t] # None /\ ~Cancelled(srv[t])

\* Sync has decided to bind t and has not come to the end of it.
Binding(t) == t \in toBind \/ (pc[Sync] \in {"bind", "publish"} /\ tun[Sync] = t)

\* No tunnel is left listening on an upstream that has gone down: a sync that
\* will take it down is always waiting or under way, even when the upstream
\* went down after a sync had decided to bind (controller.go:702).
DownIsNoticed ==
    running => \A t \in Pinned :
                  Listening(t) /\ ~Up(t) => queued > 0 \/ t \in toUnbind

\* No tunnel is left unbound that should listen: if its upstream is connected
\* and it is not stopped, a sync or a connectTunnel that will see to it is on
\* its way, unless its last attempt failed (controller.go:702).
UpIsNoticed ==
    running => \A t \in Pinned :
                  Up(t) /\ t \notin stopped /\ srv[t] = None /\ t \notin mishap
                  => queued > 0 \/ t \in ups \/ Binding(t)

\* A tunnel that is about to be bound again finds its port free: whoever
\* unbound it has waited for its Serve to close the listener.
PortFreeOnRebind ==
    \A a \in Actors :
       pc[a] = "bind" /\ srv[tun[a]] = None /\ tun[a] \notin mishap
       => \A b \in open : of[b] # tun[a]

\* A binding that is served is the one its tunnel points to, so that Stop and
\* StopTunnel can cancel it: no Serve that ends late clears another's fields.
ServedIsKnown == \A b \in serving : srv[of[b]] = b

(* Liveness *)

\* A pinned tunnel follows its upstream: connected for good, it listens;
\* down for good, it does not.
TunnelFollows ==
    \A t \in Pinned :
       /\ <>[](running /\ Up(t) /\ t \notin stopped /\ t \notin mishap) => <>[]Listening(t)
       /\ <>[](~Up(t)) => <>[](~Listening(t))

(* What the comments promise and the code does not keep *)

\* Nobody is at work on a tunnel and nothing is about to happen by itself.
Quiet ==
    /\ queued = 0 /\ ups = {}
    /\ \A a \in Actors : pc[a] = "idle"
    /\ \A b \in open \cup serving : ~Cancelled(b)

\* StopTunnel "keeps it stopped until StartTunnel" (controller.go:467), and
\* syncTunnels makes a tunnel listen "exactly while that upstream is connected
\* and the tunnel is not stopped" (controller.go:702).
StoppedStaysStopped == Quiet => \A t \in stopped : ~Listening(t)

=============================================================================
