---------------------------- MODULE OpenConnect ----------------------------
(***************************************************************************)
(* openconnect.Client: one VPN process shared by every request routed      *)
(* through it (src/pkg/openconnect/client.go).  It looks like              *)
(* sshclient.Client, with one difference that matters: the goroutine that  *)
(* waits for the process to exit changes resolver and state without taking *)
(* mu, while get and start run under it.                                   *)
(*                                                                         *)
(* Goroutines run Get (Requests) or Up, Down and Close (Users).  Steps are *)
(* cut at mu, abortMu, each atomic another goroutine reads (held, state,   *)
(* resolver, process.up, process.stopping), the closing of process.done    *)
(* and the blocking waits.                                                 *)
(*                                                                         *)
(* Abstracted: a *process is an address in Procs, a *net.Resolver is the   *)
(* process whose nameservers it asks, and lastErr with its time is the set *)
(* of waiting calls it answers, as in SshClient.                           *)
(***************************************************************************)
CONSTANTS
    Requests,   \* goroutines that call Get
    Users,      \* goroutines that call Up, Down and Close
    Procs,      \* addresses a *process can have
    NoThread,   \* mu is free; no abort is published
    NoProc,     \* a nil *process or *net.Resolver
    Tun         \* config.Upstream.Tun: a kernel tun instead of ocproxy

Threads == Requests \cup Users

ASSUME ThreadsAssumption ==
    /\ Requests \cap Users = {}
    /\ NoThread \notin Requests \cup Users

ASSUME ProcsAssumption == NoProc \notin Procs

ASSUME TunAssumption == Tun \in BOOLEAN

VARIABLES
    mu,         \* who holds Client.mu
    proc,       \* Client.proc
    cur,        \* the process of the start in flight
    answered,   \* Client.lastErr and lastErrAt: the waiting calls it answers
    state,      \* Client.state
    held,       \* Client.held
    manualOnly, \* Client.manualOnly
    abort,      \* Client.abort: whose start it cancels
    closed,     \* Client.ctx is cancelled
    resolver,   \* Client.resolver
    pc,         \* where each goroutine is
    gone,       \* the calls whose ctx has ended
    aborted,    \* the starts whose sctx a Down has cancelled
    waiter,     \* how far the goroutine that waits for a process has come
    up,         \* process.up
    stopping,   \* process.stopping
    dropped,    \* the local dropped of the waiter
    drops       \* the processes onDrop was called for

clientVars == <<proc, cur, answered, manualOnly, closed>>
waiterVars == <<waiter, up, stopping, dropped, drops>>
vars == <<mu, proc, cur, answered, state, held, manualOnly, abort, closed,
          resolver, pc, gone, aborted, waiter, up, stopping, dropped, drops>>

States == {"unknown", "connected", "disconnected", "connecting"}

Locations == {"idle",
              "lock",                 \* get: waiting for mu
              "reuse",                \* get: proc runs, state not yet set
              "setAbort",             \* get: about to start
              "secrets", "starting",  \* start: looking secrets up; before cmd.Start
              "polling",              \* start: waiting for the tunnel
              "answered", "resolved", \* start: ready() saw it; resolver stored
              "up",                   \* start returned, get not yet
              "stop",                 \* start: in stop(p)
              "abort", "downLock", "downStop",
              "closeLock", "closeStop"}

\* "running" until the process exits; then one value per step of the waiter.
Waits == {"free", "running", "exited", "judged", "cleared", "stated", "done"}

StartSteps == {"secrets", "starting", "polling", "answered", "resolved", "up", "stop"}
Starting == {t \in Threads : pc[t] \in StartSteps}
Holders == {t \in Threads : pc[t] \in {"reuse", "setAbort", "downStop", "closeStop"}}
             \cup Starting
Downs == {u \in Users : pc[u] \in {"abort", "downLock", "downStop"}}

TypeOK ==
    /\ mu \in Threads \cup {NoThread}
    /\ proc \in Procs \cup {NoProc}
    /\ cur \in Procs \cup {NoProc}
    /\ answered \subseteq Threads
    /\ state \in States
    /\ held \in BOOLEAN
    /\ manualOnly \in BOOLEAN
    /\ abort \in Threads \cup {NoThread}
    /\ closed \in BOOLEAN
    /\ resolver \in Procs \cup {NoProc}
    /\ pc \in [Threads -> Locations]
    /\ gone \subseteq Threads
    /\ aborted \subseteq Threads
    /\ waiter \in [Procs -> Waits]
    /\ up \subseteq Procs
    /\ stopping \subseteq Procs
    /\ dropped \subseteq Procs
    /\ drops \subseteq Procs

Init ==
    /\ mu = NoThread
    /\ proc = NoProc
    /\ cur = NoProc
    /\ answered = {}
    /\ state = "unknown"
    /\ held = FALSE
    /\ manualOnly \in BOOLEAN
    /\ abort = NoThread
    /\ closed = FALSE
    /\ resolver = NoProc
    /\ pc = [t \in Threads |-> "idle"]
    /\ gone = {}
    /\ aborted = {}
    /\ waiter = [p \in Procs |-> "free"]
    /\ up = {}
    /\ stopping = {}
    /\ dropped = {}
    /\ drops = {}

-----------------------------------------------------------------------------
(* Helpers *)

Goto(t, l) == pc' = [pc EXCEPT ![t] = l]

Return(t) ==
    /\ Goto(t, "idle")
    /\ gone' = gone \ {t}
    /\ aborted' = aborted \ {t}

Cancelled(t) == t \in gone \cup aborted

\* process.done is closed: everyone waiting for the exit goes on.
Done(p) == waiter[p] = "done"

Runs(p) == waiter[p] \notin {"free", "done"}

\* There is no process, or it has exited: get has none to reuse, and stop
\* none to wait for.
NoneToReuse == ~(\E p \in Procs : p = proc /\ ~Done(p))

Fresh(p) == ~Runs(p) /\ p # proc /\ p # resolver

-----------------------------------------------------------------------------
(* Get and Up *)

Request(t) ==
    /\ pc[t] = "idle"
    /\ Goto(t, "lock")
    /\ UNCHANGED <<mu, state, held, abort, resolver, gone, aborted, clientVars, waiterVars>>

Up(t) ==
    /\ pc[t] = "idle"
    /\ held' = FALSE
    /\ Goto(t, "lock")
    /\ UNCHANGED <<mu, state, abort, resolver, gone, aborted, clientVars, waiterVars>>

\* The ctx of a call ends.
CtxDone(t) ==
    /\ pc[t] \in {"lock", "setAbort"} \cup StartSteps
    /\ gone' = gone \cup {t}
    /\ UNCHANGED <<mu, state, held, abort, resolver, pc, aborted, clientVars, waiterVars>>

\* Mistake: get does not look at lastErr.
RefusedButForLastErr(t) == t \in Requests /\ manualOnly

\* What refuses a call of t when there is no process to reuse.
Refused(t) == (t \in Requests /\ manualOnly) \/ t \in answered

\* get takes mu and returns an error.  A process that has exited is
\* forgotten on the way; state is left as it is.
GetRefused(t) ==
    /\ pc[t] = "lock" /\ mu = NoThread
    /\ closed \/ (NoneToReuse /\ Refused(t))
    /\ proc' = IF closed THEN proc ELSE NoProc
    /\ answered' = answered \ {t}
    /\ Return(t)
    /\ UNCHANGED <<mu, cur, state, held, manualOnly, abort, closed, resolver, waiterVars>>

\* get takes mu and finds a process whose done is not closed...
GetReuse(t) ==
    /\ pc[t] = "lock" /\ mu = NoThread
    /\ ~closed /\ ~NoneToReuse
    /\ mu' = t
    /\ answered' = answered \ {t}
    /\ Goto(t, "reuse")
    /\ UNCHANGED <<proc, cur, state, held, manualOnly, abort, closed, resolver,
                   gone, aborted, waiterVars>>

\* ... and publishes Connected.
Reuse(t) ==
    /\ pc[t] = "reuse"
    /\ state' = "connected"
    /\ mu' = NoThread
    /\ Return(t)
    /\ UNCHANGED <<held, abort, resolver, clientVars, waiterVars>>

GetMustStart(t) ==
    /\ pc[t] = "lock" /\ mu = NoThread
    /\ ~closed /\ NoneToReuse /\ ~Refused(t)
    /\ mu' = t
    /\ proc' = NoProc
    /\ Goto(t, "setAbort")
    /\ UNCHANGED <<cur, answered, state, held, manualOnly, abort, closed, resolver,
                   gone, aborted, waiterVars>>

\* Mistake: setAbort publishes the cancel without looking at held again.
SetAbortUnchecked(t) ==
    /\ pc[t] = "setAbort"
    /\ abort' = t
    /\ state' = "connecting"
    /\ Goto(t, "secrets")
    /\ UNCHANGED <<mu, held, resolver, gone, aborted, clientVars, waiterVars>>

SetAbort(t) ==
    /\ pc[t] = "setAbort"
    /\ ~held
    /\ abort' = t
    /\ state' = "connecting"
    /\ Goto(t, "secrets")
    /\ UNCHANGED <<mu, held, resolver, gone, aborted, clientVars, waiterVars>>

SetAbortHeld(t) ==
    /\ pc[t] = "setAbort"
    /\ held
    /\ mu' = NoThread
    /\ Return(t)
    /\ UNCHANGED <<state, held, abort, resolver, clientVars, waiterVars>>

-----------------------------------------------------------------------------
(* start *)

\* The username and the password are looked up: a literal, the cache, or the
\* tool of a password manager, which may ask the user and wait.
ResolveSecrets(t) ==
    /\ pc[t] = "secrets"
    /\ Goto(t, "starting")
    /\ UNCHANGED <<mu, state, held, abort, resolver, gone, aborted, clientVars, waiterVars>>

\* openconnect is started (cmd.Start), which an exec.CommandContext refuses
\* once its ctx is done.
Spawn(t) ==
    /\ pc[t] = "starting"
    /\ ~closed
    /\ \E p \in Procs :
          /\ Fresh(p)
          /\ cur' = p
          /\ waiter' = [waiter EXCEPT ![p] = "running"]
          /\ up' = up \ {p}
          /\ stopping' = stopping \ {p}
          /\ dropped' = dropped \ {p}
          /\ drops' = drops \ {p}
    /\ Goto(t, "polling")
    /\ UNCHANGED <<mu, proc, answered, state, held, manualOnly, abort, closed,
                   resolver, gone, aborted>>

\* ready sees the tunnel: the SOCKS port answers, or the dns file is there.
Ready(t) ==
    /\ pc[t] = "polling"
    /\ waiter[cur] = "running"
    /\ Goto(t, "answered")
    /\ UNCHANGED <<mu, state, held, abort, resolver, gone, aborted, clientVars, waiterVars>>

\* In tun mode ready then stores the resolver.
StoreResolver(t) ==
    /\ pc[t] = "answered"
    /\ resolver' = IF Tun THEN cur ELSE resolver
    /\ Goto(t, "resolved")
    /\ UNCHANGED <<mu, state, held, abort, gone, aborted, clientVars, waiterVars>>

StoreUp(t) ==
    /\ pc[t] = "resolved"
    /\ up' = up \cup {cur}
    /\ Goto(t, "up")
    /\ UNCHANGED <<mu, state, held, abort, resolver, gone, aborted, clientVars,
                   waiter, stopping, dropped, drops>>

\* Mistake: no connectTimeout.
GiveUpWithoutDeadline(t) ==
    /\ pc[t] = "polling"
    /\ Cancelled(t) \/ closed
    /\ stopping' = stopping \cup {cur}
    /\ Goto(t, "stop")
    /\ UNCHANGED <<mu, state, held, abort, resolver, gone, aborted, clientVars,
                   waiter, up, dropped, drops>>

\* sctx or Client.ctx is done, or connectTimeout is over: stop(cur).
GiveUp(t) ==
    /\ pc[t] = "polling"
    /\ stopping' = stopping \cup {cur}
    /\ Goto(t, "stop")
    /\ UNCHANGED <<mu, state, held, abort, resolver, gone, aborted, clientVars,
                   waiter, up, dropped, drops>>

\* Mistake: stop signals the process and does not wait for it to exit.
StartOverAtOnce(t) == pc[t] \in {"secrets", "starting", "stop"} \/ (pc[t] = "polling" /\ Done(cur))

\* start has nothing to wait for, or what it waited for is over.
StartOver(t) ==
    \/ pc[t] \in {"secrets", "starting"}
    \/ pc[t] \in {"polling", "stop"} /\ Done(cur)

\* start fails; get records the failure of a start nobody cancelled.
StartFail(t) ==
    /\ StartOver(t)
    /\ state' = "disconnected"
    /\ answered' = IF Cancelled(t) THEN answered
                   ELSE {u \in Threads : pc[u] = "lock"}
    /\ cur' = NoProc
    /\ abort' = NoThread
    /\ mu' = NoThread
    /\ Return(t)
    /\ UNCHANGED <<proc, held, manualOnly, closed, resolver, waiterVars>>

\* Mistake: get does not publish that the VPN is up.
StartOKSilently(t) ==
    /\ pc[t] = "up"
    /\ proc' = cur
    /\ cur' = NoProc
    /\ answered' = {}
    /\ abort' = NoThread
    /\ mu' = NoThread
    /\ Return(t)
    /\ UNCHANGED <<state, held, manualOnly, closed, resolver, waiterVars>>

\* start returned the process and get publishes it.
StartOK(t) ==
    /\ pc[t] = "up"
    /\ proc' = cur
    /\ cur' = NoProc
    /\ answered' = {}
    /\ state' = "connected"
    /\ abort' = NoThread
    /\ mu' = NoThread
    /\ Return(t)
    /\ UNCHANGED <<held, manualOnly, closed, resolver, waiterVars>>

-----------------------------------------------------------------------------
(* Down, Close and SetAutoconnect *)

DownHold(u) ==
    /\ pc[u] = "idle"
    /\ held' = TRUE
    /\ Goto(u, "abort")
    /\ UNCHANGED <<mu, state, abort, resolver, gone, aborted, clientVars, waiterVars>>

DownAbort(u) ==
    /\ pc[u] = "abort"
    /\ aborted' = IF abort = NoThread THEN aborted ELSE aborted \cup {abort}
    /\ Goto(u, "downLock")
    /\ UNCHANGED <<mu, state, held, abort, resolver, gone, clientVars, waiterVars>>

\* Close cancels Client.ctx, which also makes exec signal the process.
CallClose(u) ==
    /\ pc[u] = "idle"
    /\ closed' = TRUE
    /\ Goto(u, "closeLock")
    /\ UNCHANGED <<mu, proc, cur, answered, state, held, manualOnly, abort, resolver,
                   gone, aborted, waiterVars>>

\* Down and Close take mu and ask the process, if there is one, to exit.
StopProc(u) ==
    /\ mu = NoThread
    /\ \/ pc[u] = "downLock" /\ Goto(u, "downStop")
       \/ pc[u] = "closeLock" /\ Goto(u, "closeStop")
    /\ mu' = u
    /\ stopping' = stopping \cup ({proc} \ {NoProc})
    /\ UNCHANGED <<state, held, abort, resolver, gone, aborted, clientVars,
                   waiter, up, dropped, drops>>

\* Mistake: Down does not wait for the process to exit.
DownDoneAtOnce(u) ==
    /\ pc[u] = "downStop"
    /\ proc' = NoProc
    /\ answered' = {}
    /\ state' = "unknown"
    /\ mu' = NoThread
    /\ Return(u)
    /\ UNCHANGED <<cur, held, manualOnly, abort, closed, resolver, waiterVars>>

DownDone(u) ==
    /\ pc[u] = "downStop" /\ NoneToReuse
    /\ proc' = NoProc
    /\ answered' = {}
    /\ state' = "unknown"
    /\ mu' = NoThread
    /\ Return(u)
    /\ UNCHANGED <<cur, held, manualOnly, abort, closed, resolver, waiterVars>>

CloseDone(u) ==
    /\ pc[u] = "closeStop" /\ NoneToReuse
    /\ proc' = NoProc
    /\ state' = "disconnected"
    /\ mu' = NoThread
    /\ Return(u)
    /\ UNCHANGED <<cur, answered, held, manualOnly, abort, closed, resolver, waiterVars>>

SetAutoconnect ==
    /\ manualOnly' = ~manualOnly
    /\ UNCHANGED <<mu, proc, cur, answered, state, held, abort, closed, resolver,
                   pc, gone, aborted, waiterVars>>

-----------------------------------------------------------------------------
(* The process and the goroutine that waits for it *)

WaiterStep(p, from, to) ==
    /\ waiter[p] = from
    /\ waiter' = [waiter EXCEPT ![p] = to]
    /\ UNCHANGED <<mu, held, abort, pc, gone, aborted, clientVars, up, stopping>>

\* openconnect exits: it was told to, or the server ended the session.
Exit(p) ==
    /\ WaiterStep(p, "running", "exited")
    /\ UNCHANGED <<state, resolver, dropped, drops>>

\* Was that a drop?
Judge(p) ==
    /\ WaiterStep(p, "exited", "judged")
    /\ dropped' = IF p \in up \ stopping /\ ~closed THEN dropped \cup {p} ELSE dropped
    /\ UNCHANGED <<state, resolver, drops>>

ClearResolver(p) ==
    /\ WaiterStep(p, "judged", "cleared")
    /\ resolver' = NoProc
    /\ UNCHANGED <<state, dropped, drops>>

SetDisconnected(p) ==
    /\ WaiterStep(p, "cleared", "stated")
    /\ state' = "disconnected"
    /\ UNCHANGED <<resolver, dropped, drops>>

\* close(p.done), and onDrop on a goroutine of its own.
CloseDoneChan(p) ==
    /\ WaiterStep(p, "stated", "done")
    /\ drops' = IF p \in dropped THEN drops \cup {p} ELSE drops
    /\ UNCHANGED <<state, resolver, dropped>>

-----------------------------------------------------------------------------
Get(t) ==
    \/ GetRefused(t) \/ GetReuse(t) \/ Reuse(t) \/ GetMustStart(t)
    \/ SetAbort(t) \/ SetAbortHeld(t)

Start(t) ==
    \/ ResolveSecrets(t) \/ Spawn(t) \/ Ready(t) \/ StoreResolver(t) \/ StoreUp(t)
    \/ GiveUp(t) \/ StartFail(t) \/ StartOK(t)

Stop(u) == StopProc(u) \/ DownDone(u) \/ CloseDone(u)

\* What the waiter does by itself once the process has exited.
Wait(p) == Judge(p) \/ ClearResolver(p) \/ SetDisconnected(p) \/ CloseDoneChan(p)

Next ==
    \/ \E t \in Threads : Get(t) \/ Start(t) \/ CtxDone(t)
    \/ \E t \in Requests : Request(t)
    \/ \E u \in Users : Up(u) \/ DownHold(u) \/ DownAbort(u) \/ CallClose(u) \/ Stop(u)
    \/ \E p \in Procs : Exit(p) \/ Wait(p)
    \/ SetAutoconnect

Spec == Init /\ [][Next]_vars

-----------------------------------------------------------------------------
(* Fairness: as for SshClient, the mutex is starvation-free and runnable     *)
(* code runs on; from cmd.Start on, start gives up after connectTimeout.     *)
(* Nothing obliges another program to act: the tool that looks a secret up   *)
(* runs before that timer, and may ask the user; a process need not bring    *)
(* the tunnel up (Ready) nor exit, even when it is told to, since in tun     *)
(* mode the kill goes through sudo and may fail.                             *)

Fairness ==
    /\ \A t \in Threads :
          /\ SF_vars(GetRefused(t) \/ GetReuse(t) \/ GetMustStart(t))
          /\ WF_vars(Reuse(t) \/ SetAbort(t) \/ SetAbortHeld(t))
          /\ WF_vars(pc[t] # "secrets" /\ (Spawn(t) \/ GiveUp(t) \/ StartFail(t)))
          /\ WF_vars(StoreResolver(t) \/ StoreUp(t) \/ StartOK(t))
    /\ \A u \in Users :
          /\ WF_vars(DownAbort(u))
          /\ SF_vars(StopProc(u))
          /\ WF_vars(DownDone(u) \/ CloseDone(u))
    /\ \A p \in Procs : WF_vars(Wait(p))

FairSpec == Spec /\ Fairness

-----------------------------------------------------------------------------
(* Safety *)

\* "The mutex collapses concurrent first-use into a single start, ... every
\* start costs the user an MFA approval" (client.go:45): there is never a
\* second openconnect beside one that still runs, whatever overlap of starts,
\* timeouts, disconnects and exits the first one went through.
OneProcess == \A p, q \in Procs : Runs(p) /\ Runs(q) => p = q

\* No openconnect is left running that the client has lost track of, so
\* Down and Close always find the one to stop.
NoOrphan == \A p \in Procs : Runs(p) => p \in {proc, cur}

\* Down "keeps it down" until Up (client.go:219): while it is held and no
\* Down is still running, no VPN process is there, started or starting.
HeldStaysDown ==
    held /\ Downs = {} => proc = NoProc /\ \A p \in Procs : ~Runs(p)

\* "A Down either sees this start's cancel or is seen by it, never neither"
\* (client.go:321).
DownSeesStart ==
    held => \A t \in Starting : t \in aborted \/ \E u \in Users : pc[u] = "abort"

\* A call that waited on mu while a start failed is answered by it, and costs
\* the user no approval of its own (get, client.go:286).
AnsweredNeverStarts == \A t \in answered : pc[t] = "lock"

\* The state errs on one side only: a VPN that runs is shown as connected
\* once mu is free, and connecting is shown only while one starts.
RunningIsShown ==
    /\ mu = NoThread /\ proc # NoProc /\ waiter[proc] \notin {"stated", "done"}
         => state = "connected"
    /\ state = "connecting" => Starting # {}

(* Liveness *)

\* A process that was told to stop, and runs on.
Defies(p) == waiter[p] = "running" /\ (p \in stopping \/ closed)

\* Get, Up, Down and Close return, however they queue on mu, behind a start or
\* behind a stop: a start from cmd.Start on, its give-up and the wait for an
\* exit all end.  Two waits for another program may last, and then hold up
\* everyone: one start's lookup of a secret, and one process that defies its
\* signals.
EveryCallReturns ==
    \A t \in Threads :
        \/ []<>(pc[t] = "idle")
        \/ \E s \in Threads : <>[](pc[s] = "secrets")
        \/ \E p \in Procs : <>[]Defies(p)

(* Refinement *)

\* The VPN as the rest of the program sees it.
link == IF Starting # {} THEN "dialing" ELSE IF NoneToReuse THEN "down" ELSE "up"

Link == INSTANCE HoldableLink WITH hold <- held, cutting <- Downs # {}

\* The VPN client keeps the same promise as sshclient.Client: started once at
\* a time, and down for as long as the user holds it down.
ImplementsLink == Link!Spec

(* What the comments promise and the code does not keep *)

\* "State returns the last known state of the VPN process" (client.go:166):
\* whenever no call is in progress, connected means that it still runs.
ConnectedMeansRunning == state = "connected" /\ mu = NoThread => ~NoneToReuse

\* OnDrop's fn is "called ... when a VPN that was up exits without Down or
\* Close asking it to" (client.go:184): the exit of a process that get has
\* handed out, and nobody stopped, has called it.
DropIsReported ==
    proc # NoProc /\ Done(proc) /\ proc \notin stopping /\ ~closed => proc \in drops

=============================================================================
