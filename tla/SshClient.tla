----------------------------- MODULE SshClient -----------------------------
(***************************************************************************)
(* sshclient.Client: one lazily dialled SSH connection shared by every     *)
(* request routed through an upstream, and by the user's connect and       *)
(* disconnect clicks (src/pkg/sshclient/client.go).                        *)
(*                                                                         *)
(* Goroutines run DialContext (Requests) or Up, Down and Close (Users);    *)
(* each open connection has a watcher.  One action is one stretch of code  *)
(* between two points where another goroutine's step can be told apart:    *)
(* taking the mutex mu, taking abortMu, a load or store of the atomic      *)
(* held, and the return of a blocking network call.                        *)
(*                                                                         *)
(* Abstracted: an *ssh.Client is an address in Conns, fresh again once     *)
(* nothing refers to it; the times queued and lastErrAt are compared only  *)
(* with each other, and only for calls waiting on mu, so lastErr with its  *)
(* time is the set `answered' of the waiting calls that queued before the  *)
(* last recorded failure.                                                  *)
(***************************************************************************)


CONSTANTS
    Requests,   \* goroutines that call DialContext, one per client connection
    Users,      \* goroutines that call Up, Down and Close
    Conns,      \* addresses an *ssh.Client can have
    NoThread,   \* mu is free; no abort is published
    NoConn      \* a nil *ssh.Client

Threads == Requests \cup Users

ASSUME ThreadsAssumption ==
    /\ Requests \cap Users = {}
    /\ NoThread \notin Requests \cup Users

ASSUME ConnsAssumption == NoConn \notin Conns

VARIABLES
    mu,         \* who holds Client.mu
    cli,        \* Client.cli
    answered,   \* Client.lastErr and lastErrAt: the waiting calls it answers
    state,      \* Client.state, what the menu bar shows
    held,       \* Client.held
    manualOnly, \* Client.manualOnly
    abort,      \* Client.abort: whose dial it cancels
    pc,         \* where each goroutine is
    got,        \* the connection get returned to a request
    retrying,   \* the requests on their second try in DialContext
    gone,       \* the calls whose ctx has ended
    aborted,    \* the dials whose dctx a Down has cancelled
    conn,       \* what has become of each connection
    watching    \* the connections whose watcher still runs

threadVars == <<pc, got, retrying, gone, aborted>>
connVars   == <<conn, watching>>
vars == <<mu, cli, answered, state, held, manualOnly, abort,
          pc, got, retrying, gone, aborted, conn, watching>>

States == {"unknown", "connected", "disconnected", "connecting", "awaiting"}

\* "silent" is a connection whose path died without either end being told.
ConnStatus == {"open", "silent", "closed"}

Locations == {"idle",                           \* not in a call
              "lock",                           \* get: waiting for mu
              "setAbort", "dialing", "signing", \* get: holding mu
              "open",                           \* DialContext: opening a channel
              "forget",                         \* forget: waiting for mu
              "abort", "downLock",              \* Down: before abortMu; waiting for mu
              "closeLock"}                      \* Close: waiting for mu

InCall   == {t \in Threads : pc[t] # "idle"}
Dialling == {t \in Threads : pc[t] \in {"dialing", "signing"}}
Holders  == {t \in Threads : pc[t] = "setAbort"} \cup Dialling
Downs    == {u \in Users : pc[u] \in {"abort", "downLock"}}

TypeOK ==
    /\ mu \in Threads \cup {NoThread}
    /\ cli \in Conns \cup {NoConn}
    /\ answered \subseteq Threads
    /\ state \in States
    /\ held \in BOOLEAN
    /\ manualOnly \in BOOLEAN
    /\ abort \in Threads \cup {NoThread}
    /\ pc \in [Threads -> Locations]
    /\ got \in [Threads -> Conns \cup {NoConn}]
    /\ retrying \subseteq Requests
    /\ gone \subseteq Threads
    /\ aborted \subseteq Threads
    /\ conn \in [Conns -> ConnStatus]
    /\ watching \subseteq Conns

Init ==
    /\ mu = NoThread
    /\ cli = NoConn
    /\ answered = {}
    /\ state = "unknown"
    /\ held = FALSE
    /\ manualOnly \in BOOLEAN
    /\ abort = NoThread
    /\ pc = [t \in Threads |-> "idle"]
    /\ got = [t \in Threads |-> NoConn]
    /\ retrying = {}
    /\ gone = {}
    /\ aborted = {}
    /\ conn = [k \in Conns |-> "closed"]
    /\ watching = {}

-----------------------------------------------------------------------------
(* Helpers *)

Goto(t, l) == pc' = [pc EXCEPT ![t] = l]

\* The call of t returns; its contexts and its locals are gone with it.
Return(t) ==
    /\ Goto(t, "idle")
    /\ got' = [got EXCEPT ![t] = NoConn]
    /\ retrying' = retrying \ {t}
    /\ gone' = gone \ {t}
    /\ aborted' = aborted \ {t}

\* get hands k to its caller: DialContext opens a channel on it, Up returns.
Obtain(t, k) ==
    IF t \in Requests
    THEN /\ Goto(t, "open")
         /\ got' = [got EXCEPT ![t] = k]
         /\ UNCHANGED <<retrying, gone, aborted>>
    ELSE Return(t)

\* dctx.Err() # nil in the get of t.
Cancelled(t) == t \in gone \cup aborted

\* An address the allocator may hand out: nothing refers to it.
Fresh(k) ==
    /\ k # cli
    /\ k \notin watching
    /\ \A t \in Threads : got[t] # k

\* Mistake: the late watcher drops whatever connection is current.
DropAny(k) == cli' = NoConn /\ state' = "disconnected"

\* Mistake: the state is not published when the connection is dropped.
DropSilently(k) == cli' = (IF cli = k THEN NoConn ELSE cli) /\ UNCHANGED state

\* The connection is dropped, if it is still the current one.
Drop(k) ==
    IF cli = k THEN cli' = NoConn /\ state' = "disconnected"
               ELSE UNCHANGED <<cli, state>>

\* Mistake: cli is set to nil without closing it.
CloseNothing == UNCHANGED conn

\* cli.Close() on the current connection, if there is one.
CloseCurrent == conn' = [k \in Conns |-> IF k = cli THEN "closed" ELSE conn[k]]

-----------------------------------------------------------------------------
(* DialContext and get *)

\* A request calls DialContext, which calls get: its time queued is taken.
Request(t) ==
    /\ pc[t] = "idle"
    /\ Goto(t, "lock")
    /\ UNCHANGED <<mu, cli, answered, state, held, manualOnly, abort,
                   got, retrying, gone, aborted, connVars>>

\* Up stores held and calls get.
Up(t) ==
    /\ pc[t] = "idle"
    /\ held' = FALSE
    /\ Goto(t, "lock")
    /\ UNCHANGED <<mu, cli, answered, state, manualOnly, abort,
                   got, retrying, gone, aborted, connVars>>

\* The ctx of a call ends: the client left, or the proxy is stopping.
CtxDone(t) ==
    /\ pc[t] \in {"lock", "setAbort", "dialing", "signing", "open", "forget"}
    /\ gone' = gone \cup {t}
    /\ UNCHANGED <<mu, cli, answered, state, held, manualOnly, abort,
                   pc, got, retrying, aborted, connVars>>

\* Mistake: get does not look at held.
RefusedButForHeld(t) == cli = NoConn /\ (t \in answered \/ (t \in Requests /\ manualOnly))

\* Mistake: get does not look at lastErr.
RefusedButForLastErr(t) == held \/ (cli = NoConn /\ t \in Requests /\ manualOnly)

\* get may not dial for t: what refuses it while it holds mu.
Refused(t) ==
    \/ held
    \/ cli = NoConn /\ t \in Requests /\ manualOnly
    \/ cli = NoConn /\ t \in answered

\* get takes mu and returns without a dial: an error, or the connection.
GetRefused(t) ==
    /\ pc[t] = "lock" /\ mu = NoThread
    /\ Refused(t)
    /\ answered' = answered \ {t}
    /\ Return(t)
    /\ UNCHANGED <<mu, cli, state, held, manualOnly, abort, connVars>>

GetReuse(t) ==
    /\ pc[t] = "lock" /\ mu = NoThread
    /\ ~Refused(t) /\ cli # NoConn
    /\ state' = "connected"
    /\ Obtain(t, cli)
    /\ UNCHANGED <<mu, cli, answered, held, manualOnly, abort, connVars>>

\* Mistake: get gives mu back before it dials.
GetMustDialUnlocked(t) ==
    /\ pc[t] = "lock" /\ mu = NoThread
    /\ ~Refused(t) /\ cli = NoConn
    /\ Goto(t, "setAbort")
    /\ UNCHANGED <<mu, cli, answered, state, held, manualOnly, abort,
                   got, retrying, gone, aborted, connVars>>

\* get takes mu and has to dial; mu stays taken until the dial is over.
GetMustDial(t) ==
    /\ pc[t] = "lock" /\ mu = NoThread
    /\ ~Refused(t) /\ cli = NoConn
    /\ mu' = t
    /\ Goto(t, "setAbort")
    /\ UNCHANGED <<cli, answered, state, held, manualOnly, abort,
                   got, retrying, gone, aborted, connVars>>

\* Mistake: setAbort publishes the cancel without looking at held again.
SetAbortUnchecked(t) ==
    /\ pc[t] = "setAbort"
    /\ abort' = t
    /\ state' = "connecting"
    /\ Goto(t, "dialing")
    /\ UNCHANGED <<mu, cli, answered, held, manualOnly,
                   got, retrying, gone, aborted, connVars>>

\* setAbort(cancel) looks at held again under abortMu, then the dial begins.
SetAbort(t) ==
    /\ pc[t] = "setAbort"
    /\ ~held
    /\ abort' = t
    /\ state' = "connecting"
    /\ Goto(t, "dialing")
    /\ UNCHANGED <<mu, cli, answered, held, manualOnly,
                   got, retrying, gone, aborted, connVars>>

SetAbortHeld(t) ==
    /\ pc[t] = "setAbort"
    /\ held
    /\ mu' = NoThread
    /\ Return(t)
    /\ UNCHANGED <<cli, answered, state, held, manualOnly, abort, connVars>>

\* The agent is asked to sign, and the user to approve (attempt.onSign).
SignStart(t) ==
    /\ pc[t] = "dialing"
    /\ state' = "awaiting"
    /\ Goto(t, "signing")
    /\ UNCHANGED <<mu, cli, answered, held, manualOnly, abort,
                   got, retrying, gone, aborted, connVars>>

\* The agent answers, refuses, or its socket reaches the deadline.
SignDone(t) ==
    /\ pc[t] = "signing"
    /\ state' = "connecting"
    /\ Goto(t, "dialing")
    /\ UNCHANGED <<mu, cli, answered, held, manualOnly, abort,
                   got, retrying, gone, aborted, connVars>>

\* The dial fails.  Only the failure of a dial nobody cancelled is recorded,
\* and it answers the calls that were waiting on mu when it happened.
DialFail(t) ==
    /\ pc[t] = "dialing"
    /\ state' = "disconnected"
    /\ answered' = IF Cancelled(t) THEN answered
                   ELSE {u \in Threads : pc[u] = "lock"}
    /\ abort' = NoThread
    /\ mu' = NoThread
    /\ Return(t)
    /\ UNCHANGED <<cli, held, manualOnly, connVars>>

\* The handshake is done and stop() finds that no cancel came first.
DialOK(t) ==
    /\ pc[t] = "dialing"
    /\ ~Cancelled(t)
    /\ \E k \in Conns :
          /\ Fresh(k)
          /\ cli' = k
          /\ conn' = [conn EXCEPT ![k] = "open"]
          /\ watching' = watching \cup {k}
          /\ Obtain(t, k)
    /\ answered' = {}
    /\ state' = "connected"
    /\ abort' = NoThread
    /\ mu' = NoThread
    /\ UNCHANGED <<held, manualOnly>>

\* The channel is open, or the server refused it, or ctx has ended.
ChannelAnswered(t) ==
    /\ pc[t] = "open"
    /\ conn[got[t]] = "open" \/ t \in gone
    /\ Return(t)
    /\ UNCHANGED <<mu, cli, answered, state, held, manualOnly, abort, connVars>>

\* The open fails with an error that is not the server's refusal, which is
\* taken to mean that the connection is gone.  It may be, or the error is one
\* of ssh.Client.Dial itself (a port it cannot parse) on a connection that is
\* well.  The first time, the connection is closed (forget, before its lock);
\* the second time the call fails.
ChannelLost(t) ==
    /\ pc[t] = "open"
    /\ IF t \in retrying \cup gone
       THEN Return(t) /\ UNCHANGED conn
       ELSE /\ conn' = [conn EXCEPT ![got[t]] = "closed"]
            /\ Goto(t, "forget")
            /\ UNCHANGED <<got, retrying, gone, aborted>>
    /\ UNCHANGED <<mu, cli, answered, state, held, manualOnly, abort, watching>>

\* Mistake: DialContext does not count its retry.
ForgetUncounted(t) ==
    /\ pc[t] = "forget" /\ mu = NoThread
    /\ Drop(got[t])
    /\ got' = [got EXCEPT ![t] = NoConn]
    /\ Goto(t, "lock")
    /\ UNCHANGED <<mu, answered, held, manualOnly, abort, retrying, gone, aborted, connVars>>

\* forget takes mu, and DialContext calls get again.
Forget(t) ==
    /\ pc[t] = "forget" /\ mu = NoThread
    /\ Drop(got[t])
    /\ retrying' = retrying \cup {t}
    /\ got' = [got EXCEPT ![t] = NoConn]
    /\ Goto(t, "lock")
    /\ UNCHANGED <<mu, answered, held, manualOnly, abort, gone, aborted, connVars>>

-----------------------------------------------------------------------------
(* Down, Close and SetAutoconnect *)

DownHold(u) ==
    /\ pc[u] = "idle"
    /\ held' = TRUE
    /\ Goto(u, "abort")
    /\ UNCHANGED <<mu, cli, answered, state, manualOnly, abort,
                   got, retrying, gone, aborted, connVars>>

DownAbort(u) ==
    /\ pc[u] = "abort"
    /\ aborted' = IF abort = NoThread THEN aborted ELSE aborted \cup {abort}
    /\ Goto(u, "downLock")
    /\ UNCHANGED <<mu, cli, answered, state, held, manualOnly, abort,
                   got, retrying, gone, connVars>>

\* Mistake: Down closes the connection and keeps the pointer.
DownKeepsCli(u) ==
    /\ pc[u] = "downLock" /\ mu = NoThread
    /\ CloseCurrent
    /\ answered' = {}
    /\ state' = "unknown"
    /\ Return(u)
    /\ UNCHANGED <<mu, cli, held, manualOnly, abort, watching>>

DownClose(u) ==
    /\ pc[u] = "downLock" /\ mu = NoThread
    /\ CloseCurrent
    /\ cli' = NoConn
    /\ answered' = {}
    /\ state' = "unknown"
    /\ Return(u)
    /\ UNCHANGED <<mu, held, manualOnly, abort, watching>>

CallClose(u) ==
    /\ pc[u] = "idle"
    /\ Goto(u, "closeLock")
    /\ UNCHANGED <<mu, cli, answered, state, held, manualOnly, abort,
                   got, retrying, gone, aborted, connVars>>

Close(u) ==
    /\ pc[u] = "closeLock" /\ mu = NoThread
    /\ state' = "disconnected"
    /\ CloseCurrent
    /\ cli' = NoConn
    /\ Return(u)
    /\ UNCHANGED <<mu, answered, held, manualOnly, abort, watching>>

SetAutoconnect ==
    /\ manualOnly' = ~manualOnly
    /\ UNCHANGED <<mu, cli, answered, state, held, abort, threadVars, connVars>>

-----------------------------------------------------------------------------
(* The connection, its peer and its watcher *)

\* The path dies (sleep/wake, a VPN drop) and neither end is told.
PathDies(k) ==
    /\ conn[k] = "open"
    /\ conn' = [conn EXCEPT ![k] = "silent"]
    /\ UNCHANGED <<mu, cli, answered, state, held, manualOnly, abort,
                   threadVars, watching>>

\* The peer closes the connection.
PeerCloses(k) ==
    /\ conn[k] = "open"
    /\ conn' = [conn EXCEPT ![k] = "closed"]
    /\ UNCHANGED <<mu, cli, answered, state, held, manualOnly, abort,
                   threadVars, watching>>

\* A probe of the heartbeat fails, and watch closes the connection.
Heartbeat(k) ==
    /\ k \in watching
    /\ conn[k] = "silent"
    /\ conn' = [conn EXCEPT ![k] = "closed"]
    /\ UNCHANGED <<mu, cli, answered, state, held, manualOnly, abort,
                   threadVars, watching>>

\* Mistake: the watcher ends without dropping its connection.
WatchEndKeepsCli(k) ==
    /\ k \in watching
    /\ conn[k] = "closed" /\ mu = NoThread
    /\ watching' = watching \ {k}
    /\ UNCHANGED <<mu, cli, state, answered, held, manualOnly, abort, threadVars, conn>>

\* cli.Wait() has returned: the watcher takes mu, drops the connection if it
\* is still the current one, and ends.
WatchEnd(k) ==
    /\ k \in watching
    /\ conn[k] = "closed" /\ mu = NoThread
    /\ Drop(k)
    /\ watching' = watching \ {k}
    /\ UNCHANGED <<mu, answered, held, manualOnly, abort, threadVars, conn>>

-----------------------------------------------------------------------------
Get(t) ==
    \/ GetRefused(t) \/ GetReuse(t) \/ GetMustDial(t)
    \/ SetAbort(t) \/ SetAbortHeld(t)
    \/ SignStart(t) \/ SignDone(t) \/ DialFail(t) \/ DialOK(t)

Open(t) == ChannelAnswered(t) \/ ChannelLost(t) \/ Forget(t)

Down(u) == DownHold(u) \/ DownAbort(u) \/ DownClose(u)

Watch(k) == Heartbeat(k) \/ WatchEnd(k)

Next ==
    \/ \E t \in Threads : Get(t) \/ CtxDone(t)
    \/ \E t \in Requests : Request(t) \/ Open(t)
    \/ \E u \in Users : Up(u) \/ Down(u) \/ CallClose(u) \/ Close(u)
    \/ \E k \in Conns : PathDies(k) \/ PeerCloses(k) \/ Watch(k)
    \/ SetAutoconnect

Spec == Init /\ [][Next]_vars

-----------------------------------------------------------------------------
(* Fairness: a Go mutex is starvation-free, so each Lock is taken if it can  *)
(* be again and again; runnable code runs on.  Every attempt has a deadline  *)
(* (newAttempt, attempt.extend) and offers each agent key once, so a dial    *)
(* that keeps coming back to "dialing" ends.  The heartbeat ticks for ever.  *)
(* This is the client that dials its server itself: what a dial through a    *)
(* via may wait for is in Chain (EveryoneReturns).                           *)
(* Nothing obliges the network, a peer or a user to act: a channel open has  *)
(* no deadline, and ends for certain only with its connection or its ctx.    *)

\* The server owes an answer to the channel open of t, and may keep it back.
AwaitsServer(t) == pc[t] = "open" /\ conn[got[t]] # "closed" /\ t \notin gone

Fairness ==
    /\ \A t \in Threads :
          /\ SF_vars(GetRefused(t) \/ GetReuse(t) \/ GetMustDial(t))
          /\ WF_vars(SetAbort(t) \/ SetAbortHeld(t))
          /\ WF_vars(SignDone(t))
          /\ SF_vars(DialFail(t) \/ DialOK(t))
    /\ \A t \in Requests :
          /\ WF_vars(~AwaitsServer(t) /\ (ChannelAnswered(t) \/ ChannelLost(t)))
          /\ SF_vars(Forget(t))
    /\ \A u \in Users :
          /\ WF_vars(DownAbort(u))
          /\ SF_vars(DownClose(u))
          /\ SF_vars(Close(u))
    /\ \A k \in Conns :
          /\ WF_vars(Heartbeat(k))
          /\ SF_vars(WatchEnd(k))

FairSpec == Spec /\ Fairness

-----------------------------------------------------------------------------
(* Safety *)

\* "The mutex collapses concurrent first-use into a single handshake"
\* (client.go:55): never two dials, and never a dial beside a connection.
OneHandshake ==
    /\ \A t, u \in Holders : t = u
    /\ Holders # {} => cli = NoConn

\* What State() shows the menu bar is what the client is doing: connected
\* exactly when there is a connection, connecting or awaiting approval
\* exactly while a dial, or an agent prompt, is in flight.  Every return of
\* get, Down, Close, forget and the watcher has to leave it so.
StateIsFaithful ==
    /\ state = "connected" <=> cli # NoConn
    /\ state = "connecting" <=> \E t \in Threads : pc[t] = "dialing"
    /\ state = "awaiting" <=> \E t \in Threads : pc[t] = "signing"

\* No connection is forgotten while it is open: whoever clears cli has
\* closed it, and each connection that may still be open has a watcher.
NothingLeaks ==
    \A k \in Conns : conn[k] # "closed" => cli = k /\ k \in watching

\* "A Down either sees this dial's cancel or is seen by it"
\* (client.go:390): a dial in flight while the connection is held down has
\* been cancelled, or a Down that will cancel it is on its way to abortMu.
DownSeesDial ==
    held => \A t \in Dialling : t \in aborted \/ \E u \in Users : pc[u] = "abort"

\* Down "keeps it closed" until Up: a connection that is up while held is
\* set is one a running Down has yet to close.  No dial that was in flight
\* when Down ran can bring it back afterwards.
HeldStaysDown == held /\ cli # NoConn => Downs # {}

\* A call that waited on mu while a dial failed is answered by that failure:
\* it never dials, so a queue of calls does not stack up timeouts
\* (get, client.go:263).
AnsweredNeverDials == \A t \in answered : pc[t] = "lock"

\* The current connection, while it is open, is taken away by its peer, by a
\* Down or a Close, or by a request whose own channel open on it has failed:
\* never by a watcher or a forget of an earlier connection that wakes late
\* ("if c.cli == cli", forget and watch), however often it was redialled.
LateWakersSpareLiveConn ==
    [][ \A k \in Conns :
           cli = k /\ conn[k] = "open" /\ (cli' # k \/ conn'[k] = "closed")
           => \/ PeerCloses(k)
              \/ \E u \in Users : pc[u] \in {"downLock", "closeLock"} /\ pc'[u] = "idle"
              \/ \E t \in Requests : pc[t] = "open" /\ got[t] = k /\ pc'[t] = "forget"
      ]_vars

\* mu is held from setAbort to the end of the dial, by the goroutine that
\* dials and no other; abort is published for as long as the dial runs.
MutexOwned == \A t \in Threads : mu = t <=> t \in Holders

AbortPublished == \A t \in Threads : abort = t <=> t \in Dialling

\* A request that opens a channel, or forgets a connection, has one; the one
\* it forgets is closed already.
ConnObtained ==
    \A t \in Threads :
       /\ pc[t] \in {"open", "forget"} => got[t] \in Conns
       /\ pc[t] = "forget" => conn[got[t]] = "closed"

\* The inductive invariant the safety properties follow from: a caller that
\* holds mu is the only one to dial, and everyone else finds state, cli,
\* conn and held consistent whenever mu is free.
IInv ==
    /\ TypeOK
    /\ MutexOwned
    /\ AbortPublished
    /\ ConnObtained
    /\ Holders \cup answered # {} => cli = NoConn
    /\ StateIsFaithful
    /\ NothingLeaks
    /\ DownSeesDial
    /\ HeldStaysDown
    /\ AnsweredNeverDials

(* Refinement *)

\* The connection as the rest of the program sees it.
link == IF cli # NoConn THEN "up" ELSE IF Holders # {} THEN "dialing" ELSE "down"

Link == INSTANCE HoldableLink WITH hold <- held, cutting <- Downs # {}

\* The client implements the promise of a connection that stays down once the
\* user has disconnected it: the whole of Get, Up, Down, Close, forget and
\* the watcher, under every interleaving, is a HoldableLink.
ImplementsLink == Link!Spec

(* Liveness *)

\* Every call of DialContext, Up, Down and Close returns: no waiter on mu is
\* left behind, a dial ends, and DialContext redials once, not for ever.  The
\* one wait that may last is for the server's answer to a channel open, on a
\* connection that is open and for a caller that is still there.
EveryCallReturns ==
    \A t \in Threads :
        []<>(pc[t] = "idle") \/ <>[](AwaitsServer(t) /\ conn[got[t]] = "open")

\* A connection that has died, silently or not, is dropped without a request
\* having to find it out (watch): the next get dials.
DeadConnDropped ==
    \A k \in Conns : cli = k /\ conn[k] # "open" ~> cli # k

=============================================================================
