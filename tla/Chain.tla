------------------------------- MODULE Chain -------------------------------
(***************************************************************************)
(* The upstreams that hold a connection and how they depend on each other: *)
(* ssh upstreams (pkg/upstream/ssh.go) that reach their bastion through a  *)
(* VPN (pkg/upstream/openconnect.go), and what the menu bar's controller   *)
(* does when the user connects or disconnects one of them or when a VPN    *)
(* drops on its own (internal/menubar/controller.go).                      *)
(*                                                                         *)
(* A client is used through the contract of HoldableLink, which SshClient  *)
(* and OpenConnect are shown to implement; LinksKeepContract checks that   *)
(* the chain asks no more of them.  One run of the proxy is modelled, up   *)
(* to its Stop.                                                            *)
(***************************************************************************)
EXTENDS Naturals, Sequences

CONSTANTS
    ConnNames, \* the ssh and openconnect upstreams, sorted by name
    Ssh,       \* those of them that are ssh
    Via,       \* the upstream each goes through, or NoVia
    Requests,  \* goroutines of proxied requests
    Clicks,    \* goroutines ConnectUpstream and connectTunnel leave behind
    User,      \* the menu's one busy action: DisconnectUpstream
    Hooks,     \* goroutines of VPNs that dropped (a bound on their number)
    NoVia, NoThread, NoUp

Ups == {ConnNames[i] : i \in 1..Len(ConnNames)}
Vpns == Ups \ Ssh
Threads == Requests \cup Clicks
Downers == {User} \cup Hooks

\* config.Validate: only ssh upstreams have a via, and it is not an ssh one.
ASSUME ChainAssumption ==
    /\ ConnNames \in Seq(Ups)
    /\ \A i, j \in 1..Len(ConnNames) : ConnNames[i] = ConnNames[j] => i = j
    /\ Ssh \subseteq Ups
    /\ Via \in [Ups -> Vpns \cup {NoVia}]
    /\ \A v \in Vpns : Via[v] = NoVia
    /\ NoVia \notin Ups /\ NoUp \notin Ups
    /\ NoThread \notin Threads
    /\ Requests \cap Clicks = {} /\ User \notin Hooks

VARIABLES
    conn,    \* the client of an upstream has a connection
    dialer,  \* the goroutine that dials it under its mutex, or NoThread
    held,    \* Down was called, and Up not since
    path,    \* what an ssh connection, or its dial, runs over still works
    manual,  \* autoconnect is off
    pc, up,  \* where a goroutine is in Dial or Up, and of which upstream
    job,     \* what a goroutine that brings upstreams down has to do
    current  \* this registry is the running proxy's

clients == <<conn, dialer, held, path>>
vars == <<conn, dialer, held, path, manual, pc, up, job, current>>

Idle == [pc |-> "idle", name |-> NoUp, i |-> 0]

Init ==
    /\ conn = [u \in Ups |-> FALSE]
    /\ dialer = [u \in Ups |-> NoThread]
    /\ held = [u \in Ups |-> FALSE]
    /\ path = [u \in Ups |-> FALSE]
    /\ manual \in BOOLEAN
    /\ pc = [t \in Threads |-> "idle"]
    /\ up = [t \in Threads |-> NoUp]
    /\ job = [d \in Downers |-> Idle]
    /\ current = TRUE

-----------------------------------------------------------------------------
(* A goroutine in Dial or Up: "upvia" and "up" clear a hold; "via", "get"    *)
(* and "tcp" call get of the via, of the upstream itself, and of the via     *)
(* again for the TCP connection of an ssh dial; "shake" is its handshake.    *)

\* The upstream whose client the goroutine is calling.
Callee(t) == IF pc[t] \in {"upvia", "via", "tcp"} THEN Via[up[t]] ELSE up[t]

\* get's force: Up dials with autoconnect off, the via.Dial inside does not.
Forced(t) == t \in Clicks /\ pc[t] # "tcp"

\* Where a goroutine goes when get of its callee has succeeded.
After(t) ==
    CASE pc[t] = "via" -> IF t \in Clicks THEN "up" ELSE "get"
      [] pc[t] = "get" -> "idle"
      [] pc[t] = "tcp" -> "shake"

Goto(t, s) ==
    /\ pc' = [pc EXCEPT ![t] = s]
    /\ up' = [up EXCEPT ![t] = IF s = "idle" THEN NoUp ELSE @]

\* A proxied request: SSHDialer.Dial connects the via first.
Request(t, u) ==
    /\ t \in Requests /\ pc[t] = "idle" /\ current
    /\ pc' = [pc EXCEPT ![t] = IF Via[u] = NoVia THEN "get" ELSE "via"]
    /\ up' = [up EXCEPT ![t] = u]
    /\ UNCHANGED <<clients, manual, job, current>>

\* ConnectUpstream, or a tunnel being started: Up in the background.
Connect(t, u) ==
    /\ t \in Clicks /\ pc[t] = "idle" /\ current
    /\ pc' = [pc EXCEPT ![t] = IF Via[u] = NoVia THEN "up" ELSE "upvia"]
    /\ up' = [up EXCEPT ![t] = u]
    /\ UNCHANGED <<clients, manual, job, current>>

\* Up of the via, then of the upstream itself, clears its hold.
ClearHold(t) ==
    /\ pc[t] \in {"upvia", "up"}
    /\ held' = [held EXCEPT ![Callee(t)] = FALSE]
    /\ Goto(t, IF pc[t] = "upvia" THEN "via" ELSE "get")
    /\ UNCHANGED <<conn, dialer, path, manual, job, current>>

InGet(t) == pc[t] \in {"via", "get", "tcp"} /\ dialer[Callee(t)] = NoThread

\* There is a connection to reuse: an ssh client looks at held before it.
Reusable(u) == conn[u] /\ (u \in Ssh => ~held[u])

\* get reuses the connection.  Reaching the bastion over it makes the path.
GetReuse(t) ==
    /\ InGet(t) /\ Reusable(Callee(t))
    /\ Goto(t, After(t))
    /\ path' = IF pc[t] = "tcp" THEN [path EXCEPT ![up[t]] = TRUE] ELSE path
    /\ UNCHANGED <<conn, dialer, held, manual, job, current>>

\* Mutant: Up pays no heed to a Down that has come in since.
RefusesUnforced(t) == ~Forced(t) /\ (held[Callee(t)] \/ manual)

\* get will not dial: the user holds it down, or autoconnect is off.
Refuses(t) == held[Callee(t)] \/ (manual /\ ~Forced(t))

\* A goroutine whose call fails returns; its own ssh dial fails with it.
Return(t) ==
    /\ Goto(t, "idle")
    /\ dialer' = [u \in Ups |-> IF dialer[u] = t THEN NoThread ELSE dialer[u]]
    /\ path' = [u \in Ups |-> path[u] /\ dialer[u] # t]

\* get refuses, hands on the error of the dial it waited for, or finds its
\* context done.
GetFails(t) ==
    /\ InGet(t) /\ ~Reusable(Callee(t))
    /\ Return(t)
    /\ UNCHANGED <<conn, held, manual, job, current>>

\* get dials: an ssh client goes through its via, a VPN client starts.
GetDials(t) ==
    /\ InGet(t) /\ ~conn[Callee(t)] /\ current
    /\ ~Refuses(t)
    /\ dialer' = [dialer EXCEPT ![Callee(t)] = t]
    /\ pc' = [pc EXCEPT ![t] =
                 IF Callee(t) \in Vpns THEN @
                 ELSE IF Via[up[t]] = NoVia THEN "shake" ELSE "tcp"]
    /\ path' = IF Callee(t) \in Ssh
               THEN [path EXCEPT ![Callee(t)] = Via[Callee(t)] = NoVia]
               ELSE path
    /\ UNCHANGED <<conn, held, manual, up, job, current>>

\* The start of a VPN ends; the goroutine goes on with what needed it.
VpnUp(t, v) ==
    /\ v \in Vpns /\ dialer[v] = t
    /\ dialer' = [dialer EXCEPT ![v] = NoThread]
    /\ conn' = [conn EXCEPT ![v] = TRUE]
    /\ Goto(t, After(t))
    /\ path' = IF pc[t] = "tcp" THEN [path EXCEPT ![up[t]] = TRUE] ELSE path
    /\ UNCHANGED <<held, manual, job, current>>

\* The handshake ends over a path that has lasted until then.
SshUp(t) ==
    /\ pc[t] = "shake" /\ path[up[t]]
    /\ dialer' = [dialer EXCEPT ![up[t]] = NoThread]
    /\ conn' = [conn EXCEPT ![up[t]] = TRUE]
    /\ Goto(t, "idle")
    /\ UNCHANGED <<held, path, manual, job, current>>


\* A start or a handshake fails, times out or is aborted.
DialFails(t) ==
    /\ \E u \in Ups : dialer[u] = t
    /\ pc[t] # "shake" => dialer[Callee(t)] = t
    /\ Return(t)
    /\ UNCHANGED <<conn, held, manual, job, current>>

-----------------------------------------------------------------------------
(* Bringing upstreams down: a job is the upstream it is about and where it   *)
(* is in connNames; 0 stands for the upstream itself, and the job ends       *)
(* behind the last name.                                                     *)

Dependent(n, i) == i \in 1..Len(ConnNames) /\ Via[ConnNames[i]] = n
Target(d) == IF job[d].i = 0 THEN job[d].name ELSE ConnNames[job[d].i]

\* What a job has not yet brought down.
Ahead(d) ==
    IF job[d].pc = "idle" THEN {}
    ELSE {Target(d)} \cup
         {ConnNames[i] : i \in {j \in 1..Len(ConnNames) :
             j > job[d].i /\ Dependent(job[d].name, j)}}

\* downDependents: on to the next upstream that has name as its via, unless
\* the proxy has been stopped before the first one.
GoOn(d, name, i) ==
    LET more == {j \in 1..Len(ConnNames) : j > i /\ Dependent(name, j)}
    IN job' = [job EXCEPT ![d] =
           IF more = {} \/ (i = 0 /\ ~current) THEN Idle
           ELSE [pc |-> "hold", name |-> name,
                 i |-> CHOOSE j \in more : \A k \in more : j <= k]]

\* The user disconnects an upstream: Down of itself, then its dependents.
DisconnectUpstream(u) ==
    /\ job[User].pc = "idle" /\ current
    /\ job' = [job EXCEPT ![User] = [pc |-> "hold", name |-> u, i |-> 0]]
    /\ UNCHANGED <<clients, manual, pc, up, current>>

\* Down holds the client down and aborts a dial in flight...
DownHold(d) ==
    /\ job[d].pc = "hold"
    /\ held' = [held EXCEPT ![Target(d)] = TRUE]
    /\ job' = [job EXCEPT ![d].pc = "cut"]
    /\ UNCHANGED <<conn, dialer, path, manual, pc, up, current>>

\* An upstream goes down, and what runs over it does not work any more.
CutPaths(v) == path' = [u \in Ups |-> path[u] /\ u # v /\ Via[u] # v]

\* ... and closes it once it has the mutex.
DownCut(d) ==
    /\ job[d].pc = "cut" /\ dialer[Target(d)] = NoThread
    /\ conn' = [conn EXCEPT ![Target(d)] = FALSE]
    /\ CutPaths(Target(d))
    /\ GoOn(d, job[d].name, job[d].i)
    /\ UNCHANGED <<dialer, held, manual, pc, up, current>>

\* A VPN exits on its own: its hook starts.
VpnDrops(v, d) ==
    /\ v \in Vpns /\ conn[v]
    /\ d \in Hooks /\ job[d].pc = "idle"
    /\ conn' = [conn EXCEPT ![v] = FALSE]
    /\ CutPaths(v)
    /\ job' = [job EXCEPT ![d] = [pc |-> "drop", name |-> v, i |-> 0]]
    /\ UNCHANGED <<dialer, held, manual, pc, up, current>>

\* Mutant: a VPN that is back by now is taken for one that never dropped.
UpstreamDroppedUnlessBack(d) ==
    /\ job[d].pc = "drop"
    /\ IF conn[job[d].name] THEN job' = [job EXCEPT ![d] = Idle]
                            ELSE GoOn(d, job[d].name, 0)
    /\ UNCHANGED <<clients, manual, pc, up, current>>

\* upstreamDropped: the dependents only, and only of the running registry.
UpstreamDropped(d) ==
    /\ job[d].pc = "drop"
    /\ GoOn(d, job[d].name, 0)
    /\ UNCHANGED <<clients, manual, pc, up, current>>

\* An ssh connection is lost: its server or its path is gone.
SshLost(u) ==
    /\ u \in Ssh /\ conn[u]
    /\ conn' = [conn EXCEPT ![u] = FALSE]
    /\ CutPaths(u)
    /\ UNCHANGED <<dialer, held, manual, pc, up, job, current>>

\* SetAutoconnect pushes the setting to every client.
SetAutoconnect ==
    /\ current
    /\ manual' = ~manual
    /\ UNCHANGED <<clients, pc, up, job, current>>

\* Stop: the base context is cancelled, and no hook of this registry acts.
Stop ==
    /\ current
    /\ current' = FALSE
    /\ UNCHANGED <<clients, manual, pc, up, job>>

\* Registry.Close, when the run has ended.
CloseUpstream(u) ==
    /\ ~current /\ conn[u] /\ dialer[u] = NoThread
    /\ conn' = [conn EXCEPT ![u] = FALSE]
    /\ CutPaths(u)
    /\ UNCHANGED <<dialer, held, manual, pc, up, job, current>>

-----------------------------------------------------------------------------

Step(t) ==
    \/ ClearHold(t) \/ GetReuse(t) \/ GetFails(t) \/ GetDials(t)
    \/ SshUp(t) \/ DialFails(t) \/ \E v \in Vpns : VpnUp(t, v)

Down(d) == DownHold(d) \/ DownCut(d) \/ UpstreamDropped(d)

Next ==
    \/ \E t \in Threads : Step(t)
    \/ \E t \in Threads, u \in Ups : Request(t, u) \/ Connect(t, u)
    \/ \E d \in Downers : Down(d)
    \/ \E u \in Ups : DisconnectUpstream(u) \/ SshLost(u) \/ CloseUpstream(u)
    \/ \E v \in Vpns, d \in Hooks : VpnDrops(v, d)
    \/ SetAutoconnect \/ Stop

Spec == Init /\ [][Next]_vars

-----------------------------------------------------------------------------
(* Fairness: a Go mutex is starvation-free and runnable code runs on; an ssh *)
(* handshake has a deadline.  Nothing obliges the user, a request or the     *)
(* network to act, nor another program (EveryCallReturns of OpenConnect):    *)
(* the start of a VPN may wait for a password manager before its timer runs, *)
(* and one that is told to stop may not exit.                                *)

\* Down of a VPN that is up waits for its process to exit.
AwaitsExit(d) == job[d].pc = "cut" /\ Target(d) \in Vpns /\ conn[Target(d)]

Fairness ==
    /\ \A t \in Threads :
          /\ WF_vars(ClearHold(t))
          /\ SF_vars(GetReuse(t) \/ GetFails(t) \/ GetDials(t))
          /\ WF_vars(pc[t] = "shake" /\ (SshUp(t) \/ DialFails(t)))
    /\ \A d \in Downers :
          /\ WF_vars(DownHold(d) \/ UpstreamDropped(d))
          /\ SF_vars(~AwaitsExit(d) /\ DownCut(d))

FairSpec == Spec /\ Fairness

-----------------------------------------------------------------------------
(* Properties *)

TypeOK ==
    /\ conn \in [Ups -> BOOLEAN] /\ held \in [Ups -> BOOLEAN]
    /\ path \in [Ups -> BOOLEAN]
    /\ dialer \in [Ups -> Threads \cup {NoThread}]
    /\ manual \in BOOLEAN /\ current \in BOOLEAN
    /\ pc \in [Threads -> {"idle", "upvia", "via", "up", "get", "tcp", "shake"}]
    /\ up \in [Threads -> Ups \cup {NoUp}]
    /\ job \in [Downers -> [pc : {"idle", "drop", "hold", "cut"},
                            name : Ups \cup {NoUp}, i : 0..Len(ConnNames)]]

\* "Its dependents follow it down ... so none of them is left looking up
\* while it cannot work" (controller.go:626, of DisconnectUpstream and, by
\* upstreamDropped, of a drop): an ssh upstream that is connected through a
\* VPN that is held down, or over a path that has died with it, is about to
\* be brought down, whatever requests and clicks come in between.
DependentsFollow ==
    \A s \in Ssh :
        (current /\ conn[s] /\ Via[s] # NoVia /\ (held[Via[s]] \/ ~path[s]))
            => \E d \in Downers : s \in Ahead(d)

\* What HoldableLink calls the state of an upstream's link.
Link(u) ==
    IF dialer[u] # NoThread THEN "dialing" ELSE IF conn[u] THEN "up" ELSE "down"

L(u) == INSTANCE HoldableLink WITH
    link <- Link(u), hold <- held[u],
    cutting <- \E d \in Downers : job[d].pc = "cut" /\ Target(d) = u

\* Every upstream of the chain, dialled from requests, clicks and from inside
\* each other's dials, keeps the contract that SshClient and OpenConnect
\* implement: never dialled while held, and never up once a Down returned.
LinksKeepContract ==
    /\ \A u \in Ups : L(u)!Init
    /\ [][\A u \in Ups : [L(u)!Next]_(L(u)!vars)]_vars


\* "keeps it closed until ConnectUpstream: requests routed through it fail
\* rather than silently reconnecting and prompting for another approval"
\* (controller.go:624): a request for an ssh upstream that the user has
\* disconnected does not start the VPN under it.
HeldNeverPrompts ==
    [][\A t \in Requests, v \in Vpns :
          (dialer[v] # t /\ dialer'[v] = t)
              => ~held[up[t]] \/ \E d \in Downers : job[d].pc # "idle"]_vars

=============================================================================
