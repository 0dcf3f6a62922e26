-------------------------- MODULE SshClient_proofs --------------------------
(***************************************************************************)
(* Proofs about SshClient, for every number of requests, users and         *)
(* connections: IInv is an inductive invariant, and the safety properties  *)
(* follow from it.                                                         *)
(***************************************************************************)
EXTENDS SshClient, TLAPS

(* The invariant. *)

\* The inductive invariant holds in every behaviour of the client.
THEOREM Invariance == Spec => []IInv
\* Every initial state of a client satisfies the inductive invariant.
<1>1. Init => IInv
  <2> USE ThreadsAssumption, ConnsAssumption DEF ThreadsAssumption, ConnsAssumption,
        Threads, States, ConnStatus, Locations, Holders, Dialling, Downs,
        TypeOK, MutexOwned, AbortPublished, ConnObtained, StateIsFaithful,
        NothingLeaks, DownSeesDial, HeldStaysDown, AnsweredNeverDials, Init
  <2> SUFFICES ASSUME Init PROVE IInv
    OBVIOUS
  <2>1. TypeOK
    OBVIOUS
  <2>2. Holders = {} /\ Dialling = {}
    OBVIOUS
  <2>3. MutexOwned /\ AbortPublished
    BY <2>2
  <2>4. ConnObtained /\ StateIsFaithful /\ NothingLeaks
    OBVIOUS
  <2>5. DownSeesDial /\ HeldStaysDown /\ AnsweredNeverDials
    OBVIOUS
  <2> QED
    BY <2>1, <2>2, <2>3, <2>4, <2>5 DEF IInv
\* No step of any goroutine, of the network or of a watcher breaks it.
<1>2. IInv /\ [Next]_vars => IInv'
  <2> USE ThreadsAssumption, ConnsAssumption DEF ThreadsAssumption, ConnsAssumption,
        Threads, States, ConnStatus, Locations, Holders, Dialling, Downs,
        TypeOK, MutexOwned, AbortPublished, ConnObtained, StateIsFaithful,
        NothingLeaks, DownSeesDial, HeldStaysDown, AnsweredNeverDials,
        threadVars, connVars, Goto, Return, Obtain, Cancelled, Fresh, Drop, CloseCurrent
  <2> SUFFICES ASSUME IInv, [Next]_vars PROVE IInv'
    OBVIOUS
  <2>1. ASSUME NEW t \in Threads, GetRefused(t) PROVE IInv'
    BY <2>1 DEF IInv, GetRefused
  <2>2. ASSUME NEW t \in Threads, GetReuse(t) PROVE IInv'
    <3>1. CASE t \in Requests
      BY <2>2, <3>1 DEF IInv, GetReuse
    <3>2. CASE t \notin Requests
      BY <2>2, <3>2 DEF IInv, GetReuse
    <3> QED
      BY <3>1, <3>2
  <2>3. ASSUME NEW t \in Threads, GetMustDial(t) PROVE IInv'
    BY <2>3 DEF IInv, GetMustDial, Refused
  <2>4. ASSUME NEW t \in Threads, SetAbort(t) PROVE IInv'
    BY <2>4 DEF IInv, SetAbort
  <2>5. ASSUME NEW t \in Threads, SetAbortHeld(t) PROVE IInv'
    BY <2>5 DEF IInv, SetAbortHeld
  <2>6. ASSUME NEW t \in Threads, SignStart(t) PROVE IInv'
    BY <2>6 DEF IInv, SignStart
  <2>7. ASSUME NEW t \in Threads, SignDone(t) PROVE IInv'
    BY <2>7 DEF IInv, SignDone
  <2>8. ASSUME NEW t \in Threads, DialFail(t) PROVE IInv'
    BY <2>8 DEF IInv, DialFail
  <2>9. ASSUME NEW t \in Threads, DialOK(t) PROVE IInv'
    BY <2>9 DEF IInv, DialOK
  <2>10. ASSUME NEW t \in Threads, CtxDone(t) PROVE IInv'
    BY <2>10 DEF IInv, CtxDone
  <2>11. ASSUME NEW t \in Requests, Request(t) PROVE IInv'
    BY <2>11 DEF IInv, Request
  <2>12. ASSUME NEW t \in Requests, ChannelAnswered(t) PROVE IInv'
    BY <2>12 DEF IInv, ChannelAnswered
  <2>13. ASSUME NEW t \in Requests, ChannelLost(t) PROVE IInv'
    BY <2>13 DEF IInv, ChannelLost
  <2>14. ASSUME NEW t \in Requests, Forget(t) PROVE IInv'
    BY <2>14 DEF IInv, Forget
  <2>15. ASSUME NEW u \in Users, Up(u) PROVE IInv'
    <3> USE <2>15
    <3>1. /\ UNCHANGED <<mu, cli, answered, state, abort, aborted, got, connVars>>
          /\ held' = FALSE
          /\ pc[u] = "idle" /\ pc' = [pc EXCEPT ![u] = "lock"]
      BY DEF Up, Goto
    <3>2. TypeOK'
      BY DEF IInv, TypeOK, Up, Goto, connVars, Threads, Locations
    <3>3. pc \in [Threads -> Locations] /\ u \in Threads
      BY DEF IInv, TypeOK, Threads
    <3>4. Holders' = Holders /\ Dialling' = Dialling
      BY <3>1, <3>3 DEF Holders, Dialling
    <3>5. MutexOwned' /\ AbortPublished'
      BY <3>1, <3>4 DEF IInv, MutexOwned, AbortPublished
    <3>6. ConnObtained' /\ (Holders \cup answered # {} => cli = NoConn)'
      BY <3>1, <3>3, <3>4 DEF IInv, ConnObtained, connVars
    <3>7. StateIsFaithful'
      BY <3>1, <3>3 DEF IInv, StateIsFaithful
    <3>8. NothingLeaks'
      BY <3>1 DEF IInv, NothingLeaks, connVars
    <3>9. DownSeesDial' /\ HeldStaysDown'
      BY <3>1 DEF DownSeesDial, HeldStaysDown
    <3>10. AnsweredNeverDials'
      BY <3>1, <3>3 DEF IInv, AnsweredNeverDials
    <3> QED
      BY <3>2, <3>5, <3>6, <3>7, <3>8, <3>9, <3>10 DEF IInv
  <2>16. ASSUME NEW u \in Users, DownHold(u) PROVE IInv'
    BY <2>16 DEF IInv, DownHold
  <2>17. ASSUME NEW u \in Users, DownAbort(u) PROVE IInv'
    BY <2>17 DEF IInv, DownAbort
  <2>18. ASSUME NEW u \in Users, DownClose(u) PROVE IInv'
    BY <2>18 DEF IInv, DownClose
  <2>19. ASSUME NEW u \in Users, CallClose(u) PROVE IInv'
    BY <2>19 DEF IInv, CallClose
  <2>20. ASSUME NEW u \in Users, Close(u) PROVE IInv'
    BY <2>20 DEF IInv, Close
  <2>21. ASSUME NEW k \in Conns, PathDies(k) PROVE IInv'
    BY <2>21 DEF IInv, PathDies
  <2>22. ASSUME NEW k \in Conns, PeerCloses(k) PROVE IInv'
    BY <2>22 DEF IInv, PeerCloses
  <2>23. ASSUME NEW k \in Conns, Heartbeat(k) PROVE IInv'
    BY <2>23 DEF IInv, Heartbeat
  <2>24. ASSUME NEW k \in Conns, WatchEnd(k) PROVE IInv'
    BY <2>24 DEF IInv, WatchEnd
  <2>25. CASE SetAutoconnect
    BY <2>25 DEF IInv, SetAutoconnect
  <2>26. CASE UNCHANGED vars
    BY <2>26 DEF IInv, vars
  <2> QED
    BY <2>1, <2>2, <2>3, <2>4, <2>5, <2>6, <2>7, <2>8, <2>9, <2>10, <2>11, <2>12,
       <2>13, <2>14, <2>15, <2>16, <2>17, <2>18, <2>19, <2>20, <2>21, <2>22,
       <2>23, <2>24, <2>25, <2>26
    DEF Next, Get, Open, Down, Watch
<1> QED
  BY <1>1, <1>2, PTL DEF Spec

-----------------------------------------------------------------------------
(* The safety properties. *)

\* Every variable of a client keeps to its type.
THEOREM TypeCorrect == Spec => []TypeOK
<1>1. IInv => TypeOK
  BY DEF IInv
<1> QED
  BY <1>1, Invariance, PTL

\* Get never runs two handshakes at once, nor one beside an open connection.
THEOREM MutexCollapsesDials == Spec => []OneHandshake
<1>1. IInv => OneHandshake
  <2> SUFFICES ASSUME IInv PROVE OneHandshake
    OBVIOUS
  <2>1. ASSUME NEW t \in Holders, NEW u \in Holders PROVE t = u
    BY DEF IInv, MutexOwned, Holders, Dialling
  <2>2. Holders # {} => cli = NoConn
    BY DEF IInv
  <2> QED
    BY <2>1, <2>2 DEF OneHandshake
<1> QED
  BY <1>1, Invariance, PTL

\* State() never shows a dial or a connection that is not there, and always
\* one that is.
THEOREM MenuShowsTheTruth == Spec => []StateIsFaithful
<1>1. IInv => StateIsFaithful
  BY DEF IInv
<1> QED
  BY <1>1, Invariance, PTL

\* No ssh.Client is left open and unreferenced, or open and unwatched.
THEOREM NoConnectionLeaks == Spec => []NothingLeaks
<1>1. IInv => NothingLeaks
  BY DEF IInv
<1> QED
  BY <1>1, Invariance, PTL

\* A Down never misses the dial that get has started: setAbort and Down
\* agree under abortMu.
THEOREM NoLostAbort == Spec => []DownSeesDial
<1>1. IInv => DownSeesDial
  BY DEF IInv
<1> QED
  BY <1>1, Invariance, PTL

\* Once Down has returned the connection stays closed until Up.
THEOREM DownKeepsItClosed == Spec => []HeldStaysDown
<1>1. IInv => HeldStaysDown
  BY DEF IInv
<1> QED
  BY <1>1, Invariance, PTL

\* A call answered by the dial it waited for never dials.
THEOREM NoStackedTimeouts == Spec => []AnsweredNeverDials
<1>1. IInv => AnsweredNeverDials
  BY DEF IInv
<1> QED
  BY <1>1, Invariance, PTL

-----------------------------------------------------------------------------
(* Steps. *)

\* A watcher or a forget that wakes late spares the connection dialled since:
\* an open one goes by its peer, by Down or Close, or by a request that failed
\* to open its own channel on it.
THEOREM LateWakersAreHarmless == Spec => LateWakersSpareLiveConn
<1> DEFINE Accounted ==
             \A k \in Conns :
               cli = k /\ conn[k] = "open" /\ (cli' # k \/ conn'[k] = "closed")
               => \/ PeerCloses(k)
                  \/ \E u \in Users : pc[u] \in {"downLock", "closeLock"} /\ pc'[u] = "idle"
                  \/ \E t \in Requests : pc[t] = "open" /\ got[t] = k /\ pc'[t] = "forget"
<1>1. IInv /\ [Next]_vars => [Accounted]_vars
  <2> DEFINE ByUser == \E u \in Users :
                          pc[u] \in {"downLock", "closeLock"} /\ pc'[u] = "idle"
             ByOpener(k) == \E t \in Requests :
                               pc[t] = "open" /\ got[t] = k /\ pc'[t] = "forget"
  <2> SUFFICES ASSUME IInv, Next, NEW k \in Conns,
                      cli = k, conn[k] = "open", cli' # k \/ conn'[k] = "closed"
               PROVE PeerCloses(k) \/ ByUser \/ ByOpener(k)
    OBVIOUS
  <2> USE ConnsAssumption DEF threadVars, connVars, ConnsAssumption
  <2>a. /\ pc \in [Threads -> Locations] /\ conn \in [Conns -> ConnStatus]
        /\ cli # NoConn /\ Requests \subseteq Threads /\ Users \subseteq Threads
    BY DEF IInv, TypeOK, Threads
  <2>1. ASSUME NEW t \in Threads, Get(t) \/ CtxDone(t) PROVE FALSE
    BY <2>1, <2>a DEF Get, GetRefused, GetReuse, GetMustDial, SetAbort, SetAbortHeld,
       SignStart, SignDone, DialFail, DialOK, CtxDone, IInv, Holders, Dialling
  <2>2. ASSUME NEW t \in Requests, Request(t) \/ Open(t) PROVE ByOpener(k)
    <3>1. CASE Request(t) \/ ChannelAnswered(t)
      BY <3>1 DEF Request, ChannelAnswered
    <3>2. CASE ChannelLost(t)
      BY <3>2, <2>a DEF ChannelLost, Goto
    <3>3. CASE Forget(t)
      BY <3>3, <2>a DEF Forget, Drop, IInv, ConnObtained
    <3> QED
      BY <2>2, <3>1, <3>2, <3>3 DEF Open
  <2>3. ASSUME NEW c \in Conns, PathDies(c) \/ PeerCloses(c) \/ Watch(c)
        PROVE PeerCloses(k)
    BY <2>3, <2>a DEF PathDies, PeerCloses, Watch, Heartbeat, WatchEnd, Drop
  <2>4. ASSUME NEW u \in Users, Up(u) \/ Down(u) \/ CallClose(u) \/ Close(u)
        PROVE ByUser
    <3>1. CASE DownClose(u)
      BY <3>1, <2>a DEF DownClose, Return, Goto
    <3>2. CASE Close(u)
      BY <3>2, <2>a DEF Close, Return, Goto
    <3> QED
      BY <2>4, <3>1, <3>2 DEF Up, Down, DownHold, DownAbort, CallClose
  <2> QED
    BY <2>1, <2>2, <2>3, <2>4 DEF Next, SetAutoconnect
<1> QED
  BY <1>1, Invariance, PTL DEF Spec, LateWakersSpareLiveConn

-----------------------------------------------------------------------------
(* Refinement. *)

\* sshclient.Client implements HoldableLink: dialled once at a time, and down
\* for as long as the user holds it down.
THEOREM Implementation == Spec => ImplementsLink
\* A new client is a link that is down and not held.
<1>1. Init => Link!Init
  <2> SUFFICES ASSUME Init PROVE Link!Init
    OBVIOUS
  <2>1. Holders = {} /\ Downs = {} /\ cli = NoConn /\ held = FALSE
    BY ThreadsAssumption DEF ThreadsAssumption, Init, Holders, Dialling, Downs, Threads
  <2> QED
    BY <2>1 DEF Link!Init, link
\* Every step is a step of the link, or is not seen there.
<1>2. IInv /\ IInv' /\ [Next]_vars => [Link!Next]_(Link!vars)
  <2> SUFFICES ASSUME IInv, IInv', [Next]_vars PROVE [Link!Next]_(Link!vars)
    OBVIOUS
  <2> USE ThreadsAssumption, ConnsAssumption
      DEF ThreadsAssumption, ConnsAssumption, Threads, threadVars, connVars,
          Goto, Return, Obtain
  <2>a. /\ pc \in [Threads -> Locations] /\ cli \in Conns \cup {NoConn}
        /\ \A t \in Threads : mu = t <=> t \in Holders
        /\ Holders # {} => cli = NoConn
    BY DEF IInv, TypeOK, MutexOwned
  <2>b. /\ mu' \in Threads \cup {NoThread}
        /\ \A t \in Threads : mu' = t <=> t \in Holders'
        /\ Holders' # {} => cli' = NoConn
    BY DEF IInv, TypeOK, MutexOwned
  <2>c. (Holders # {}) <=> (mu # NoThread)
    BY <2>a DEF IInv, TypeOK, Holders, Dialling
  <2>d. (Holders' # {}) <=> (mu' # NoThread)
    BY <2>b DEF Holders, Dialling
  <2> DEFINE Unseen == UNCHANGED <<link, held, Downs>>
  <2>e. Unseen => UNCHANGED Link!vars
    BY DEF Link!vars
  <2>1. ASSUME NEW t \in Threads,
               GetRefused(t) \/ GetReuse(t) \/ SetAbort(t) \/ SignStart(t)
                 \/ SignDone(t) \/ CtxDone(t)
        PROVE Unseen
    <3>1. Downs' = Downs
      BY <2>1, <2>a DEF GetRefused, GetReuse, SetAbort, SignStart, SignDone, CtxDone, Downs
    <3>2. mu' = mu /\ cli' = cli /\ held' = held
      BY <2>1 DEF GetRefused, GetReuse, SetAbort, SignStart, SignDone, CtxDone
    <3> QED
      BY <3>1, <3>2, <2>c, <2>d DEF link
  <2>2. ASSUME NEW t \in Threads, GetMustDial(t) PROVE Link!Dial
    <3>1. Downs' = Downs
      BY <2>2, <2>a DEF GetMustDial, Downs
    <3> QED
      BY <2>2, <3>1, <2>c, <2>d DEF GetMustDial, Refused, link, Link!Dial
  <2>3. ASSUME NEW t \in Threads, SetAbortHeld(t) \/ DialFail(t) PROVE Link!Lose
    <3>1. Downs' = Downs
      BY <2>3, <2>a DEF SetAbortHeld, DialFail, Downs
    <3>2. t \in Holders
      BY <2>3 DEF SetAbortHeld, DialFail, Holders, Dialling
    <3> QED
      BY <2>3, <3>1, <3>2, <2>a, <2>d DEF SetAbortHeld, DialFail, link, Link!Lose
  <2>4. ASSUME NEW t \in Threads, DialOK(t) PROVE Link!Establish
    <3>1. Downs' = Downs
      BY <2>4, <2>a DEF DialOK, Downs
    <3>2. t \in Dialling /\ t \notin aborted
      BY <2>4 DEF DialOK, Dialling, Cancelled
    <3>3. held => Downs # {}
      BY <3>2 DEF IInv, DownSeesDial, Downs
    <3> QED
      BY <2>4, <3>1, <3>2, <3>3, <2>a DEF DialOK, Holders, link, Link!Establish
  <2>5. ASSUME NEW t \in Requests,
               Request(t) \/ ChannelAnswered(t) \/ ChannelLost(t)
        PROVE Unseen
    <3>1. Downs' = Downs
      BY <2>5, <2>a DEF Request, ChannelAnswered, ChannelLost, Downs
    <3>2. mu' = mu /\ cli' = cli /\ held' = held
      BY <2>5 DEF Request, ChannelAnswered, ChannelLost
    <3> QED
      BY <3>1, <3>2, <2>c, <2>d DEF link
  <2>6. ASSUME NEW t \in Requests, Forget(t) PROVE Unseen \/ Link!Lose
    <3>1. Downs' = Downs
      BY <2>6, <2>a DEF Forget, Downs
    <3> QED
      BY <2>6, <3>1, <2>c, <2>d DEF Forget, Drop, link, Link!Lose
  <2>7. ASSUME NEW u \in Users, Up(u) PROVE Link!Release
    <3>1. Downs' = Downs
      BY <2>7, <2>a DEF Up, Downs
    <3> QED
      BY <2>7, <3>1, <2>c, <2>d DEF Up, link, Link!Release
  <2>8. ASSUME NEW u \in Users, DownHold(u) PROVE Link!Hold
    <3>1. u \in Downs'
      BY <2>8, <2>a DEF DownHold, Downs
    <3> QED
      BY <2>8, <3>1, <2>c, <2>d DEF DownHold, link, Link!Hold
  <2>9. ASSUME NEW u \in Users, DownAbort(u) PROVE Unseen
    <3>1. Downs' = Downs
      BY <2>9, <2>a DEF DownAbort, Downs
    <3> QED
      BY <2>9, <3>1, <2>c, <2>d DEF DownAbort, link
  <2>10. ASSUME NEW u \in Users, DownClose(u) PROVE Link!Cut
    <3>1. u \in Downs
      BY <2>10 DEF DownClose, Downs
    <3> QED
      BY <2>10, <3>1, <2>c, <2>d DEF DownClose, link, Link!Cut
  <2>11. ASSUME NEW u \in Users, CallClose(u) PROVE Unseen
    <3>1. Downs' = Downs
      BY <2>11, <2>a DEF CallClose, Downs
    <3> QED
      BY <2>11, <3>1, <2>c, <2>d DEF CallClose, link
  <2>12. ASSUME NEW u \in Users, Close(u) PROVE Unseen \/ Link!Lose
    <3>1. Downs' = Downs
      BY <2>12, <2>a DEF Close, Downs
    <3> QED
      BY <2>12, <3>1, <2>c, <2>d DEF Close, link, Link!Lose
  <2>13. ASSUME NEW k \in Conns, PathDies(k) \/ PeerCloses(k) \/ Heartbeat(k)
         PROVE Unseen
    BY <2>13 DEF PathDies, PeerCloses, Heartbeat, link, Downs, Holders, Dialling
  <2>14. ASSUME NEW k \in Conns, WatchEnd(k) PROVE Unseen \/ Link!Lose
    <3>1. Downs' = Downs
      BY <2>14 DEF WatchEnd, Downs
    <3> QED
      BY <2>14, <3>1, <2>c, <2>d DEF WatchEnd, Drop, link, Link!Lose
  <2>15. CASE SetAutoconnect \/ UNCHANGED vars
    <3>1. Unseen
      BY <2>15 DEF SetAutoconnect, vars, link, Downs, Holders, Dialling
    <3> QED
      BY <3>1, <2>e
  <2> QED
    BY <2>1, <2>2, <2>3, <2>4, <2>5, <2>6, <2>7, <2>8, <2>9, <2>10, <2>11, <2>12,
       <2>13, <2>14, <2>15, <2>e
    DEF Next, Get, Open, Down, Watch, Link!Next
<1> QED
  BY <1>1, <1>2, Invariance, PTL DEF Spec, ImplementsLink, Link!Spec

=============================================================================
