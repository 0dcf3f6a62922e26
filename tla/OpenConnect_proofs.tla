------------------------- MODULE OpenConnect_proofs -------------------------
(***************************************************************************)
(* Proofs about OpenConnect, for every number of requests, users and       *)
(* process addresses, with a kernel tun or without.                        *)
(***************************************************************************)
EXTENDS OpenConnect, TLAPS

(* The invariant. *)

\* mu is held by the goroutine that is in the critical section.
MutexOwned == \A t \in Threads : mu = t <=> t \in Holders

\* Client.abort is the cancel of the start in flight.
AbortPublished == \A t \in Threads : abort = t <=> t \in Starting

\* The steps of a start that has a process.
Spawned == StartSteps \ {"secrets", "starting"}

\* cur is the process of the start in flight, and proc is nil until it ends.
ProcOfStart ==
    /\ cur # NoProc => mu \in Threads /\ pc[mu] \in Spawned
    /\ \A t \in Threads : pc[t] \in Spawned => cur # NoProc
    /\ \A t \in Threads : pc[t] \in {"setAbort"} \cup StartSteps => proc = NoProc

\* A start under a hold has its disconnect still to come: the Down waits for mu.
HeldStartIsCut ==
    held => \A t \in Starting : \E u \in Users : pc[u] \in {"abort", "downLock", "downStop"}

IInv ==
    /\ TypeOK
    /\ MutexOwned
    /\ AbortPublished
    /\ ProcOfStart
    /\ HeldStartIsCut
    /\ OneProcess
    /\ NoOrphan
    /\ HeldStaysDown
    /\ DownSeesStart
    /\ AnsweredNeverStarts
    /\ RunningIsShown

\* The inductive invariant holds in every behaviour of the client.
THEOREM Invariance == Spec => []IInv
\* A new client satisfies the invariant.
<1>1. Init => IInv
  <2> SUFFICES ASSUME Init PROVE IInv
    OBVIOUS
  <2> USE ThreadsAssumption, ProcsAssumption
      DEF ThreadsAssumption, ProcsAssumption, Threads, Init, States, Locations, Waits,
          StartSteps, Starting, Holders, Downs, Runs, Spawned
  <2>1. TypeOK
    BY DEF TypeOK
  <2>2. MutexOwned /\ AbortPublished /\ ProcOfStart /\ HeldStartIsCut
    BY DEF MutexOwned, AbortPublished, ProcOfStart, HeldStartIsCut
  <2>3. OneProcess /\ NoOrphan /\ HeldStaysDown /\ DownSeesStart
    BY DEF OneProcess, NoOrphan, HeldStaysDown, DownSeesStart
  <2>4. AnsweredNeverStarts /\ RunningIsShown
    BY DEF AnsweredNeverStarts, RunningIsShown
  <2> QED
    BY <2>1, <2>2, <2>3, <2>4 DEF IInv
\* No step of a goroutine, of a process or of the one that waits for it breaks
\* the invariant.
<1>2. IInv /\ [Next]_vars => IInv'
  <2> SUFFICES ASSUME IInv, [Next]_vars PROVE IInv'
    OBVIOUS
  <2> USE ThreadsAssumption, ProcsAssumption
      DEF ThreadsAssumption, ProcsAssumption, Threads, States, Locations, Waits,
          StartSteps, Starting, Holders, Downs, Runs, Done, Spawned,
          TypeOK, MutexOwned, AbortPublished, ProcOfStart, HeldStartIsCut, OneProcess,
          NoOrphan, HeldStaysDown, DownSeesStart, AnsweredNeverStarts, RunningIsShown,
          clientVars, waiterVars, Goto, Return
  <2>1. ASSUME NEW t \in Threads, GetRefused(t) PROVE IInv'
    BY <2>1 DEF IInv, GetRefused, NoneToReuse
  <2>2. ASSUME NEW t \in Threads, GetReuse(t) PROVE IInv'
    BY <2>2 DEF IInv, GetReuse
  <2>3. ASSUME NEW t \in Threads, Reuse(t) PROVE IInv'
    BY <2>3 DEF IInv, Reuse
  <2>4. ASSUME NEW t \in Threads, GetMustStart(t) PROVE IInv'
    BY <2>4 DEF IInv, GetMustStart, NoneToReuse, Refused
  <2>5. ASSUME NEW t \in Threads, SetAbort(t) PROVE IInv'
    BY <2>5 DEF IInv, SetAbort
  <2>6. ASSUME NEW t \in Threads, SetAbortHeld(t) PROVE IInv'
    BY <2>6 DEF IInv, SetAbortHeld
  <2>s. ASSUME NEW t \in Threads, ResolveSecrets(t) PROVE IInv'
    BY <2>s DEF IInv, ResolveSecrets
  <2>7. ASSUME NEW t \in Threads, Spawn(t) PROVE IInv'
    BY <2>7 DEF IInv, Spawn, Fresh
  <2>8. ASSUME NEW t \in Threads, Ready(t) PROVE IInv'
    BY <2>8 DEF IInv, Ready
  <2>9. ASSUME NEW t \in Threads, StoreResolver(t) PROVE IInv'
    BY <2>9 DEF IInv, StoreResolver
  <2>10. ASSUME NEW t \in Threads, StoreUp(t) PROVE IInv'
    BY <2>10 DEF IInv, StoreUp
  <2>11. ASSUME NEW t \in Threads, GiveUp(t) PROVE IInv'
    BY <2>11 DEF IInv, GiveUp
  <2>12. ASSUME NEW t \in Threads, StartFail(t) PROVE IInv'
    BY <2>12 DEF IInv, StartFail, StartOver
  <2>13. ASSUME NEW t \in Threads, StartOK(t) PROVE IInv'
    BY <2>13 DEF IInv, StartOK
  <2>14. ASSUME NEW t \in Threads, CtxDone(t) PROVE IInv'
    BY <2>14 DEF IInv, CtxDone
  <2>15. ASSUME NEW t \in Requests, Request(t) PROVE IInv'
    BY <2>15 DEF IInv, Request
  <2>16. ASSUME NEW u \in Users, Up(u) PROVE IInv'
    <3> USE <2>16
    <3>1. /\ UNCHANGED <<mu, proc, cur, answered, state, abort, waiter>>
          /\ held' = FALSE
          /\ pc[u] = "idle" /\ pc' = [pc EXCEPT ![u] = "lock"]
      BY DEF Up, Goto, clientVars, waiterVars
    <3>2. TypeOK'
      BY DEF IInv, TypeOK, Up, Goto, clientVars, waiterVars, Threads, Locations
    <3>3. pc \in [Threads -> Locations] /\ u \in Threads
      BY DEF IInv, TypeOK, Threads
    <3>4. Holders' = Holders /\ Starting' = Starting
      BY <3>1, <3>3 DEF Holders, Starting, StartSteps
    <3>5. MutexOwned' /\ AbortPublished'
      BY <3>1, <3>4 DEF IInv, MutexOwned, AbortPublished
    <3>6. ProcOfStart'
      BY <3>1, <3>3 DEF IInv, ProcOfStart, Spawned, StartSteps
    <3>7. HeldStartIsCut' /\ HeldStaysDown' /\ DownSeesStart'
      BY <3>1 DEF HeldStartIsCut, HeldStaysDown, DownSeesStart
    <3>8. OneProcess' /\ NoOrphan'
      BY <3>1 DEF IInv, OneProcess, NoOrphan, Runs
    <3>9. AnsweredNeverStarts'
      BY <3>1, <3>3 DEF IInv, AnsweredNeverStarts
    <3>10. RunningIsShown'
      BY <3>1, <3>4 DEF IInv, RunningIsShown
    <3> QED
      BY <3>2, <3>5, <3>6, <3>7, <3>8, <3>9, <3>10 DEF IInv
  <2>17. ASSUME NEW u \in Users, DownHold(u) PROVE IInv'
    BY <2>17 DEF IInv, DownHold
  <2>18. ASSUME NEW u \in Users, DownAbort(u) PROVE IInv'
    BY <2>18 DEF IInv, DownAbort
  <2>19. ASSUME NEW u \in Users, CallClose(u) PROVE IInv'
    BY <2>19 DEF IInv, CallClose
  <2>20. ASSUME NEW u \in Users, StopProc(u) PROVE IInv'
    BY <2>20 DEF IInv, StopProc
  <2>21. ASSUME NEW u \in Users, DownDone(u) PROVE IInv'
    BY <2>21 DEF IInv, DownDone, NoneToReuse
  <2>22. ASSUME NEW u \in Users, CloseDone(u) PROVE IInv'
    BY <2>22 DEF IInv, CloseDone, NoneToReuse
  <2>23. ASSUME NEW p \in Procs, Exit(p) PROVE IInv'
    BY <2>23 DEF IInv, Exit, WaiterStep
  <2>24. ASSUME NEW p \in Procs, Judge(p) PROVE IInv'
    BY <2>24 DEF IInv, Judge, WaiterStep
  <2>25. ASSUME NEW p \in Procs, ClearResolver(p) PROVE IInv'
    BY <2>25 DEF IInv, ClearResolver, WaiterStep
  <2>26. ASSUME NEW p \in Procs, SetDisconnected(p) PROVE IInv'
    BY <2>26 DEF IInv, SetDisconnected, WaiterStep
  <2>27. ASSUME NEW p \in Procs, CloseDoneChan(p) PROVE IInv'
    BY <2>27 DEF IInv, CloseDoneChan, WaiterStep
  <2>28. CASE SetAutoconnect
    BY <2>28 DEF IInv, SetAutoconnect
  <2>29. CASE UNCHANGED vars
    BY <2>29 DEF IInv, vars
  <2> QED
    BY <2>1, <2>2, <2>3, <2>4, <2>5, <2>6, <2>s, <2>7, <2>8, <2>9, <2>10, <2>11, <2>12,
       <2>13, <2>14, <2>15, <2>16, <2>17, <2>18, <2>19, <2>20, <2>21, <2>22, <2>23, <2>24, <2>25,
       <2>26, <2>27, <2>28, <2>29
    DEF Next, Get, Start, Stop, Wait
<1> QED
  BY <1>1, <1>2, PTL DEF Spec

-----------------------------------------------------------------------------
(* The safety properties. *)

\* Every variable of a client keeps to its type.
THEOREM TypeCorrect == Spec => []TypeOK
  BY Invariance, PTL DEF IInv

\* get never starts an openconnect beside one that runs.
THEOREM OneVPN == Spec => []OneProcess
  BY Invariance, PTL DEF IInv

\* Down and Close always find the openconnect that runs.
THEOREM NoVPNIsLost == Spec => []NoOrphan
  BY Invariance, PTL DEF IInv

\* Once Down has returned no VPN comes up until Up.
THEOREM DownKeepsItDown == Spec => []HeldStaysDown
  BY Invariance, PTL DEF IInv

\* A Down never misses the start that get has begun: setAbort and Down agree
\* under abortMu.
THEOREM NoLostAbort == Spec => []DownSeesStart
  BY Invariance, PTL DEF IInv

\* A call answered by the start it waited for costs no approval of its own.
THEOREM NoStackedApprovals == Spec => []AnsweredNeverStarts
  BY Invariance, PTL DEF IInv

\* A VPN that runs is shown as connected.
THEOREM MenuShowsTheVPN == Spec => []RunningIsShown
  BY Invariance, PTL DEF IInv

-----------------------------------------------------------------------------
(* Refinement. *)

\* openconnect.Client implements HoldableLink: started once at a time, and
\* down for as long as the user holds it down.
THEOREM Implementation == Spec => ImplementsLink
\* A new client is a link that is down and not held.
<1>1. Init => Link!Init
  <2> SUFFICES ASSUME Init PROVE Link!Init
    OBVIOUS
  <2>1. Starting = {} /\ Downs = {} /\ NoneToReuse /\ held = FALSE
    BY ThreadsAssumption, ProcsAssumption
    DEF ThreadsAssumption, ProcsAssumption, Init, Starting, StartSteps, Downs, Threads,
        NoneToReuse
  <2> QED
    BY <2>1 DEF Link!Init, link
\* Every step is a step of the link, or is not seen there.
<1>2. IInv /\ [Next]_vars => [Link!Next]_(Link!vars)
  <2> SUFFICES ASSUME IInv, [Next]_vars PROVE [Link!Next]_(Link!vars)
    OBVIOUS
  <2> USE ThreadsAssumption, ProcsAssumption
      DEF ThreadsAssumption, ProcsAssumption, Threads, StartSteps, clientVars,
          waiterVars, Goto, Return
  <2>a. /\ pc \in [Threads -> Locations] /\ waiter \in [Procs -> Waits]
        /\ proc \in Procs \cup {NoProc}
        /\ \A t \in Threads : mu = t <=> t \in Holders
        /\ \A t \in Threads : pc[t] \in {"setAbort"} \cup StartSteps => proc = NoProc
    BY DEF IInv, TypeOK, MutexOwned, ProcOfStart
  <2> DEFINE Unseen == UNCHANGED <<link, held, Downs>>
  <2>b. Unseen => UNCHANGED Link!vars
    BY DEF Link!vars
  <2>c. ASSUME NEW t \in Threads, t \in Starting PROVE Starting = {t} /\ NoneToReuse /\ mu = t
    BY <2>c, <2>a DEF Starting, Holders, NoneToReuse
  <2>d. mu \notin Threads => Starting = {}
    BY <2>a DEF Starting, Holders
  <2>1. ASSUME NEW t \in Threads,
               GetRefused(t) \/ GetReuse(t) \/ Reuse(t) \/ GetMustStart(t)
                 \/ SetAbortHeld(t) \/ CtxDone(t)
        PROVE  Unseen
    <3>1. Starting' = Starting /\ Downs' = Downs
      BY <2>1, <2>a DEF GetRefused, GetReuse, Reuse, GetMustStart, SetAbortHeld, CtxDone,
                        Starting, Downs
    <3>2. NoneToReuse' = NoneToReuse /\ held' = held
      BY <2>1 DEF GetRefused, GetReuse, Reuse, GetMustStart, SetAbortHeld, CtxDone,
                  NoneToReuse, Done
    <3> QED  BY <3>1, <3>2 DEF link
  <2>2. ASSUME NEW t \in Threads, SetAbort(t) PROVE Link!Dial
    <3>1. t \in Starting' /\ Downs' = Downs
      BY <2>2, <2>a DEF SetAbort, Starting, Downs
    <3>2. Starting = {} /\ NoneToReuse
      BY <2>2, <2>a DEF SetAbort, Starting, Holders, NoneToReuse
    <3> QED  BY <2>2, <3>1, <3>2 DEF SetAbort, link, Link!Dial
  <2>3. ASSUME NEW t \in Threads,
               ResolveSecrets(t) \/ Spawn(t) \/ Ready(t) \/ StoreResolver(t)
                 \/ StoreUp(t) \/ GiveUp(t)
        PROVE  Unseen
    <3>1. Starting' = Starting /\ Downs' = Downs
      BY <2>3, <2>a DEF ResolveSecrets, Spawn, Ready, StoreResolver, StoreUp, GiveUp, Starting, Downs
    <3>2. t \in Starting
      BY <2>3 DEF ResolveSecrets, Spawn, Ready, StoreResolver, StoreUp, GiveUp, Starting
    <3>3. held' = held
      BY <2>3 DEF ResolveSecrets, Spawn, Ready, StoreResolver, StoreUp, GiveUp
    <3> QED  BY <3>1, <3>2, <3>3 DEF link
  <2>4. ASSUME NEW t \in Threads, StartFail(t) PROVE Link!Lose
    <3>1. t \in Starting
      BY <2>4 DEF StartFail, StartOver, Starting
    <3>2. Starting' = {} /\ Downs' = Downs /\ UNCHANGED <<proc, waiter, held>>
      BY <2>4, <3>1, <2>a, <2>c DEF StartFail, Starting, Downs
    <3>3. NoneToReuse'
      BY <3>1, <3>2, <2>c DEF NoneToReuse, Done
    <3> QED  BY <3>1, <3>2, <3>3 DEF link, Link!Lose
  <2>5. ASSUME NEW t \in Threads, StartOK(t) PROVE Link!Establish \/ Link!Lose
    <3>1. t \in Starting
      BY <2>5 DEF StartOK, Starting
    <3>2. Starting' = {} /\ Downs' = Downs /\ held' = held
      BY <2>5, <3>1, <2>a, <2>c DEF StartOK, Starting, Downs
    <3>3. held => Downs # {}
      BY <3>1 DEF IInv, HeldStartIsCut, Downs
    <3> QED  BY <3>1, <3>2, <3>3 DEF link, Link!Establish, Link!Lose
  <2>6. ASSUME NEW t \in Requests, Request(t) PROVE Unseen
    <3>1. Starting' = Starting /\ Downs' = Downs
      BY <2>6, <2>a DEF Request, Starting, Downs
    <3> QED  BY <2>6, <3>1 DEF Request, link, NoneToReuse, Done
  <2>7. ASSUME NEW u \in Users, Up(u) PROVE Link!Release
    <3>1. Starting' = Starting /\ Downs' = Downs
      BY <2>7, <2>a DEF Up, Starting, Downs
    <3> QED  BY <2>7, <3>1 DEF Up, link, NoneToReuse, Done, Link!Release
  <2>8. ASSUME NEW u \in Users, DownHold(u) PROVE Link!Hold
    <3>1. Starting' = Starting /\ u \in Downs'
      BY <2>8, <2>a DEF DownHold, Starting, Downs
    <3> QED  BY <2>8, <3>1 DEF DownHold, link, NoneToReuse, Done, Link!Hold
  <2>9. ASSUME NEW u \in Users, DownAbort(u) \/ CallClose(u) \/ StopProc(u) PROVE Unseen
    <3>1. Starting' = Starting /\ Downs' = Downs
      BY <2>9, <2>a DEF DownAbort, CallClose, StopProc, Starting, Downs
    <3> QED  BY <2>9, <3>1 DEF DownAbort, CallClose, StopProc, link, NoneToReuse, Done
  <2>10. ASSUME NEW u \in Users, DownDone(u) PROVE Link!Cut
    <3>1. Starting = {} /\ Starting' = {} /\ u \in Downs
      BY <2>10, <2>a DEF DownDone, Starting, Holders, Downs
    <3>2. NoneToReuse' /\ held' = held
      BY <2>10 DEF DownDone, NoneToReuse, Done
    <3> QED  BY <2>10, <3>1, <3>2 DEF DownDone, link, Link!Cut
  <2>11. ASSUME NEW u \in Users, CloseDone(u) PROVE Unseen
    <3>1. Starting' = Starting /\ Downs' = Downs
      BY <2>11, <2>a DEF CloseDone, Starting, Downs
    <3>2. NoneToReuse' = NoneToReuse /\ held' = held
      BY <2>11 DEF CloseDone, NoneToReuse, Done
    <3> QED  BY <3>1, <3>2 DEF link
  <2>12. ASSUME NEW p \in Procs, Exit(p) \/ Wait(p) PROVE Unseen \/ Link!Lose
    <3>1. Starting' = Starting /\ Downs' = Downs /\ held' = held /\ proc' = proc
      BY <2>12 DEF Exit, Wait, Judge, ClearResolver, SetDisconnected, CloseDoneChan,
                   WaiterStep, Starting, Downs
    <3>2. \A q \in Procs : Done(q) => Done(q)'
      BY <2>12, <2>a DEF Exit, Wait, Judge, ClearResolver, SetDisconnected, CloseDoneChan,
                         WaiterStep, Done
    <3>3. NoneToReuse => NoneToReuse'
      BY <3>1, <3>2 DEF NoneToReuse
    <3> QED  BY <3>1, <3>3 DEF link, Link!Lose
  <2>13. CASE SetAutoconnect \/ UNCHANGED vars
    <3>1. Unseen
      BY <2>13 DEF SetAutoconnect, vars, link, Downs, Starting, NoneToReuse, Done
    <3> QED
      BY <3>1, <2>b
  <2> QED
    BY <2>1, <2>2, <2>3, <2>4, <2>5, <2>6, <2>7, <2>8, <2>9, <2>10, <2>11, <2>12,
       <2>13, <2>b
    DEF Next, Get, Start, Stop, Link!Next
<1> QED
  BY <1>1, <1>2, Invariance, PTL DEF Spec, ImplementsLink, Link!Spec

=============================================================================
