-------------------------- MODULE Lifecycle_proofs --------------------------
(***************************************************************************)
(* The controller's state is its proxy's, for every number of callers and  *)
(* runs.                                                                   *)
(***************************************************************************)
EXTENDS Lifecycle, TLAPS

\* The goroutine of a run that a caller still prepares has not been started.
NotStartedTwice ==
    \A a \in Callers : pc[a] \in {"tunnels", "serve"} =>
        mine[a] \in Runs /\ stage[mine[a]] = "none"

\* A Serve that was stopped has closed its listener before it returns.
ServedIsClosed ==
    \A r \in open : stage[r] \in {"served", "failed", "closing", "ended"} => r \in crashed

IInv == TypeOK /\ NotStartedTwice /\ ServedIsClosed /\ StateIsFaithful /\ LatestIsLive

-----------------------------------------------------------------------------
\* Start, Stop and the goroutine of a run write only what the types allow.
LEMMA NextTypeOK == ASSUME TypeOK, NotStartedTwice, [Next]_vars PROVE TypeOK'
<1> USE DEF TypeOK, States, Locations, Stages, fields, runVars
<1>1. ASSUME NEW a \in Callers, Start(a) PROVE TypeOK'
  <2>1. CASE BeginStart(a)  BY <2>1 DEF BeginStart, Return, Goto
  <2>2. CASE StartFails(a)  BY <2>2 DEF StartFails, Fail, Return, Goto
  <2>3. CASE Listen(a)      BY <2>3 DEF Listen, Goto
  <2>4. CASE TunnelsFail(a) BY <2>4 DEF TunnelsFail, Fail, Return, Goto, NotStartedTwice
  <2>5. CASE Publish(a)     BY <2>5 DEF Publish, Goto
  <2>6. CASE Serve(a)       BY <2>6 DEF Serve, Return, Goto
  <2> QED  BY <1>1, <2>1, <2>2, <2>3, <2>4, <2>5, <2>6 DEF Start
<1>2. ASSUME NEW a \in Callers, Stop(a) PROVE TypeOK'
  <2>1. CASE BeginStop(a)
    <3>1. restarting' \subseteq Starters \cap Stoppers  BY <2>1 DEF BeginStop
    <3> QED  BY <2>1, <3>1 DEF BeginStop, Goto
  <2>2. CASE Cancel(a)      BY <2>2 DEF Cancel, Goto
  <2>3. CASE WaitDone(a)    BY <2>3 DEF WaitDone, Goto
  <2>4. CASE WaitTimeout(a) BY <2>4 DEF WaitTimeout, Goto
  <2>5. CASE Clear(a)       BY <2>5 DEF Clear, StopReturns, Return, Goto
  <2> QED  BY <1>2, <2>1, <2>2, <2>3, <2>4, <2>5 DEF Stop
<1>3. ASSUME NEW r \in Runs, Run(r) PROVE TypeOK'
  BY <1>3 DEF Run, Collect, CloseListener, ServeReturns, ServeFails, Settle, End
<1>4. CASE UNCHANGED vars  BY <1>4 DEF vars
<1> QED  BY <1>1, <1>2, <1>3, <1>4 DEF Next

-----------------------------------------------------------------------------
\* The steps of a Stop, and of the goroutine of a run before it settles, leave
\* alone everything the state is about.
LEMMA Quiet ==
    ASSUME IInv, TypeOK', UNCHANGED <<state, latest>>,
           {r \in Runs : stage'[r] \in {"serving", "served", "failed"}}
             = {r \in Runs : stage[r] \in {"serving", "served", "failed"}},
           \A r \in Runs : stage[r] = "none" <=> stage'[r] = "none",
           \A a \in Callers : pc[a] \in {"load", "tunnels", "serve"}
                                \/ pc'[a] \in {"load", "tunnels", "serve"}
                              => pc'[a] = pc[a] /\ mine'[a] = mine[a]
    PROVE  NotStartedTwice' /\ StateIsFaithful' /\ LatestIsLive'
<1>1. NotStartedTwice'  BY DEF IInv, NotStartedTwice
<1>2. Live' = Live      BY DEF Live
<1>3. StateIsFaithful'  BY <1>2 DEF IInv, StateIsFaithful
<1>4. LatestIsLive'     BY <1>2 DEF IInv, LatestIsLive
<1> QED  BY <1>1, <1>3, <1>4

\* However Start, Stop, Restart and the goroutines of the runs interleave, the
\* invariant holds.
THEOREM Invariance == Spec => []IInv
\* The initial state of New satisfies the invariant.
<1>1. Init => IInv
  BY DEF Init, IInv, TypeOK, NotStartedTwice, ServedIsClosed, StateIsFaithful,
         LatestIsLive, Live, States, Locations, Stages
\* The invariant is inductive.
<1>2. IInv /\ [Next]_vars => IInv'
  <2> SUFFICES ASSUME IInv, [Next]_vars PROVE IInv'
    OBVIOUS
  <2>1. TypeOK'
    BY NextTypeOK DEF IInv
  \* Start, step by step: it leaves Starting for Running with a run, or for Error
  \* without one, and no other Start is at work.
  <2>2. ASSUME NEW a \in Callers, Start(a) PROVE IInv'
    <3> USE <2>1, <2>2
    <3> USE DEF Locations, fields, runVars, Goto, Return
    <3>1. CASE BeginStart(a)
      <4>1. NotStartedTwice' /\ ServedIsClosed'
        BY <3>1 DEF IInv, TypeOK, BeginStart, NotStartedTwice, ServedIsClosed
      <4>2. CASE state \in {"running", "starting"}
        <5>1. StateIsFaithful' /\ LatestIsLive'
          BY <3>1, <4>2, Quiet DEF IInv, TypeOK, BeginStart
        <5> QED  BY <4>1, <5>1 DEF IInv
      <4>3. CASE state \notin {"running", "starting"}
        <5>1. Live = {} /\ \A b \in Callers : pc[b] \notin {"load", "tunnels", "serve"}
          BY <4>3 DEF IInv, StateIsFaithful, NotStartedTwice, Live
        <5>2. Live' = {}
          BY <3>1, <4>3, <5>1 DEF IInv, TypeOK, BeginStart, Live
        <5>3. StateIsFaithful'
          BY <3>1, <4>3, <5>1, <5>2 DEF IInv, TypeOK, BeginStart, StateIsFaithful
        <5> QED  BY <4>1, <5>2, <5>3 DEF IInv, LatestIsLive
      <4> QED  BY <4>2, <4>3
    <3>2. CASE StartFails(a) \/ TunnelsFail(a)
      <4>1. /\ pc[a] \in {"load", "tunnels"}
            /\ state' = "error"
            /\ pc' = [pc EXCEPT ![a] = "idle"]
            /\ mine' = [mine EXCEPT ![a] = NoRun]
            /\ UNCHANGED <<stage, open, crashed>>
        BY <3>2 DEF StartFails, TunnelsFail, Fail
      <4>2. NotStartedTwice' /\ ServedIsClosed'
        BY <4>1 DEF IInv, TypeOK, NotStartedTwice, ServedIsClosed
      <4>3. Live = {} /\ \A b \in Callers : pc[b] \in {"load", "tunnels", "serve"} => b = a
        BY <4>1 DEF IInv, TypeOK, StateIsFaithful
      <4>4. Live' = {}
        BY <4>1, <4>3 DEF IInv, TypeOK, Live
      <4>5. StateIsFaithful'
        BY <4>1, <4>3, <4>4 DEF IInv, TypeOK, StateIsFaithful
      <4> QED  BY <4>2, <4>4, <4>5 DEF IInv, LatestIsLive
    <3>3. CASE Listen(a)
      <4>1. PICK r \in Runs :
              /\ Fresh(r)
              /\ mine' = [mine EXCEPT ![a] = r]
              /\ stage' = [stage EXCEPT ![r] = "none"]
              /\ open' = open \cup {r}
              /\ cancelled' = cancelled \ {r}
              /\ crashed' = crashed \ {r}
        BY <3>3 DEF Listen
      <4>2. pc[a] = "load" /\ pc' = [pc EXCEPT ![a] = "tunnels"] /\ UNCHANGED <<state, latest>>
        BY <3>3 DEF Listen
      <4>3. NotStartedTwice' /\ ServedIsClosed'
        BY <4>1, <4>2 DEF IInv, TypeOK, NotStartedTwice, ServedIsClosed, Fresh
      <4>4. Live = {} /\ \A b \in Callers : pc[b] \in {"load", "tunnels", "serve"} => b = a
        BY <4>2 DEF IInv, TypeOK, StateIsFaithful
      <4>5. Live' = {}
        BY <4>1, <4>2, <4>4 DEF IInv, TypeOK, Live
      <4>6. StateIsFaithful'
        BY <4>2, <4>4, <4>5 DEF IInv, TypeOK, StateIsFaithful
      <4> QED  BY <4>3, <4>5, <4>6 DEF IInv, LatestIsLive
    <3>4. CASE Publish(a)
      <4>1. NotStartedTwice' /\ ServedIsClosed'
        BY <3>4 DEF IInv, TypeOK, Publish, NotStartedTwice, ServedIsClosed
      <4>2. Live = {} /\ \A b \in Callers : pc[b] \in {"load", "tunnels", "serve"} => b = a
        BY <3>4 DEF IInv, TypeOK, StateIsFaithful, Publish
      <4>3. Live' = {mine[a]}
        BY <3>4, <4>2 DEF IInv, TypeOK, NotStartedTwice, Publish, Live
      <4>4. StateIsFaithful'
        BY <3>4, <4>2, <4>3 DEF IInv, TypeOK, Publish, StateIsFaithful
      <4>5. LatestIsLive'
        BY <3>4, <4>3 DEF Publish, LatestIsLive
      <4> QED  BY <4>1, <4>4, <4>5 DEF IInv
    <3>5. CASE Serve(a)
      <4>1. \A b \in Callers : pc[b] \in {"load", "tunnels", "serve"} => b = a
        BY <3>5 DEF IInv, TypeOK, StateIsFaithful, Serve
      <4>2. NotStartedTwice' /\ ServedIsClosed'
        BY <3>5, <4>1 DEF IInv, TypeOK, NotStartedTwice, ServedIsClosed, Serve
      <4>3. Live' = Live
        BY <3>5, <4>1 DEF IInv, TypeOK, NotStartedTwice, Live, Serve
      <4>4. StateIsFaithful' /\ LatestIsLive'
        BY <3>5, <4>1, <4>3 DEF IInv, TypeOK, StateIsFaithful, LatestIsLive, Serve
      <4> QED  BY <4>2, <4>4 DEF IInv
    <3> QED  BY <3>1, <3>2, <3>3, <3>4, <3>5 DEF Start
  \* Stop changes no run, and clears nothing the state is about.
  <2>3. ASSUME NEW a \in Callers, Stop(a) PROVE IInv'
    <3> USE <2>1, <2>3
    <3> USE DEF Locations, fields, runVars, Goto, Return
    <3>1. /\ UNCHANGED <<state, latest, stage, open, crashed>>
          /\ pc[a] \notin {"load", "tunnels", "serve"}
          /\ pc'[a] \notin {"load", "tunnels", "serve"}
          /\ \A b \in Callers : b # a => pc'[b] = pc[b] /\ mine'[b] = mine[b]
      <4>1. CASE BeginStop(a)   BY <4>1 DEF BeginStop, IInv, TypeOK
      <4>2. CASE Cancel(a)      BY <4>2 DEF Cancel, IInv, TypeOK
      <4>3. CASE WaitDone(a)    BY <4>3 DEF WaitDone, IInv, TypeOK
      <4>4. CASE WaitTimeout(a) BY <4>4 DEF WaitTimeout, IInv, TypeOK
      <4>5. CASE Clear(a)       BY <4>5 DEF Clear, StopReturns, IInv, TypeOK
      <4> QED  BY <4>1, <4>2, <4>3, <4>4, <4>5 DEF Stop
    <3>2. ServedIsClosed'
      BY <3>1 DEF IInv, ServedIsClosed
    <3>3. NotStartedTwice' /\ StateIsFaithful' /\ LatestIsLive'
      BY <3>1, Quiet
    <3> QED  BY <3>2, <3>3 DEF IInv
  \* The goroutine of a run settles the state once, when the run is the live one.
  <2>4. ASSUME NEW r \in Runs, Run(r) PROVE IInv'
    <3> USE <2>1, <2>4
    <3> USE DEF fields
    <3>1. ServedIsClosed'
      BY DEF IInv, TypeOK, ServedIsClosed, Run, Collect, CloseListener, ServeReturns,
             ServeFails, Settle, End
    <3>2. CASE Settle(r)
      <4>1. Live = {r} /\ state = "running"
        BY <3>2 DEF IInv, StateIsFaithful, Settle, Live
      <4>2. Live' = {}
        BY <3>2, <4>1 DEF IInv, TypeOK, NotStartedTwice, Settle, Live
      <4>3. NotStartedTwice'
        BY <3>2 DEF IInv, TypeOK, NotStartedTwice, Settle
      <4>4. StateIsFaithful'
        BY <3>2, <4>1, <4>2 DEF IInv, StateIsFaithful, Settle
      <4> QED  BY <3>1, <4>2, <4>3, <4>4 DEF IInv, LatestIsLive
    <3>3. CASE ~Settle(r)
      <4>1. UNCHANGED <<state, latest, pc, mine>>
        BY <3>3 DEF Run, Collect, CloseListener, ServeReturns, ServeFails, End
      <4>2. \A s \in Runs : /\ stage[s] = "none" <=> stage'[s] = "none"
                            /\ stage[s] \in {"serving", "served", "failed"}
                                 <=> stage'[s] \in {"serving", "served", "failed"}
        BY <3>3 DEF IInv, TypeOK, Run, Collect, CloseListener, ServeReturns, ServeFails, End
      <4> QED  BY <3>1, <4>1, <4>2, Quiet DEF IInv
    <3> QED  BY <3>2, <3>3
  <2>5. CASE UNCHANGED vars
    BY <2>5 DEF vars, IInv, TypeOK, NotStartedTwice, ServedIsClosed, StateIsFaithful,
                LatestIsLive, Live
  <2> QED
    BY <2>2, <2>3, <2>4, <2>5 DEF Next
<1> QED
  BY <1>1, <1>2, PTL DEF Spec

-----------------------------------------------------------------------------
\* Every variable of the controller keeps its type.
THEOREM TypeCorrect == Spec => []TypeOK
  BY Invariance, PTL DEF IInv

\* The state the menu shows is the proxy's, and neither two runs nor two
\* starts are ever at work.
THEOREM MenuShowsTheProxy == Spec => []StateIsFaithful
  BY Invariance, PTL DEF IInv

\* The run whose cancel and done the controller holds is the live one.
THEOREM StopFindsTheRun == Spec => []LatestIsLive
  BY Invariance, PTL DEF IInv

\* A Start finds the port free of every run that ended as it should.
THEOREM PortIsFree == Spec => []PortFreeOnStart
<1>1. IInv => PortFreeOnStart
  BY DEF IInv, TypeOK, ServedIsClosed, StateIsFaithful, PortFreeOnStart, Live, Stages
<1> QED  BY <1>1, Invariance, PTL

=============================================================================
