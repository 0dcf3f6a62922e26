--------------------------- MODULE Tunnels_proofs ---------------------------
(***************************************************************************)
(* Proofs about Tunnels, for any number of tunnels, upstreams and          *)
(* bindings, and any queue of syncs.                                       *)
(***************************************************************************)
EXTENDS Tunnels, TLAPS

(* The invariant. *)

\* What an actor works on.  Only Sync binds pinned tunnels, and what it or
\* the user has bound and not yet published is no one else's.
Work ==
    /\ pc[Sync] # "unbind"
    /\ pc[Sync] \in {"bind", "publish"} => tun[Sync] \in Pinned
    /\ pc[Sync] = "wait" => mine[Sync] \in Binds /\ of[mine[Sync]] \in Pinned
    /\ \A u \in Users :
          /\ pc[u] # "run"
          /\ pc[u] # "idle" => tun[u] \in TunnelNames
          /\ pc[u] \in {"bind", "publish"} => tun[u] \notin Pinned
          /\ pc[u] \in {"unbind", "wait"} => tun[u] \in stopped
          /\ pc[u] = "wait" => mine[u] \in Binds /\ of[mine[u]] = tun[u]
    /\ \A a \in Actors :
          pc[a] = "publish" => /\ mine[a] \in open \ (serving \cup cancelled)
                               /\ of[mine[a]] = tun[a]
                               /\ srv[tun[a]] = None

\* The listeners there are, and whom they belong to.
SrvIsServed == \A t \in TunnelNames : srv[t] # None => srv[t] \in serving /\ of[srv[t]] = t

BindsAreMade == \A b \in open \cup serving : of[b] \in TunnelNames

OnePort == \A b, c \in open : of[b] = of[c] => b = c

OpenIsKnown ==
    \A b \in open : \/ srv[of[b]] = b
                    \/ of[b] \in mishap
                    \/ Unpublished(b)

\* Whoever cancels a binding waits for its Serve, until ShutdownTimeout.
CancelledIsAwaited ==
    \A b \in serving \cap cancelled :
       of[b] \in mishap \/ \E a \in Actors : pc[a] = "wait" /\ mine[a] = b

ClosedIsCancelled == running => \A b \in serving \ open : b \in cancelled

\* A sync acts on an upstream that has changed since only if another follows.
BindingIsUp == running => \A t \in Pinned : Binding(t) => Up(t) \/ queued > 0

Unbinding(t) == t \in toUnbind \/ (pc[Sync] = "wait" /\ of[mine[Sync]] = t)

UnbindingIsDown ==
    running => \A t \in Pinned :
                  Unbinding(t) => ~Up(t) \/ t \in stopped \/ queued > 0 \/ t \in ups

Shape == TypeOK /\ Work /\ SrvIsServed /\ BindsAreMade /\ ServedIsKnown /\ OnePort

IInv ==
    /\ Shape
    /\ OpenIsKnown
    /\ CancelledIsAwaited
    /\ ClosedIsCancelled
    /\ BindingIsUp
    /\ UnbindingIsDown
    /\ DownIsNoticed
    /\ UpIsNoticed

\* The invariant holds in every behaviour of a run of the controller.
THEOREM Invariance == Spec => []IInv
\* After Start the unpinned tunnels are served and nothing is under way.
<1>1. Init => IInv
  <2> SUFFICES ASSUME Init PROVE IInv
    OBVIOUS
  <2> USE ActorAssumption, BindAssumption, PinAssumption
      DEF ActorAssumption, BindAssumption, PinAssumption, Actors, Pinned, Locations, Init
  <2>1. TypeOK /\ Work
    BY DEF TypeOK, Work
  <2>2. SrvIsServed /\ BindsAreMade /\ ServedIsKnown /\ OnePort
    <3>1. \A t \in TunnelNames : srv[t] # None => srv[t] \in Binds /\ of[srv[t]] = t
      OBVIOUS
    <3>2. \A b \in open : \E t \in TunnelNames : srv[t] = b /\ srv[t] # None /\ of[b] = t
      BY <3>1
    <3>3. SrvIsServed
      BY <3>1 DEF SrvIsServed
    <3>4. BindsAreMade /\ ServedIsKnown /\ OnePort
      BY <3>2 DEF BindsAreMade, ServedIsKnown, OnePort
    <3> QED
      BY <3>3, <3>4
  <2>3. OpenIsKnown /\ CancelledIsAwaited /\ ClosedIsCancelled
    BY DEF OpenIsKnown, CancelledIsAwaited, ClosedIsCancelled
  <2>4. BindingIsUp /\ UnbindingIsDown
    BY DEF BindingIsUp, UnbindingIsDown, Binding, Unbinding
  <2>5. DownIsNoticed /\ UpIsNoticed
    BY DEF DownIsNoticed, UpIsNoticed, Listening, Up
  <2> QED
    BY <2>1, <2>2, <2>3, <2>4, <2>5 DEF IInv, Shape
\* No step lets an actor lose what it works on, serves a binding its tunnel does
\* not point to, or binds a port twice.
<1>2. IInv /\ [Next]_vars => Shape'
  <2> SUFFICES ASSUME IInv, [Next]_vars PROVE Shape'
    OBVIOUS
  <2> USE ActorAssumption, BindAssumption, PinAssumption
      DEF ActorAssumption, BindAssumption, PinAssumption, Actors, Pinned, Locations,
          syncVars, bindVars,
          IInv, Shape, TypeOK, Work, SrvIsServed, BindsAreMade, ServedIsKnown, OnePort,
          Goto
  <2>1. ASSUME NEW a \in Actors, WaitDone(a) PROVE Shape'
    BY <2>1 DEF WaitDone, Back
  <2>2. ASSUME NEW a \in Actors, WaitTimeout(a) PROVE Shape'
    BY <2>2 DEF WaitTimeout, Back
  <2>3. ASSUME NEW a \in Actors, Listen(a) PROVE Shape'
    BY <2>3 DEF Listen, Back, Fresh
  <2>4. ASSUME NEW a \in Actors, ListenFails(a) PROVE Shape'
    BY <2>4 DEF ListenFails, Back
  <2>5. ASSUME NEW a \in Actors, Publish(a) PROVE Shape'
    BY <2>5 DEF Publish, Back
  <2>6. CASE SyncDecide
    BY <2>6 DEF SyncDecide
  <2>7. CASE SyncUnbind
    BY <2>7 DEF SyncUnbind, Unbind, Back
  <2>8. CASE SyncBind
    BY <2>8 DEF SyncBind
  <2>9. CASE SyncEnd
    BY <2>9 DEF SyncEnd
  <2>10. ASSUME NEW u \in Users, StopTunnelUnbind(u) PROVE Shape'
    BY <2>10 DEF StopTunnelUnbind, Unbind, Back
  <2>11. ASSUME NEW u \in Users, NEW t \in TunnelNames, StopTunnel(u, t) PROVE Shape'
    BY <2>11 DEF StopTunnel
  <2>12. ASSUME NEW u \in Users, NEW t \in TunnelNames, StartTunnel(u, t) PROVE Shape'
    BY <2>12 DEF StartTunnel
  <2>13. ASSUME NEW t \in Pinned, UpReturns(t) PROVE Shape'
    BY <2>13 DEF UpReturns
  <2>14. ASSUME NEW u \in Upstreams, StateChange(u) PROVE Shape'
    BY <2>14 DEF StateChange
  <2>15. ASSUME NEW b \in Binds, CloseListener(b) PROVE Shape'
    BY <2>15 DEF CloseListener, Cancelled, Unpublished
  <2>16. ASSUME NEW b \in Binds, ServeReturns(b) PROVE Shape'
    BY <2>16 DEF ServeReturns, Clear
  <2>17. ASSUME NEW b \in Binds, ServeFails(b) PROVE Shape'
    BY <2>17 DEF ServeFails, Clear, Cancelled
  <2>18. CASE Stop
    <3>1. running' = FALSE /\ UNCHANGED <<connected, queued, toBind, toUnbind, stopped, srv,
            of, open, cancelled, serving, ups, pc, mine, tun, mishap>>
      BY <2>18 DEF Stop
    <3>2. TypeOK' /\ Work'
      BY <3>1
    <3> QED
      BY <3>1, <3>2
  <2>19. CASE UNCHANGED vars
    BY <2>19 DEF vars
  <2> QED
    BY <2>1, <2>2, <2>3, <2>4, <2>5, <2>6, <2>7, <2>8, <2>9, <2>10, <2>11, <2>12,
       <2>13, <2>14, <2>15, <2>16, <2>17, <2>18, <2>19
    DEF Next, BindOrUnbind, SyncStep, Serve
\* A listener that is open is its tunnel's, or someone's who is about to publish
\* it, or was left behind by a Serve that failed.
<1>3. IInv /\ [Next]_vars => OpenIsKnown'
  <2> SUFFICES ASSUME IInv, [Next]_vars PROVE OpenIsKnown'
    OBVIOUS
  <2> USE ActorAssumption, BindAssumption, PinAssumption
      DEF ActorAssumption, BindAssumption, PinAssumption, Actors, Pinned, Locations,
          syncVars, bindVars,
          IInv, Shape, TypeOK, Work, SrvIsServed, BindsAreMade, ServedIsKnown, OnePort,
          Goto, OpenIsKnown, Unpublished
  <2>1. ASSUME NEW a \in Actors, WaitDone(a) PROVE OpenIsKnown'
    BY <2>1 DEF WaitDone, Back
  <2>2. ASSUME NEW a \in Actors, WaitTimeout(a) PROVE OpenIsKnown'
    BY <2>2 DEF WaitTimeout, Back
  <2>3. ASSUME NEW a \in Actors, Listen(a) PROVE OpenIsKnown'
    BY <2>3 DEF Listen, Back, Fresh
  <2>4. ASSUME NEW a \in Actors, ListenFails(a) PROVE OpenIsKnown'
    BY <2>4 DEF ListenFails, Back
  <2>5. ASSUME NEW a \in Actors, Publish(a) PROVE OpenIsKnown'
    BY <2>5 DEF Publish, Back
  <2>6. CASE SyncDecide
    BY <2>6 DEF SyncDecide
  <2>7. CASE SyncUnbind
    BY <2>7 DEF SyncUnbind, Unbind, Back
  <2>8. CASE SyncBind
    BY <2>8 DEF SyncBind
  <2>9. CASE SyncEnd
    BY <2>9 DEF SyncEnd
  <2>10. ASSUME NEW u \in Users, StopTunnelUnbind(u) PROVE OpenIsKnown'
    BY <2>10 DEF StopTunnelUnbind, Unbind, Back
  <2>11. ASSUME NEW u \in Users, NEW t \in TunnelNames, StopTunnel(u, t) PROVE OpenIsKnown'
    BY <2>11 DEF StopTunnel
  <2>12. ASSUME NEW u \in Users, NEW t \in TunnelNames, StartTunnel(u, t) PROVE OpenIsKnown'
    BY <2>12 DEF StartTunnel
  <2>13. ASSUME NEW t \in Pinned, UpReturns(t) PROVE OpenIsKnown'
    BY <2>13 DEF UpReturns
  <2>14. ASSUME NEW u \in Upstreams, StateChange(u) PROVE OpenIsKnown'
    BY <2>14 DEF StateChange
  <2>15. ASSUME NEW b \in Binds, CloseListener(b) PROVE OpenIsKnown'
    BY <2>15 DEF CloseListener, Cancelled
  <2>16. ASSUME NEW b \in Binds, ServeReturns(b) PROVE OpenIsKnown'
    BY <2>16 DEF ServeReturns, Clear
  <2>17. ASSUME NEW b \in Binds, ServeFails(b) PROVE OpenIsKnown'
    BY <2>17 DEF ServeFails, Clear, Cancelled
  <2>18. CASE Stop
    BY <2>18 DEF Stop
  <2>19. CASE UNCHANGED vars
    BY <2>19 DEF vars
  <2> QED
    BY <2>1, <2>2, <2>3, <2>4, <2>5, <2>6, <2>7, <2>8, <2>9, <2>10, <2>11, <2>12,
       <2>13, <2>14, <2>15, <2>16, <2>17, <2>18, <2>19
    DEF Next, BindOrUnbind, SyncStep, Serve
\* Serve ends because it was cancelled, and whoever cancelled it waits.
<1>4. IInv /\ [Next]_vars => CancelledIsAwaited' /\ ClosedIsCancelled'
  <2> SUFFICES ASSUME IInv, [Next]_vars PROVE CancelledIsAwaited' /\ ClosedIsCancelled'
    OBVIOUS
  <2> USE ActorAssumption, BindAssumption, PinAssumption
      DEF ActorAssumption, BindAssumption, PinAssumption, Actors, Pinned, Locations,
          syncVars, bindVars,
          IInv, Shape, TypeOK, Work, SrvIsServed, BindsAreMade, ServedIsKnown, OnePort,
          Goto, CancelledIsAwaited, ClosedIsCancelled
  <2>1. ASSUME NEW a \in Actors, WaitDone(a) PROVE CancelledIsAwaited' /\ ClosedIsCancelled'
    BY <2>1 DEF WaitDone, Back
  <2>2. ASSUME NEW a \in Actors, WaitTimeout(a) PROVE CancelledIsAwaited' /\ ClosedIsCancelled'
    BY <2>2 DEF WaitTimeout, Back
  <2>3. ASSUME NEW a \in Actors, Listen(a) PROVE CancelledIsAwaited' /\ ClosedIsCancelled'
    BY <2>3 DEF Listen, Back, Fresh
  <2>4. ASSUME NEW a \in Actors, ListenFails(a) PROVE CancelledIsAwaited' /\ ClosedIsCancelled'
    BY <2>4 DEF ListenFails, Back
  <2>5. ASSUME NEW a \in Actors, Publish(a) PROVE CancelledIsAwaited' /\ ClosedIsCancelled'
    BY <2>5 DEF Publish, Back
  <2>6. CASE SyncDecide
    BY <2>6 DEF SyncDecide
  <2>7. CASE SyncUnbind
    BY <2>7 DEF SyncUnbind, Unbind, Back
  <2>8. CASE SyncBind
    BY <2>8 DEF SyncBind
  <2>9. CASE SyncEnd
    BY <2>9 DEF SyncEnd
  <2>10. ASSUME NEW u \in Users, StopTunnelUnbind(u)
         PROVE  CancelledIsAwaited' /\ ClosedIsCancelled'
    BY <2>10 DEF StopTunnelUnbind, Unbind, Back
  <2>11. ASSUME NEW u \in Users, NEW t \in TunnelNames, StopTunnel(u, t)
         PROVE  CancelledIsAwaited' /\ ClosedIsCancelled'
    BY <2>11 DEF StopTunnel
  <2>12. ASSUME NEW u \in Users, NEW t \in TunnelNames, StartTunnel(u, t)
         PROVE  CancelledIsAwaited' /\ ClosedIsCancelled'
    BY <2>12 DEF StartTunnel
  <2>13. ASSUME NEW t \in Pinned, UpReturns(t) PROVE CancelledIsAwaited' /\ ClosedIsCancelled'
    BY <2>13 DEF UpReturns
  <2>14. ASSUME NEW u \in Upstreams, StateChange(u)
         PROVE  CancelledIsAwaited' /\ ClosedIsCancelled'
    BY <2>14 DEF StateChange
  <2>15. ASSUME NEW b \in Binds, CloseListener(b) PROVE CancelledIsAwaited' /\ ClosedIsCancelled'
    BY <2>15 DEF CloseListener, Cancelled
  <2>16. ASSUME NEW b \in Binds, ServeReturns(b) PROVE CancelledIsAwaited' /\ ClosedIsCancelled'
    BY <2>16 DEF ServeReturns, Clear
  <2>17. ASSUME NEW b \in Binds, ServeFails(b) PROVE CancelledIsAwaited' /\ ClosedIsCancelled'
    BY <2>17 DEF ServeFails, Clear, Cancelled
  <2>18. CASE Stop
    BY <2>18 DEF Stop
  <2>19. CASE UNCHANGED vars
    BY <2>19 DEF vars
  <2> QED
    BY <2>1, <2>2, <2>3, <2>4, <2>5, <2>6, <2>7, <2>8, <2>9, <2>10, <2>11, <2>12,
       <2>13, <2>14, <2>15, <2>16, <2>17, <2>18, <2>19
    DEF Next, BindOrUnbind, SyncStep, Serve
\* Every change of an upstream under a sync that has decided leaves another sync
\* waiting.
<1>5. IInv /\ [Next]_vars => BindingIsUp' /\ UnbindingIsDown'
  <2> SUFFICES ASSUME IInv, [Next]_vars PROVE BindingIsUp' /\ UnbindingIsDown'
    OBVIOUS
  <2> USE ActorAssumption, BindAssumption, PinAssumption
      DEF ActorAssumption, BindAssumption, PinAssumption, Actors, Pinned, Locations,
          syncVars, bindVars,
          IInv, Shape, TypeOK, Work, SrvIsServed, BindsAreMade, ServedIsKnown, OnePort,
          Goto, BindingIsUp, UnbindingIsDown, Binding, Unbinding, Up
  <2>1. ASSUME NEW a \in Actors, WaitDone(a) PROVE BindingIsUp' /\ UnbindingIsDown'
    BY <2>1 DEF WaitDone, Back
  <2>2. ASSUME NEW a \in Actors, WaitTimeout(a) PROVE BindingIsUp' /\ UnbindingIsDown'
    BY <2>2 DEF WaitTimeout, Back
  <2>3. ASSUME NEW a \in Actors, Listen(a) PROVE BindingIsUp' /\ UnbindingIsDown'
    BY <2>3 DEF Listen, Back, Fresh
  <2>4. ASSUME NEW a \in Actors, ListenFails(a) PROVE BindingIsUp' /\ UnbindingIsDown'
    BY <2>4 DEF ListenFails, Back
  <2>5. ASSUME NEW a \in Actors, Publish(a) PROVE BindingIsUp' /\ UnbindingIsDown'
    BY <2>5 DEF Publish, Back
  <2>6. CASE SyncDecide
    BY <2>6 DEF SyncDecide
  <2>7. CASE SyncUnbind
    BY <2>7 DEF SyncUnbind, Unbind, Back
  <2>8. CASE SyncBind
    BY <2>8 DEF SyncBind
  <2>9. CASE SyncEnd
    BY <2>9 DEF SyncEnd
  <2>10. ASSUME NEW u \in Users, StopTunnelUnbind(u) PROVE BindingIsUp' /\ UnbindingIsDown'
    BY <2>10 DEF StopTunnelUnbind, Unbind, Back
  <2>11. ASSUME NEW u \in Users, NEW t \in TunnelNames, StopTunnel(u, t)
         PROVE  BindingIsUp' /\ UnbindingIsDown'
    BY <2>11 DEF StopTunnel
  <2>12. ASSUME NEW u \in Users, NEW t \in TunnelNames, StartTunnel(u, t)
         PROVE  BindingIsUp' /\ UnbindingIsDown'
    BY <2>12 DEF StartTunnel
  <2>13. ASSUME NEW t \in Pinned, UpReturns(t) PROVE BindingIsUp' /\ UnbindingIsDown'
    BY <2>13 DEF UpReturns
  <2>14. ASSUME NEW u \in Upstreams, StateChange(u) PROVE BindingIsUp' /\ UnbindingIsDown'
    BY <2>14 DEF StateChange
  <2>15. ASSUME NEW b \in Binds, CloseListener(b) PROVE BindingIsUp' /\ UnbindingIsDown'
    BY <2>15 DEF CloseListener, Cancelled
  <2>16. ASSUME NEW b \in Binds, ServeReturns(b) PROVE BindingIsUp' /\ UnbindingIsDown'
    BY <2>16 DEF ServeReturns, Clear
  <2>17. ASSUME NEW b \in Binds, ServeFails(b) PROVE BindingIsUp' /\ UnbindingIsDown'
    BY <2>17 DEF ServeFails, Clear, Cancelled
  <2>18. CASE Stop
    BY <2>18 DEF Stop
  <2>19. CASE UNCHANGED vars
    BY <2>19 DEF vars
  <2> QED
    BY <2>1, <2>2, <2>3, <2>4, <2>5, <2>6, <2>7, <2>8, <2>9, <2>10, <2>11, <2>12,
       <2>13, <2>14, <2>15, <2>16, <2>17, <2>18, <2>19
    DEF Next, BindOrUnbind, SyncStep, Serve
\* DownIsNoticed is preserved: a binding is published for an upstream that is
\* up, or with a sync waiting.
<1>6. IInv /\ [Next]_vars => DownIsNoticed'
  <2> SUFFICES ASSUME IInv, [Next]_vars PROVE DownIsNoticed'
    OBVIOUS
  <2> USE ActorAssumption, BindAssumption, PinAssumption
      DEF ActorAssumption, BindAssumption, PinAssumption, Actors, Pinned, Locations,
          syncVars, bindVars,
          IInv, Shape, TypeOK, Work, SrvIsServed, BindsAreMade, ServedIsKnown, OnePort,
          Goto, BindingIsUp, DownIsNoticed, Binding, Listening, Cancelled, Up
  <2>1. ASSUME NEW a \in Actors, WaitDone(a) PROVE DownIsNoticed'
    BY <2>1 DEF WaitDone, Back
  <2>2. ASSUME NEW a \in Actors, WaitTimeout(a) PROVE DownIsNoticed'
    BY <2>2 DEF WaitTimeout, Back
  <2>3. ASSUME NEW a \in Actors, Listen(a) PROVE DownIsNoticed'
    BY <2>3 DEF Listen, Back, Fresh
  <2>4. ASSUME NEW a \in Actors, ListenFails(a) PROVE DownIsNoticed'
    BY <2>4 DEF ListenFails, Back
  <2>5. ASSUME NEW a \in Actors, Publish(a) PROVE DownIsNoticed'
    BY <2>5 DEF Publish, Back
  <2>6. CASE SyncDecide
    BY <2>6 DEF SyncDecide
  <2>7. CASE SyncUnbind
    BY <2>7 DEF SyncUnbind, Unbind, Back
  <2>8. CASE SyncBind
    BY <2>8 DEF SyncBind
  <2>9. CASE SyncEnd
    BY <2>9 DEF SyncEnd
  <2>10. ASSUME NEW u \in Users, StopTunnelUnbind(u) PROVE DownIsNoticed'
    BY <2>10 DEF StopTunnelUnbind, Unbind, Back
  <2>11. ASSUME NEW u \in Users, NEW t \in TunnelNames, StopTunnel(u, t) PROVE DownIsNoticed'
    BY <2>11 DEF StopTunnel
  <2>12. ASSUME NEW u \in Users, NEW t \in TunnelNames, StartTunnel(u, t) PROVE DownIsNoticed'
    BY <2>12 DEF StartTunnel
  <2>13. ASSUME NEW t \in Pinned, UpReturns(t) PROVE DownIsNoticed'
    BY <2>13 DEF UpReturns
  <2>14. ASSUME NEW u \in Upstreams, StateChange(u) PROVE DownIsNoticed'
    BY <2>14 DEF StateChange
  <2>15. ASSUME NEW b \in Binds, CloseListener(b) PROVE DownIsNoticed'
    BY <2>15 DEF CloseListener, Cancelled
  <2>16. ASSUME NEW b \in Binds, ServeReturns(b) PROVE DownIsNoticed'
    BY <2>16 DEF ServeReturns, Clear
  <2>17. ASSUME NEW b \in Binds, ServeFails(b) PROVE DownIsNoticed'
    BY <2>17 DEF ServeFails, Clear, Cancelled
  <2>18. CASE Stop
    BY <2>18 DEF Stop
  <2>19. CASE UNCHANGED vars
    BY <2>19 DEF vars
  <2> QED
    BY <2>1, <2>2, <2>3, <2>4, <2>5, <2>6, <2>7, <2>8, <2>9, <2>10, <2>11, <2>12,
       <2>13, <2>14, <2>15, <2>16, <2>17, <2>18, <2>19
    DEF Next, BindOrUnbind, SyncStep, Serve
\* UpIsNoticed is preserved: a binding goes by itself only when it was cancelled
\* for a reason that still holds, or that a sync waits to look at again.
<1>7. IInv /\ [Next]_vars => UpIsNoticed'
  <2> SUFFICES ASSUME IInv, [Next]_vars PROVE UpIsNoticed'
    OBVIOUS
  <2> USE ActorAssumption, BindAssumption, PinAssumption
      DEF ActorAssumption, BindAssumption, PinAssumption, Actors, Pinned, Locations,
          syncVars, bindVars,
          IInv, Shape, TypeOK, Work, SrvIsServed, BindsAreMade, ServedIsKnown, OnePort,
          Goto, CancelledIsAwaited, ClosedIsCancelled, UnbindingIsDown, UpIsNoticed, Binding, Unbinding, Up
  <2>1. ASSUME NEW a \in Actors, WaitDone(a) PROVE UpIsNoticed'
    BY <2>1 DEF WaitDone, Back
  <2>2. ASSUME NEW a \in Actors, WaitTimeout(a) PROVE UpIsNoticed'
    BY <2>2 DEF WaitTimeout, Back
  <2>3. ASSUME NEW a \in Actors, Listen(a) PROVE UpIsNoticed'
    BY <2>3 DEF Listen, Back, Fresh
  <2>4. ASSUME NEW a \in Actors, ListenFails(a) PROVE UpIsNoticed'
    BY <2>4 DEF ListenFails, Back
  <2>5. ASSUME NEW a \in Actors, Publish(a) PROVE UpIsNoticed'
    BY <2>5 DEF Publish, Back
  <2>6. CASE SyncDecide
    BY <2>6 DEF SyncDecide
  <2>7. CASE SyncUnbind
    BY <2>7 DEF SyncUnbind, Unbind, Back
  <2>8. CASE SyncBind
    BY <2>8 DEF SyncBind
  <2>9. CASE SyncEnd
    BY <2>9 DEF SyncEnd
  <2>10. ASSUME NEW u \in Users, StopTunnelUnbind(u) PROVE UpIsNoticed'
    BY <2>10 DEF StopTunnelUnbind, Unbind, Back
  <2>11. ASSUME NEW u \in Users, NEW t \in TunnelNames, StopTunnel(u, t) PROVE UpIsNoticed'
    BY <2>11 DEF StopTunnel
  <2>12. ASSUME NEW u \in Users, NEW t \in TunnelNames, StartTunnel(u, t) PROVE UpIsNoticed'
    BY <2>12 DEF StartTunnel
  <2>13. ASSUME NEW t \in Pinned, UpReturns(t) PROVE UpIsNoticed'
    BY <2>13 DEF UpReturns
  <2>14. ASSUME NEW u \in Upstreams, StateChange(u) PROVE UpIsNoticed'
    BY <2>14 DEF StateChange
  <2>15. ASSUME NEW b \in Binds, CloseListener(b) PROVE UpIsNoticed'
    BY <2>15 DEF CloseListener, Cancelled
  <2>16. ASSUME NEW b \in Binds, ServeReturns(b) PROVE UpIsNoticed'
    BY <2>16 DEF ServeReturns, Clear
  <2>17. ASSUME NEW b \in Binds, ServeFails(b) PROVE UpIsNoticed'
    BY <2>17 DEF ServeFails, Clear, Cancelled
  <2>18. CASE Stop
    BY <2>18 DEF Stop
  <2>19. CASE UNCHANGED vars
    BY <2>19 DEF vars
  <2> QED
    BY <2>1, <2>2, <2>3, <2>4, <2>5, <2>6, <2>7, <2>8, <2>9, <2>10, <2>11, <2>12,
       <2>13, <2>14, <2>15, <2>16, <2>17, <2>18, <2>19
    DEF Next, BindOrUnbind, SyncStep, Serve
<1>8. IInv /\ [Next]_vars => IInv'
  BY <1>2, <1>3, <1>4, <1>5, <1>6, <1>7 DEF IInv
<1> QED
  BY <1>1, <1>8, PTL DEF Spec

-----------------------------------------------------------------------------
\* Every variable keeps its type.
THEOREM TypeCorrect == Spec => []TypeOK
  BY Invariance, PTL DEF IInv, Shape

\* No tunnel is left listening on an upstream that has gone down without a sync
\* that will take it down.
THEOREM NoDeadTunnel == Spec => []DownIsNoticed
  BY Invariance, PTL DEF IInv

\* No tunnel that should listen is left without a sync, or a connectTunnel, that
\* will bind it.
THEOREM NoForgottenTunnel == Spec => []UpIsNoticed
  BY Invariance, PTL DEF IInv

\* No Serve goroutine that ends late clears the fields of another binding.
THEOREM ServeClearsItsOwn == Spec => []ServedIsKnown
  BY Invariance, PTL DEF IInv, Shape

\* bindTunnel finds the port of a tunnel that was unbound before it free.
THEOREM PortIsFree == Spec => []PortFreeOnRebind
<1>1. IInv => PortFreeOnRebind
  <2> SUFFICES ASSUME IInv,
                      NEW a \in Actors, pc[a] = "bind", srv[tun[a]] = None,
                      tun[a] \notin mishap,
                      NEW b \in open, of[b] = tun[a]
               PROVE  FALSE
    BY DEF PortFreeOnRebind
  <2>1. b \in Binds
    BY DEF IInv, Shape, TypeOK
  <2>2. PICK c \in Actors : pc[c] = "publish" /\ mine[c] = b
    BY <2>1, BindAssumption DEF BindAssumption, IInv, OpenIsKnown, Unpublished
  <2>3. tun[c] = tun[a]
    BY <2>2 DEF IInv, Shape, Work
  <2>4. c = a
    BY <2>2, <2>3, ActorAssumption DEF ActorAssumption, Actors, IInv, Shape, Work
  <2> QED
    BY <2>2, <2>4
<1> QED
  BY <1>1, Invariance, PTL

=============================================================================
