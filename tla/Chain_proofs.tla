---------------------------- MODULE Chain_proofs ----------------------------
(***************************************************************************)
(* What hangs on a VPN follows it down, and every link keeps its contract, *)
(* for any number of upstreams, requests, clicks and drop hooks.           *)
(***************************************************************************)
EXTENDS Chain, NaturalsInduction, WellFoundedInduction, TLAPS

(* The invariant. *)

\* A goroutine works on an upstream, and through its via where it says so.
Placed ==
    \A t \in Threads :
        /\ pc[t] # "idle" => up[t] \in Ups
        /\ pc[t] \in {"upvia", "via", "tcp"} => Via[up[t]] \in Vpns
        /\ pc[t] \in {"tcp", "shake"} => up[t] \in Ssh /\ dialer[up[t]] = t

\* Who holds the mutex of a client dials it, and there is nothing yet.
DialerPlaced ==
    \A u \in Ups : dialer[u] # NoThread =>
        /\ ~conn[u]
        /\ IF u \in Ssh THEN pc[dialer[u]] \in {"tcp", "shake"} /\ up[dialer[u]] = u
           ELSE pc[dialer[u]] \in {"via", "get", "tcp"} /\ Callee(dialer[u]) = u

\* A job is about an upstream, itself first and then those it is the via of.
JobPlaced ==
    \A d \in Downers : job[d].pc # "idle" =>
        /\ job[d].name \in Ups
        /\ job[d].i = 0 \/ Dependent(job[d].name, job[d].i)
        /\ job[d].pc = "drop" => job[d].name \in Vpns

Cutting(u) == \E d \in Downers : job[d].pc = "cut" /\ Target(d) = u

\* What is held down and not down yet, a Down is about to cut.
HeldIsCut == \A u \in Ups : held[u] /\ (conn[u] \/ dialer[u] # NoThread) => Cutting(u)

Due(s) == \E d \in Downers : s \in Ahead(d)

\* An ssh connection or dial that has a path through a VPN that is held, or a
\* connection whose path is gone, is due to be brought down.
Follows ==
    current => \A s \in Ssh : Via[s] # NoVia =>
        /\ held[Via[s]] /\ (conn[s] \/ path[s]) => Due(s)
        /\ conn[s] /\ ~path[s] => Due(s)

Shape == TypeOK /\ Placed /\ DialerPlaced /\ JobPlaced

IInv == Shape /\ HeldIsCut /\ Follows

-----------------------------------------------------------------------------
\* A set of numbers that is not empty has a least one: what the CHOOSE of GoOn
\* finds (the range over connNames of downDependents).
LEMMA Least ==
    ASSUME NEW S \in SUBSET Nat, S # {}
    PROVE  \E m \in S : \A k \in S : m <= k
<1>1. PICK m \in S : \A k \in S : ~(<<k, m>> \in OpToRel(<, Nat))
  BY WFMin, NatLessThanWellFounded, Zenon
<1>2. \A k \in S : ~(k < m)
  <2> SUFFICES ASSUME NEW k \in S, k < m PROVE FALSE
    OBVIOUS
  <2>1. <<k, m>> \in Nat \X Nat /\ <<k, m>>[1] < <<k, m>>[2]
    OBVIOUS
  <2> QED
    BY <1>1, <2>1 DEF OpToRel
<1> QED
  BY <1>2

\* downDependents goes on with a dependent, or is done; unless the proxy has
\* been stopped, it passes over none.
LEMMA GoesOn ==
    ASSUME TypeOK, NEW d \in Downers, NEW n \in Ups, NEW i \in 0..Len(ConnNames),
           GoOn(d, n, i)
    PROVE  /\ job' \in [Downers -> [pc : {"idle", "drop", "hold", "cut"},
                                    name : Ups \cup {NoUp}, i : 0..Len(ConnNames)]]
           /\ \A e \in Downers : e # d => job'[e] = job[e]
           /\ job'[d].pc \in {"idle", "hold"}
           /\ job'[d].pc # "idle" => job'[d].name = n /\ Dependent(n, job'[d].i)
           /\ \A j \in 1..Len(ConnNames) : current /\ j > i /\ Dependent(n, j)
                  => job'[d].pc # "idle" /\ (j = job'[d].i \/ j > job'[d].i)
<1> DEFINE more == {j \in 1..Len(ConnNames) : j > i /\ Dependent(n, j)}
<1>0. Len(ConnNames) \in Nat
  BY ChainAssumption DEF ChainAssumption
<1>1. job' = [job EXCEPT ![d] =
                 IF more = {} \/ (i = 0 /\ ~current) THEN Idle
                 ELSE [pc |-> "hold", name |-> n,
                       i |-> CHOOSE j \in more : \A k \in more : j <= k]]
  BY DEF GoOn
<1>2. /\ more \in SUBSET Nat /\ more \subseteq 1..Len(ConnNames)
      /\ \A j \in 1..Len(ConnNames) : j > i /\ Dependent(n, j) <=> j \in more
      /\ \A j \in more : Dependent(n, j)
  BY <1>0
<1> HIDE DEF more
<1>3. CASE more = {} \/ (i = 0 /\ ~current)
  <2>1. job' = [job EXCEPT ![d] = Idle]
    BY <1>1, <1>3
  <2> QED
    BY <1>0, <1>2, <1>3, <2>1 DEF TypeOK, Idle
<1>4. CASE ~(more = {} \/ (i = 0 /\ ~current))
  <2>1. PICK m \in more : \A k \in more : m <= k
    BY <1>2, <1>4, Least
  <2> DEFINE c == CHOOSE j \in more : \A k \in more : j <= k
  <2>2. c \in more /\ \A k \in more : c <= k
    BY <2>1
  <2>3. job' = [job EXCEPT ![d] = [pc |-> "hold", name |-> n, i |-> c]]
    BY <1>1, <1>4
  <2> HIDE DEF c
  <2>4. \A j \in more : j = c \/ j > c
    BY <1>0, <1>2, <2>2
  <2> QED
    BY <1>0, <1>2, <2>2, <2>3, <2>4 DEF TypeOK
<1> QED
  BY <1>3, <1>4

-----------------------------------------------------------------------------
\* The invariant holds from the start of the proxy on.
THEOREM Invariance == Spec => []IInv
<1>1. Init => IInv
  BY ChainAssumption
     DEF ChainAssumption, Init, IInv, Shape, TypeOK, Placed, DialerPlaced, JobPlaced,
         HeldIsCut, Follows, Idle, Threads, Downers
\* Every step leaves goroutines, mutexes and jobs where their code can be.
<1>2. Shape /\ [Next]_vars => Shape'
  <2> SUFFICES ASSUME Shape, [Next]_vars PROVE Shape'
    OBVIOUS
  <2> USE ChainAssumption DEF ChainAssumption, Shape, Threads, Vpns, Downers, clients
  <2>j. ASSUME UNCHANGED job PROVE JobPlaced'
    BY <2>j DEF JobPlaced
  <2>1. ASSUME NEW t \in Threads, NEW u \in Ups, Request(t, u) \/ Connect(t, u)
        PROVE  Shape'
    <3>1. TypeOK'
      BY <2>1 DEF TypeOK, Request, Connect
    <3>2. Placed'
      BY <2>1 DEF TypeOK, Placed, Request, Connect
    <3>3. DialerPlaced'
      BY <2>1 DEF TypeOK, DialerPlaced, Callee, Request, Connect
    <3> QED
      BY <2>1, <2>j, <3>1, <3>2, <3>3 DEF Request, Connect
  <2>2. ASSUME NEW t \in Threads, ClearHold(t) PROVE Shape'
    <3>1. TypeOK'
      BY <2>2 DEF TypeOK, Placed, ClearHold, Goto, Callee
    <3>2. Placed'
      BY <2>2 DEF TypeOK, Placed, ClearHold, Goto
    <3>3. DialerPlaced'
      BY <2>2 DEF TypeOK, DialerPlaced, Callee, ClearHold, Goto
    <3> QED
      BY <2>2, <2>j, <3>1, <3>2, <3>3 DEF ClearHold
  <2>3. ASSUME NEW t \in Threads, GetReuse(t) PROVE Shape'
    <3>1. TypeOK'
      BY <2>3 DEF TypeOK, Placed, GetReuse, InGet, Goto, After
    <3>2. Placed'
      BY <2>3 DEF TypeOK, Placed, GetReuse, InGet, Goto, After
    <3>3. DialerPlaced'
      BY <2>3 DEF TypeOK, Placed, DialerPlaced, Callee, GetReuse, InGet, Goto, After
    <3> QED
      BY <2>3, <2>j, <3>1, <3>2, <3>3 DEF GetReuse
  <2>4. ASSUME NEW t \in Threads, GetFails(t) \/ DialFails(t) PROVE Shape'
    <3>r. Return(t) /\ UNCHANGED <<conn, held, manual, job, current>>
      BY <2>4 DEF GetFails, DialFails
    <3>1. TypeOK'
      BY <3>r DEF TypeOK, Return, Goto
    <3>2. Placed'
      <4>1. \A s \in Threads : pc'[s] # "idle" => s # t /\ pc'[s] = pc[s] /\ up'[s] = up[s]
        BY <3>r DEF TypeOK, Return, Goto
      <4>2. \A s \in Threads, u \in Ups : s # t /\ dialer[u] = s => dialer'[u] = s
        BY <3>r DEF TypeOK, Return
      <4> QED
        BY <4>1, <4>2 DEF TypeOK, Placed
    <3>3. DialerPlaced'
      BY <3>r DEF TypeOK, DialerPlaced, Callee, Return, Goto
    <3> QED
      BY <3>r, <2>j, <3>1, <3>2, <3>3
  <2>5. ASSUME NEW t \in Threads, GetDials(t) PROVE Shape'
    <3>1. TypeOK'
      BY <2>5 DEF TypeOK, Placed, GetDials, InGet, Callee
    <3>2. Placed'
      BY <2>5 DEF TypeOK, Placed, GetDials, InGet, Callee
    <3>3. DialerPlaced'
      BY <2>5 DEF TypeOK, Placed, DialerPlaced, Callee, GetDials, InGet
    <3> QED
      BY <2>5, <2>j, <3>1, <3>2, <3>3 DEF GetDials
  <2>6. ASSUME NEW t \in Threads, NEW v \in Vpns, VpnUp(t, v) PROVE Shape'
    <3>1. TypeOK'
      BY <2>6 DEF TypeOK, Placed, DialerPlaced, VpnUp, Goto, After
    <3>2. Placed'
      BY <2>6 DEF TypeOK, Placed, DialerPlaced, VpnUp, Goto, After, Callee
    <3>3. DialerPlaced'
      BY <2>6 DEF TypeOK, Placed, DialerPlaced, Callee, VpnUp, Goto, After
    <3> QED
      BY <2>6, <2>j, <3>1, <3>2, <3>3 DEF VpnUp
  <2>7. ASSUME NEW t \in Threads, SshUp(t) PROVE Shape'
    <3>1. TypeOK'
      BY <2>7 DEF TypeOK, Placed, SshUp, Goto
    <3>2. Placed'
      BY <2>7 DEF TypeOK, Placed, SshUp, Goto
    <3>3. DialerPlaced'
      BY <2>7 DEF TypeOK, Placed, DialerPlaced, Callee, SshUp, Goto
    <3> QED
      BY <2>7, <2>j, <3>1, <3>2, <3>3 DEF SshUp
  <2>8. ASSUME NEW u \in Ups, DisconnectUpstream(u) PROVE Shape'
    <3>1. TypeOK'
      BY <2>8 DEF TypeOK, DisconnectUpstream
    <3>2. Placed' /\ DialerPlaced'
      BY <2>8 DEF Placed, DialerPlaced, Callee, DisconnectUpstream
    <3>3. JobPlaced'
      BY <2>8 DEF TypeOK, JobPlaced, DisconnectUpstream
    <3> QED
      BY <3>1, <3>2, <3>3
  <2>9. ASSUME NEW d \in Downers, DownHold(d) PROVE Shape'
    <3>1. Target(d) \in Ups
      BY <2>9 DEF TypeOK, JobPlaced, DownHold, Target, Dependent, Ups
    <3>2. TypeOK'
      BY <2>9, <3>1 DEF TypeOK, DownHold
    <3>3. Placed' /\ DialerPlaced'
      BY <2>9 DEF Placed, DialerPlaced, Callee, DownHold
    <3>4. JobPlaced'
      BY <2>9 DEF TypeOK, JobPlaced, DownHold
    <3> QED
      BY <3>2, <3>3, <3>4
  <2>10. ASSUME NEW d \in Downers, DownCut(d) PROVE Shape'
    <3>1. Target(d) \in Ups /\ job[d].name \in Ups /\ job[d].i \in 0..Len(ConnNames)
      BY <2>10 DEF TypeOK, JobPlaced, DownCut, Target, Dependent, Ups
    <3>g. GoOn(d, job[d].name, job[d].i)
      BY <2>10 DEF DownCut
    <3>t. TypeOK'
      BY <2>10, <3>1, <3>g, GoesOn DEF TypeOK, DownCut, CutPaths
    <3>2. TypeOK' /\ JobPlaced'
      BY <3>1, <3>g, <3>t, GoesOn DEF JobPlaced
    <3>3. Placed' /\ DialerPlaced'
      BY <2>10, <3>1 DEF TypeOK, Placed, DialerPlaced, Callee, DownCut
    <3> QED
      BY <3>2, <3>3
  <2>11. ASSUME NEW d \in Downers, UpstreamDropped(d) PROVE Shape'
    <3>1. job[d].name \in Ups /\ 0 \in 0..Len(ConnNames)
      BY <2>11 DEF TypeOK, JobPlaced, UpstreamDropped
    <3>2. TypeOK' /\ JobPlaced'
      BY <2>11, <3>1, GoesOn DEF TypeOK, JobPlaced, UpstreamDropped
    <3>3. Placed' /\ DialerPlaced'
      BY <2>11 DEF Placed, DialerPlaced, Callee, UpstreamDropped
    <3> QED
      BY <3>2, <3>3
  <2>12. ASSUME NEW v \in Vpns, NEW d \in Hooks, VpnDrops(v, d) PROVE Shape'
    <3>1. TypeOK'
      BY <2>12 DEF TypeOK, VpnDrops, CutPaths
    <3>2. Placed' /\ DialerPlaced'
      BY <2>12 DEF TypeOK, Placed, DialerPlaced, Callee, VpnDrops
    <3>3. JobPlaced'
      BY <2>12 DEF TypeOK, JobPlaced, VpnDrops
    <3> QED
      BY <3>1, <3>2, <3>3
  <2>13. ASSUME NEW u \in Ups, SshLost(u) \/ CloseUpstream(u) PROVE Shape'
    <3>c. /\ conn' = [conn EXCEPT ![u] = FALSE] /\ CutPaths(u)
          /\ UNCHANGED <<dialer, held, manual, pc, up, job, current>>
      BY <2>13 DEF SshLost, CloseUpstream
    <3>1. TypeOK'
      BY <3>c DEF TypeOK, CutPaths
    <3>2. Placed' /\ DialerPlaced'
      BY <3>c DEF TypeOK, Placed, DialerPlaced, Callee
    <3> QED
      BY <2>13, <2>j, <3>1, <3>2 DEF SshLost, CloseUpstream
  <2>14. CASE SetAutoconnect \/ Stop \/ UNCHANGED vars
    <3>1. UNCHANGED <<clients, pc, up, job>>
      BY <2>14 DEF SetAutoconnect, Stop, vars
    <3>2. manual' \in BOOLEAN /\ current' \in BOOLEAN
      BY <2>14 DEF TypeOK, SetAutoconnect, Stop, vars
    <3>3. TypeOK'
      BY <3>1, <3>2 DEF TypeOK
    <3>4. Placed' /\ DialerPlaced'
      BY <3>1 DEF Placed, DialerPlaced, Callee
    <3> QED
      BY <2>j, <3>1, <3>3, <3>4
  <2> QED
    BY <2>1, <2>2, <2>3, <2>4, <2>5, <2>6, <2>7, <2>8, <2>9, <2>10, <2>11, <2>12, <2>13, <2>14
       DEF Next, Step, Down
\* Down takes effect: a get does not dial what is held, and the Down that holds
\* it waits for the dial that was before it.
<1>3. IInv /\ [Next]_vars => HeldIsCut'
  <2> SUFFICES ASSUME IInv, [Next]_vars PROVE HeldIsCut'
    OBVIOUS
  <2> USE ChainAssumption DEF ChainAssumption, IInv, Shape, Threads, Vpns, Downers, clients
  \* What no step but a Down's need show: it makes nothing held or live.
  <2>s. ASSUME UNCHANGED job,
               \A u \in Ups : held'[u] /\ (conn'[u] \/ dialer'[u] # NoThread)
                                 => held[u] /\ (conn[u] \/ dialer[u] # NoThread)
        PROVE  HeldIsCut'
    BY <2>s DEF HeldIsCut, Cutting, Target
  <2>1. ASSUME NEW t \in Threads, NEW u \in Ups, Request(t, u) \/ Connect(t, u)
        PROVE  HeldIsCut'
    BY <2>1, <2>s DEF Request, Connect
  <2>2. ASSUME NEW t \in Threads, ClearHold(t) PROVE HeldIsCut'
    BY <2>2, <2>s DEF ClearHold, TypeOK
  <2>3. ASSUME NEW t \in Threads, GetReuse(t) PROVE HeldIsCut'
    BY <2>3, <2>s DEF GetReuse
  <2>4. ASSUME NEW t \in Threads, GetFails(t) \/ DialFails(t) PROVE HeldIsCut'
    BY <2>4, <2>s DEF GetFails, DialFails, Return
  <2>5. ASSUME NEW t \in Threads, GetDials(t) PROVE HeldIsCut'
    <3>1. ~held[Callee(t)] /\ dialer' = [dialer EXCEPT ![Callee(t)] = t]
          /\ UNCHANGED <<conn, held, job>>
      BY <2>5 DEF GetDials, Refuses
    <3> QED
      BY <3>1, <2>s DEF TypeOK
  <2>6. ASSUME NEW t \in Threads, NEW v \in Vpns, VpnUp(t, v) PROVE HeldIsCut'
    BY <2>6, <2>s DEF VpnUp, TypeOK
  <2>7. ASSUME NEW t \in Threads, SshUp(t) PROVE HeldIsCut'
    BY <2>7, <2>s DEF SshUp, TypeOK, Placed
  <2>8. ASSUME NEW u \in Ups, DisconnectUpstream(u) PROVE HeldIsCut'
    BY <2>8 DEF DisconnectUpstream, HeldIsCut, Cutting, Target, TypeOK
  <2>9. ASSUME NEW d \in Downers, DownHold(d) PROVE HeldIsCut'
    <3>1. /\ job'[d].pc = "cut" /\ Target(d)' = Target(d)
          /\ \A e \in Downers : e # d => job'[e] = job[e]
          /\ job[d].pc = "hold"
      BY <2>9 DEF DownHold, Target, TypeOK
    <3>3. \A u \in Ups : Cutting(u) => Cutting(u)'
      BY <3>1 DEF Cutting, Target
    <3>4. \A u \in Ups : u # Target(d) => held'[u] = held[u]
      BY <2>9 DEF DownHold, TypeOK
    <3>5. conn' = conn /\ dialer' = dialer
      BY <2>9 DEF DownHold
    <3> QED
      <4> SUFFICES ASSUME NEW u \in Ups, held'[u], conn[u] \/ dialer[u] # NoThread
                   PROVE  Cutting(u)'
        BY <3>5 DEF HeldIsCut
      <4>1. CASE u = Target(d)
        BY <3>1, <4>1 DEF Cutting
      <4>2. CASE u # Target(d)
        BY <3>3, <3>4, <4>2 DEF HeldIsCut
      <4> QED
        BY <4>1, <4>2
  <2>10. ASSUME NEW d \in Downers, DownCut(d) PROVE HeldIsCut'
    <3>1. Target(d) \in Ups /\ job[d].name \in Ups /\ job[d].i \in 0..Len(ConnNames)
      BY <2>10 DEF TypeOK, JobPlaced, DownCut, Target, Dependent, Ups
    <3>2. \A e \in Downers : e # d => job'[e] = job[e]
      BY <2>10, <3>1, GoesOn DEF DownCut
    <3>3. \A u \in Ups : u # Target(d) /\ Cutting(u) => Cutting(u)'
      BY <3>2 DEF Cutting, Target
    <3>4. \A u \in Ups : conn'[u] \/ dialer'[u] # NoThread
                           => u # Target(d) /\ (conn[u] \/ dialer[u] # NoThread)
      BY <2>10 DEF DownCut, TypeOK
    <3>5. held' = held
      BY <2>10 DEF DownCut
    <3> QED
      BY <3>3, <3>4, <3>5 DEF HeldIsCut
  <2>11. ASSUME NEW d \in Downers, UpstreamDropped(d) PROVE HeldIsCut'
    <3>1. job[d].name \in Ups /\ 0 \in 0..Len(ConnNames)
      BY <2>11 DEF TypeOK, JobPlaced, UpstreamDropped
    <3>2. \A e \in Downers : e # d => job'[e] = job[e]
      BY <2>11, <3>1, GoesOn DEF UpstreamDropped
    <3>3. \A u \in Ups : Cutting(u) => Cutting(u)'
      BY <2>11, <3>2 DEF Cutting, Target, UpstreamDropped
    <3> QED
      BY <2>11, <3>3 DEF UpstreamDropped, HeldIsCut
  <2>12. ASSUME NEW v \in Vpns, NEW d \in Hooks, VpnDrops(v, d) PROVE HeldIsCut'
    <3>1. \A u \in Ups : Cutting(u) => Cutting(u)'
      BY <2>12 DEF Cutting, Target, VpnDrops, TypeOK
    <3>2. \A u \in Ups : conn'[u] => conn[u]
      BY <2>12 DEF VpnDrops, TypeOK
    <3> QED
      BY <2>12, <3>1, <3>2 DEF VpnDrops, HeldIsCut
  <2>13. ASSUME NEW u \in Ups, SshLost(u) \/ CloseUpstream(u) PROVE HeldIsCut'
    <3>1. conn' = [conn EXCEPT ![u] = FALSE] /\ UNCHANGED <<dialer, held, job>>
      BY <2>13 DEF SshLost, CloseUpstream
    <3> QED
      BY <3>1, <2>s DEF TypeOK
  <2>14. CASE SetAutoconnect \/ Stop \/ UNCHANGED vars
    BY <2>14, <2>s DEF SetAutoconnect, Stop, vars
  <2> QED
    BY <2>1, <2>2, <2>3, <2>4, <2>5, <2>6, <2>7, <2>8, <2>9, <2>10, <2>11, <2>12, <2>13, <2>14
       DEF Next, Step, Down
\* The dependents of a VPN that goes down are due until they are down: a dial
\* through it gets a path only while it stands, and then its Down is running.
<1>4. IInv /\ [Next]_vars => Follows'
  <2> SUFFICES ASSUME IInv, [Next]_vars PROVE Follows'
    OBVIOUS
  <2> USE ChainAssumption DEF ChainAssumption, IInv, Shape, Threads, Vpns, Downers, clients
  <2> DEFINE Lost(s) == conn[s] /\ ~path[s]
             Stands(s) == held[Via[s]] /\ (conn[s] \/ path[s])
  \* The steps that leave the jobs alone.
  <2>s. ASSUME UNCHANGED job, current' => current,
               \A s \in Ssh : Via[s] # NoVia /\ current' =>
                   /\ Lost(s)' => Lost(s) \/ Due(s)
                   /\ Stands(s)' => Stands(s) \/ Due(s)
        PROVE  Follows'
    <3>1. \A s : Due(s)' <=> Due(s)
      BY <2>s DEF Due, Ahead, Target
    <3> QED
      BY <2>s, <3>1 DEF Follows
  \* A Down that is about to cut a VPN has all its dependents ahead.
  <2>c. ASSUME NEW s \in Ssh, Via[s] # NoVia, held[Via[s]],
               conn[Via[s]] \/ dialer[Via[s]] # NoThread
        PROVE  Due(s)
    <3>1. Via[s] \in Ups /\ Via[s] \in Vpns
      BY <2>c
    <3>2. PICK d \in Downers : job[d].pc = "cut" /\ Target(d) = Via[s]
      BY <2>c, <3>1 DEF HeldIsCut, Cutting
    <3>3. job[d].i = 0 /\ job[d].name = Via[s]
      BY <3>1, <3>2 DEF JobPlaced, Target, Dependent, TypeOK
    <3>4. PICK j \in 1..Len(ConnNames) : ConnNames[j] = s
      BY DEF Ups
    <3> QED
      BY <2>c, <3>2, <3>3, <3>4 DEF Due, Ahead, Dependent
  <2>1. ASSUME NEW t \in Threads, NEW u \in Ups, Request(t, u) \/ Connect(t, u)
        PROVE  Follows'
    BY <2>1, <2>s DEF Request, Connect
  <2>2. ASSUME NEW t \in Threads, ClearHold(t) PROVE Follows'
    BY <2>2, <2>s DEF ClearHold, TypeOK
  <2>3. ASSUME NEW t \in Threads, GetReuse(t) PROVE Follows'
    <3>1. UNCHANGED <<conn, held, job, current>>
      BY <2>3 DEF GetReuse
    <3>2. CASE pc[t] # "tcp"
      BY <2>3, <2>s, <3>1, <3>2 DEF GetReuse
    <3>3. CASE pc[t] = "tcp"
      <4>1. PICK s \in Ssh : s = up[t] /\ Via[s] \in Vpns /\ conn[Via[s]]
        BY <2>3, <3>3 DEF GetReuse, Reusable, Callee, Placed
      <4>2. path' = [path EXCEPT ![s] = TRUE]
        BY <2>3, <3>3, <4>1 DEF GetReuse
      <4>3. held[Via[s]] => Due(s)
        BY <2>c, <4>1
      <4> QED
        BY <2>s, <3>1, <4>1, <4>2, <4>3 DEF TypeOK
    <3> QED
      BY <3>2, <3>3
  <2>4. ASSUME NEW t \in Threads, GetFails(t) \/ DialFails(t) PROVE Follows'
    <3>1. Return(t) /\ UNCHANGED <<conn, held, job, current>>
      BY <2>4 DEF GetFails, DialFails
    <3>2. \A s \in Ssh : (path'[s] => path[s]) /\ (conn[s] /\ path[s] => path'[s])
      BY <3>1 DEF Return, DialerPlaced, TypeOK
    <3> QED
      BY <2>s, <3>1, <3>2 DEF TypeOK
  <2>5. ASSUME NEW t \in Threads, GetDials(t) PROVE Follows'
    <3>1. ~conn[Callee(t)] /\ UNCHANGED <<conn, held, job, current>>
      BY <2>5 DEF GetDials
    <3>2. \A s \in Ssh : Via[s] # NoVia => /\ path'[s] => path[s]
                                           /\ s # Callee(t) => path'[s] = path[s]
      BY <2>5 DEF GetDials, TypeOK
    <3> QED
      BY <2>s, <3>1, <3>2
  <2>6. ASSUME NEW t \in Threads, NEW v \in Vpns, VpnUp(t, v) PROVE Follows'
    <3>1. /\ UNCHANGED <<held, job, current>> /\ dialer[v] = t
          /\ \A s \in Ssh : conn'[s] = conn[s]
      BY <2>6 DEF VpnUp, TypeOK
    <3>2. CASE pc[t] # "tcp"
      BY <2>6, <2>s, <3>1, <3>2 DEF VpnUp
    <3>3. CASE pc[t] = "tcp"
      <4>1. PICK s \in Ssh : s = up[t] /\ Via[s] = v
        BY <3>1, <3>3 DEF DialerPlaced, Callee, Placed
      <4>2. path' = [path EXCEPT ![s] = TRUE]
        BY <2>6, <3>3, <4>1 DEF VpnUp
      <4>3. held[Via[s]] => Due(s)
        BY <2>c, <3>1, <4>1
      <4> QED
        BY <2>s, <3>1, <4>1, <4>2, <4>3 DEF TypeOK
    <3> QED
      BY <3>2, <3>3
  <2>7. ASSUME NEW t \in Threads, SshUp(t) PROVE Follows'
    <3>1. path[up[t]] /\ UNCHANGED <<held, path, job, current>>
      BY <2>7 DEF SshUp
    <3>2. \A s \in Ssh : conn'[s] => conn[s] \/ path[s]
      BY <2>7, <3>1 DEF SshUp, TypeOK
    <3> QED
      BY <2>s, <3>1, <3>2 DEF TypeOK
  \* What a Down, or a hook, has ahead of it stays due.
  <2>d. ASSUME NEW d \in Downers, \A e \in Downers : e # d => job'[e] = job[e],
               NEW s, Due(s), s \in Ahead(d) => s \in Ahead(d)'
        PROVE  Due(s)'
    BY <2>d DEF Due, Ahead, Target
  <2>8. ASSUME NEW u \in Ups, DisconnectUpstream(u) PROVE Follows'
    <3>1. Ahead(User) = {}
      BY <2>8 DEF DisconnectUpstream, Ahead
    <3>2. \A e \in Downers : e # User => job'[e] = job[e]
      BY <2>8 DEF DisconnectUpstream, TypeOK
    <3>3. \A s : Due(s) => Due(s)'
      BY <2>d, <3>1, <3>2
    <3> QED
      BY <2>8, <3>3 DEF DisconnectUpstream, Follows
  <2>9. ASSUME NEW d \in Downers, DownHold(d) PROVE Follows'
    <3>1. /\ job[d].pc = "hold" /\ job'[d] = [job[d] EXCEPT !.pc = "cut"]
          /\ \A e \in Downers : e # d => job'[e] = job[e]
          /\ UNCHANGED <<conn, path, current>>
      BY <2>9 DEF DownHold, TypeOK
    <3>2. /\ job'[d].pc = "cut" /\ job'[d].i = job[d].i /\ job'[d].name = job[d].name
      BY <3>1 DEF TypeOK
    <3>3. Target(d)' = Target(d) /\ Ahead(d)' = Ahead(d)
      BY <3>1, <3>2 DEF Target, Ahead
    <3>4. \A s : Due(s) => Due(s)'
      BY <2>d, <3>1, <3>3
    <3>5. ASSUME NEW s \in Ssh, Via[s] # NoVia, Target(d) = Via[s] PROVE Due(s)'
      <4>1. job[d].i = 0 /\ job[d].name = Via[s]
        BY <3>1, <3>5 DEF JobPlaced, Target, Dependent, TypeOK
      <4>2. PICK j \in 1..Len(ConnNames) : ConnNames[j] = s
        BY DEF Ups
      <4>3. s \in Ahead(d)
        BY <3>1, <3>5, <4>1, <4>2 DEF Ahead, Dependent
      <4> QED
        BY <3>3, <4>3 DEF Due
    <3>6. \A s \in Ssh : Via[s] # NoVia /\ Target(d) # Via[s] => held'[Via[s]] = held[Via[s]]
      BY <2>9 DEF DownHold, TypeOK
    <3> QED
      BY <3>1, <3>4, <3>5, <3>6 DEF Follows
  <2>10. ASSUME NEW d \in Downers, DownCut(d) PROVE Follows'
    <3>1. Target(d) \in Ups /\ job[d].name \in Ups /\ job[d].i \in 0..Len(ConnNames)
      BY <2>10 DEF TypeOK, JobPlaced, DownCut, Target, Dependent, Ups
    <3>2. /\ \A e \in Downers : e # d => job'[e] = job[e]
          /\ job'[d].pc # "idle" => job'[d].name = job[d].name
          /\ job'[d].i \in 0..Len(ConnNames)
          /\ job'[d].pc # "idle" => job'[d].i # 0
          /\ \A j \in 1..Len(ConnNames) :
                current /\ j > job[d].i /\ Dependent(job[d].name, j)
                   => job'[d].pc # "idle" /\ (j = job'[d].i \/ j > job'[d].i)
      BY <2>10, <3>1, GoesOn DEF DownCut, Dependent
    <3>3. ASSUME current, NEW j \in 1..Len(ConnNames), j > job[d].i, Dependent(job[d].name, j)
          PROVE  ConnNames[j] \in Ahead(d)'
      BY <3>2, <3>3 DEF Ahead, Target
    <3>4. ASSUME current, NEW s, s # Target(d), Due(s) PROVE Due(s)'
      <4>1. s \in Ahead(d) => \E j \in 1..Len(ConnNames) :
                s = ConnNames[j] /\ j > job[d].i /\ Dependent(job[d].name, j)
        BY <3>4 DEF Ahead
      <4>2. s \in Ahead(d) => s \in Ahead(d)'
        BY <3>3, <3>4, <4>1
      <4> QED
        BY <2>d, <3>2, <3>4, <4>2
    <3>5. ASSUME current, NEW s \in Ssh, Via[s] = Target(d) PROVE Due(s)'
      <4>1. job[d].i = 0 /\ job[d].name = Via[s]
        BY <2>10, <3>1, <3>5 DEF DownCut, JobPlaced, Target, Dependent, TypeOK
      <4>2. PICK j \in 1..Len(ConnNames) : ConnNames[j] = s
        BY DEF Ups
      <4>3. s \in Ahead(d)'
        BY <3>3, <3>5, <4>1, <4>2 DEF Dependent
      <4> QED
        BY <4>3 DEF Due
    <3>6. /\ ~conn'[Target(d)] /\ ~path'[Target(d)]
          /\ \A s \in Ssh : s # Target(d) => conn'[s] = conn[s]
          /\ \A s \in Ssh : s # Target(d) /\ Via[s] # Target(d) => path'[s] = path[s]
          /\ UNCHANGED <<held, current>>
      BY <2>10, <3>1 DEF DownCut, CutPaths, TypeOK
    <3> QED
      BY <3>4, <3>5, <3>6 DEF Follows
  <2>11. ASSUME NEW d \in Downers, UpstreamDropped(d) PROVE Follows'
    <3>1. job[d].name \in Ups /\ 0 \in 0..Len(ConnNames)
      BY <2>11 DEF TypeOK, JobPlaced, UpstreamDropped
    <3>2. /\ \A e \in Downers : e # d => job'[e] = job[e]
          /\ job'[d].pc # "idle" => job'[d].name = job[d].name
          /\ job'[d].i \in 0..Len(ConnNames)
          /\ job'[d].pc # "idle" => job'[d].i # 0
          /\ \A j \in 1..Len(ConnNames) : current /\ Dependent(job[d].name, j)
                   => job'[d].pc # "idle" /\ (j = job'[d].i \/ j > job'[d].i)
      BY <2>11, <3>1, GoesOn DEF UpstreamDropped, Dependent
    <3>3. ASSUME current, NEW j \in 1..Len(ConnNames), Dependent(job[d].name, j)
          PROVE  ConnNames[j] \in Ahead(d)'
      BY <3>2, <3>3 DEF Ahead, Target
    <3>4. ASSUME current, NEW s \in Ssh, Due(s) PROVE Due(s)'
      <4>1. s \in Ahead(d) => \E j \in 1..Len(ConnNames) :
                s = ConnNames[j] /\ Dependent(job[d].name, j)
        BY <2>11, <3>4 DEF Ahead, Target, JobPlaced, UpstreamDropped, Dependent
      <4>2. s \in Ahead(d) => s \in Ahead(d)'
        BY <3>3, <3>4, <4>1
      <4> QED
        BY <2>d, <3>2, <3>4, <4>2
    <3> QED
      BY <2>11, <3>4 DEF UpstreamDropped, Follows
  <2>12. ASSUME NEW v \in Vpns, NEW d \in Hooks, VpnDrops(v, d) PROVE Follows'
    <3>1. /\ job[d].pc = "idle" /\ job'[d] = [pc |-> "drop", name |-> v, i |-> 0]
          /\ \A e \in Downers : e # d => job'[e] = job[e]
          /\ \A s \in Ssh : conn'[s] = conn[s] /\ (Via[s] # v => path'[s] = path[s])
          /\ \A s \in Ssh : path'[s] => path[s]
          /\ UNCHANGED <<held, current>>
      BY <2>12 DEF VpnDrops, CutPaths, TypeOK
    <3>2. \A s : Due(s) => Due(s)'
      <4>1. Ahead(d) = {}
        BY <3>1 DEF Ahead
      <4> QED
        BY <2>d, <3>1, <4>1
    <3>3. ASSUME NEW s \in Ssh, Via[s] = v PROVE Due(s)'
      <4>1. PICK j \in 1..Len(ConnNames) : ConnNames[j] = s
        BY DEF Ups
      <4>2. s \in Ahead(d)'
        BY <3>1, <3>3, <4>1 DEF Ahead, Dependent
      <4> QED
        BY <4>2 DEF Due
    <3> QED
      BY <3>1, <3>2, <3>3 DEF Follows
  <2>13. ASSUME NEW u \in Ups, SshLost(u) \/ CloseUpstream(u) PROVE Follows'
    <3>1. /\ conn' = [conn EXCEPT ![u] = FALSE] /\ CutPaths(u)
          /\ UNCHANGED <<held, job, current>>
      BY <2>13 DEF SshLost, CloseUpstream
    <3>2. u \in Ssh \/ ~current
      BY <2>13 DEF SshLost, CloseUpstream
    <3>3. CASE ~current
      BY <2>s, <3>1, <3>3
    <3>4. CASE u \in Ssh
      <4>1. \A s \in Ssh : Via[s] # u
        BY <3>4
      <4> QED
        BY <2>s, <3>1, <3>4, <4>1 DEF CutPaths, TypeOK
    <3> QED
      BY <3>2, <3>3, <3>4
  <2>14. CASE SetAutoconnect \/ Stop \/ UNCHANGED vars
    BY <2>14, <2>s DEF SetAutoconnect, Stop, vars
  <2> QED
    BY <2>1, <2>2, <2>3, <2>4, <2>5, <2>6, <2>7, <2>8, <2>9, <2>10, <2>11, <2>12, <2>13, <2>14
       DEF Next, Step, Down
<1>5. IInv /\ [Next]_vars => IInv'
  BY <1>2, <1>3, <1>4 DEF IInv
<1> QED
  BY <1>1, <1>5, PTL DEF Spec

\* Every variable keeps its type.
THEOREM TypeCorrect == Spec => []TypeOK
  BY Invariance, PTL DEF IInv, Shape

\* "Its dependents follow it down" (controller.go:626), for every number of
\* upstreams and whatever requests, clicks and drops interleave with it.
THEOREM DependentsGoDown == Spec => []DependentsFollow
<1>1. IInv => DependentsFollow
  BY DEF IInv, Follows, Due, DependentsFollow
<1> QED
  BY <1>1, Invariance, PTL

-----------------------------------------------------------------------------
\* The chain asks no more of its clients than the contract that SshClient and
\* OpenConnect implement: one dial at a time, none under a hold, and nothing up
\* once a Down has returned.
THEOREM ContractKept == Spec => LinksKeepContract
<1>1. Init => \A u \in Ups : L(u)!Init
  BY ChainAssumption
     DEF ChainAssumption, Init, L!Init, Link, Downers, Idle
\* Every step is for every link a step of HoldableLink or is not seen there.
<1>2. ASSUME IInv, IInv', [Next]_vars, NEW u \in Ups PROVE [L(u)!Next]_(L(u)!vars)
  <2> USE <1>2
  <2> USE ChainAssumption DEF ChainAssumption, IInv, Shape, Threads, Vpns, Downers, clients
  \* A step that touches neither the client nor a Down of it is not seen.
  <2>e. ASSUME conn'[u] = conn[u], dialer'[u] = NoThread <=> dialer[u] = NoThread,
               held'[u] = held[u], Cutting(u)' = Cutting(u)
        PROVE  UNCHANGED L(u)!vars
    BY <2>e DEF L!vars, Cutting, Link
  <2>q. ASSUME UNCHANGED job PROVE Cutting(u)' = Cutting(u)
    BY <2>q DEF Cutting, Target
  \* A link that was up or dialled, and is not any more.
  <2>l. ASSUME conn[u] \/ dialer[u] # NoThread, ~conn'[u], dialer'[u] = NoThread,
               held'[u] = held[u], Cutting(u)' = Cutting(u)
        PROVE  L(u)!Next
    BY <2>l DEF L!Next, L!Lose, Cutting, Link
  <2>1. ASSUME NEW t \in Threads, NEW w \in Ups, Request(t, w) \/ Connect(t, w)
        PROVE  UNCHANGED L(u)!vars
    BY <2>1, <2>e, <2>q DEF Request, Connect
  <2>2. ASSUME NEW t \in Threads, ClearHold(t) PROVE [L(u)!Next]_(L(u)!vars)
    <3>1. UNCHANGED <<conn, dialer, job>> /\ held' = [held EXCEPT ![Callee(t)] = FALSE]
      BY <2>2 DEF ClearHold
    <3>2. CASE u = Callee(t)
      BY <2>q, <3>1, <3>2 DEF L!Next, L!Release, Cutting, Link, TypeOK
    <3>3. CASE u # Callee(t)
      BY <2>e, <2>q, <3>1, <3>3 DEF TypeOK
    <3> QED
      BY <3>2, <3>3
  <2>3. ASSUME NEW t \in Threads, GetReuse(t) PROVE UNCHANGED L(u)!vars
    BY <2>3, <2>e, <2>q DEF GetReuse
  <2>4. ASSUME NEW t \in Threads, GetFails(t) \/ DialFails(t)
        PROVE  [L(u)!Next]_(L(u)!vars)
    <3>1. Return(t) /\ UNCHANGED <<conn, held, job>>
      BY <2>4 DEF GetFails, DialFails
    <3>2. CASE dialer[u] = t
      BY <2>l, <2>q, <3>1, <3>2 DEF Return, DialerPlaced, TypeOK
    <3>3. CASE dialer[u] # t
      BY <2>e, <2>q, <3>1, <3>3 DEF Return, TypeOK
    <3> QED
      BY <3>2, <3>3
  <2>5. ASSUME NEW t \in Threads, GetDials(t) PROVE [L(u)!Next]_(L(u)!vars)
    <3>1. /\ dialer[Callee(t)] = NoThread /\ ~conn[Callee(t)] /\ ~held[Callee(t)]
          /\ dialer' = [dialer EXCEPT ![Callee(t)] = t] /\ UNCHANGED <<conn, held, job>>
      BY <2>5 DEF GetDials, InGet, Refuses
    <3>2. CASE u = Callee(t)
      BY <2>q, <3>1, <3>2 DEF L!Next, L!Dial, Cutting, Link, TypeOK
    <3>3. CASE u # Callee(t)
      BY <2>e, <2>q, <3>1, <3>3 DEF TypeOK
    <3> QED
      BY <3>2, <3>3
  \* A dial that succeeds although its link is held will be cut.
  <2>u. ASSUME NEW w \in Ups, dialer[w] # NoThread, UNCHANGED <<held, job>>,
               dialer' = [dialer EXCEPT ![w] = NoThread], conn' = [conn EXCEPT ![w] = TRUE]
        PROVE  [L(u)!Next]_(L(u)!vars)
    <3>1. CASE u = w
      <4>1. held[u] => Cutting(u)
        BY <2>u, <3>1 DEF HeldIsCut
      <4> QED
        BY <2>q, <2>u, <3>1, <4>1 DEF L!Next, L!Establish, Cutting, Link, TypeOK
    <3>2. CASE u # w
      BY <2>e, <2>q, <2>u, <3>2 DEF TypeOK
    <3> QED
      BY <3>1, <3>2
  <2>6. ASSUME NEW t \in Threads, NEW v \in Vpns, VpnUp(t, v) PROVE [L(u)!Next]_(L(u)!vars)
    BY <2>6, <2>u DEF VpnUp
  <2>7. ASSUME NEW t \in Threads, SshUp(t) PROVE [L(u)!Next]_(L(u)!vars)
    <3>1. up[t] \in Ups /\ dialer[up[t]] = t
      BY <2>7 DEF SshUp, Placed
    <3> QED
      BY <2>7, <2>u, <3>1 DEF SshUp
  <2>8. ASSUME NEW w \in Ups, DisconnectUpstream(w) PROVE UNCHANGED L(u)!vars
    <3>1. Cutting(u)' = Cutting(u)
      BY <2>8 DEF DisconnectUpstream, Cutting, Target, TypeOK
    <3> QED
      BY <2>8, <2>e, <3>1 DEF DisconnectUpstream
  <2>9. ASSUME NEW d \in Downers, DownHold(d) PROVE [L(u)!Next]_(L(u)!vars)
    <3>1. /\ job[d].pc = "hold" /\ job'[d].pc = "cut" /\ Target(d)' = Target(d)
          /\ \A e \in Downers : e # d => job'[e] = job[e]
          /\ held' = [held EXCEPT ![Target(d)] = TRUE] /\ UNCHANGED <<conn, dialer>>
      BY <2>9 DEF DownHold, Target, TypeOK
    <3>2. CASE u = Target(d)
      <4>1. Cutting(u)'
        BY <3>1, <3>2 DEF Cutting
      <4>2. held'[u] = TRUE /\ Link(u)' = Link(u)
        BY <3>1, <3>2 DEF Link, TypeOK
      <4>3. L(u)!Hold
        BY <4>1, <4>2, Zenon DEF L!Hold, Cutting
      <4> QED
        BY <4>3 DEF L!Next
    <3>3. CASE u # Target(d)
      <4>1. \A e \in Downers :
               (job'[e].pc = "cut" /\ Target(e)' = u) <=> (job[e].pc = "cut" /\ Target(e) = u)
        <5> SUFFICES ASSUME NEW e \in Downers
                     PROVE  (job'[e].pc = "cut" /\ Target(e)' = u)
                               <=> (job[e].pc = "cut" /\ Target(e) = u)
          OBVIOUS
        <5>1. CASE e = d
          BY <3>1, <3>3, <5>1
        <5>2. CASE e # d
          BY <3>1, <5>2 DEF Target
        <5> QED
          BY <5>1, <5>2
      <4>2. Cutting(u)' = Cutting(u)
        BY <4>1 DEF Cutting
      <4> QED
        BY <2>e, <3>1, <3>3, <4>2 DEF TypeOK
    <3> QED
      BY <3>2, <3>3
  <2>10. ASSUME NEW d \in Downers, DownCut(d) PROVE [L(u)!Next]_(L(u)!vars)
    <3>1. job[d].name \in Ups /\ job[d].i \in 0..Len(ConnNames)
      BY <2>10 DEF TypeOK, JobPlaced, DownCut
    <3>2. /\ job[d].pc = "cut" /\ job'[d].pc # "cut" /\ dialer[Target(d)] = NoThread
          /\ \A e \in Downers : e # d => job'[e] = job[e]
          /\ conn' = [conn EXCEPT ![Target(d)] = FALSE] /\ UNCHANGED <<held, dialer>>
      BY <2>10, <3>1, GoesOn DEF DownCut
    <3>3. CASE u = Target(d)
      <4>1. Cutting(u)
        BY <3>2, <3>3 DEF Cutting
      <4> QED
        BY <3>2, <3>3, <4>1 DEF L!Next, L!Cut, Cutting, Link, TypeOK
    <3>4. CASE u # Target(d)
      <4>1. Cutting(u)' = Cutting(u)
        BY <3>2, <3>4 DEF Cutting, Target
      <4> QED
        BY <2>e, <3>2, <3>4, <4>1 DEF TypeOK
    <3> QED
      BY <3>3, <3>4
  <2>11. ASSUME NEW d \in Downers, UpstreamDropped(d) PROVE UNCHANGED L(u)!vars
    <3>1. job[d].name \in Ups /\ 0 \in 0..Len(ConnNames)
      BY <2>11 DEF TypeOK, JobPlaced, UpstreamDropped
    <3>2. job[d].pc # "cut" /\ job'[d].pc # "cut"
          /\ \A e \in Downers : e # d => job'[e] = job[e]
      BY <2>11, <3>1, GoesOn DEF UpstreamDropped
    <3>3. Cutting(u)' = Cutting(u)
      BY <3>2 DEF Cutting, Target
    <3> QED
      BY <2>11, <2>e, <3>3 DEF UpstreamDropped
  <2>12. ASSUME NEW v \in Vpns, NEW d \in Hooks, VpnDrops(v, d)
         PROVE  [L(u)!Next]_(L(u)!vars)
    <3>1. Cutting(u)' = Cutting(u)
      BY <2>12 DEF VpnDrops, Cutting, Target, TypeOK
    <3>2. conn[v] /\ conn' = [conn EXCEPT ![v] = FALSE] /\ UNCHANGED <<held, dialer>>
      BY <2>12 DEF VpnDrops
    <3>3. CASE u = v
      BY <2>l, <3>1, <3>2, <3>3 DEF DialerPlaced, TypeOK
    <3>4. CASE u # v
      BY <2>e, <3>1, <3>2, <3>4 DEF TypeOK
    <3> QED
      BY <3>3, <3>4
  <2>13. ASSUME NEW w \in Ups, SshLost(w) \/ CloseUpstream(w)
         PROVE  [L(u)!Next]_(L(u)!vars)
    <3>1. conn[w] /\ conn' = [conn EXCEPT ![w] = FALSE] /\ UNCHANGED <<held, dialer, job>>
      BY <2>13 DEF SshLost, CloseUpstream
    <3>2. CASE u = w
      BY <2>l, <2>q, <3>1, <3>2 DEF DialerPlaced, TypeOK
    <3>3. CASE u # w
      BY <2>e, <2>q, <3>1, <3>3 DEF TypeOK
    <3> QED
      BY <3>2, <3>3
  <2>14. CASE SetAutoconnect \/ Stop \/ UNCHANGED vars
    BY <2>14, <2>e, <2>q DEF SetAutoconnect, Stop, vars
  <2> QED
    BY <2>1, <2>2, <2>3, <2>4, <2>5, <2>6, <2>7, <2>8, <2>9, <2>10, <2>11, <2>12, <2>13, <2>14
       DEF Next, Step, Down
<1>3. IInv /\ IInv' /\ [Next]_vars => \A u \in Ups : [L(u)!Next]_(L(u)!vars)
  BY <1>2
<1> QED
  BY <1>1, <1>3, Invariance, PTL DEF Spec, LinksKeepContract

=============================================================================
