------------------------------ MODULE Session ------------------------------
(***************************************************************************)
(* One accepted connection, from the listener's handler to the last close: *)
(* the HTTP proxy (pkg/proxy/handler.go: CONNECT and plain requests), the  *)
(* SOCKS5 listener (pkg/socks5server/handler.go) and the TCP forward       *)
(* (pkg/portforward/server.go), through an upstream reached directly, by   *)
(* an HTTP proxy or by a SOCKS5 proxy (pkg/upstream), with its credentials *)
(* from the secret cache (pkg/secret).  Handlers share nothing else.       *)
(*                                                                         *)
(* Four one-way streams carry tokens: the peers' data, the messages of the *)
(* protocols, and "fin" for the end.                                       *)
(***************************************************************************)
EXTENDS Naturals, Sequences, FiniteSets, SequencesExt

CONSTANTS
    Data,   \* what each peer sends, in order: a bound on it, too
    Buffer  \* how many tokens wait on the way to a peer that does not read

\* What the protocols add to it: requests and answers, and the end of a stream.
Marks == {"req", "bad", "hello", "ok", "no", "fin"}
Tokens == Range(Data) \cup Marks

ASSUME DataAssumption ==
    /\ Data \in Seq(Range(Data)) /\ Range(Data) \cap Marks = {}
    /\ \A i, j \in 1..Len(Data) : Data[i] = Data[j] => i = j

ASSUME BufferAssumption == Buffer \in Nat \ {0}

Kinds == {"connect", "forward", "socks5", "tcp"}
Upstreams == {"direct", "http", "socks5"}
Peers == {"client", "server"}
Streams == {"c2p", "p2c", "p2s", "s2p"}

VARIABLES
    kind,   \* of the listener, and for HTTP of the request's method
    via,    \* the upstream pick chooses
    pc,     \* where the handler is
    net,    \* the streams, oldest token first
    peer,   \* "open", "half" (it has shut its sending side) or "gone"
    sent,   \* data tokens each peer has sent
    got,    \* tokens each peer has received
    conn,   \* the handler's connection to each peer: "none", "open", "closed"
    copying,\* the copies from each peer that still run
    cached, \* the upstream's credentials are in the Resolver's cache
    lost    \* data tokens the reader of a CONNECT response has swallowed

vars == <<kind, via, pc, net, peer, sent, got, conn, copying, cached, lost>>
env == <<peer, sent, got>>
setup == <<kind, via, cached>>

FromPeer == [client |-> "c2p", server |-> "s2p"]
ToPeer == [client |-> "p2c", server |-> "p2s"]
Other == [client |-> "server", server |-> "client"]

Init ==
    /\ kind \in Kinds /\ via \in Upstreams
    /\ pc = IF kind = "tcp" THEN "dial" ELSE "read"
    /\ net = [s \in Streams |-> <<>>]
    /\ peer = [p \in Peers |-> "open"]
    /\ sent = [p \in Peers |-> 0]
    /\ got = [p \in Peers |-> <<>>]
    /\ conn = [client |-> "open", server |-> "none"]
    /\ copying = {}
    /\ cached \in BOOLEAN
    /\ lost = {}

Append1(n, s, m) == [n EXCEPT ![s] = Append(@, m)]

\* A write of data to p waits: p does not read, and the buffers are full.  The
\* protocols' own messages are the first on their streams, and find room.
Full(p) == Len(net[ToPeer[p]]) >= Buffer

\* The handler moves the oldest token of p to the other peer.
Moved(p) == [net EXCEPT ![FromPeer[p]] = Tail(@),
                        ![ToPeer[Other[p]]] = Append(@, Head(net[FromPeer[p]]))]

\* p has sent something that is not the end, and it has not been read.
Waiting(p) == net[FromPeer[p]] # <<>> /\ Head(net[FromPeer[p]]) # "fin"

AtEnd(p) == net[FromPeer[p]] # <<>> /\ Head(net[FromPeer[p]]) = "fin"

-----------------------------------------------------------------------------
(* The peers, which do as they please: send, shut down, vanish, read.        *)

\* The client's request: one that parses, or one that does not.
ClientAsks(m) ==
    /\ pc = "read" /\ peer["client"] = "open" /\ net["c2p"] = <<>>
    /\ net' = Append1(net, "c2p", m)
    /\ UNCHANGED <<kind, via, pc, peer, sent, got, conn, copying, cached, lost>>

\* What the server is to the handler, or the proxy in front of it, answers.
ServerAnswers(m) ==
    /\ pc = "shake" /\ peer["server"] = "open" /\ net["s2p"] = <<>>
    /\ "hello" \in Range(got["server"])
    /\ net' = Append1(net, "s2p", m)
    /\ UNCHANGED <<kind, via, pc, peer, sent, got, conn, copying, cached, lost>>

\* A peer may talk once its stream is its own: behind its request, or
\* behind the answer of the proxy.
Talks(p) ==
    /\ conn[p] = "open"
    /\ p = "client" => pc # "read" \/ net["c2p"] # <<>>
    /\ p = "server" => pc # "shake" \/ "ok" \in Range(net["s2p"])

Send(p) ==
    /\ peer[p] = "open" /\ sent[p] < Len(Data) /\ Talks(p)
    /\ sent' = [sent EXCEPT ![p] = @ + 1]
    /\ net' = Append1(net, FromPeer[p], Data[sent[p] + 1])
    /\ UNCHANGED <<kind, via, pc, peer, got, conn, copying, cached, lost>>

\* A peer shuts down its sending side, or closes altogether.
Leave(p, how) ==
    /\ conn[p] # "none"
    /\ peer[p] = "open" \/ (peer[p] = "half" /\ how = "gone")
    /\ peer' = [peer EXCEPT ![p] = how]
    /\ net' = IF peer[p] = "open" THEN Append1(net, FromPeer[p], "fin") ELSE net
    /\ UNCHANGED <<kind, via, pc, sent, got, conn, copying, cached, lost>>

Receive(p) ==
    /\ peer[p] # "gone" /\ net[ToPeer[p]] # <<>>
    /\ got' = [got EXCEPT ![p] = Append(@, Head(net[ToPeer[p]]))]
    /\ net' = [net EXCEPT ![ToPeer[p]] = Tail(@)]
    /\ UNCHANGED <<kind, via, pc, peer, sent, conn, copying, cached, lost>>

-----------------------------------------------------------------------------
(* The handler *)

\* The deferred closes: of the client always, of the upstream if dialled.
CloseAll(n) ==
    /\ conn' = [p \in Peers |-> IF conn[p] = "open" THEN "closed" ELSE conn[p]]
    /\ net' = [s \in Streams |->
          IF \E p \in Peers : /\ s = ToPeer[p] /\ conn[p] = "open"
                             /\ "fin" \notin Range(got[p] \o n[s])
          THEN Append(n[s], "fin") ELSE n[s]]
    /\ pc' = "done"

\* A refusal the client can read: 400, 502 or a SOCKS5 reply; a TCP forward
\* and a failed greeting have none.
Refuse(m) == CloseAll(IF kind = "tcp" THEN net ELSE Append1(net, "p2c", m))

\* What does not parse is answered with a 400 (handleConnect, handleForward),
RejectHTTP(n) == CloseAll(Append1(n, "p2c", "no"))

\* or, of SOCKS5, not at all (negotiateMethod, readRequest); an offer without a
\* method to accept and a command other than CONNECT have a reply.
RejectSocks5(n) == CloseAll(n) \/ CloseAll(Append1(n, "p2c", "no"))

\* An early end, a request that does not parse, or one to serve.
Read ==
    /\ pc = "read" /\ net["c2p"] # <<>>
    /\ LET m == Head(net["c2p"])
           n == [net EXCEPT !["c2p"] = Tail(@)]
       IN \/ m = "fin" /\ CloseAll(net)
          \/ m = "bad" /\ kind # "socks5" /\ RejectHTTP(n)
          \/ m = "bad" /\ kind = "socks5" /\ RejectSocks5(n)
          \/ m = "req" /\ net' = n /\ pc' = "dial" /\ UNCHANGED conn
    /\ UNCHANGED <<setup, env, copying, lost>>

\* resolveAuth: a proxy's credentials are looked up before it is dialled.
NeedsAuth == via # "direct" /\ ~cached

\* Dial: credentials that are not cached are asked for, and kept...
Resolve ==
    /\ pc = "dial" /\ NeedsAuth
    /\ cached' = TRUE
    /\ UNCHANGED <<kind, via, pc, net, env, conn, copying, lost>>

\* ... the connection is made, and a proxy is sent its handshake.
DialOK ==
    /\ pc = "dial" /\ ~NeedsAuth
    /\ conn' = [conn EXCEPT !["server"] = "open"]
    /\ pc' = IF via = "direct" THEN "reply" ELSE "shake"
    /\ net' = IF via = "direct" THEN net ELSE Append1(net, "p2s", "hello")
    /\ UNCHANGED <<setup, env, copying, lost>>

\* The prompt is cancelled, or nobody answers: nothing is open or cached.
DialFails ==
    /\ pc = "dial"
    /\ Refuse("no")
    /\ UNCHANGED <<setup, env, copying, lost>>

DataIn(s) == Range(s) \cap Range(Data)

\* What may be left of a stream when the buffered reader of ReadResponse has
\* read its answer from it: the data that had arrived with it goes with the
\* reader.  The SOCKS5 dialer reads its replies to the byte.
Unread(s) ==
    {SubSeq(s, i, Len(s)) :
        i \in {k \in 1..Len(s) + 1 :
                  k = 1 \/ (via = "http" /\ \A j \in 1..k-1 : s[j] \in Range(Data))}}

\* Mutant: the end of the stream is taken for an answer yet to come.
ShakeWaits ==
    /\ pc = "shake" /\ net["s2p"] # <<>> /\ Head(net["s2p"]) = "ok"
    /\ net' = [net EXCEPT !["s2p"] = Tail(@)]
    /\ pc' = "reply"
    /\ UNCHANGED <<setup, env, conn, copying, lost>>

\* The CONNECT response, or the SOCKS5 replies: on failure Dial closes.
Shake ==
    /\ pc = "shake" /\ net["s2p"] # <<>>
    /\ LET rest == Tail(net["s2p"])
       IN \/ /\ Head(net["s2p"]) = "ok"
             /\ \E u \in Unread(rest) :
                   /\ net' = [net EXCEPT !["s2p"] = u]
                   /\ lost' = DataIn(rest) \ DataIn(u)
             /\ pc' = "reply" /\ UNCHANGED conn
          \/ /\ Head(net["s2p"]) # "ok"
             /\ Refuse("no") /\ UNCHANGED lost
    /\ UNCHANGED <<setup, env, copying>>

\* Mutant: the copies read the connection, not what is left in the buffer.
ReplyUnbuffered ==
    /\ pc = "reply" /\ kind # "forward"
    /\ net' = [net EXCEPT !["c2p"] = <<>>, !["p2c"] = Append(@, "ok")]
    /\ pc' = "relay" /\ copying' = Peers
    /\ UNCHANGED <<setup, env, conn, lost>>

\* The upstream is up: the client is told, and the copies start.  A SOCKS5
\* reply that cannot be written ends the handler, the others are not checked.
Reply ==
    /\ pc = "reply" /\ kind # "forward"
    /\ \/ /\ net' = IF kind = "tcp" THEN net ELSE Append1(net, "p2c", "ok")
          /\ pc' = "relay" /\ copying' = Peers /\ UNCHANGED conn
       \/ /\ kind = "socks5" /\ peer["client"] = "gone"
          /\ CloseAll(net) /\ UNCHANGED copying
    /\ UNCHANGED <<setup, env, lost>>

\* handleForward writes the head of the request upstream...
ForwardRequest ==
    /\ pc = "reply" /\ kind = "forward"
    /\ \/ /\ net' = Append1(net, "p2s", "req")
          /\ pc' = "body" /\ UNCHANGED conn
       \/ peer["server"] = "gone" /\ CloseAll(net)
    /\ UNCHANGED <<setup, env, copying, lost>>

\* ... and its body as the client sends it, which fails when either is gone or
\* the body does not parse...
ForwardBody ==
    /\ pc = "body"
    /\ \/ /\ Waiting("client") /\ ~Full("server")
          /\ net' = Moved("client") /\ UNCHANGED <<pc, conn>>
       \/ net["c2p"] # <<>> /\ CloseAll(net)
    /\ UNCHANGED <<setup, env, copying, lost>>

\* ... up to the end of the body, if it has one at all.
ForwardBodyEnd ==
    /\ pc = "body"
    /\ pc' = "response"
    /\ UNCHANGED <<setup, net, env, conn, copying, lost>>

\* Then it copies the one response, as it comes, to the client: to its end, or
\* until it cannot be read or written.
ForwardResponse ==
    /\ pc = "response"
    /\ \/ /\ Waiting("server") /\ ~Full("client")
          /\ \/ net' = Moved("server") /\ UNCHANGED <<pc, conn>>
             \/ CloseAll(Moved("server"))
       \/ net["s2p"] # <<>> /\ CloseAll(net)
    /\ UNCHANGED <<setup, env, copying, lost>>

\* io.Copy from a peer to the other moves what has arrived, as far as the other
\* peer reads it.
CopyData(p) ==
    /\ p \in copying
    /\ Waiting(p) /\ ~Full(Other[p])
    /\ net' = Moved(p)
    /\ UNCHANGED <<setup, pc, env, conn, copying, lost>>

\* A copy ends at the end of its source, or when its destination is gone.
CopyEnded(p) ==
    /\ p \in copying
    /\ AtEnd(p) \/ (Waiting(p) /\ peer[Other[p]] = "gone")
    /\ copying' = copying \ {p}

\* Mutant: pipe ends without closing anything.
CopyEndSilent(p) ==
    /\ CopyEnded(p)
    /\ UNCHANGED <<setup, pc, net, env, conn, lost>>

\* pipe then shuts down the sending side of its destination; the copies of
\* spliceClientServer and spliceClientUpstream do not.
CopyEnd(p) ==
    /\ CopyEnded(p)
    /\ net' = IF kind = "tcp" THEN Append1(net, ToPeer[Other[p]], "fin") ELSE net
    /\ UNCHANGED <<setup, pc, env, conn, lost>>

\* Mutant: the first direction to end ends the session.
FinishOnFirst ==
    /\ pc = "relay" /\ copying # Peers
    /\ CloseAll(net) /\ copying' = {}
    /\ UNCHANGED <<setup, env, lost>>

\* The handler waits for both copies, then closes both connections.
Finish ==
    /\ pc = "relay" /\ copying = {}
    /\ CloseAll(net)
    /\ UNCHANGED <<setup, env, copying, lost>>

-----------------------------------------------------------------------------

Handle ==
    \/ Read \/ Resolve \/ DialOK \/ DialFails \/ Shake \/ Reply
    \/ ForwardRequest \/ ForwardBody \/ ForwardResponse \/ Finish

Next ==
    \/ Handle \/ ForwardBodyEnd
    \/ \E p \in Peers : CopyData(p) \/ CopyEnd(p)
    \/ \E m \in {"req", "bad"} : ClientAsks(m)
    \/ \E m \in {"ok", "no"} : ServerAnswers(m)
    \/ \E p \in Peers : Send(p) \/ Receive(p) \/ Leave(p, "half") \/ Leave(p, "gone")

Spec == Init /\ [][Next]_vars

\* Runnable goroutines run, and a dial ends: DialContext has the system's
\* timeout and the server's context.  Nothing obliges a peer to do anything, to
\* read or to finish its body: handshakes, copies and writes have no deadline.
Fairness == WF_vars(Handle) /\ \A p \in Peers : WF_vars(CopyData(p) \/ CopyEnd(p))

FairSpec == Spec /\ Fairness

-----------------------------------------------------------------------------
(* Properties *)

TypeOK ==
    /\ kind \in Kinds /\ via \in Upstreams
    /\ pc \in {"read", "dial", "shake", "reply", "relay", "body", "response", "done"}
    /\ net \in [Streams -> Seq(Tokens)] /\ got \in [Peers -> Seq(Tokens)]
    /\ peer \in [Peers -> {"open", "half", "gone"}]
    /\ sent \in [Peers -> 0..Len(Data)]
    /\ conn \in [Peers -> {"none", "open", "closed"}]
    /\ copying \subseteq Peers /\ cached \in BOOLEAN /\ lost \subseteq Range(Data)

\* What a peer has been sent, whether or not it has read it.
Given(p) == got[p] \o net[ToPeer[p]]

\* Among other tokens, s holds Data[a+1] to Data[b], once each and in order.
Carries(s, a, b) ==
    /\ \A k \in 1..Len(Data) : Data[k] \in Range(s) <=> a < k /\ k <= b
    /\ \A i, j \in DOMAIN s, k, l \in 1..Len(Data) :
          i < j /\ s[i] = Data[k] /\ s[j] = Data[l] => k < l

\* Data reaches the other peer in order and without a gap, and what it has not
\* been given is still to be read, what the client sent behind its request
\* before the upstream was dialled included (handler.go:161); nothing follows
\* the end of a stream.  The one gap: what an HTTP upstream's server said before
\* the client did (http.go:89).
InOrder ==
    \A p \in Peers :
        /\ \/ \E n \in 0..sent[Other[p]] :
                 /\ Carries(Given(p), 0, n)
                 /\ Carries(net[FromPeer[Other[p]]], n, sent[Other[p]])
           \/ p = "client" /\ via = "http" /\ lost # {}
        /\ \A i \in 1..Len(Given(p)) - 1 : Given(p)[i] # "fin"

\* A write of the handler's to p waits until p reads, or goes.
Stalled(p) ==
    /\ Waiting(Other[p]) /\ Full(p) /\ peer[p] # "gone"
    /\ \/ Other[p] \in copying
       \/ p = "server" /\ pc = "body"
       \/ p = "client" /\ pc = "response"

\* "so the far side sees EOF while its own direction keeps flowing - a client
\* that shuts down writing after its request still gets the response"
\* (portforward/server.go:161).  Of every listener: what a peer sends arrives
\* although the other has shut down its own sending side, unless the other
\* stops reading for good.
ResponseArrives ==
    \A p \in Peers, i \in 1..Len(Data) :
        \/ (pc = "relay" /\ sent[p] >= i)
              ~> \/ Data[i] \in Range(Given(Other[p])) \cup lost
                 \/ peer[Other[p]] = "gone"
        \/ <>[]Stalled(Other[p])

\* The other half of that comment: a TCP forward hands on a half-close, behind
\* the data before it.
HalfCloseArrives ==
    \A p \in Peers :
        \/ (kind = "tcp" /\ pc = "relay" /\ peer[p] # "open")
              ~> "fin" \in Range(Given(Other[p]))
        \/ <>[]Stalled(Other[p])

\* Once both peers have shut down, in whatever state of the handshakes or of
\* the copies, the handler leaves neither connection open, and it has closed
\* what a failed handshake had opened: "The caller owns the returned conn and
\* must Close it" (upstream.go:13).  What can keep it is a peer that has shut
\* down its sending side only and never reads what it is still owed: the
\* writes have no deadline.
SessionEnds ==
    \/ (\A p \in Peers : peer[p] # "open") ~> (\A p \in Peers : conn[p] # "open")
    \/ \E p \in Peers : <>[](Stalled(p) /\ peer[p] = "half")

=============================================================================
