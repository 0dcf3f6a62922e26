--------------------------- MODULE Session_proofs ---------------------------
(***************************************************************************)
(* A session hands on the data of both peers in order, without a gap and   *)
(* with nothing behind the end of a stream, whatever the peers send and    *)
(* however much of it.                                                     *)
(***************************************************************************)
EXTENDS Session, TLAPS

(* The invariant. *)

\* Nothing is lost before the handshake is read, and nothing copied but in relay.
Stages ==
    /\ pc \in {"read", "dial", "shake"} => lost = {}
    /\ copying # {} => pc = "relay"

FinLast(s) == \A i \in 1..Len(s) - 1 : s[i] # "fin"

\* A peer is given the end of its stream once nothing writes to it any more.
Ended(p) == pc = "done" \/ (pc = "relay" /\ Other[p] \notin copying)
Ends == \A p \in Peers : "fin" \in Range(Given(p)) => Ended(p)

\* Of b tokens sent, g has been given the first, and r holds the others.
Flows(g, r, b) == \E n \in 0..b : Carries(g, 0, n) /\ Carries(r, n, b)

\* With the streams n, peer p has been given, or will be, what the other sent.
GivenIn(n, p) == got[p] \o n[ToPeer[p]]
Whole(n, p) ==
    /\ \/ Flows(GivenIn(n, p), n[FromPeer[Other[p]]], sent[Other[p]])
       \/ p = "client" /\ via = "http" /\ lost # {}
    /\ FinLast(GivenIn(n, p))
    /\ "fin" \in Range(GivenIn(n, p)) => Ended(p)

IInv == TypeOK /\ Stages /\ Ends /\ InOrder

-----------------------------------------------------------------------------
\* What is appended behind, or moved over, leaves the whole as it is.
LEMMA Concat ==
    ASSUME NEW S, NEW a \in Seq(S), NEW b \in Seq(S), NEW m \in S
    PROVE  /\ a \o Append(b, m) = Append(a \o b, m)
           /\ b # <<>> => Append(a, Head(b)) \o Tail(b) = a \o b
<1>1. a \o Append(b, m) = Append(a \o b, m)
  <2> DEFINE s == a \o Append(b, m)
             t == Append(a \o b, m)
  <2>1. s \in Seq(S) /\ t \in Seq(S) /\ Len(s) = Len(a) + Len(b) + 1 /\ Len(t) = Len(s)
    OBVIOUS
  <2>2. \A i \in 1..Len(s) : s[i] = t[i]
    OBVIOUS
  <2> QED
    BY <2>1, <2>2
<1>2. ASSUME b # <<>> PROVE Append(a, Head(b)) \o Tail(b) = a \o b
  <2> DEFINE s == Append(a, Head(b)) \o Tail(b)
             t == a \o b
  <2>1. Head(b) \in S /\ Tail(b) \in Seq(S) /\ Len(Tail(b)) = Len(b) - 1
    BY <1>2
  <2>2. s \in Seq(S) /\ t \in Seq(S) /\ Len(s) = Len(a) + Len(b) /\ Len(t) = Len(s)
    BY <2>1
  <2>3. \A i \in 1..Len(s) : s[i] = t[i]
    BY <1>2, <2>1
  <2> QED
    BY <2>2, <2>3
<1> QED
  BY <1>1, <1>2

\* A stream goes on carrying what it did when a protocol adds to it, and one
\* more when the next of the data arrives.
LEMMA CarriesAppend ==
    ASSUME NEW s \in Seq(Tokens), NEW a \in 0..Len(Data), NEW b \in a..Len(Data),
           Carries(s, a, b)
    PROVE  /\ \A m \in Marks : Carries(Append(s, m), a, b)
           /\ b < Len(Data) => Carries(Append(s, Data[b + 1]), a, b + 1)
<1>1. /\ Len(Data) \in Nat
      /\ \A k \in 1..Len(Data) : Data[k] \in Tokens \ Marks
  BY DataAssumption DEF DataAssumption, Range, Tokens
<1>2. ASSUME NEW m \in Tokens, NEW c \in {b, b + 1}, c <= Len(Data),
             \A k \in 1..Len(Data) : m = Data[k] <=> b < k /\ k <= c
      PROVE  Carries(Append(s, m), a, c)
  <2> DEFINE t == Append(s, m)
  <2>1. /\ DOMAIN t = 1..Len(s) + 1 /\ DOMAIN s = 1..Len(s) /\ Len(s) \in Nat
        /\ t[Len(s) + 1] = m /\ \A i \in 1..Len(s) : t[i] = s[i]
    OBVIOUS
  <2> HIDE DEF t
  <2>2. \A x : x \in Range(t) <=> x \in Range(s) \/ x = m
    BY <2>1 DEF Range
  <2>3. ASSUME NEW k \in 1..Len(Data) PROVE Data[k] \in Range(t) <=> a < k /\ k <= c
    BY <1>2, <2>2 DEF Carries
  <2>4. ASSUME NEW i \in DOMAIN t, NEW j \in DOMAIN t, NEW k \in 1..Len(Data),
               NEW l \in 1..Len(Data), i < j, t[i] = Data[k], t[j] = Data[l]
        PROVE  k < l
    <3>1. i \in DOMAIN s /\ s[i] = Data[k]
      BY <2>1, <2>4
    <3>2. CASE j \in DOMAIN s
      BY <2>1, <2>4, <3>1, <3>2 DEF Carries
    <3>3. CASE j = Len(s) + 1
      <4>1. Data[k] \in Range(s)
        BY <3>1 DEF Range
      <4>2. k <= b
        BY <4>1 DEF Carries
      <4>3. b < l
        BY <1>2, <2>1, <2>4, <3>3
      <4> QED
        BY <4>2, <4>3
    <3> QED
      BY <2>1, <3>2, <3>3
  <2> QED
    BY <2>3, <2>4 DEF Carries, t
<1>3. ASSUME NEW m \in Marks PROVE Carries(Append(s, m), a, b)
  BY <1>1, <1>2 DEF Tokens
<1>4. ASSUME b < Len(Data) PROVE Carries(Append(s, Data[b + 1]), a, b + 1)
  <2>1. \A k \in 1..Len(Data) : Data[b + 1] = Data[k] <=> b < k /\ k <= b + 1
    BY <1>1, <1>4, DataAssumption DEF DataAssumption
  <2> QED
    BY <1>1, <1>2, <1>4, <2>1
<1> QED
  BY <1>3, <1>4

\* The data at the head of a stream is the first that it carries.
LEMMA CarriesTail ==
    ASSUME NEW s \in Seq(Tokens), NEW a \in 0..Len(Data), NEW b \in a..Len(Data),
           Carries(s, a, b), s # <<>>
    PROVE  /\ Head(s) \in Marks => Carries(Tail(s), a, b)
           /\ Head(s) \in Range(Data) => /\ a < b /\ Head(s) = Data[a + 1]
                                         /\ Carries(Tail(s), a + 1, b)
<1> DEFINE t == Tail(s)
<1>1. /\ Len(Data) \in Nat /\ \A x : x \in Range(Data) <=> \E k \in 1..Len(Data) : x = Data[k]
      /\ \A k \in 1..Len(Data) : Data[k] \in Tokens \ Marks
  BY DataAssumption DEF DataAssumption, Range, Tokens
<1>2. /\ DOMAIN t = 1..Len(s) - 1 /\ DOMAIN s = 1..Len(s) /\ Len(s) \in Nat \ {0}
      /\ Head(s) = s[1] /\ \A i \in 1..Len(s) - 1 : t[i] = s[i + 1]
  OBVIOUS
<1> HIDE DEF t
<1>3. \A x : x \in Range(t) <=> \E j \in 2..Len(s) : s[j] = x
  <2>1. ASSUME NEW j \in 2..Len(s) PROVE j - 1 \in DOMAIN t /\ t[j - 1] = s[j]
    BY <1>2
  <2> QED
    BY <1>2, <2>1 DEF Range
<1>4. \A i, j \in DOMAIN t, k, l \in 1..Len(Data) :
         i < j /\ t[i] = Data[k] /\ t[j] = Data[l] => k < l
  <2> SUFFICES ASSUME NEW i \in DOMAIN t, NEW j \in DOMAIN t, NEW k \in 1..Len(Data),
                      NEW l \in 1..Len(Data), i < j, t[i] = Data[k], t[j] = Data[l]
               PROVE  k < l
    OBVIOUS
  <2>1. i + 1 \in DOMAIN s /\ j + 1 \in DOMAIN s /\ s[i + 1] = Data[k] /\ s[j + 1] = Data[l]
    BY <1>2
  <2> QED
    BY <1>2, <2>1 DEF Carries
<1>5. \A x : x \in Range(s) <=> x = Head(s) \/ x \in Range(t)
  <2>1. \A x : x \in Range(s) <=> \E j \in 1..Len(s) : s[j] = x
    BY <1>2 DEF Range
  <2>2. 1..Len(s) = {1} \cup 2..Len(s)
    BY <1>2
  <2> QED
    BY <1>2, <1>3, <2>1, <2>2
<1>6. ASSUME Head(s) \in Marks PROVE Carries(t, a, b)
  <2>1. \A k \in 1..Len(Data) : Data[k] \in Range(t) <=> Data[k] \in Range(s)
    BY <1>1, <1>5, <1>6
  <2> QED
    BY <1>4, <2>1 DEF Carries
<1>7. ASSUME Head(s) \in Range(Data)
      PROVE  a < b /\ Head(s) = Data[a + 1] /\ Carries(t, a + 1, b)
  <2>1. PICK h \in 1..Len(Data) : Head(s) = Data[h]
    BY <1>1, <1>7
  <2>2. a < h /\ h <= b
    BY <1>5, <2>1 DEF Carries
  <2>3. \A l \in 1..Len(Data) : Data[l] \in Range(t) => h < l
    <3> SUFFICES ASSUME NEW l \in 1..Len(Data), Data[l] \in Range(t) PROVE h < l
      OBVIOUS
    <3>1. PICK j \in 2..Len(s) : s[j] = Data[l]
      BY <1>3
    <3>2. 1 \in DOMAIN s /\ j \in DOMAIN s /\ 1 < j /\ s[1] = Data[h]
      BY <1>2, <2>1
    <3> QED
      BY <3>1, <3>2 DEF Carries
  <2>4. h = a + 1
    <3> SUFFICES ASSUME h # a + 1 PROVE FALSE
      OBVIOUS
    <3>1. a + 1 \in 1..Len(Data) /\ a + 1 < h
      BY <1>1, <2>2
    <3>2. Data[a + 1] \in Range(s)
      BY <2>2, <3>1 DEF Carries
    <3>3. Data[a + 1] # Head(s)
      BY <2>1, <3>1, DataAssumption DEF DataAssumption
    <3> QED
      BY <1>5, <2>3, <3>1, <3>2, <3>3
  <2>5. \A k \in 1..Len(Data) : Data[k] \in Range(t) <=> a + 1 < k /\ k <= b
    <3> SUFFICES ASSUME NEW k \in 1..Len(Data)
                 PROVE  Data[k] \in Range(t) <=> a + 1 < k /\ k <= b
      OBVIOUS
    <3>1. Data[k] = Head(s) <=> k = h
      BY <2>1, DataAssumption DEF DataAssumption
    <3>2. Data[k] \in Range(s) <=> a < k /\ k <= b
      BY DEF Carries
    <3> QED
      BY <1>1, <1>5, <2>3, <2>4, <3>1, <3>2
  <2> QED
    BY <1>4, <2>1, <2>2, <2>4, <2>5 DEF Carries
<1> QED
  BY <1>6, <1>7 DEF t

\* What the handler and the peers do to the data on its way keeps it whole.
LEMMA FlowSteps ==
    ASSUME NEW g \in Seq(Tokens), NEW r \in Seq(Tokens), NEW b \in 0..Len(Data), Flows(g, r, b)
    PROVE  /\ \A m \in Marks : Flows(Append(g, m), r, b) /\ Flows(g, Append(r, m), b)
           /\ b < Len(Data) => Flows(g, Append(r, Data[b + 1]), b + 1)
           /\ r # <<>> => Flows(Append(g, Head(r)), Tail(r), b)
           /\ r # <<>> /\ Head(r) \in Marks => Flows(g, Tail(r), b)
<1>1. PICK n \in 0..b : Carries(g, 0, n) /\ Carries(r, n, b)
  BY DEF Flows
<1>2. Len(Data) \in Nat /\ n \in 0..Len(Data) /\ b \in n..Len(Data) /\ 0 \in 0..Len(Data)
  BY DataAssumption DEF DataAssumption
<1>3. /\ \A m \in Marks : Carries(Append(g, m), 0, n) /\ Carries(Append(r, m), n, b)
      /\ b < Len(Data) => Carries(Append(r, Data[b + 1]), n, b + 1)
      /\ n < Len(Data) => Carries(Append(g, Data[n + 1]), 0, n + 1)
  BY <1>1, <1>2, CarriesAppend
<1>4. ASSUME r # <<>>
      PROVE  /\ Head(r) \in Marks => Carries(Tail(r), n, b)
             /\ Head(r) \in Range(Data) =>
                   n < b /\ Head(r) = Data[n + 1] /\ Carries(Tail(r), n + 1, b)
  BY <1>1, <1>2, <1>4, CarriesTail
<1>5. \A m \in Marks : Flows(Append(g, m), r, b) /\ Flows(g, Append(r, m), b)
  BY <1>1, <1>3 DEF Flows
<1>6. b < Len(Data) => Flows(g, Append(r, Data[b + 1]), b + 1)
  <2>1. n \in 0..b + 1
    BY <1>2
  <2> QED
    BY <1>1, <1>3, <2>1 DEF Flows
<1>7. ASSUME r # <<>> PROVE Flows(Append(g, Head(r)), Tail(r), b)
  <2>1. Head(r) \in Tokens
    BY <1>7
  <2>2. CASE Head(r) \in Marks
    BY <1>3, <1>4, <1>7, <2>2 DEF Flows
  <2>3. CASE Head(r) \in Range(Data)
    <3>1. n < b /\ Head(r) = Data[n + 1] /\ Carries(Tail(r), n + 1, b)
      BY <1>4, <1>7, <2>3
    <3>2. n + 1 \in 0..b /\ n < Len(Data)
      BY <1>2, <3>1
    <3> QED
      BY <1>3, <3>1, <3>2 DEF Flows
  <2> QED
    BY <2>1, <2>2, <2>3 DEF Tokens
<1>8. r # <<>> /\ Head(r) \in Marks => Flows(g, Tail(r), b)
  BY <1>1, <1>4 DEF Flows
<1> QED
  BY <1>5, <1>6, <1>7, <1>8

\* The two peers, and the two streams of each.
LEMMA Wiring ==
    /\ FromPeer["client"] = "c2p" /\ FromPeer["server"] = "s2p"
    /\ ToPeer["client"] = "p2c" /\ ToPeer["server"] = "p2s"
    /\ Other["client"] = "server" /\ Other["server"] = "client"
  BY DEF FromPeer, ToPeer, Other

\* What the handler and the peers do to the streams: a peer is given a token
\* of a protocol or the next of the other's, adds one to its own, or has its
\* request or answer read.
LEMMA StreamSteps ==
    ASSUME TypeOK, NEW n \in [Streams -> Seq(Tokens)], \A p \in Peers : Whole(n, p), NEW x \in Peers
    PROVE  /\ \A m \in Marks \ {"fin"} :
                 ~Ended(x) => \A p \in Peers : Whole(Append1(n, ToPeer[x], m), p)
           /\ \A m \in Marks, p \in Peers : Whole(Append1(n, FromPeer[x], m), p)
           /\ n[FromPeer[x]] # <<>> /\ Head(n[FromPeer[x]]) \in Marks =>
                 \A p \in Peers : Whole([n EXCEPT ![FromPeer[x]] = Tail(@)], p)
           /\ n[FromPeer[x]] # <<>> /\ Head(n[FromPeer[x]]) # "fin" /\ ~Ended(Other[x]) =>
                 \A p \in Peers : Whole(Append1([n EXCEPT ![FromPeer[x]] = Tail(@)],
                                                ToPeer[Other[x]], Head(n[FromPeer[x]])), p)
<1>w. /\ \A p \in Peers : ToPeer[p] \in Streams /\ FromPeer[p] \in Streams
                           /\ Other[p] \in Peers /\ Other[Other[p]] = p /\ Other[p] # p
      /\ \A p, q \in Peers : /\ FromPeer[p] # ToPeer[q]
                             /\ p # q => FromPeer[p] # FromPeer[q] /\ ToPeer[p] # ToPeer[q]
  BY Wiring DEF Peers, Streams
<1>t. \A p \in Peers : /\ GivenIn(n, p) \in Seq(Tokens) /\ n[FromPeer[p]] \in Seq(Tokens)
                       /\ sent[p] \in 0..Len(Data)
  BY <1>w DEF TypeOK, GivenIn
<1>f. ASSUME NEW p \in Peers, ~Ended(p), NEW m \in Tokens \ {"fin"}
      PROVE  LET g == Append(GivenIn(n, p), m) IN FinLast(g) /\ "fin" \notin Range(g)
  BY <1>f, <1>t DEF FinLast, Range, Whole
\* What is put into a stream to x is given to x, and to nobody else.
<1>a. ASSUME NEW k \in [Streams -> Seq(Tokens)], NEW y \in Peers, NEW m \in Tokens, NEW p \in Peers
      PROVE  /\ GivenIn(Append1(k, ToPeer[y], m), p)
                   = IF p = y THEN Append(GivenIn(k, p), m) ELSE GivenIn(k, p)
             /\ Append1(k, ToPeer[y], m)[FromPeer[p]] = k[FromPeer[p]]
  <2>1. got[p] \in Seq(Tokens) /\ k[ToPeer[p]] \in Seq(Tokens)
    BY <1>w DEF TypeOK
  <2>2. got[p] \o Append(k[ToPeer[p]], m) = Append(got[p] \o k[ToPeer[p]], m)
    BY <2>1, Concat
  <2> QED
    BY <1>w, <2>2 DEF GivenIn, Append1
<1>1. ASSUME NEW m \in Marks \ {"fin"}, ~Ended(x), NEW p \in Peers
      PROVE  Whole(Append1(n, ToPeer[x], m), p)
  <2>1. m \in Tokens
    BY DEF Tokens
  <2>2. CASE p = x
    <3>1. /\ GivenIn(Append1(n, ToPeer[x], m), p) = Append(GivenIn(n, p), m)
          /\ Append1(n, ToPeer[x], m)[FromPeer[Other[p]]] = n[FromPeer[Other[p]]]
      <4>1. Other[p] \in Peers
        BY <1>w
      <4>2. GivenIn(Append1(n, ToPeer[x], m), p) = Append(GivenIn(n, p), m)
        BY <1>a, <2>1, <2>2
      <4>3. Append1(n, ToPeer[x], m)[FromPeer[Other[p]]] = n[FromPeer[Other[p]]]
        BY <1>a, <2>1, <4>1
      <4> QED
        BY <4>2, <4>3
    <3>2. Flows(GivenIn(n, p), n[FromPeer[Other[p]]], sent[Other[p]]) =>
             Flows(Append(GivenIn(n, p), m), n[FromPeer[Other[p]]], sent[Other[p]])
      BY <1>t, <1>w, FlowSteps
    <3>3. FinLast(Append(GivenIn(n, p), m)) /\ "fin" \notin Range(Append(GivenIn(n, p), m))
      BY <1>1, <1>f, <2>1, <2>2
    <3> QED
      BY <3>1, <3>2, <3>3 DEF Whole
  <2>3. CASE p # x
    BY <1>a, <1>w, <2>1, <2>3 DEF Whole
  <2> QED
    BY <2>2, <2>3
<1>2. ASSUME NEW m \in Marks, NEW p \in Peers PROVE Whole(Append1(n, FromPeer[x], m), p)
  <2>1. GivenIn(Append1(n, FromPeer[x], m), p) = GivenIn(n, p)
    BY <1>w DEF GivenIn, Append1
  <2>2. Append1(n, FromPeer[x], m)[FromPeer[Other[p]]]
           = IF Other[p] = x THEN Append(n[FromPeer[Other[p]]], m) ELSE n[FromPeer[Other[p]]]
    BY <1>w DEF Append1
  <2> QED
    BY <1>t, <1>w, <2>1, <2>2, FlowSteps DEF Whole
<1> DEFINE k == [n EXCEPT ![FromPeer[x]] = Tail(@)]
           h == Head(n[FromPeer[x]])
<1>k. \A p \in Peers :
         /\ GivenIn(k, p) = GivenIn(n, p)
         /\ k[FromPeer[p]] = IF p = x THEN Tail(n[FromPeer[p]]) ELSE n[FromPeer[p]]
  BY <1>w DEF GivenIn
<1>h. ASSUME n[FromPeer[x]] # <<>>
      PROVE  k \in [Streams -> Seq(Tokens)] /\ h \in Tokens /\ Tail(n[FromPeer[x]]) \in Seq(Tokens)
  BY <1>h, <1>w
<1>s. ASSUME NEW p \in Peers, p # x PROVE p = Other[x] /\ Other[p] = x
  BY <1>s, Wiring DEF Peers
<1> HIDE DEF k, h
<1>3. ASSUME n[FromPeer[x]] # <<>>, h \in Marks, NEW p \in Peers PROVE Whole(k, p)
  <2>1. CASE p = x
    BY <1>k, <1>w, <2>1 DEF Whole
  <2>2. CASE p # x
    <3>1. p = Other[x] /\ Other[p] = x
      BY <1>s, <2>2
    <3>2. Flows(GivenIn(n, p), n[FromPeer[x]], sent[x]) =>
             Flows(GivenIn(n, p), Tail(n[FromPeer[x]]), sent[x])
      BY <1>3, <1>t, FlowSteps DEF h
    <3> QED
      BY <1>k, <3>1, <3>2 DEF Whole
  <2> QED
    BY <2>1, <2>2
<1>4. ASSUME n[FromPeer[x]] # <<>>, h # "fin", ~Ended(Other[x]), NEW p \in Peers
      PROVE  Whole(Append1(k, ToPeer[Other[x]], h), p)
  <2>0. /\ GivenIn(Append1(k, ToPeer[Other[x]], h), p)
              = IF p = Other[x] THEN Append(GivenIn(n, p), h) ELSE GivenIn(n, p)
        /\ \A q \in Peers : Append1(k, ToPeer[Other[x]], h)[FromPeer[q]] = k[FromPeer[q]]
    BY <1>4, <1>a, <1>h, <1>k, <1>w
  <2>1. CASE p = x
    BY <1>k, <1>w, <2>0, <2>1 DEF Whole
  <2>2. CASE p # x
    <3>1. p = Other[x] /\ Other[p] = x
      BY <1>s, <2>2
    <3>2. Flows(GivenIn(n, p), n[FromPeer[x]], sent[x]) =>
             Flows(Append(GivenIn(n, p), h), Tail(n[FromPeer[x]]), sent[x])
      BY <1>4, <1>t, FlowSteps DEF h
    <3>3. FinLast(Append(GivenIn(n, p), h)) /\ "fin" \notin Range(Append(GivenIn(n, p), h))
      BY <1>4, <1>f, <1>h, <1>t, <3>1
    <3> QED
      BY <1>k, <2>0, <3>1, <3>2, <3>3 DEF Whole
  <2> QED
    BY <2>1, <2>2
<1> QED
  BY <1>1, <1>2, <1>3, <1>4 DEF k, h

\* A step that leaves a peer's streams as n has them, or ends what it is given.
LEMMA Settled ==
    ASSUME TypeOK, NEW n \in [Streams -> Seq(Tokens)], NEW p \in Peers, Whole(n, p),
           UNCHANGED <<via, sent, got>>, lost # {} => lost' # {}, Ended(p) => Ended(p)',
           net'[FromPeer[Other[p]]] = n[FromPeer[Other[p]]],
           \/ net'[ToPeer[p]] = n[ToPeer[p]]
           \/ /\ "fin" \notin Range(GivenIn(n, p)) /\ Ended(p)'
              /\ net'[ToPeer[p]] = Append(n[ToPeer[p]], "fin")
    PROVE  Whole(net, p)'
<1> DEFINE g == GivenIn(n, p)
           r == n[FromPeer[Other[p]]]
<1>1. Other[p] \in Peers /\ ToPeer[p] \in Streams /\ FromPeer[Other[p]] \in Streams
  BY Wiring DEF Peers, Streams
<1>2. g \in Seq(Tokens) /\ r \in Seq(Tokens) /\ sent[Other[p]] \in 0..Len(Data)
  BY <1>1 DEF TypeOK, GivenIn
<1>3. \/ GivenIn(net, p)' = g
      \/ "fin" \notin Range(g) /\ Ended(p)' /\ GivenIn(net, p)' = Append(g, "fin")
  <2>1. "fin" \in Tokens /\ got[p] \in Seq(Tokens) /\ n[ToPeer[p]] \in Seq(Tokens)
    BY <1>1 DEF TypeOK, Tokens, Marks
  <2>2. got[p] \o Append(n[ToPeer[p]], "fin") = Append(g, "fin")
    BY <2>1, Concat DEF GivenIn
  <2> QED
    BY <2>2 DEF GivenIn
<1>4. "fin" \notin Range(g) => FinLast(Append(g, "fin"))
  BY <1>2 DEF FinLast, Range
<1>5. Flows(g, r, sent[Other[p]]) => Flows(Append(g, "fin"), r, sent[Other[p]])
  BY <1>2, FlowSteps DEF Marks
<1> QED
  BY <1>3, <1>4, <1>5 DEF Whole

-----------------------------------------------------------------------------
\* No step of a peer, of the handler or of its copies leaves the types.
LEMMA NextTypeOK == TypeOK /\ [Next]_vars => TypeOK'
<1> SUFFICES ASSUME TypeOK, [Next]_vars PROVE TypeOK'
  OBVIOUS
<1> USE DEF TypeOK, env, setup
<1>w. /\ \A p \in Peers : ToPeer[p] \in Streams /\ FromPeer[p] \in Streams /\ Other[p] \in Peers
                           /\ FromPeer[p] # ToPeer[Other[p]]
      /\ "client" \in Peers /\ "server" \in Peers
      /\ "c2p" \in Streams /\ "p2c" \in Streams /\ "p2s" \in Streams /\ "s2p" \in Streams
  BY Wiring DEF Peers, Streams
<1>1. Marks \subseteq Tokens /\ Range(Data) \subseteq Tokens /\ Len(Data) \in Nat
      /\ \A k \in 1..Len(Data) : Data[k] \in Range(Data)
  BY DataAssumption DEF DataAssumption, Tokens, Range
<1>2. \A n \in [Streams -> Seq(Tokens)], t \in Streams, m \in Tokens :
         Append1(n, t, m) \in [Streams -> Seq(Tokens)]
  BY DEF Append1
<1>3. \A n \in [Streams -> Seq(Tokens)], t \in Streams : n[t] # <<>> =>
         Head(n[t]) \in Tokens /\ [n EXCEPT ![t] = Tail(@)] \in [Streams -> Seq(Tokens)]
  OBVIOUS
<1>4. ASSUME NEW n \in [Streams -> Seq(Tokens)], CloseAll(n),
             UNCHANGED <<kind, via, cached, peer, sent, got>>,
             copying' \subseteq Peers, lost' \subseteq Range(Data)
      PROVE  TypeOK'
  BY <1>1, <1>4 DEF CloseAll, Marks
<1>5. ASSUME NEW m \in {"req", "bad"}, ClientAsks(m) PROVE TypeOK'
  BY <1>1, <1>2, <1>5, <1>w DEF ClientAsks, Marks
<1>6. ASSUME NEW m \in {"ok", "no"}, ServerAnswers(m) PROVE TypeOK'
  BY <1>1, <1>2, <1>6, <1>w DEF ServerAnswers, Marks
<1>7. ASSUME NEW p \in Peers, Send(p) PROVE TypeOK'
  <2>1. sent[p] + 1 \in 1..Len(Data)
    BY <1>1, <1>7 DEF Send
  <2>2. net' \in [Streams -> Seq(Tokens)]
    BY <1>1, <1>2, <1>7, <1>w, <2>1 DEF Send
  <2> QED
    BY <1>1, <1>7, <2>1, <2>2 DEF Send
<1>8. ASSUME NEW p \in Peers, NEW how \in {"half", "gone"}, Leave(p, how) PROVE TypeOK'
  <2>1. net' \in [Streams -> Seq(Tokens)]
    BY <1>1, <1>2, <1>8, <1>w DEF Leave, Marks
  <2> QED
    BY <1>8, <2>1 DEF Leave
<1>9. ASSUME NEW p \in Peers, Receive(p) PROVE TypeOK'
  <2>1. Head(net[ToPeer[p]]) \in Tokens /\ net' \in [Streams -> Seq(Tokens)]
    BY <1>3, <1>9, <1>w DEF Receive
  <2> QED
    BY <1>9, <2>1 DEF Receive
<1>10. CASE Read
  <2> DEFINE n == [net EXCEPT !["c2p"] = Tail(@)]
  <2>1. /\ n \in [Streams -> Seq(Tokens)]
        /\ Append1(n, "p2c", "no") \in [Streams -> Seq(Tokens)]
    BY <1>1, <1>2, <1>3, <1>10, <1>w DEF Read, Marks
  <2>2. \/ CloseAll(net) \/ CloseAll(n) \/ CloseAll(Append1(n, "p2c", "no"))
        \/ net' = n /\ pc' = "dial" /\ UNCHANGED conn
    BY <1>10 DEF Read, RejectHTTP, RejectSocks5
  <2>3. UNCHANGED <<kind, via, cached, peer, sent, got, copying, lost>>
    BY <1>10 DEF Read
  <2> HIDE DEF n
  <2> QED
    BY <1>4, <2>1, <2>2, <2>3
<1>11. CASE Resolve \/ DialOK
  <2>1. Append1(net, "p2s", "hello") \in [Streams -> Seq(Tokens)]
    BY <1>1, <1>2, <1>w DEF Marks
  <2> QED
    BY <1>11, <2>1, <1>w DEF Resolve, DialOK
<1>r. ASSUME Refuse("no"), UNCHANGED <<kind, via, cached, peer, sent, got, copying, lost>>
      PROVE  TypeOK'
  <2>1. Append1(net, "p2c", "no") \in [Streams -> Seq(Tokens)]
    BY <1>1, <1>2, <1>w DEF Marks
  <2> QED
    BY <1>4, <1>r, <2>1 DEF Refuse
<1>12. CASE DialFails
  BY <1>r, <1>12 DEF DialFails
<1>13. CASE Shake
  <2> DEFINE rest == Tail(net["s2p"])
  <2>1. CASE Refuse("no") /\ UNCHANGED lost
    BY <1>r, <1>13, <2>1 DEF Shake
  <2>2. ASSUME NEW u \in Unread(rest), net' = [net EXCEPT !["s2p"] = u],
               lost' = DataIn(rest) \ DataIn(u), pc' = "reply", UNCHANGED conn
        PROVE  TypeOK'
    <3>1. rest \in Seq(Tokens)
      BY <1>13, <1>w DEF Shake
    <3>2. u \in Seq(Tokens)
      <4>1. PICK i \in 1..Len(rest) + 1 : u = SubSeq(rest, i, Len(rest))
        BY <2>2 DEF Unread
      <4> HIDE DEF rest
      <4> QED
        BY <3>1, <4>1
    <3>3. net' \in [Streams -> Seq(Tokens)]
      BY <2>2, <3>2
    <3>4. lost' \subseteq Range(Data)
      BY <2>2 DEF DataIn
    <3> QED
      BY <1>13, <2>2, <3>3, <3>4 DEF Shake
  <2> QED
    BY <1>13, <2>1, <2>2 DEF Shake
<1>14. CASE Reply
  <2>1. Append1(net, "p2c", "ok") \in [Streams -> Seq(Tokens)]
    BY <1>1, <1>2, <1>w DEF Marks
  <2>2. CASE CloseAll(net) /\ UNCHANGED copying
    BY <1>4, <1>14, <2>2 DEF Reply
  <2>3. CASE ~(CloseAll(net) /\ UNCHANGED copying)
    BY <1>14, <2>1, <2>3 DEF Reply
  <2> QED
    BY <2>2, <2>3
<1>15. CASE ForwardRequest
  <2>1. Append1(net, "p2s", "req") \in [Streams -> Seq(Tokens)]
    BY <1>1, <1>2, <1>w DEF Marks
  <2>2. CASE CloseAll(net)
    BY <1>4, <1>15, <2>2 DEF ForwardRequest
  <2>3. CASE ~CloseAll(net)
    BY <1>15, <2>1, <2>3 DEF ForwardRequest
  <2> QED
    BY <2>2, <2>3
<1>m. ASSUME NEW p \in Peers, Waiting(p) PROVE Moved(p) \in [Streams -> Seq(Tokens)]
  <2> DEFINE m == Head(net[FromPeer[p]])
             n == [net EXCEPT ![FromPeer[p]] = Tail(@)]
  <2>1. m \in Tokens /\ n \in [Streams -> Seq(Tokens)]
    BY <1>3, <1>m, <1>w DEF Waiting
  <2>2. Moved(p) = Append1(n, ToPeer[Other[p]], m)
    BY <1>w DEF Moved, Append1
  <2>3. ToPeer[Other[p]] \in Streams
    BY <1>w
  <2> HIDE DEF m, n
  <2>4. Append1(n, ToPeer[Other[p]], m) \in [Streams -> Seq(Tokens)]
    BY <1>2, <2>1, <2>3
  <2> QED
    BY <2>2, <2>4
\* What is forwarded of a plain request, and of its response.
<1>f. ASSUME NEW p \in Peers, UNCHANGED <<kind, via, cached, peer, sent, got, copying, lost>>,
             \/ CloseAll(net)
             \/ Waiting(p) /\ CloseAll(Moved(p))
             \/ Waiting(p) /\ net' = Moved(p) /\ UNCHANGED <<pc, conn>>
      PROVE  TypeOK'
  <2>1. CASE CloseAll(net)
    BY <1>4, <1>f, <2>1
  <2>2. CASE Waiting(p) /\ CloseAll(Moved(p))
    BY <1>4, <1>f, <1>m, <2>2
  <2>3. CASE Waiting(p) /\ net' = Moved(p) /\ UNCHANGED <<pc, conn>>
    BY <1>f, <1>m, <2>3
  <2> QED
    BY <1>f, <2>1, <2>2, <2>3
<1>b. CASE ForwardBody
  BY <1>b, <1>f, <1>w DEF ForwardBody
<1>e. CASE ForwardBodyEnd
  BY <1>e DEF ForwardBodyEnd
<1>16. CASE ForwardResponse
  BY <1>16, <1>f, <1>w DEF ForwardResponse
<1>17. CASE Finish
  BY <1>4, <1>17 DEF Finish
<1>18. ASSUME NEW p \in Peers, CopyData(p) PROVE TypeOK'
  BY <1>18, <1>m DEF CopyData
<1>19. ASSUME NEW p \in Peers, CopyEnd(p) PROVE TypeOK'
  BY <1>1, <1>2, <1>19, <1>w DEF CopyEnd, CopyEnded, Marks
<1>20. CASE UNCHANGED vars
  BY <1>20 DEF vars
<1> QED
  BY <1>5, <1>6, <1>7, <1>8, <1>9, <1>10, <1>11, <1>12, <1>13, <1>14, <1>15, <1>16,
     <1>17, <1>18, <1>19, <1>20, <1>b, <1>e
  DEF Next, Handle

-----------------------------------------------------------------------------
\* Whatever the peers and the handler do, the data is where Whole says it is.
THEOREM Invariance == Spec => []IInv
<1>e. IInv <=> TypeOK /\ Stages /\ \A p \in Peers : Whole(net, p)
  BY DEF IInv, Ends, InOrder, Whole, Flows, FinLast, GivenIn, Given
<1>f. IInv' <=> TypeOK' /\ Stages' /\ \A p \in Peers : Whole(net, p)'
  BY DEF IInv, Ends, InOrder, Whole, Flows, FinLast, GivenIn, Given
<1>w. /\ \A p \in Peers : ToPeer[p] \in Streams /\ FromPeer[p] \in Streams
                           /\ Other[p] \in Peers /\ Other[Other[p]] = p /\ Other[p] # p
      /\ \A p, q \in Peers : /\ FromPeer[p] # ToPeer[q]
                             /\ p # q => FromPeer[p] # FromPeer[q] /\ ToPeer[p] # ToPeer[q]
      /\ "client" \in Peers /\ "server" \in Peers
  BY Wiring DEF Peers, Streams
<1>1. Init => IInv
  <2> SUFFICES ASSUME Init PROVE IInv
    OBVIOUS
  <2>1. TypeOK
    <3>1. 0 \in 0..Len(Data)
      BY DataAssumption DEF DataAssumption
    <3> QED
      BY <3>1 DEF Init, TypeOK, Peers, Tokens
  <2>2. Stages
    BY DEF Init, Stages
  <2>3. ASSUME NEW p \in Peers PROVE Whole(net, p)
    <3>1. /\ sent[Other[p]] = 0 /\ net[FromPeer[Other[p]]] = <<>>
          /\ got[p] = <<>> /\ net[ToPeer[p]] = <<>>
      BY <1>w DEF Init
    <3>2. GivenIn(net, p) = <<>>
      BY <3>1 DEF GivenIn
    <3>3. Range(<<>>) = {}
      BY DEF Range
    <3>4. Carries(<<>>, 0, 0)
      BY <3>3, DataAssumption DEF Carries, DataAssumption
    <3> QED
      BY <3>1, <3>2, <3>3, <3>4 DEF Whole, Flows, FinLast
  <2> QED
    BY <1>e, <2>1, <2>2, <2>3
<1>2. IInv /\ [Next]_vars => IInv'
  <2> SUFFICES ASSUME IInv, [Next]_vars PROVE IInv'
    OBVIOUS
  <2>i. TypeOK /\ Stages /\ \A p \in Peers : Whole(net, p)
    BY <1>e
  <2>t. TypeOK'
    BY <2>i, NextTypeOK
  <2>n. net \in [Streams -> Seq(Tokens)]
    BY <2>i DEF TypeOK
  \* The steps that leave the streams as they are, or as StreamSteps has them.
  <2>s. ASSUME NEW k \in [Streams -> Seq(Tokens)], \A p \in Peers : Whole(k, p), net' = k,
               UNCHANGED <<via, sent, got, lost>>, Stages', \A p \in Peers : Ended(p) => Ended(p)'
        PROVE  IInv'
    <3>1. ASSUME NEW p \in Peers PROVE Whole(net, p)'
      BY <2>i, <2>s, Settled
    <3> QED
      BY <1>f, <2>s, <2>t, <3>1
  <2>c. ASSUME NEW k \in [Streams -> Seq(Tokens)], \A p \in Peers : Whole(k, p), CloseAll(k),
               UNCHANGED <<via, sent, got, lost, copying>>, copying = {}
        PROVE  IInv'
    <3>1. pc' = "done" /\ \A p \in Peers : Ended(p)'
      BY <2>c DEF CloseAll, Ended
    <3>2. ASSUME NEW p \in Peers PROVE Whole(net, p)'
      <4>1. net'[FromPeer[Other[p]]] = k[FromPeer[Other[p]]]
        BY <1>w, <2>c DEF CloseAll
      <4>2. \/ net'[ToPeer[p]] = k[ToPeer[p]]
            \/ /\ "fin" \notin Range(GivenIn(k, p)) /\ Ended(p)'
               /\ net'[ToPeer[p]] = Append(k[ToPeer[p]], "fin")
        BY <1>w, <2>c, <3>1 DEF CloseAll, GivenIn
      <4> QED
        BY <2>c, <2>i, <3>1, <4>1, <4>2, Settled
    <3> QED
      BY <1>f, <2>c, <2>t, <3>1, <3>2 DEF Stages
  <2>r. ASSUME pc # "relay" PROVE copying = {} /\ (pc # "done" => \A p \in Peers : ~Ended(p))
    BY <2>i, <2>r DEF Stages, Ended
  <2>m. /\ Marks \subseteq Tokens
        /\ \A m \in Tokens, k \in [Streams -> Seq(Tokens)], t \in Streams :
              Append1(k, t, m) \in [Streams -> Seq(Tokens)]
    BY DEF Append1, Tokens
  <2>1. ASSUME NEW m \in {"req", "bad"}, ClientAsks(m) PROVE IInv'
    <3>1. m \in Marks /\ FromPeer["client"] = "c2p"
      BY Wiring DEF Marks
    <3>2. \A p \in Peers : Whole(Append1(net, FromPeer["client"], m), p)
      BY <1>w, <2>i, <2>n, <3>1, StreamSteps
    <3>3. Stages' /\ \A p \in Peers : Ended(p) => Ended(p)'
      BY <2>1, <2>i DEF ClientAsks, Stages, Ended
    <3> QED
      BY <1>w, <2>1, <2>m, <2>n, <2>s, <3>1, <3>2, <3>3 DEF ClientAsks
  <2>2. ASSUME NEW m \in {"ok", "no"}, ServerAnswers(m) PROVE IInv'
    <3>1. m \in Marks /\ FromPeer["server"] = "s2p"
      BY Wiring DEF Marks
    <3>2. \A p \in Peers : Whole(Append1(net, FromPeer["server"], m), p)
      BY <1>w, <2>i, <2>n, <3>1, StreamSteps
    <3>3. Stages' /\ \A p \in Peers : Ended(p) => Ended(p)'
      BY <2>2, <2>i DEF ServerAnswers, Stages, Ended
    <3> QED
      BY <1>w, <2>2, <2>m, <2>n, <2>s, <3>1, <3>2, <3>3 DEF ServerAnswers
  <2>3. ASSUME NEW x \in Peers, Send(x) PROVE IInv'
    <3>1. ASSUME NEW p \in Peers PROVE Whole(net, p)'
      <4>1. /\ GivenIn(net, p)' = GivenIn(net, p) /\ (Ended(p)' <=> Ended(p))
            /\ UNCHANGED <<via, lost>> /\ Other[p] \in Peers
            /\ FromPeer[x] \in Streams /\ FromPeer[Other[p]] \in Streams
        BY <1>w, <2>3, <2>n DEF Send, GivenIn, Append1, Ended
      <4>2. CASE Other[p] # x
        <5>1. net'[FromPeer[Other[p]]] = net[FromPeer[Other[p]]] /\ sent'[Other[p]] = sent[Other[p]]
          BY <1>w, <2>3, <2>i, <2>n, <4>1, <4>2 DEF Send, Append1, TypeOK
        <5> QED
          BY <2>i, <4>1, <5>1 DEF Whole
      <4>3. CASE Other[p] = x
        <5>1. /\ net'[FromPeer[x]] = Append(net[FromPeer[x]], Data[sent[x] + 1])
              /\ sent'[x] = sent[x] + 1 /\ sent[x] < Len(Data) /\ sent[x] \in 0..Len(Data)
          BY <1>w, <2>3, <2>i, <2>n DEF Send, Append1, TypeOK
        <5>2. GivenIn(net, p) \in Seq(Tokens) /\ net[FromPeer[x]] \in Seq(Tokens)
          BY <1>w, <2>i DEF TypeOK, GivenIn
        <5>3. Flows(GivenIn(net, p), net[FromPeer[x]], sent[x]) =>
                 Flows(GivenIn(net, p), net'[FromPeer[x]], sent'[x])
          BY <5>1, <5>2, FlowSteps
        <5> QED
          BY <2>i, <4>1, <4>3, <5>3 DEF Whole
      <4> QED
        BY <4>2, <4>3
    <3>2. Stages'
      BY <2>3, <2>i DEF Send, Stages
    <3> QED
      BY <1>f, <2>t, <3>1, <3>2
  <2>4. ASSUME NEW x \in Peers, NEW how \in {"half", "gone"}, Leave(x, how) PROVE IInv'
    <3>1. \A p \in Peers : Whole(Append1(net, FromPeer[x], "fin"), p)
      BY <2>i, <2>n, StreamSteps DEF Marks
    <3>2. Append1(net, FromPeer[x], "fin") \in [Streams -> Seq(Tokens)]
      BY <1>w, <2>m, <2>n DEF Marks
    <3>3. Stages' /\ \A p \in Peers : Ended(p) => Ended(p)'
      BY <2>4, <2>i DEF Leave, Stages, Ended
    <3>4. /\ net' = net \/ net' = Append1(net, FromPeer[x], "fin")
          /\ UNCHANGED <<via, sent, got, lost>>
      BY <2>4 DEF Leave
    <3> QED
      BY <2>i, <2>n, <2>s, <3>1, <3>2, <3>3, <3>4
  <2>5. ASSUME NEW x \in Peers, Receive(x) PROVE IInv'
    <3>1. ASSUME NEW p \in Peers PROVE Whole(net, p)'
      <4>1. /\ (Ended(p)' <=> Ended(p)) /\ UNCHANGED <<via, sent, lost>>
            /\ net'[FromPeer[Other[p]]] = net[FromPeer[Other[p]]]
        BY <1>w, <2>5, <2>n DEF Receive, Ended
      <4>2. GivenIn(net, p)' = GivenIn(net, p)
        <5>1. CASE p # x
          BY <1>w, <2>5, <2>i, <2>n, <5>1 DEF Receive, GivenIn, TypeOK
        <5>2. CASE p = x
          <6> DEFINE q == net[ToPeer[x]]
          <6>1. q \in Seq(Tokens) /\ got[x] \in Seq(Tokens) /\ q # <<>>
            BY <1>w, <2>5, <2>i, <2>n DEF Receive, TypeOK
          <6>2. got'[x] = Append(got[x], Head(q)) /\ net'[ToPeer[x]] = Tail(q)
            BY <1>w, <2>5, <2>i, <2>n DEF Receive, TypeOK
          <6>3. Append(got[x], Head(q)) \o Tail(q) = got[x] \o q
            <7>1. Head(q) \in Tokens
              BY <6>1
            <7> HIDE DEF q
            <7> QED
              BY <6>1, <7>1, Concat
          <6> QED
            BY <5>2, <6>2, <6>3 DEF GivenIn
        <5> QED
          BY <5>1, <5>2
      <4> QED
        BY <2>i, <4>1, <4>2 DEF Whole
    <3>2. Stages'
      BY <2>5, <2>i DEF Receive, Stages
    <3> QED
      BY <1>f, <2>t, <3>1, <3>2
  \* What the handler adds while nobody has been given an end.
  <2>a. ASSUME pc \notin {"relay", "done"}, NEW k \in [Streams -> Seq(Tokens)],
               \A p \in Peers : Whole(k, p), NEW m \in Marks \ {"fin"}, NEW x \in Peers
        PROVE  /\ Append1(k, ToPeer[x], m) \in [Streams -> Seq(Tokens)]
               /\ \A p \in Peers : Whole(Append1(k, ToPeer[x], m), p)
    BY <1>w, <2>a, <2>i, <2>m, <2>r, StreamSteps
  <2>6. CASE Read
    <3> DEFINE n == [net EXCEPT ![FromPeer["client"]] = Tail(@)]
               m == Head(net["c2p"])
    <3>1. /\ pc = "read" /\ net[FromPeer["client"]] # <<>> /\ copying = {}
          /\ UNCHANGED <<via, sent, got, lost, copying>>
      BY <2>6, <2>r, Wiring DEF Read, setup, env
    <3>2. \/ m = "fin" /\ CloseAll(net)
          \/ m = "bad" /\ (CloseAll(n) \/ CloseAll(Append1(n, ToPeer["client"], "no")))
          \/ m = "req" /\ net' = n /\ pc' = "dial"
      BY <2>6, Wiring DEF Read, RejectHTTP, RejectSocks5
    <3>3. CASE m = "fin" /\ CloseAll(net)
      BY <2>c, <2>i, <2>n, <3>1, <3>3
    <3>4. ASSUME m \in {"bad", "req"}
          PROVE  /\ n \in [Streams -> Seq(Tokens)] /\ \A p \in Peers : Whole(n, p)
      <4>1. n \in [Streams -> Seq(Tokens)]
        BY <1>w, <2>n, <3>1
      <4>2. Head(net[FromPeer["client"]]) \in Marks
        BY <3>4, Wiring DEF Marks
      <4>3. \A p \in Peers : Whole(n, p)
        BY <1>w, <2>i, <2>n, <3>1, <4>2, StreamSteps
      <4> QED
        BY <4>1, <4>3
    <3> HIDE DEF n
    <3>5. CASE m = "bad" /\ CloseAll(n)
      BY <2>c, <3>1, <3>4, <3>5
    <3>6. CASE m = "bad" /\ CloseAll(Append1(n, ToPeer["client"], "no"))
      <4>1. /\ Append1(n, ToPeer["client"], "no") \in [Streams -> Seq(Tokens)]
            /\ \A p \in Peers : Whole(Append1(n, ToPeer["client"], "no"), p)
        BY <1>w, <2>a, <3>1, <3>4, <3>6 DEF Marks
      <4> QED
        BY <2>c, <3>1, <3>6, <4>1
    <3>7. CASE m = "req" /\ net' = n /\ pc' = "dial"
      <4>1. Stages' /\ \A p \in Peers : Ended(p) => Ended(p)'
        BY <2>i, <2>r, <3>1, <3>7 DEF Stages
      <4> QED
        BY <2>s, <3>1, <3>4, <3>7, <4>1
    <3> QED
      BY <3>2, <3>3, <3>5, <3>6, <3>7
  <2>7. CASE Resolve
    <3>1. Stages' /\ \A p \in Peers : Ended(p) => Ended(p)'
      BY <2>7, <2>i DEF Resolve, Stages, Ended
    <3> QED
      BY <2>7, <2>i, <2>n, <2>s, <3>1 DEF Resolve, env
  <2>8. CASE DialOK
    <3>1. /\ Append1(net, ToPeer["server"], "hello") \in [Streams -> Seq(Tokens)]
          /\ \A p \in Peers : Whole(Append1(net, ToPeer["server"], "hello"), p)
      BY <1>w, <2>8, <2>a, <2>i, <2>n DEF DialOK, Marks
    <3>2. Stages' /\ \A p \in Peers : Ended(p) => Ended(p)'
      BY <2>8, <2>i, <2>r DEF DialOK, Stages
    <3>3. /\ net' = net \/ net' = Append1(net, ToPeer["server"], "hello")
          /\ UNCHANGED <<via, sent, got, lost>>
      BY <2>8, Wiring DEF DialOK, setup, env
    <3> QED
      BY <2>i, <2>n, <2>s, <3>1, <3>2, <3>3
  <2>9. ASSUME pc \in {"dial", "shake"}, Refuse("no"), UNCHANGED <<via, sent, got, lost, copying>>
        PROVE  IInv'
    <3>1. /\ Append1(net, ToPeer["client"], "no") \in [Streams -> Seq(Tokens)]
          /\ \A p \in Peers : Whole(Append1(net, ToPeer["client"], "no"), p)
      BY <1>w, <2>9, <2>a, <2>i, <2>n DEF Marks
    <3>2. CloseAll(net) \/ CloseAll(Append1(net, ToPeer["client"], "no"))
      BY <2>9, Wiring DEF Refuse
    <3> QED
      BY <2>9, <2>c, <2>i, <2>n, <2>r, <3>1, <3>2
  <2>10. CASE DialFails
    BY <2>9, <2>10 DEF DialFails, setup, env
  \* What arrived with the answer is lost with its reader, if any of it is: then
  \* the first of it is.
  <2>11. CASE Shake
    <3> DEFINE k == [net EXCEPT ![FromPeer["server"]] = Tail(@)]
               rest == Tail(net["s2p"])
    <3>1. /\ pc = "shake" /\ net[FromPeer["server"]] # <<>> /\ FromPeer["server"] = "s2p"
          /\ lost = {} /\ UNCHANGED <<via, sent, got, copying>>
      BY <2>11, <2>i, Wiring DEF Shake, setup, env, Stages
    <3>2. CASE Refuse("no") /\ UNCHANGED lost
      BY <2>9, <3>1, <3>2
    <3>3. ASSUME Head(net["s2p"]) = "ok", NEW u \in Unread(rest), net' = [net EXCEPT !["s2p"] = u],
                 lost' = DataIn(rest) \ DataIn(u), pc' = "reply"
          PROVE  IInv'
      <4>1. k \in [Streams -> Seq(Tokens)] /\ k["s2p"] = rest /\ rest \in Seq(Tokens)
        BY <1>w, <2>n, <3>1
      <4>2. \A p \in Peers : Whole(k, p)
        BY <1>w, <2>i, <2>n, <3>1, <3>3, StreamSteps DEF Marks
      <4>3. Stages' /\ \A p \in Peers : Ended(p) => Ended(p)'
        BY <2>i, <2>r, <3>1, <3>3 DEF Stages
      <4>4. PICK i \in 1..Len(rest) + 1 :
               /\ u = SubSeq(rest, i, Len(rest))
               /\ i = 1 \/ (via = "http" /\ \A j \in 1..i-1 : rest[j] \in Range(Data))
        BY <3>3 DEF Unread
      <4>5. CASE i = 1
        <5>1. u = rest
          BY <4>1, <4>4, <4>5
        <5>2. lost' = {} /\ net' = k
          BY <3>1, <3>3, <5>1
        <5> HIDE DEF k, rest
        <5> QED
          BY <2>s, <3>1, <4>1, <4>2, <4>3, <5>2
      <4>6. CASE i # 1
        <5> HIDE DEF k, rest
        <5>1. rest[1] \in Range(Data) /\ via = "http" /\ Len(rest) \in Nat \ {0}
          BY <4>1, <4>4, <4>6
        <5>2. rest[1] \notin Range(u)
          <6>1. PICK h \in 1..Len(Data) : rest[1] = Data[h]
            <7>1. \A y \in Range(Data) : \E h \in 1..Len(Data) : y = Data[h]
              BY DataAssumption DEF DataAssumption, Range
            <7> QED
              BY <5>1, <7>1
          <6>2. \A a, b \in DOMAIN rest, c, d \in 1..Len(Data) :
                   a < b /\ rest[a] = Data[c] /\ rest[b] = Data[d] => c < d
            <7>1. Flows(GivenIn(k, "client"), rest, sent["server"])
              BY <1>w, <3>1, <4>1, <4>2, Wiring DEF Whole
            <7>2. PICK n : Carries(rest, n, sent["server"])
              BY <7>1 DEF Flows
            <7> QED
              BY <7>2 DEF Carries
          <6>3. ASSUME NEW j \in DOMAIN u, u[j] = rest[1] PROVE FALSE
            <7>1. i + j - 1 \in DOMAIN rest /\ 1 \in DOMAIN rest /\ 1 < i + j - 1
                  /\ u[j] = rest[i + j - 1]
              <8>1. i \in 2..Len(rest) + 1 /\ rest \in Seq(Tokens) /\ u = SubSeq(rest, i, Len(rest))
                BY <4>1, <4>4, <4>6, <5>1
              <8>2. /\ DOMAIN rest = 1..Len(rest) /\ DOMAIN u = 1..Len(rest) - i + 1
                    /\ \A l \in 1..Len(rest) - i + 1 : u[l] = rest[i + l - 1]
                BY <5>1, <8>1
              <8> QED
                BY <5>1, <6>3, <8>1, <8>2
            <7>2. h < h
              BY <6>1, <6>2, <6>3, <7>1
            <7>3. h \in Nat
              BY DataAssumption DEF DataAssumption
            <7> QED
              BY <7>2, <7>3
          <6> QED
            BY <6>3 DEF Range
        <5>3. lost' # {}
          <6>1. rest[1] \in DataIn(rest) \ DataIn(u)
            BY <4>1, <5>1, <5>2 DEF DataIn, Range
          <6> QED
            BY <3>3, <6>1
        <5>4. ASSUME NEW p \in Peers PROVE Whole(net, p)'
          <6>1. GivenIn(net, p)' = GivenIn(net, p)
            <7>1. ToPeer[p] # "s2p" /\ ToPeer[p] \in Streams
              BY <1>w, <3>1
            <7> QED
              BY <2>n, <3>1, <3>3, <7>1 DEF GivenIn
          <6>2. CASE p = "client"
            BY <2>i, <3>1, <4>3, <5>1, <5>3, <6>1, <6>2 DEF Whole
          <6>3. CASE p = "server"
            <7>1. net'[FromPeer[Other[p]]] = net[FromPeer[Other[p]]]
              BY <2>n, <3>3, <6>3, Wiring
            <7> QED
              BY <2>i, <3>1, <4>3, <6>1, <6>3, <7>1 DEF Whole
          <6> QED
            BY <6>2, <6>3 DEF Peers
        <5> QED
          BY <1>f, <2>t, <4>3, <5>4
      <4> QED
        BY <4>5, <4>6
    <3> QED
      BY <2>11, <3>2, <3>3 DEF Shake
  <2>12. CASE Reply
    <3>1. /\ Append1(net, ToPeer["client"], "ok") \in [Streams -> Seq(Tokens)]
          /\ \A p \in Peers : Whole(Append1(net, ToPeer["client"], "ok"), p)
      BY <1>w, <2>12, <2>a, <2>i, <2>n DEF Reply, Marks
    <3>2. /\ pc = "reply" /\ copying = {} /\ UNCHANGED <<via, sent, got, lost>>
          /\ \/ CloseAll(net) /\ UNCHANGED copying
             \/ /\ net' = net \/ net' = Append1(net, ToPeer["client"], "ok")
                /\ pc' = "relay"
      BY <2>12, <2>r, Wiring DEF Reply, setup, env
    <3>3. CASE CloseAll(net) /\ UNCHANGED copying
      BY <2>c, <2>i, <2>n, <3>2, <3>3
    <3>4. CASE pc' = "relay" /\ (net' = net \/ net' = Append1(net, ToPeer["client"], "ok"))
      <4>1. Stages' /\ \A p \in Peers : Ended(p) => Ended(p)'
        BY <2>i, <2>r, <3>2, <3>4 DEF Stages
      <4> QED
        BY <2>i, <2>n, <2>s, <3>1, <3>2, <3>4, <4>1
    <3> QED
      BY <3>2, <3>3, <3>4
  <2>13. CASE ForwardRequest
    <3>1. /\ Append1(net, ToPeer["server"], "req") \in [Streams -> Seq(Tokens)]
          /\ \A p \in Peers : Whole(Append1(net, ToPeer["server"], "req"), p)
      BY <1>w, <2>13, <2>a, <2>i, <2>n DEF ForwardRequest, Marks
    <3>2. /\ pc = "reply" /\ copying = {} /\ UNCHANGED <<via, sent, got, lost, copying>>
          /\ \/ CloseAll(net)
             \/ net' = Append1(net, ToPeer["server"], "req") /\ pc' = "body"
      BY <2>13, <2>r, Wiring DEF ForwardRequest, setup, env
    <3>3. CASE CloseAll(net)
      BY <2>c, <2>i, <2>n, <3>2, <3>3
    <3>4. CASE net' = Append1(net, ToPeer["server"], "req") /\ pc' = "body"
      <4>1. Stages' /\ \A p \in Peers : Ended(p) => Ended(p)'
        BY <2>i, <2>r, <3>2, <3>4 DEF Stages
      <4> QED
        BY <2>s, <3>1, <3>2, <3>4, <4>1
    <3> QED
      BY <3>2, <3>3, <3>4
  \* One token of a peer is handed to the other, by the handler or by a copy.
  <2>h. ASSUME NEW x \in Peers, Waiting(x), ~Ended(Other[x])
        PROVE  Moved(x) \in [Streams -> Seq(Tokens)] /\ \A p \in Peers : Whole(Moved(x), p)
    <3> DEFINE j == [net EXCEPT ![FromPeer[x]] = Tail(@)]
               h == Head(net[FromPeer[x]])
    <3>1. Moved(x) = Append1(j, ToPeer[Other[x]], h)
      BY <1>w, <2>n DEF Append1, Moved
    <3>2. \A p \in Peers : Whole(Append1(j, ToPeer[Other[x]], h), p)
      BY <2>h, <2>i, <2>n, StreamSteps DEF Waiting
    <3>3. j \in [Streams -> Seq(Tokens)] /\ h \in Tokens
      BY <1>w, <2>h, <2>n DEF Waiting
    <3> HIDE DEF j, h
    <3>4. Moved(x) \in [Streams -> Seq(Tokens)]
      BY <1>w, <2>m, <3>1, <3>3
    <3> QED
      BY <3>1, <3>2, <3>4
  <2>f. ASSUME NEW x \in Peers, pc \in {"body", "response"},
               UNCHANGED <<via, sent, got, copying, lost>>,
               \/ CloseAll(net)
               \/ Waiting(x) /\ CloseAll(Moved(x))
               \/ Waiting(x) /\ net' = Moved(x) /\ UNCHANGED pc
        PROVE  IInv'
    <3>1. copying = {} /\ ~Ended(Other[x])
      BY <1>w, <2>f, <2>r
    <3>2. CASE CloseAll(net)
      BY <2>c, <2>f, <2>i, <2>n, <3>1, <3>2
    <3>3. CASE Waiting(x) /\ CloseAll(Moved(x))
      BY <2>c, <2>f, <2>h, <3>1, <3>3
    <3>4. CASE Waiting(x) /\ net' = Moved(x) /\ UNCHANGED pc
      <4>1. Stages' /\ \A p \in Peers : Ended(p) => Ended(p)'
        BY <2>f, <2>i, <3>4 DEF Stages, Ended
      <4> QED
        BY <2>f, <2>h, <2>s, <3>1, <3>4, <4>1
    <3> QED
      BY <2>f, <3>2, <3>3, <3>4
  <2>b. CASE ForwardBody
    BY <1>w, <2>b, <2>f DEF ForwardBody, setup, env
  <2>e. CASE ForwardBodyEnd
    <3>1. Stages' /\ \A p \in Peers : Ended(p) => Ended(p)'
      BY <2>e, <2>i, <2>r DEF ForwardBodyEnd, Stages
    <3> QED
      BY <2>e, <2>i, <2>n, <2>s, <3>1 DEF ForwardBodyEnd, setup, env
  <2>14. CASE ForwardResponse
    BY <1>w, <2>14, <2>f DEF ForwardResponse, setup, env
  <2>15. CASE Finish
    BY <2>15, <2>c, <2>i, <2>n DEF Finish, setup, env
  <2>16. ASSUME NEW x \in Peers, CopyData(x) PROVE IInv'
    <3>1. /\ x \in copying /\ Waiting(x) /\ net' = Moved(x)
          /\ UNCHANGED <<via, pc, sent, got, copying, lost>>
      BY <2>16 DEF CopyData, setup, env
    <3>2. ~Ended(Other[x])
      BY <1>w, <2>i, <3>1 DEF Stages, Ended
    <3>3. Stages' /\ \A p \in Peers : Ended(p) => Ended(p)'
      BY <2>i, <3>1 DEF Stages, Ended
    <3> QED
      BY <2>h, <2>s, <3>1, <3>2, <3>3
  <2>17. ASSUME NEW x \in Peers, CopyEnd(x) PROVE IInv'
    <3>1. /\ x \in copying /\ copying' = copying \ {x} /\ UNCHANGED <<via, pc, sent, got, lost>>
          /\ net' = net \/ net' = Append1(net, ToPeer[Other[x]], "fin")
      BY <2>17 DEF CopyEnd, CopyEnded, setup, env
    <3>2. pc = "relay" /\ ~Ended(Other[x]) /\ Ended(Other[x])'
      BY <1>w, <2>i, <3>1 DEF Stages, Ended
    <3>3. ASSUME NEW p \in Peers PROVE Whole(net, p)'
      <4>1. Ended(p) => Ended(p)'
        BY <3>1 DEF Ended
      <4>2. net'[FromPeer[Other[p]]] = net[FromPeer[Other[p]]]
        BY <1>w, <2>n, <3>1 DEF Append1
      <4>3. \/ net'[ToPeer[p]] = net[ToPeer[p]]
            \/ p = Other[x] /\ net'[ToPeer[p]] = Append(net[ToPeer[p]], "fin")
        BY <1>w, <2>n, <3>1 DEF Append1
      <4>4. p = Other[x] => "fin" \notin Range(GivenIn(net, p)) /\ Ended(p)'
        BY <2>i, <3>2 DEF Whole
      <4> QED
        BY <2>i, <2>n, <3>1, <4>1, <4>2, <4>3, <4>4, Settled
    <3>4. Stages'
      BY <2>i, <3>1 DEF Stages
    <3> QED
      BY <1>f, <2>t, <3>3, <3>4
  <2>18. CASE UNCHANGED vars
    <3>1. Stages' /\ \A p \in Peers : Ended(p) => Ended(p)'
      BY <2>i, <2>18 DEF vars, Stages, Ended
    <3> QED
      BY <2>18, <2>i, <2>n, <2>s, <3>1 DEF vars
  <2> QED
    BY <2>1, <2>2, <2>3, <2>4, <2>5, <2>6, <2>7, <2>8, <2>10, <2>11, <2>12, <2>13, <2>14,
       <2>15, <2>16, <2>17, <2>18, <2>b, <2>e
    DEF Next, Handle
<1> QED
  BY <1>1, <1>2, PTL DEF Spec

\* The variables of a session, its streams included, keep their types.
THEOREM TypeCorrect == Spec => []TypeOK
<1>1. IInv => TypeOK
  BY DEF IInv
<1> QED
  BY <1>1, Invariance, PTL

\* What a peer sends reaches the other in order and without a gap, through
\* every listener and every upstream, or is still to be read, and nothing
\* follows the end of a stream; but for what the reader of an HTTP upstream's
\* answer takes with it (pkg/upstream/http.go).
THEOREM DataInOrder == Spec => []InOrder
<1>1. IInv => InOrder
  BY DEF IInv
<1> QED
  BY <1>1, Invariance, PTL

=============================================================================
