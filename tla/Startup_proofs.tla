--------------------------- MODULE Startup_proofs ---------------------------
(***************************************************************************)
(* The command comes up as configured or fails for a cause, and routes by  *)
(* the rules, for any configuration, flags, machine and hosts.             *)
(***************************************************************************)
EXTENDS Startup, NaturalsInduction, WellFoundedInduction, TLAPS

(* The invariant. *)

Ready == {"proxy", "tunnels", "serve"}

\* What is built is built from a configuration that has been validated.
Validated == pc \in {"log", "registry"} \cup Ready => Validate(cfg)

\* Nothing is built before that, and everything once the matcher is there.
Built ==
    /\ DOMAIN byName \subseteq DOMAIN cfg.ups
    /\ pc \in {"load", "flags", "log"} => DOMAIN byName = {}
    /\ pc \in Ready => DOMAIN byName = DOMAIN cfg.ups /\ matcher = Compile(cfg.rules)

\* The proxy's listener is bound first, and served with the others.
ProxyBound ==
    /\ pc \notin {"tunnels", "serve", "exit"} => DOMAIN ln = {}
    /\ pc \in {"tunnels", "serve"} => 0 \in DOMAIN ln
    /\ pc = "serve" => DOMAIN serving = DOMAIN ln

\* An error ends the start.
NoError == pc \notin {"serve", "exit"} => err = "none"

IInv == TypeOK /\ Validated /\ Built /\ ProxyBound /\ NoError /\ StartsWhole

-----------------------------------------------------------------------------
\* A set of numbers that is not empty has a least one.
LEMMA Least ==
    ASSUME NEW S \in SUBSET Nat, S # {}
    PROVE  \E m \in S : \A k \in S : m <= k
<1>1. PICK m \in S : \A k \in S : ~(<<k, m>> \in OpToRel(<, Nat))
  BY WFMin, NatLessThanWellFounded, Zenon
<1>2. \A k \in S : ~(k < m)
  <2> SUFFICES ASSUME NEW k \in S, k < m PROVE FALSE
    OBVIOUS
  <2>1. <<k, m>> \in Nat \X Nat /\ <<k, m>>[1] < <<k, m>>[2]
    OBVIOUS
  <2> QED
    BY <1>1, <2>1 DEF OpToRel
<1> QED
  BY <1>2

\* Names keep their length, and their labels are the lower-case ones.
LEMMA Lowered ==
    ASSUME NEW name \in HostNames
    PROVE  /\ ToLower(name) \in Seq(Labels)
           /\ Len(ToLower(name)) = Len(name) /\ Len(name) >= 1
  BY StartupAssumption DEF StartupAssumption, ToLower, HostNames

\* strings.HasSuffix with a pattern's suffix, which begins with a dot: the name
\* ends in the pattern's labels and has one before them.
LEMMA EndsInLabels ==
    ASSUME NEW s \in Seq(Labels), NEW t \in Seq(Labels), Len(s) >= 1
    PROVE  UnderSuffix(t, s) <=> \E k \in 2..Len(t) : SubSeq(t, k, Len(t)) = s
<1>1. ASSUME IsStrictSuffix(s, t) PROVE \E k \in 2..Len(t) : SubSeq(t, k, Len(t)) = s
  <2>1. Len(s) <= Len(t) /\ s # t
    BY <1>1 DEF IsStrictSuffix, IsSuffix, IsPrefix, Reverse
  <2>2. \A i \in 1..Len(s) : Reverse(s)[i] = Reverse(t)[i]
    <3>1. Reverse(s) \in Seq(Labels) /\ Reverse(t) \in Seq(Labels)
          /\ Len(Reverse(s)) = Len(s) /\ Len(Reverse(t)) = Len(t)
      BY DEF Reverse
    <3>2. SubSeq(Reverse(s), 1, Len(s)) = SubSeq(Reverse(t), 1, Len(s))
      BY <1>1, <3>1 DEF IsStrictSuffix, IsSuffix, IsPrefix
    <3>3. \A i \in 1..Len(s) : /\ SubSeq(Reverse(s), 1, Len(s))[i] = Reverse(s)[i]
                               /\ SubSeq(Reverse(t), 1, Len(s))[i] = Reverse(t)[i]
      BY <2>1, <3>1
    <3> QED
      BY <3>2, <3>3
  <2>3. \A i \in 1..Len(s) : s[i] = t[Len(t) - Len(s) + i]
    <3> SUFFICES ASSUME NEW i \in 1..Len(s) PROVE s[i] = t[Len(t) - Len(s) + i]
      OBVIOUS
    <3> DEFINE r == Len(s) - i + 1
    <3>1. r \in 1..Len(s) /\ Reverse(s)[r] = Reverse(t)[r]
      BY <2>2
    <3>2. Reverse(s)[r] = s[i] /\ Reverse(t)[r] = t[Len(t) - Len(s) + i]
      BY <2>1 DEF Reverse
    <3> QED
      BY <3>1, <3>2
  <2>4. Len(s) # Len(t)
    <3> SUFFICES ASSUME Len(s) = Len(t) PROVE FALSE
      OBVIOUS
    <3>1. \A i \in 1..Len(s) : s[i] = t[i]
      BY <2>3
    <3> QED
      BY <2>1, <3>1
  <2> DEFINE k == Len(t) - Len(s) + 1
  <2>5. k \in 2..Len(t)
    BY <2>1, <2>4
  <2>6. SubSeq(t, k, Len(t)) = s
    <3>1. SubSeq(t, k, Len(t)) \in Seq(Labels) /\ Len(SubSeq(t, k, Len(t))) = Len(s)
      BY <2>5
    <3>2. \A i \in 1..Len(s) : SubSeq(t, k, Len(t))[i] = s[i]
      BY <2>3, <2>5
    <3> QED
      BY <3>1, <3>2
  <2> QED
    BY <2>5, <2>6
<1>2. ASSUME NEW k \in 2..Len(t), SubSeq(t, k, Len(t)) = s PROVE IsStrictSuffix(s, t)
  BY <1>2 DEF IsStrictSuffix, IsSuffix, IsPrefix, Reverse
<1> QED
  BY <1>1, <1>2 DEF UnderSuffix

\* The matcher that New compiles, with its map of exact names and its list of
\* suffixes, finds the first of the rules that match a host, or none.
LEMMA FirstRule ==
    ASSUME NEW rules \in Seq(Rules), \A i \in DOMAIN rules : ValidPattern(rules[i].pattern),
           NEW h \in Hosts, h.form # "ip6", NEW f, f = First(Compile(rules), h)
    PROVE  \/ f = 0 /\ \A k \in DOMAIN rules : ~Matches(rules[k].pattern, h)
           \/ /\ f \in DOMAIN rules /\ Matches(rules[f].pattern, h)
              /\ \A j \in 1..f-1 : ~Matches(rules[j].pattern, h)
<1> DEFINE Key(i) == ToLower(rules[i].pattern.name)
           Exact == {i \in DOMAIN rules : rules[i].pattern.form = "exact"}
           Of(k) == {i \in Exact : Key(i) = k}
           m == Compile(rules)
           name == ToLower(h.name)
           hits == {i \in DOMAIN m.suffix : UnderSuffix(name, m.suffix[i])}
                      \cup IF name \in DOMAIN m.exact THEN {m.exact[name]} ELSE {}
<1>1. /\ DOMAIN m.suffix = DOMAIN rules \ Exact
      /\ \A i \in DOMAIN rules \ Exact : m.suffix[i] = Key(i)
  BY DEF Compile
<1>2. /\ DOMAIN m.exact = {Key(i) : i \in Exact}
      /\ \A k \in DOMAIN m.exact :
            m.exact[k] = CHOOSE i \in Exact : Key(i) = k /\ \A j \in Exact : Key(j) = k => i <= j
  BY DEF Compile
<1>3. \A k \in DOMAIN m.exact :
         m.exact[k] \in Of(k) /\ \A j \in Of(k) : m.exact[k] <= j
  <2> SUFFICES ASSUME NEW k \in DOMAIN m.exact
               PROVE  m.exact[k] \in Of(k) /\ \A j \in Of(k) : m.exact[k] <= j
    OBVIOUS
  <2>1. Of(k) \in SUBSET Nat /\ Of(k) # {}
    BY <1>2
  <2>2. \E i \in Of(k) : \A j \in Of(k) : i <= j
    BY <2>1, Least
  <2>3. \E i \in Exact : Key(i) = k /\ \A j \in Exact : Key(j) = k => i <= j
    BY <2>2
  <2> QED
    BY <1>2, <2>3
<1>4. ASSUME NEW i \in DOMAIN rules
      PROVE  Matches(rules[i].pattern, h)
                <=> IF i \in Exact THEN name = Key(i) ELSE UnderSuffix(name, Key(i))
  <2>1. /\ rules[i].pattern.name \in HostNames /\ h.name \in HostNames
        /\ rules[i].pattern.form \in {"exact", "suffix"}
    <3>1. rules[i] \in Rules /\ ValidPattern(rules[i].pattern)
      OBVIOUS
    <3>2. h \in [name : HostNames, form : {"name", "ip6"}]
      BY StartupAssumption DEF StartupAssumption
    <3> QED
      BY <3>1, <3>2 DEF Rules, ValidPattern
  <2>2. UnderSuffix(name, Key(i)) <=> \E k \in 2..Len(name) : SubSeq(name, k, Len(name)) = Key(i)
    BY <2>1, Lowered, EndsInLabels
  <2> QED
    BY <2>1, <2>2 DEF Matches
<1>5. \A i \in hits : i \in DOMAIN rules /\ Matches(rules[i].pattern, h)
  BY <1>1, <1>3, <1>4
<1>6. ASSUME NEW i \in DOMAIN rules, Matches(rules[i].pattern, h) PROVE \E j \in hits : j <= i
  <2>1. CASE i \in Exact
    <3>1. name \in DOMAIN m.exact /\ i \in Of(name)
      BY <1>2, <1>4, <1>6, <2>1
    <3> QED
      BY <1>3, <3>1
  <2>2. CASE i \notin Exact
    BY <1>1, <1>4, <1>6, <2>2
  <2> QED
    BY <2>1, <2>2
<1>7. f = IF hits = {} THEN 0 ELSE CHOOSE i \in hits : \A j \in hits : i <= j
  BY DEF First, StripPort
<1>8. CASE hits = {}
  BY <1>6, <1>7, <1>8
<1>9. CASE hits # {}
  <2>1. hits \in SUBSET Nat
    BY <1>5
  <2>2. f \in hits /\ \A j \in hits : f <= j
    BY <1>7, <1>9, <2>1, Least
  <2> QED
    BY <1>5, <1>6, <2>1, <2>2
<1> QED
  BY <1>8, <1>9

-----------------------------------------------------------------------------
\* The flags laid over a configuration make one again.
LEMMA MergedIsConfig ==
    ASSUME IsConfig(cfg), flags \in FlagSets PROVE IsConfig(Merged)
<1> DEFINE named == {flags.ups[i].name : i \in DOMAIN flags.ups}
           Giving(n) == {i \in DOMAIN flags.ups : flags.ups[i].name = n}
           last(n) == CHOOSE i \in DOMAIN flags.ups :
                         flags.ups[i].name = n
                         /\ \A j \in DOMAIN flags.ups : flags.ups[j].name = n => j <= i
           over == [n \in DOMAIN cfg.ups \cup named |->
                       IF n \in named THEN Parsed(flags.ups[last(n)]) ELSE cfg.ups[n]]
<1>1. flags.listen \in Addrs \cup {NoUp} /\ flags.rules \in Seq(Rules) /\ flags.ups \in Seq(UpFlags)
  BY StartupAssumption DEF StartupAssumption
<1>2. /\ Len(flags.ups) \in Nat /\ DOMAIN flags.ups = 1..Len(flags.ups)
      /\ \A i \in DOMAIN flags.ups : flags.ups[i] \in UpFlags
  BY <1>1
<1>3. \A n \in named : last(n) \in DOMAIN flags.ups
  <2> SUFFICES ASSUME NEW n \in named PROVE last(n) \in DOMAIN flags.ups
    OBVIOUS
  <2> DEFINE back == {Len(flags.ups) - i : i \in Giving(n)}
  <2>1. Giving(n) # {} /\ Giving(n) \subseteq 1..Len(flags.ups)
    BY <1>2
  <2>2. back \in SUBSET Nat /\ back # {}
    <3>1. \A i \in Giving(n) : Len(flags.ups) - i \in Nat
      BY <1>2, <2>1
    <3> QED
      BY <2>1, <3>1, Zenon
  <2>3. PICK b \in back : \A c \in back : b <= c
    BY <2>2, Least
  <2>4. PICK i \in Giving(n) : b = Len(flags.ups) - i
    OBVIOUS
  <2>5. \A j \in Giving(n) : j <= i
    <3> SUFFICES ASSUME NEW j \in Giving(n) PROVE j <= i
      OBVIOUS
    <3>1. b <= Len(flags.ups) - j
      BY <2>3
    <3> QED
      BY <1>2, <2>1, <2>4, <3>1
  <2> QED
    BY <2>4, <2>5
<1>4. DOMAIN over \subseteq Names /\ over \in [DOMAIN over -> Upstreams]
  <2>1. named \subseteq Names
    BY <1>2 DEF UpFlags
  <2>2. \A u \in UpFlags : Parsed(u) \in Upstreams
    <3> SUFFICES ASSUME NEW u \in UpFlags PROVE Parsed(u) \in Upstreams
      OBVIOUS
    <3>1. u.scheme \in Types
      BY DEF UpFlags
    <3>2. ParsedFields(u) \in SUBSET Fields
      <4>1. ParsedFields(u) \in {{}, {"addr"}, {"addr", "malformed"}, {"url", "urlhost"},
                                 {"url"}, {"host"}}
        BY DEF ParsedFields
      <4> QED
        BY <4>1 DEF Fields
    <3> QED
      BY <3>1, <3>2 DEF Parsed, Upstreams, SecretForms
  <2>3. \A n \in named : Parsed(flags.ups[last(n)]) \in Upstreams
    BY <1>2, <1>3, <2>2
  <2> QED
    BY <2>1, <2>3 DEF IsConfig
<1>5. Merged = [version |-> cfg.version,
                listen |-> IF flags.listen = NoUp THEN cfg.listen ELSE flags.listen,
                ups |-> over, rules |-> cfg.rules \o flags.rules, listeners |-> cfg.listeners]
  <2>1. cfg = [version |-> cfg.version, listen |-> cfg.listen, ups |-> cfg.ups,
               rules |-> cfg.rules, listeners |-> cfg.listeners]
    BY DEF IsConfig
  <2> HIDE DEF over
  <2>2. Merged = [cfg EXCEPT
                    !.listen = IF flags.listen = NoUp THEN cfg.listen ELSE flags.listen,
                    !.ups = over, !.rules = cfg.rules \o flags.rules]
    BY Zenon DEF Merged, over
  <2> QED
    BY <2>1, <2>2
<1>6. Merged.rules \in Seq(Rules) /\ Merged.listen \in Addrs
  BY <1>1, <1>5 DEF IsConfig
<1> QED
  BY <1>4, <1>5, <1>6 DEF IsConfig

\* Every step of runServe, and of the goroutines it starts, keeps the types.
LEMMA NextTypeOK == TypeOK /\ [Next]_vars => TypeOK'
<1> SUFFICES ASSUME TypeOK, [Next]_vars PROVE TypeOK'
  OBVIOUS
<1> USE DEF TypeOK, Exit, setup
<1>1. CASE LoadFile
  <2>1. IsConfig(Defaults)
    BY StartupAssumption DEF StartupAssumption, IsConfig, Defaults, Rules, Listeners
  <2>2. file # NoUp => IsConfig(file)
    BY StartupAssumption DEF StartupAssumption
  <2>3. IsConfig(cfg')
    BY <1>1, <2>1, <2>2 DEF LoadFile
  <2> QED
    BY <1>1, <2>3 DEF LoadFile
<1>2. CASE MergeFlags
  <2>1. IsConfig(cfg')
    BY <1>2, MergedIsConfig DEF MergeFlags
  <2> QED
    BY <1>2, <2>1 DEF MergeFlags
<1>3. CASE OpenLog \/ NewMatcher \/ Signal \/ Wait
  BY <1>3 DEF OpenLog, NewMatcher, Signal, Wait
<1>4. ASSUME NEW n \in DOMAIN cfg.ups, Build(n) PROVE TypeOK'
  <2>1. n \in Names
    BY DEF IsConfig
  <2>2. CASE UNCHANGED byName
    BY <1>4, <2>2 DEF Build
  <2>3. ASSUME byName' = [m \in DOMAIN byName \cup {n} |->
                            IF m # n THEN byName[m]
                            ELSE IF cfg.ups[n].via \in DOMAIN byName
                            THEN cfg.ups[n].via ELSE NoUp],
               UNCHANGED <<pc, err, reg>>
        PROVE  TypeOK'
    <3>1. DOMAIN byName' \subseteq Names /\ byName' \in [DOMAIN byName' -> Names \cup {NoUp}]
      BY <2>1, <2>3
    <3>2. UNCHANGED <<setup, cfg, matcher, ln, serving, ctx>>
      BY <1>4 DEF Build
    <3> QED
      BY <2>3, <3>1, <3>2
  <2> QED
    BY <1>4, <2>2, <2>3 DEF Build
<1>5. CASE BindProxy
  BY <1>5, StartupAssumption DEF StartupAssumption, BindProxy
<1>6. CASE BindTunnel
  <2>1. NextTunnel \in 0..MaxListeners
    <3>1. cfg.listeners \in Seq(Listeners) /\ Len(cfg.listeners) <= MaxListeners
      BY DEF IsConfig
    <3>2. NextTunnel \in 1..Len(cfg.listeners) /\ MaxListeners \in Nat
      BY <1>6, <3>1, StartupAssumption DEF BindTunnel, StartupAssumption
    <3> QED
      BY <3>1, <3>2
  <2> QED
    BY <1>6, <2>1 DEF BindTunnel
<1>7. CASE TunnelFails
  BY <1>7 DEF TunnelFails, CloseTunnels, Closed
<1>8. CASE StartGroup
  BY <1>8 DEF StartGroup
<1>9. ASSUME NEW i \in DOMAIN serving, Serve(i) \/ CloseOnDone(i) \/ AcceptFails(i)
      PROVE  TypeOK'
  BY <1>9 DEF Serve, CloseOnDone, AcceptFails, GroupFails
<1>10. CASE UNCHANGED vars
  BY <1>10 DEF vars
<1> QED
  BY <1>1, <1>2, <1>3, <1>4, <1>5, <1>6, <1>7, <1>8, <1>9, <1>10 DEF Next, Start

\* What Validate lets pass, a machine with all tools builds, unless a reference
\* to a secret does not parse or a URL lacks its host.
LEMMA BuildFails ==
    ASSUME IsConfig(cfg), Validate(cfg), NEW n \in DOMAIN cfg.ups, Tools \subseteq tools,
           "malformed" \notin cfg.ups[n].secrets,
           cfg.ups[n].type = "http" => "urlhost" \in cfg.ups[n].fields
    PROVE  (\A s \in cfg.ups[n].secrets : Check(s)) /\ Constructs(cfg.ups[n])
<1>1. cfg.ups[n].secrets \subseteq SecretForms
  BY DEF IsConfig, Upstreams
<1>2. \A s \in cfg.ups[n].secrets : Check(s)
  BY <1>1 DEF Check, Command, SecretForms, Tools
<1>3. cfg.ups[n].type \in {"direct", "socks5", "http", "forward", "ssh", "openconnect"}
  BY DEF Validate, ValidUpstream, Needs
<1>4. Constructs(cfg.ups[n])
  BY <1>3 DEF Constructs, NewHTTP, NewSSH, KeyLoads, NewOpenConnect, Tools
<1> QED
  BY <1>2, <1>4

\* Whatever the configuration, the flags and the machine, the invariant holds.
THEOREM Invariance == Spec => []IInv
<1>1. Init => IInv
  <2> SUFFICES ASSUME Init PROVE IInv
    OBVIOUS
  <2>1. IsConfig(Defaults)
    BY StartupAssumption DEF StartupAssumption, IsConfig, Defaults, Rules, Listeners
  <2>2. TypeOK
    BY <2>1 DEF Init, TypeOK
  <2>3. Validated /\ Built /\ ProxyBound /\ NoError
    BY DEF Init, Validated, Built, ProxyBound, NoError, Ready
  <2>4. StartsWhole
    BY DEF Init, StartsWhole, ViaIsThere, FailsForCause, NothingLeft
  <2> QED
    BY <2>2, <2>3, <2>4 DEF IInv
<1>2. IInv /\ [Next]_vars => IInv'
  <2> SUFFICES ASSUME IInv, [Next]_vars PROVE IInv'
    OBVIOUS
  <2>1. TypeOK'
    BY NextTypeOK DEF IInv
  <2> USE DEF IInv, Exit, setup, Ready
  <2>2. CASE LoadFile
    <3>1. Validated' /\ Built' /\ ProxyBound' /\ NoError'
      BY <2>2 DEF LoadFile, Validated, Built, ProxyBound, NoError
    <3>2. StartsWhole'
      BY <2>2, <3>1
      DEF LoadFile, StartsWhole, ViaIsThere, FailsForCause, NothingLeft, Built, ProxyBound,
          NoError
    <3> QED
      BY <2>1, <3>1, <3>2
  <2>3. CASE MergeFlags
    <3>1. Validated' /\ Built' /\ ProxyBound' /\ NoError'
      BY <2>3 DEF MergeFlags, Validated, Built, ProxyBound, NoError
    <3>2. StartsWhole'
      BY <2>3, <3>1
      DEF MergeFlags, StartsWhole, ViaIsThere, FailsForCause, NothingLeft, Built,
          ProxyBound, NoError
    <3> QED
      BY <2>1, <3>1, <3>2
  <2>4. CASE OpenLog
    <3>1. Validated' /\ Built' /\ ProxyBound' /\ NoError'
      BY <2>4 DEF OpenLog, Validated, Built, ProxyBound, NoError
    <3>2. StartsWhole'
      BY <2>4, <3>1
      DEF OpenLog, StartsWhole, ViaIsThere, FailsForCause, NothingLeft, Built, ProxyBound, NoError
    <3> QED
      BY <2>1, <3>1, <3>2
  <2>5. ASSUME NEW n \in DOMAIN cfg.ups, Build(n) PROVE IInv'
    <3>1. Validated' /\ Built' /\ ProxyBound' /\ NoError'
      BY <2>5 DEF Build, Validated, Built, ProxyBound, NoError
    <3>2. Validate(cfg) /\ IsConfig(cfg)
      BY <2>5 DEF Build, Validated, TypeOK
    \* The via of an ssh upstream was built in the first pass.
    <3>3. ViaIsThere'
      <4>1. cfg.ups[n].via # NoUp =>
               /\ cfg.ups[n].type = "ssh"
               /\ cfg.ups[n].via \in DOMAIN cfg.ups /\ cfg.ups[cfg.ups[n].via].type # "ssh"
        BY <3>2 DEF Validate, ValidUpstream, ValidVia
      <4>2. cfg.ups[n].via # NoUp => cfg.ups[n].via \in DOMAIN byName
        BY <2>5, <4>1 DEF Build, PassOpen
      <4> QED
        BY <2>5, <4>2 DEF Build, StartsWhole, ViaIsThere
    <3>4. FailsForCause'
      <4>1. CASE UNCHANGED err
        BY <2>5, <4>1 DEF Build, StartsWhole, FailsForCause
      <4>2. CASE err' = "registry" /\ ~((\A s \in cfg.ups[n].secrets : Check(s)) /\ Constructs(cfg.ups[n]))
        BY <2>5, <3>2, <4>2, BuildFails DEF Build, FailsForCause
      <4> QED
        BY <2>5, <4>1, <4>2 DEF Build
    <3>5. NothingLeft'
      BY <2>5 DEF Build, NothingLeft, ProxyBound
    <3> QED
      BY <2>1, <3>1, <3>3, <3>4, <3>5 DEF StartsWhole
  <2>6. CASE NewMatcher
    <3>1. \A i \in DOMAIN cfg.rules :
             ValidPattern(cfg.rules[i].pattern) /\ cfg.rules[i].up \in DOMAIN cfg.ups
      BY <2>6 DEF NewMatcher, Validated, Validate
    <3>2. Validated' /\ Built' /\ ProxyBound' /\ NoError'
      BY <2>6, <3>1 DEF NewMatcher, Validated, Built, ProxyBound, NoError
    <3>3. StartsWhole'
      BY <2>6, <3>1 DEF NewMatcher, StartsWhole, ViaIsThere, FailsForCause, NothingLeft
    <3> QED
      BY <2>1, <3>2, <3>3
  <2>7. CASE BindProxy
    <3>1. Validated' /\ Built' /\ ProxyBound' /\ NoError'
      BY <2>7 DEF BindProxy, Validated, Built, ProxyBound, NoError
    <3>2. StartsWhole'
      BY <2>7, <3>1
      DEF BindProxy, StartsWhole, ViaIsThere, FailsForCause, NothingLeft, ProxyBound
    <3> QED
      BY <2>1, <3>1, <3>2
  <2>8. CASE BindTunnel
    <3>1. Validated' /\ Built' /\ ProxyBound' /\ NoError'
      BY <2>8 DEF BindTunnel, Validated, Built, ProxyBound, NoError
    <3>2. StartsWhole'
      BY <2>8 DEF BindTunnel, StartsWhole, ViaIsThere, FailsForCause, NothingLeft
    <3> QED
      BY <2>1, <3>1, <3>2
  \* Validate has looked every listener's upstream up.
  <2>9. CASE TunnelFails
    <3>1. cfg.listeners[NextTunnel].up # NoUp => cfg.listeners[NextTunnel].up \in DOMAIN byName
      BY <2>9 DEF TunnelFails, Validated, Validate, Built
    <3>2. CloseTunnels("listen") /\ UNCHANGED <<setup, cfg, byName, matcher, serving, ctx>>
      BY <2>9, <3>1 DEF TunnelFails
    <3>3. Validated' /\ Built' /\ ProxyBound' /\ NoError'
      BY <3>2 DEF CloseTunnels, Validated, Built, ProxyBound, NoError
    <3>4. NothingLeft'
      BY <2>9, <3>2 DEF TunnelFails, CloseTunnels, Closed, NothingLeft, TypeOK, ProxyBound
    <3>5. ViaIsThere' /\ FailsForCause'
      BY <3>2 DEF CloseTunnels, StartsWhole, ViaIsThere, FailsForCause
    <3> QED
      BY <2>1, <3>3, <3>4, <3>5 DEF StartsWhole
  <2>10. CASE StartGroup
    <3>1. Validated' /\ Built' /\ ProxyBound' /\ NoError'
      BY <2>10 DEF StartGroup, Validated, Built, ProxyBound, NoError
    <3>2. StartsWhole'
      BY <2>10 DEF StartGroup, StartsWhole, ViaIsThere, FailsForCause, NothingLeft
    <3> QED
      BY <2>1, <3>1, <3>2
  <2>11. CASE Signal
    <3>1. Validated' /\ Built' /\ ProxyBound' /\ NoError'
      BY <2>11 DEF Signal, Validated, Built, ProxyBound, NoError
    <3>2. StartsWhole'
      BY <2>11 DEF Signal, StartsWhole, ViaIsThere, FailsForCause, NothingLeft
    <3> QED
      BY <2>1, <3>1, <3>2
  <2>12. CASE Wait
    <3>1. Validated' /\ Built' /\ ProxyBound' /\ NoError'
      BY <2>12 DEF Wait, Validated, Built, ProxyBound, NoError
    <3>2. StartsWhole'
      BY <2>12 DEF Wait, StartsWhole, ViaIsThere, FailsForCause, NothingLeft, ProxyBound
    <3> QED
      BY <2>1, <3>1, <3>2
  <2>13. ASSUME NEW i \in DOMAIN serving, Serve(i) \/ CloseOnDone(i) \/ AcceptFails(i)
         PROVE  IInv'
    <3>1. Validated' /\ Built' /\ ProxyBound' /\ NoError'
      BY <2>13
      DEF Serve, CloseOnDone, AcceptFails, GroupFails, Validated, Built, ProxyBound, NoError
    <3>2. StartsWhole'
      BY <2>13 DEF Serve, CloseOnDone, AcceptFails, GroupFails,
                   StartsWhole, ViaIsThere, FailsForCause, NothingLeft
    <3> QED
      BY <2>1, <3>1, <3>2
  <2>14. CASE UNCHANGED vars
    BY <2>1, <2>14
    DEF vars, Validated, Built, ProxyBound, NoError, StartsWhole, ViaIsThere, FailsForCause,
        NothingLeft
  <2> QED
    BY <2>2, <2>3, <2>4, <2>5, <2>6, <2>7, <2>8, <2>9, <2>10, <2>11, <2>12, <2>13, <2>14
    DEF Next, Start
<1> QED
  BY <1>1, <1>2, PTL DEF Spec

-----------------------------------------------------------------------------
\* Every variable of the command keeps its type.
THEOREM TypeCorrect == Spec => []TypeOK
  BY Invariance, PTL DEF IInv

\* In whatever order the maps are ranged over, no start loses a via, none fails
\* for a reason that Validate should have found, and one that fails leaves
\* neither a tunnel bound nor the registry open.
THEOREM NoHalfStart == Spec => []StartsWhole
  BY Invariance, PTL DEF IInv

\* For any rules and hosts, every server sends a host to the upstream of the
\* first rule that matches it, and directly only if there is none: the map and
\* the list that New compiles give what a look at the rules in order would.
THEOREM ServersRouteByRules == Spec => []RoutedByRules
<1>1. IInv => RoutedByRules
  <2> SUFFICES ASSUME IInv, pc = "serve", NEW i \in DOMAIN ln,
                      NEW h \in {g \in Hosts : g.form # "ip6"},
                      ~(i > 0 /\ cfg.listeners[i].up # NoUp)
               PROVE  \/ /\ Pick(i, h) = NoUp
                         /\ \A k \in DOMAIN cfg.rules : ~Matches(cfg.rules[k].pattern, h)
                      \/ \E k \in DOMAIN cfg.rules :
                            /\ Pick(i, h) = cfg.rules[k].up
                            /\ Matches(cfg.rules[k].pattern, h)
                            /\ \A j \in 1..k-1 : ~Matches(cfg.rules[j].pattern, h)
    BY DEF RoutedByRules, Pick
  <2> DEFINE f == First(matcher, h)
  <2>1. /\ cfg.rules \in Seq(Rules) /\ matcher = Compile(cfg.rules)
        /\ \A k \in DOMAIN cfg.rules : /\ ValidPattern(cfg.rules[k].pattern)
                                       /\ cfg.rules[k].up \in DOMAIN byName
    BY DEF IInv, TypeOK, IsConfig, Validated, Validate, Built, Ready
  <2>2. \/ f = 0 /\ \A k \in DOMAIN cfg.rules : ~Matches(cfg.rules[k].pattern, h)
        \/ /\ f \in DOMAIN cfg.rules /\ Matches(cfg.rules[f].pattern, h)
           /\ \A j \in 1..f-1 : ~Matches(cfg.rules[j].pattern, h)
    BY <2>1, FirstRule
  <2>3. f \in DOMAIN cfg.rules => f # 0
    BY <2>1
  <2>4. Pick(i, h) = IF f # 0 /\ cfg.rules[f].up \in DOMAIN byName THEN cfg.rules[f].up ELSE NoUp
    BY DEF Pick
  <2> QED
    BY <2>1, <2>2, <2>3, <2>4
<1> QED
  BY <1>1, Invariance, PTL

=============================================================================
