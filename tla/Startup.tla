------------------------------ MODULE Startup ------------------------------
(***************************************************************************)
(* The command dockprox serve: its configuration (pkg/config, the flags of *)
(* internal/cli/serve.go), the registry and the matcher built from it      *)
(* (pkg/upstream/registry.go, pkg/match), the listeners it binds and the   *)
(* group of servers it runs until one fails or a signal comes.             *)
(*                                                                         *)
(* An upstream's fields are the set of those that are given; "malformed"   *)
(* is in it when one of them does not have the form Validate asks for.     *)
(***************************************************************************)
EXTENDS Naturals, Sequences, FiniteSets, SequencesExt

CONSTANTS
    Names,      \* of upstreams, known or not
    NoUp,       \* the empty string: no via, no pinned upstream, no file
    Addrs,      \* to listen on
    Files,      \* configuration files, and NoUp for a start without one
    FlagSets,   \* of the command line
    Machines,   \* sets of what a machine may have installed or readable
    Hosts,      \* hosts a client may ask for
    Lower,      \* strings.ToLower on the labels of hosts and patterns
    MaxListeners \* bound on the listeners of a file, besides the HTTP proxy's

Labels == DOMAIN Lower
HostNames == Seq(Labels) \ {<<>>}

\* How a secret is given; "malformed" is a reference that does not parse.
SecretForms == {"literal", "op", "keychain", "cmd", "malformed"}

\* The types there are, and any other.
Types == {"direct", "socks5", "http", "forward", "ssh", "openconnect", "other"}

Fields == {"addr", "url", "urlhost", "host", "keyFile", "passphrase", "agent", "hostKey",
           "server", "username", "tun", "socks5Listen", "malformed"}

Upstreams == [type : Types, via : Names \cup {NoUp}, fields : SUBSET Fields,
              secrets : SUBSET SecretForms]
Rules == [pattern : [form : {"exact", "suffix", "bad"}, name : HostNames], up : Names]
Listeners == [addr : Addrs, type : {"socks5", "tcp", "other"},
              up : Names \cup {NoUp}, target : {"none", "full", "bad"}]

\* An --upstream of the command line: NAME=scheme://rest.
UpFlags == [name : Names, scheme : Types, rest : {"full", "empty", "malformed"}]

IsConfig(c) ==
    /\ DOMAIN c.ups \subseteq Names /\ Len(c.listeners) <= MaxListeners
    /\ c \in [version : {"1", "other"}, listen : Addrs, ups : [DOMAIN c.ups -> Upstreams],
             rules : Seq(Rules), listeners : Seq(Listeners)]

ASSUME StartupAssumption ==
    /\ NoUp \notin Names \cup Addrs /\ "default" \in Addrs /\ MaxListeners \in Nat
    /\ Lower \in [Labels -> Labels]
    /\ Hosts \subseteq [name : HostNames, form : {"name", "ip6"}]
    /\ \A f \in Files \ {NoUp} : IsConfig(f)
    /\ FlagSets \subseteq [listen : Addrs \cup {NoUp}, ups : Seq(UpFlags), rules : Seq(Rules)]

VARIABLES
    file, flags, tools,  \* what the command is started with
    cfg,        \* the configuration loaded
    pc,         \* where runServe is
    err,        \* the error the command returns, "none" so far
    byName,     \* the registry: for each upstream built, the dialer of its via
    reg,        \* "none", "open" or "closed"
    matcher,    \* its exact map and its suffix list
    ln,         \* the listeners: 0 is the HTTP proxy's, i is listeners[i]
    serving,    \* the goroutines of the group: "ready", "serving", "returned"
    ctx         \* of the group: "live" or "cancelled"

vars == <<file, flags, tools, cfg, pc, err, byName, reg, matcher, ln, serving, ctx>>
setup == <<file, flags, tools>>

-----------------------------------------------------------------------------
(* Validate *)

Needs == [direct |-> {}, socks5 |-> {"addr"}, http |-> {"url"}, forward |-> {"addr"},
          ssh |-> {"host"}, openconnect |-> {"server"}]

SSHFields == {"host", "keyFile", "passphrase", "agent", "hostKey"}
OpenConnectFields == {"server", "tun"}

ValidOpenConnect(u) == "username" \in u.fields
ValidSSH(u) == u.fields \cap {"keyFile", "agent"} # {}

\* Ports, addresses, the fingerprint of a host key, the VPN's URL and protocol.
WellFormed(u) == "malformed" \notin u.fields

ValidUpstream(u) ==
    /\ u.type \in DOMAIN Needs
    /\ Needs[u.type] \subseteq u.fields
    /\ u.type = "ssh" => ValidSSH(u)
    /\ u.type = "openconnect" => ValidOpenConnect(u)
    /\ WellFormed(u)
    /\ u.type # "ssh" => u.fields \cap SSHFields = {} /\ u.via = NoUp
    /\ u.type # "openconnect" => u.fields \cap OpenConnectFields = {}

ValidPattern(p) == p.form # "bad"

ValidTarget(l) ==
    CASE l.type = "socks5" -> l.target = "none"
      [] l.type = "tcp" -> l.target = "full"
      [] OTHER -> FALSE

ValidVia(c, n) ==
    c.ups[n].via # NoUp => /\ c.ups[n].via \in DOMAIN c.ups
                           /\ c.ups[c.ups[n].via].type # "ssh"

Referenced(c) ==
    {c.rules[i].up : i \in DOMAIN c.rules}
        \cup {c.listeners[i].up : i \in DOMAIN c.listeners}
        \cup {c.ups[n].via : n \in DOMAIN c.ups}

Validate(c) ==
    /\ \A n \in DOMAIN c.ups : ValidUpstream(c.ups[n]) /\ ValidVia(c, n)
    /\ \A i \in DOMAIN c.rules :
          ValidPattern(c.rules[i].pattern) /\ c.rules[i].up \in DOMAIN c.ups
    /\ \A i \in DOMAIN c.listeners :
          /\ ValidTarget(c.listeners[i])
          /\ c.listeners[i].up # NoUp => c.listeners[i].up \in DOMAIN c.ups
          /\ \A j \in 1..i-1 : c.listeners[j].addr # c.listeners[i].addr
    /\ \A n \in DOMAIN c.ups :
          c.ups[n].type \in {"ssh", "openconnect"} => n \in Referenced(c)

Defaults == [version |-> "1", listen |-> "default", ups |-> <<>>, rules |-> <<>>,
             listeners |-> <<>>]

-----------------------------------------------------------------------------
(* The matcher *)

ToLower(name) == [i \in DOMAIN name |-> Lower[name[i]]]

\* Every caller hands First a host without its port or brackets: a name has
\* nothing to strip, and an IPv6 address loses its last group as if it were one.
StripPort(h) == IF h.form = "ip6" THEN <<"cut">> ELSE h.name

\* The first of the rules with an exact pattern, and every suffix by its rule.
Compile(rules) ==
    LET Exact == {i \in DOMAIN rules : rules[i].pattern.form = "exact"}
        Key(i) == ToLower(rules[i].pattern.name)
    IN  [exact |-> [k \in {Key(i) : i \in Exact} |->
                       CHOOSE i \in Exact : Key(i) = k
                           /\ \A j \in Exact : Key(j) = k => i <= j],
         suffix |-> [i \in DOMAIN rules \ Exact |-> Key(i)]]

UnderSuffix(name, suffix) == IsStrictSuffix(suffix, name)

\* Mutant: an exact match wins whatever stands before it.
FirstExactWins(m, h) ==
    LET name == StripPort(h)
    IN  IF ToLower(name) \in DOMAIN m.exact THEN m.exact[ToLower(name)] ELSE
        LET hits == {i \in DOMAIN m.suffix : UnderSuffix(ToLower(name), m.suffix[i])}
        IN  IF hits = {} THEN 0 ELSE CHOOSE i \in hits : \A j \in hits : i <= j

\* The rule for a host, 0 for none: an exact match, unless a suffix of a rule
\* before it matches.
First(m, h) ==
    LET name == ToLower(StripPort(h))
        hits == {i \in DOMAIN m.suffix : UnderSuffix(name, m.suffix[i])}
                    \cup IF name \in DOMAIN m.exact THEN {m.exact[name]} ELSE {}
    IN  IF hits = {} THEN 0 ELSE CHOOSE i \in hits : \A j \in hits : i <= j

\* pick: the upstream a server sends a connection to, the built-in direct
\* dialer (NoUp) when no rule matches or the registry lacks the name.
Pick(i, h) ==
    LET rule == First(matcher, h)
    IN  IF i > 0 /\ cfg.listeners[i].up # NoUp THEN cfg.listeners[i].up
        ELSE IF rule # 0 /\ cfg.rules[rule].up \in DOMAIN byName
        THEN cfg.rules[rule].up ELSE NoUp

-----------------------------------------------------------------------------
(* loadConfig *)

Init ==
    /\ file \in Files /\ flags \in FlagSets /\ tools \in Machines
    /\ cfg = Defaults
    /\ pc = "load" /\ err = "none"
    /\ byName = <<>> /\ reg = "none"
    /\ matcher = [exact |-> <<>>, suffix |-> <<>>]
    /\ ln = <<>> /\ serving = <<>> /\ ctx = "live"

Closed(l) == [i \in DOMAIN l |-> IF l[i] = "open" THEN "closed" ELSE l[i]]

\* runServe returns an error: its deferred call closes the registry.
Exit(e) ==
    /\ pc' = "exit" /\ err' = e
    /\ reg' = IF reg = "open" THEN "closed" ELSE reg

\* finalize: the version and the removed socks5Listen are looked at before
\* the configuration as a whole.
FileLoads(c) ==
    /\ c.version = "1"
    /\ \A n \in DOMAIN c.ups : "socks5Listen" \notin c.ups[n].fields
    /\ Validate(c)

LoadFile ==
    /\ pc = "load"
    /\ IF file = NoUp \/ FileLoads(file)
       THEN /\ cfg' = IF file = NoUp THEN Defaults ELSE file
            /\ pc' = "flags"
            /\ UNCHANGED <<err, reg>>
       ELSE Exit("config") /\ UNCHANGED cfg
    /\ UNCHANGED <<setup, byName, matcher, ln, serving, ctx>>

\* What parseUpstreamFlag makes of NAME=URL; the URL's rest is "full",
\* "empty" or "malformed".
ParsedFields(f) ==
    CASE f.scheme = "socks5" -> IF f.rest = "empty" THEN {} ELSE {"addr"}
      [] f.scheme = "forward" -> CASE f.rest = "empty" -> {}
                                   [] f.rest = "malformed" -> {"addr", "malformed"}
                                   [] OTHER -> {"addr"}
      [] f.scheme = "http" -> IF f.rest = "full" THEN {"url", "urlhost"} ELSE {"url"}
      [] f.scheme = "ssh" -> {"host"}
      [] OTHER -> {}

FlagParses(f) ==
    /\ f.scheme \in {"socks5", "http", "ssh", "forward", "direct"}
    /\ f.scheme = "ssh" => f.rest = "full"

Parsed(f) == [type |-> f.scheme, via |-> NoUp, fields |-> ParsedFields(f),
              secrets |-> {"literal"}]

\* The flags laid over the file: --upstream replaces, --rule appends.
Merged ==
    LET named == {flags.ups[i].name : i \in DOMAIN flags.ups}
        last(n) == CHOOSE i \in DOMAIN flags.ups :
                      flags.ups[i].name = n
                      /\ \A j \in DOMAIN flags.ups : flags.ups[j].name = n => j <= i
    IN  [cfg EXCEPT
            !.listen = IF flags.listen = NoUp THEN @ ELSE flags.listen,
            !.ups = [n \in DOMAIN @ \cup named |->
                        IF n \in named THEN Parsed(flags.ups[last(n)]) ELSE @[n]],
            !.rules = @ \o flags.rules]

\* The result is validated again, as a whole.
MergeFlags ==
    /\ pc = "flags"
    /\ IF /\ \A i \in DOMAIN flags.ups : FlagParses(flags.ups[i])
          /\ Validate(Merged)
       THEN cfg' = Merged /\ pc' = "log" /\ UNCHANGED <<err, reg>>
       ELSE Exit("config") /\ UNCHANGED cfg
    /\ UNCHANGED <<setup, byName, matcher, ln, serving, ctx>>

\* OpenLogWriter; then the registry is begun.
OpenLog ==
    /\ pc = "log"
    /\ \/ pc' = "registry" /\ reg' = "open" /\ UNCHANGED err
       \/ Exit("log")
    /\ UNCHANGED <<setup, cfg, byName, matcher, ln, serving, ctx>>

-----------------------------------------------------------------------------
(* NewRegistry *)

\* The tool that resolves a reference to a secret.
Command == [op |-> "op", keychain |-> "security", cmd |-> "sh"]

\* What a machine needs for every type of upstream.
Tools == {"op", "security", "sh", "openconnect", "ocproxy", "sudo",
          "key", "plainkey", "unlocks", "agent", "known_hosts"}

\* secret.Check: a reference parses and its tool is there; it is not run.
Check(s) == s = "literal" \/ (s \in DOMAIN Command /\ Command[s] \in tools)

\* Target.Validate: the key is read and parsed, and its passphrase resolved,
\* by running the tool for as long as that takes; an encrypted key without one
\* does if there is an agent.
KeyLoads(u) ==
    /\ "key" \in tools
    /\ IF "passphrase" \in u.fields THEN "unlocks" \in tools
       ELSE "plainkey" \in tools \/ "agent" \in u.fields

NewSSH(u) ==
    /\ "keyFile" \in u.fields => KeyLoads(u)
    /\ "agent" \in u.fields => "agent" \in tools
    /\ "hostKey" \notin u.fields => "known_hosts" \in tools

NewOpenConnect(u) ==
    /\ "openconnect" \in tools
    /\ IF "tun" \in u.fields THEN "sudo" \in tools ELSE "ocproxy" \in tools

NewHTTP(u) == "urlhost" \in u.fields

\* The constructor of the dialer.
Constructs(u) ==
    CASE u.type = "http" -> NewHTTP(u)
      [] u.type = "ssh" -> NewSSH(u)
      [] u.type = "openconnect" -> NewOpenConnect(u)
      [] OTHER -> u.type \in {"direct", "socks5", "forward"}

\* Mutant: the upstreams are built in one pass, in the map's order.
PassOpenOne(n) == n \notin DOMAIN byName

\* ssh upstreams are built in a second pass; a pass ranges over a map.
PassOpen(n) ==
    /\ n \notin DOMAIN byName
    /\ cfg.ups[n].type = "ssh" =>
          \A m \in DOMAIN cfg.ups : cfg.ups[m].type # "ssh" => m \in DOMAIN byName

\* build: what is missing in byName is a nil via.
Build(n) ==
    /\ pc = "registry" /\ PassOpen(n)
    /\ IF (\A s \in cfg.ups[n].secrets : Check(s)) /\ Constructs(cfg.ups[n])
       THEN /\ byName' = [m \in DOMAIN byName \cup {n} |->
                             IF m # n THEN byName[m]
                             ELSE IF cfg.ups[n].via \in DOMAIN byName
                             THEN cfg.ups[n].via ELSE NoUp]
            /\ UNCHANGED <<pc, err, reg>>
       ELSE Exit("registry") /\ UNCHANGED byName
    /\ UNCHANGED <<setup, cfg, matcher, ln, serving, ctx>>

\* match.New looks at every rule again.
NewMatcher ==
    /\ pc = "registry" /\ DOMAIN byName = DOMAIN cfg.ups
    /\ IF \A i \in DOMAIN cfg.rules :
             ValidPattern(cfg.rules[i].pattern) /\ cfg.rules[i].up \in DOMAIN cfg.ups
       THEN matcher' = Compile(cfg.rules) /\ pc' = "proxy" /\ UNCHANGED <<err, reg>>
       ELSE Exit("matcher") /\ UNCHANGED matcher
    /\ UNCHANGED <<setup, cfg, byName, ln, serving, ctx>>

-----------------------------------------------------------------------------
(* The listeners *)

AddrOf(i) == IF i = 0 THEN cfg.listen ELSE cfg.listeners[i].addr

Bound(i) == \E j \in DOMAIN ln : ln[j] = "open" /\ AddrOf(j) = AddrOf(i)

BindProxy ==
    /\ pc = "proxy"
    /\ \/ ln' = [i \in {0} |-> "open"] /\ pc' = "tunnels" /\ UNCHANGED <<err, reg>>
       \/ Exit("listen") /\ UNCHANGED ln
    /\ UNCHANGED <<setup, cfg, byName, matcher, serving, ctx>>

NextTunnel == Cardinality(DOMAIN ln)

\* listener.New, which looks the upstream up and binds.
BindTunnel ==
    /\ pc = "tunnels" /\ NextTunnel \in DOMAIN cfg.listeners
    /\ LET l == cfg.listeners[NextTunnel]
       IN  l.up # NoUp => l.up \in DOMAIN byName
    /\ ~Bound(NextTunnel)
    /\ ln' = [i \in DOMAIN ln \cup {NextTunnel} |-> "open"]
    /\ UNCHANGED <<setup, cfg, pc, err, byName, reg, matcher, serving, ctx>>

\* tunnelListeners closes the ones before; the proxy's listener stays for the
\* end of the process.
CloseTunnels(e) == Exit(e) /\ ln' = [Closed(ln) EXCEPT ![0] = ln[0]]

\* A listener fails: it names no upstream of the registry, or the address is
\* bound already, by this command or by somebody else.
TunnelFails ==
    /\ pc = "tunnels" /\ NextTunnel \in DOMAIN cfg.listeners
    /\ LET l == cfg.listeners[NextTunnel]
       IN  IF l.up # NoUp => l.up \in DOMAIN byName
           THEN CloseTunnels("listen") ELSE CloseTunnels("unknown")
    /\ UNCHANGED <<setup, cfg, byName, matcher, serving, ctx>>

StartGroup ==
    /\ pc = "tunnels" /\ NextTunnel \notin DOMAIN cfg.listeners
    /\ pc' = "serve"
    /\ serving' = [i \in DOMAIN ln |-> "ready"]
    /\ UNCHANGED <<setup, cfg, err, byName, reg, matcher, ln, ctx>>

-----------------------------------------------------------------------------
(* The group *)

\* A signal cancels the command's context, whatever the command is at.
Signal ==
    /\ pc # "exit" /\ ctx = "live"
    /\ ctx' = "cancelled"
    /\ UNCHANGED <<setup, cfg, pc, err, byName, reg, matcher, ln, serving>>

Serve(i) ==
    /\ pc = "serve" /\ serving[i] = "ready"
    /\ serving' = [serving EXCEPT ![i] = "serving"]
    /\ UNCHANGED <<setup, cfg, pc, err, byName, reg, matcher, ln, ctx>>

\* The goroutine Serve starts closes the listener once ctx is done.
CloseOnDone(i) ==
    /\ pc = "serve" /\ serving[i] # "ready" /\ ctx = "cancelled" /\ ln[i] = "open"
    /\ ln' = [ln EXCEPT ![i] = "closed"]
    /\ UNCHANGED <<setup, cfg, pc, err, byName, reg, matcher, serving, ctx>>


\* The group keeps the first error and cancels its context.
GroupFails(i) == err' = (IF err = "none" THEN "accept" ELSE err) /\ ctx' = "cancelled"

\* Accept fails: the listener is closed, or for a reason of its own (no more
\* descriptors).  A cancelled ctx makes it a shutdown.
AcceptFails(i) ==
    /\ pc = "serve" /\ serving[i] = "serving"
    /\ serving' = [serving EXCEPT ![i] = "returned"]
    /\ IF ctx = "cancelled" THEN UNCHANGED <<err, ctx>> ELSE GroupFails(i)
    /\ UNCHANGED <<setup, cfg, pc, byName, reg, matcher, ln>>

\* g.Wait: every Serve has returned.
Wait ==
    /\ pc = "serve"
    /\ \A i \in DOMAIN serving : serving[i] = "returned"
    /\ Exit(err)
    /\ UNCHANGED <<setup, cfg, byName, matcher, ln, serving, ctx>>

-----------------------------------------------------------------------------
Start ==
    \/ LoadFile \/ MergeFlags \/ OpenLog \/ NewMatcher \/ BindProxy
    \/ BindTunnel \/ TunnelFails \/ StartGroup
    \/ \E n \in DOMAIN cfg.ups : Build(n)

Next ==
    \/ Start \/ Signal \/ Wait
    \/ \E i \in DOMAIN serving : Serve(i) \/ CloseOnDone(i) \/ AcceptFails(i)

Spec == Init /\ [][Next]_vars

\* Fairness of the group: goroutines run, and Accept fails on a closed listener.
Fairness ==
    /\ WF_vars(Wait)
    /\ \A i \in 0..MaxListeners :
          /\ WF_vars(i \in DOMAIN serving /\ Serve(i))
          /\ WF_vars(i \in DOMAIN serving /\ CloseOnDone(i))
          /\ WF_vars(i \in DOMAIN serving /\ ln[i] = "closed" /\ AcceptFails(i))

FairSpec == Spec /\ Fairness

-----------------------------------------------------------------------------
(* Properties *)

TypeOK ==
    /\ file \in Files /\ flags \in FlagSets /\ tools \in Machines
    /\ IsConfig(cfg)
    /\ pc \in {"load", "flags", "log", "registry", "proxy", "tunnels", "serve", "exit"}
    /\ err \in {"none", "config", "log", "registry", "matcher", "listen", "unknown", "accept"}
    /\ DOMAIN byName \subseteq Names
    /\ byName \in [DOMAIN byName -> Names \cup {NoUp}]
    /\ reg \in {"none", "open", "closed"} /\ ctx \in {"live", "cancelled"}
    /\ DOMAIN ln \subseteq 0..MaxListeners /\ ln \in [DOMAIN ln -> {"open", "closed"}]
    /\ DOMAIN serving \subseteq 0..MaxListeners
    /\ serving \in [DOMAIN serving -> {"ready", "serving", "returned"}]

Matches(p, h) ==
    LET name == ToLower(h.name)
        pattern == ToLower(p.name)
    IN  \/ p.form = "exact" /\ name = pattern
        \/ p.form = "suffix" /\ \E k \in 2..Len(name) : SubSeq(name, k, Len(name)) = pattern

\* Once it serves, every server sends a host where the configuration says: a
\* pinned listener to its upstream, the others to the upstream of the first
\* rule that matches the host, and only a host without a rule directly
\* (pkg/match/match.go New and First, registry.go Get, the three pick).  IPv6
\* addresses, whose last group StripPort takes for a port, are left out.
RoutedByRules ==
    pc = "serve" =>
        \A i \in DOMAIN ln, h \in {g \in Hosts : g.form # "ip6"} :
            IF i > 0 /\ cfg.listeners[i].up # NoUp
            THEN Pick(i, h) = cfg.listeners[i].up
            ELSE \/ /\ Pick(i, h) = NoUp
                    /\ \A k \in DOMAIN cfg.rules : ~Matches(cfg.rules[k].pattern, h)
                 \/ \E k \in DOMAIN cfg.rules :
                       /\ Pick(i, h) = cfg.rules[k].up
                       /\ Matches(cfg.rules[k].pattern, h)
                       /\ \A j \in 1..k-1 : ~Matches(cfg.rules[j].pattern, h)

\* An ssh upstream dials its bastion through the via it names.
ViaIsThere == \A n \in DOMAIN byName : byName[n] = cfg.ups[n].via

\* What Validate let pass fails later only for the machine's sake, for a
\* malformed reference to a secret, or for an http URL without a host.
FailsForCause ==
    /\ err \notin {"matcher", "unknown"}
    /\ err = "registry" =>
          \/ ~(Tools \subseteq tools)
          \/ \E n \in DOMAIN cfg.ups : \/ "malformed" \in cfg.ups[n].secrets
                                       \/ /\ cfg.ups[n].type = "http"
                                          /\ "urlhost" \notin cfg.ups[n].fields

\* A start that fails leaves no tunnel bound and no registry open.
NothingLeft ==
    pc = "exit" => /\ reg # "open"
                   /\ serving = <<>> => \A i \in DOMAIN ln : ln[i] = "open" => i = 0

\* A start comes up as configured, or fails for a cause and leaves nothing: no
\* order in which the map yields the upstreams loses a via, so that an ssh
\* connection meant for the VPN never goes around it (registry.go NewRegistry
\* and build, validate.go Validate, serve.go tunnelListeners).
StartsWhole == ViaIsThere /\ FailsForCause /\ NothingLeft


=============================================================================
