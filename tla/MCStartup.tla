----------------------------- MODULE MCStartup -----------------------------
(***************************************************************************)
(* The instance of Startup for TLC: files that vary one part at a time     *)
(* around a full configuration.                                            *)
(***************************************************************************)
EXTENDS Startup

Up(type, fields, via, secrets) ==
    [type |-> type, fields |-> fields, via |-> via, secrets |-> secrets]

Ssh(via) == Up("ssh", {"host", "agent"}, via, {"literal"})
Vpn == Up("openconnect", {"server", "username"}, NoUp, {"literal", "op"})
Http == Up("http", {"url", "urlhost"}, NoUp, {"keychain"})

\* One of each type, and one for every way to be wrong.
Ups == {
    Ssh(NoUp), Ssh("a"), Ssh("b"), Ssh("c"), Vpn, Http,
    Up("direct", {}, NoUp, {"literal"}),
    Up("forward", {"addr"}, NoUp, {"literal"}),
    Up("socks5", {"addr"}, NoUp, {"malformed"}),
    Up("openconnect", {"server", "username", "tun"}, NoUp, {"literal"}),
    Up("http", {"url"}, NoUp, {"literal"}),
    Up("socks5", {"addr"}, "a", {"literal"}),
    Up("direct", {"tun"}, NoUp, {"literal"}),
    Up("ssh", {"host"}, NoUp, {"literal"}),
    Up("ssh", {"host", "keyFile", "hostKey"}, NoUp, {"literal"}),
    Up("ssh", {"host", "keyFile", "passphrase"}, "c", {"cmd"}),
    Up("forward", {"addr", "socks5Listen"}, NoUp, {"literal"}),
    Up("other", {}, NoUp, {"literal"}) }

Exact(name) == [form |-> "exact", name |-> name]
Suffix(name) == [form |-> "suffix", name |-> name]
Patterns == {Exact(<<"x", "corp">>), Exact(<<"X", "corp">>), Suffix(<<"corp">>),
             Suffix(<<"x", "corp">>), [form |-> "bad", name |-> <<"y">>]}

Rule(p, up) == [pattern |-> p, up |-> up]
Listener(addr, type, up, target) ==
    [addr |-> addr, type |-> type, up |-> up, target |-> target]

Full == [version |-> "1", listen |-> "p0",
         ups |-> [a |-> Vpn, b |-> Ssh("a"), c |-> Http],
         rules |-> <<Rule(Suffix(<<"corp">>), "b")>>,
         listeners |-> <<Listener("p1", "socks5", "b", "none"),
                         Listener("p2", "tcp", NoUp, "full")>>]

UpFiles == {[Full EXCEPT !.ups = [a |-> u, b |-> v, c |-> w]] :
               u \in Ups, v \in {Ssh("a"), Ssh("c"), Vpn}, w \in Ups \ {Vpn}}

RuleFiles ==
    {[Full EXCEPT !.rules = <<Rule(p, "a"), Rule(q, "b"), Rule(r, "c")>>] :
        p \in Patterns, q \in Patterns, r \in Patterns}
    \cup {[Full EXCEPT !.rules = <<>>],
          [Full EXCEPT !.rules = <<Rule(Suffix(<<"corp">>), "d")>>]}

ListenerFiles ==
    {[Full EXCEPT !.listeners = <<Listener(x, t, u, g), Listener("p2", "socks5", "a", "none")>>] :
        x \in {"p0", "p1", "p2"}, t \in {"socks5", "tcp", "other"},
        u \in {"a", "d", NoUp}, g \in {"none", "full", "bad"}}

MCFiles == {NoUp, [Full EXCEPT !.version = "other"]} \cup UpFiles \cup RuleFiles \cup ListenerFiles

Flags(listen, ups, rules) == [listen |-> listen, ups |-> ups, rules |-> rules]
UpFlag(name, scheme, rest) == [name |-> name, scheme |-> scheme, rest |-> rest]

MCFlagSets == {
    Flags(NoUp, <<>>, <<>>),
    Flags("p1", <<>>, <<>>),
    Flags(NoUp, <<UpFlag("a", "forward", "full")>>, <<>>),
    Flags(NoUp, <<UpFlag("a", "http", "empty"), UpFlag("a", "socks5", "full")>>,
          <<Rule(Exact(<<"X", "corp">>), "a")>>),
    Flags(NoUp, <<UpFlag("a", "ssh", "full")>>, <<Rule(Suffix(<<"corp">>), "a")>>),
    Flags(NoUp, <<UpFlag("a", "other", "full")>>, <<>>) }

MCMachines == {Tools, Tools \ {"op", "plainkey"}, Tools \ {"agent", "unlocks"},
               Tools \ {"ocproxy", "security"}}

MCLower == [l \in {"x", "X", "corp", "y", "cut", "::1"} |-> IF l = "X" THEN "x" ELSE l]

MCHosts ==
    {[name |-> n, form |-> "name"] :
        n \in {<<"x", "corp">>, <<"X", "corp">>, <<"y", "x", "corp">>, <<"corp">>, <<"y">>}}
    \cup {[name |-> <<"::1">>, form |-> "ip6"]}

=============================================================================
