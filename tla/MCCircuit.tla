----------------------------- MODULE MCCircuit -----------------------------
(***************************************************************************)
(* Instances of Circuit: a relay r and two relay+exit nodes e1 and e2.     *)
(***************************************************************************)
EXTENDS Circuit, TLC

CONSTANTS r, e1, e2, me, a, b, d, h, g, c1, c2

Node(relay, exit) == [relay |-> relay, exit |-> exit, country |-> "NL", tcp |-> TRUE, dns |-> TRUE]
OneExit == r :> Node(TRUE, FALSE) @@ e1 :> Node(TRUE, TRUE)
TwoExits == OneExit @@ e2 :> Node(TRUE, TRUE)

Selection(direct, mode) ==
    [mode |-> mode, fixedPeer |-> e1, allowed |-> {"NL"}, preferred |-> <<"DE", "NL">>, excludePeers |-> {},
     excludeCountries |-> {}, requireTCP |-> TRUE, requireDNS |-> FALSE, fallback |-> TRUE, allowDirect |-> direct]
DirectOnly == {Selection(TRUE, "country_preferred")}
RelayOnly == {Selection(FALSE, "country_only")}
Mixed == {Selection(TRUE, "fixed_peer"), Selection(FALSE, "country_only")}
AllSelections == DirectOnly \cup Mixed

Open == [enabled |-> TRUE, accepting |-> TRUE, draining |-> FALSE, blacklist |-> {}, whitelist |-> {me},
         protocols |-> {"tcp", "udp"}, deniedPorts |-> {25}, allowedPorts |-> {},
         allowedClasses |-> {"private", "loopback"},
         deniedDomains |-> {}, deniedSuffixes |-> {<<"test">>}, allowedDomains |-> {}, allowedSuffixes |-> {},
         remoteDNS |-> TRUE]
Draining == [Open EXCEPT !.draining = TRUE]
NoPorts == [Open EXCEPT !.deniedPorts = {443}]
NoPeer == [Open EXCEPT !.blacklist = {me}]
NoNames == [Open EXCEPT !.deniedSuffixes = {<<"org">>}]
NoLookup == [Open EXCEPT !.remoteDNS = FALSE, !.allowedClasses = {}]
PrivateOnly == [Open EXCEPT !.allowedClasses = {"private"}]
LoopbackOnly == [Open EXCEPT !.allowedClasses = {"loopback"}]
OpenOnly == {Open}
Changing == {Open, NoPorts, NoPeer, Draining}
ChangingTargets == {Open, NoNames, NoLookup, PrivateOnly, LoopbackOnly}
AllPolicies == Changing \cup ChangingTargets

Name == [proto |-> "tcp", port |-> 443, name |-> <<"example", "org">>, addr |-> "public",
            answers |-> {<<"public">>}, upstream |-> FALSE]
\* A literal address for UDP; a name with two addresses; one whose answers
\* differ; the exit's own SOCKS5 server.
Targets ==
    a :> Name
 @@ b :> [Name EXCEPT !.proto = "udp", !.name = <<>>, !.addr = "private"]
 @@ d :> [Name EXCEPT !.answers = {<<"private", "loopback">>}]
 @@ h :> [Name EXCEPT !.answers = {<<"loopback">>, <<"private">>, <<>>}]
 @@ g :> [Name EXCEPT !.name = <<>>, !.addr = "loopback", !.upstream = TRUE]

Scope(apps, circuits, buildRetries, beginRetries, chunks, nFaults, nChanges, selections, policies) ==
    [apps |-> apps, circuits |-> circuits, buildRetries |-> buildRetries, beginRetries |-> beginRetries,
     chunks |-> chunks, faults |-> nFaults, changes |-> nChanges, selections |-> selections, policies |-> policies]

\* Two streams share one direct circuit.
Sharing == Scope({a, b}, {c1}, 0, 0, 1, 1, 0, DirectOnly, OpenOnly)
\* One stream, several reads in each direction.
Flowing == Scope({a}, {c1}, 0, 1, 2, 0, 0, DirectOnly, OpenOnly)
\* A stream that no rule binds fails over from one direct circuit to another.
Failover == Scope({g}, {c1, c2}, 1, 1, 1, 1, 0, DirectOnly, OpenOnly)
\* The exit's policy changes, also between the addresses of a name, or while a
\* name is looked up.
PolicyChange == Scope({a}, {c1}, 0, 1, 0, 0, 1, DirectOnly, Changing)
PolicyOfAddress == Scope({b}, {c1}, 0, 0, 0, 0, 2, DirectOnly, ChangingTargets)
PolicyOfName == Scope({d}, {c1}, 0, 0, 0, 0, 2, DirectOnly, ChangingTargets)
PolicyOfLookup == Scope({h}, {c1}, 0, 0, 0, 0, 1, DirectOnly, ChangingTargets)
\* A relayed circuit, and one that two streams share.
Relayed == Scope({a}, {c1}, 0, 1, 0, 1, 0, RelayOnly, OpenOnly)
SharedRelay == Scope({a, b}, {c1}, 0, 0, 0, 0, 0, RelayOnly, OpenOnly)
\* From one kind of circuit to the other, and retried builds.
Switching == Scope({}, {c1, c2}, 1, 0, 0, 0, 1, Mixed, OpenOnly)
\* One read in each direction, for the temporal properties.
Brief == Scope({a}, {c1}, 0, 1, 1, 1, 0, DirectOnly, OpenOnly)

SafetyScopes == {Sharing, Flowing, Failover, PolicyChange, PolicyOfAddress, PolicyOfName, PolicyOfLookup,
                 Relayed, SharedRelay, Switching}
LiveScopes == {Brief, PolicyChange, Relayed}

=============================================================================
