---------------------------- MODULE ExitPolicy ----------------------------
(***************************************************************************)
(* The exit's policy (internal/exit/policy.go) and the order in which      *)
(* checkBeginPolicy and checkBeginUDPPolicy (internal/exit/service.go)     *)
(* consult it.  Every Check... method takes the read lock on its own, so a *)
(* policy set by the API between two of them is seen by the later ones.    *)
(*                                                                         *)
(* A target is [proto, port, name, addr, answers, upstream]: name is the   *)
(* sequence of the domain's labels, empty for a literal address, addr the  *)
(* class of a literal address, answers what a lookup of the name may give  *)
(* (each a sequence of classes, <<>> for a lookup that fails), and         *)
(* upstream says that it is the exit's own SOCKS5 server.                  *)
(***************************************************************************)
EXTENDS Naturals, Sequences, SequencesExt

\* isPrivateIPv4 ... isLinkLocalIPv6 put an address in one of these classes.
AddressClasses == {"public", "private", "loopback", "link_local"}

CheckPeerAllowed(p, peer) ==
    IF peer \in p.blacklist THEN "peer_blacklisted"
    ELSE IF p.whitelist # {} /\ peer \notin p.whitelist THEN "peer_not_whitelisted"
    ELSE ""

CheckProtocolAllowed(p, proto) == IF proto \in p.protocols THEN "" ELSE "protocol_not_allowed"

CheckPortAllowed(p, port) ==
    IF port \in p.deniedPorts THEN "port_denied"
    ELSE IF p.allowedPorts # {} /\ port \notin p.allowedPorts THEN "port_not_allowed"
    ELSE ""

\* The reason given for an address of a class that is not allowed.
TargetDenied ==
    [private |-> "private_target_denied", loopback |-> "loopback_target_denied",
     link_local |-> "link_local_target_denied"]

CheckTargetIPAllowed(p, class) ==
    IF class = "public" \/ class \in p.allowedClasses THEN "" ELSE TargetDenied[class]

\* DomainMatchSuffix: the suffix itself or anything below it.
DomainMatchSuffix(domain, suffix) == suffix # <<>> /\ IsSuffix(suffix, domain)

Listed(domain, exact, suffixes) ==
    domain \in exact \/ \E s \in suffixes : DomainMatchSuffix(domain, s)

CheckDomainAllowed(p, domain) ==
    IF Listed(domain, p.deniedDomains, p.deniedSuffixes) THEN "domain_denied"
    ELSE IF p.allowedDomains \cup p.allowedSuffixes # {} /\ ~Listed(domain, p.allowedDomains, p.allowedSuffixes)
    THEN "domain_not_allowed"
    ELSE ""

\* What a resolver may answer; each lookup is a question of its own.
Resolved(t) == IF t.name = <<>> THEN {<<t.addr>>} ELSE t.answers

----------------------------------------------------------------------------
(* The rules of checkBeginPolicy that every BEGIN goes through, one for    *)
(* each time the lock is taken.  A name goes through more: RemoteDNS is    *)
(* read, the name is looked up, and each address it resolves to is put to  *)
(* CheckTargetIPAllowed (ExitRemoteDNS, ExitLookup and ExitAddress of      *)
(* Circuit).                                                               *)

Rules == <<"enabled", "accepting", "draining", "peer", "protocol", "port", "target">>

Verdict(rule, p, peer, t) ==
    CASE rule = "enabled"   -> IF p.enabled THEN "" ELSE "exit_disabled"
      [] rule = "accepting" -> IF p.accepting /\ ~p.draining THEN "" ELSE "exit_draining"
      [] rule = "draining"  -> IF p.draining THEN "exit_draining" ELSE ""
      [] rule = "peer"      -> CheckPeerAllowed(p, peer)
      [] rule = "protocol"  -> CheckProtocolAllowed(p, t.proto)
      [] rule = "port"      -> CheckPortAllowed(p, t.port)
      [] rule = "target"    -> IF t.name = <<>> THEN CheckTargetIPAllowed(p, t.addr) ELSE CheckDomainAllowed(p, t.name)

\* No rule binds a TCP stream to the exit's own SOCKS5 server (isLocalSocks5Upstream).
Exempt(t) == t.upstream /\ t.proto = "tcp"

\* What the operator's configuration forbids, clause by clause: the meaning the
\* checks have to implement, whatever their order.
Clauses == {"disabled", "draining", "peer", "protocol", "port", "domain"}
Forbids(p, peer, t) ==
    {c \in Clauses :
        \/ c = "disabled" /\ ~p.enabled
        \/ c = "draining" /\ (p.draining \/ ~p.accepting)
        \/ c = "peer"     /\ (peer \in p.blacklist \/ (p.whitelist # {} /\ peer \notin p.whitelist))
        \/ c = "protocol" /\ t.proto \notin p.protocols
        \/ c = "port"     /\ (t.port \in p.deniedPorts \/ (p.allowedPorts # {} /\ t.port \notin p.allowedPorts))
        \/ /\ c = "domain"
           /\ t.name # <<>>
           /\ \/ Listed(t.name, p.deniedDomains, p.deniedSuffixes)
              \/ /\ p.allowedDomains \cup p.allowedSuffixes # {}
                 /\ ~Listed(t.name, p.allowedDomains, p.allowedSuffixes)}

\* The clause about addresses speaks of one address at a time, and of those a name
\* resolves to only while RemoteDNS is set.
ForbidsAddress(p, class, t) ==
    /\ t.name = <<>> \/ p.remoteDNS
    /\ class # "public" /\ class \notin p.allowedClasses

=============================================================================
