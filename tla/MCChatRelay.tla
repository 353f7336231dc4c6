---------------------------- MODULE MCChatRelay ----------------------------
(* Instances of ChatRelay for TLC.                                          *)
EXTENDS ChatRelay, TLC

CONSTANTS a, b, r1, r2, m1, m2, m3

BothSend == (m1 :> a @@ m2 :> a @@ m3 :> b)

Scope(ms, fs, n, ages, serial, timely, cap) ==
    [msgs |-> ms, failures |-> fs, faults |-> n, ages |-> ages, serial |-> serial,
     timely |-> timely, perSrc |-> cap, total |-> cap]

Mixed == {
    Scope({m1, m2}, {"connect"}, 1, 1, FALSE, TRUE, 3),
    Scope({m1, m2}, {"connect", "write"}, 1, 0, TRUE, TRUE, 3),
    Scope({m1, m2}, {"handshake", "write"}, 1, 0, FALSE, FALSE, 1),
    Scope({m1}, {"timeout", "frame"}, 1, 1, FALSE, FALSE, 1),
    Scope({m1, m3}, {"restart", "frame"}, 1, 0, FALSE, FALSE, 1)}
Replies == {Scope({m1, m3}, {}, 0, 0, FALSE, TRUE, 3)}

=============================================================================
