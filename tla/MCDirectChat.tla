---------------------------- MODULE MCDirectChat ----------------------------
(***************************************************************************)
(* Instances of DirectChat for TLC.                                        *)
(***************************************************************************)
EXTENDS DirectChat, TLC

CONSTANTS m1, m2, m3

\* Messages and goroutines of the receiver are interchangeable.
Symmetry == Permutations(Msgs) \cup Permutations(Handlers)

\* Nothing but the first transmission of the given messages.
Plain(ms) ==
    [msgs |-> ms, backlog |-> <<>>, calls |-> 1, revocable |-> {}, workers |-> {}, handlers |-> 1,
     offline |-> FALSE, syncs |-> 0, faults |-> {}, crashes |-> 0]

\* Three calls that overlap, and a crash: their numbers, without the receiver.
Overlap == [Plain(Msgs) EXCEPT !.calls = 3, !.handlers = 0, !.crashes = 1]
\* What two overlapping calls do to two goroutines of the receiver, to its own sync,
\* and to a sender that dies.
Crossing == [Plain({m1, m2}) EXCEPT !.calls = 2, !.handlers = 2, !.faults = {"sync"}]
Answer == [Crossing EXCEPT !.handlers = 1, !.syncs = 1]
Torn == [Plain({m1, m2}) EXCEPT !.calls = 2, !.workers = {"startup"}, !.crashes = 1]
\* A crash of either node while acknowledgements and syncs fail.
Restart == [Torn EXCEPT !.calls = 1, !.syncs = 1, !.faults = {"ack", "sync"}]
OfflineStore == [Plain({m1, m2}) EXCEPT !.handlers = 2, !.offline = TRUE, !.faults = {"send"}]
Revoke(m) == [Plain({m}) EXCEPT !.workers = {"connect"}, !.revocable = {m}, !.faults = {"send"}]
Safety == {Overlap, Crossing, Answer, Torn, Restart, OfflineStore, Revoke(m1)}

GapFill == [Plain({}) EXCEPT !.backlog = <<m1, m2>>, !.workers = {"loop"},
                !.faults = {"sync", "loss"}]
Settle == [Plain({m1}) EXCEPT !.workers = {"loop", "connect"}]
Live == {GapFill, Settle}

=============================================================================
