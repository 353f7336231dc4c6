---------------------------- MODULE MCGroupChat ----------------------------
(* Instances of GroupChat for TLC.                                          *)
EXTENDS GroupChat, TLC

CONSTANTS a, b, c, m1

OneByB == (m1 :> b)

Pair == [peers |-> {a, b}, roster |-> <<a, b>>, admins |-> {}, ops |-> {}, delegated |-> FALSE,
         races |-> {}, faults |-> {}, top |-> 5]
Control == [Pair EXCEPT !.peers = {a, b, c}, !.top = 6,
                !.ops = {"invite", "accept", "remove", "transfer", "sync"}]
Settle == [Pair EXCEPT !.ops = {"text", "revoke", "title"}, !.faults = FaultNames \ {"crash"}]
\* From the creation of a group to the purge of its records.
Founding == [Pair EXCEPT !.roster = <<>>, !.admins = {b}, !.top = 4, !.faults = {"crash", "loss"},
                 !.ops = {"create", "invite", "accept", "leave", "dissolve", "purge",
                          "text", "revoke"}]
Ageing == [Pair EXCEPT !.admins = {b}, !.ops = {"retention", "revoke", "text"},
               !.faults = {"crash", "loss"}]
Returning == [Pair EXCEPT !.ops = {"leave", "invite", "accept", "dissolve", "purge", "text", "sync"},
                  !.faults = {"crash", "loss"}]

Situations == {Control, Settle, Founding, Ageing, Returning}

=============================================================================
