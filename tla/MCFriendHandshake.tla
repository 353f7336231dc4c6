------------------------- MODULE MCFriendHandshake -------------------------
(* Instances of FriendHandshake for TLC.                                    *)
EXTENDS FriendHandshake, TLC

CONSTANTS a, b, r1, r2

Crossing == (r1 :> a @@ r2 :> b)

Some(us) == [u \in Uses |-> IF u \in us THEN 1 ELSE 0]

Mixed == {
    Some({"accept", "reject", "copy", "crash"}),
    Some({"accept", "reject", "block"}),
    Some({"accept", "delete", "text"}),
    Some({"accept", "text", "crash"}),
    Some({"accept", "forget", "copy"}),
    Some({"accept", "loss", "crash", "week"})}

=============================================================================
