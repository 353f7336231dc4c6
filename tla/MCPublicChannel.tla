-------------------------- MODULE MCPublicChannel --------------------------
(* Instances of PublicChannel for TLC.                                     *)
EXTENDS PublicChannel, TLC

TwoMessages == 1..2
CallerSymmetry == Permutations(Callers)

\* Overlapping calls of the owner while a subscriber catches up.
Sync == [page |-> 2, chunk |-> 1, ids |-> {1, 2}, calls |-> 2, loop |-> TRUE,
         sources |-> {Owner}, lastSeen |-> {0, 1},
         ops |-> {"create", "update", "delete", "subscribe", "sync"},
         faults |-> {"rpc", "loss"}, budget |-> 1, attempts |-> 1]
\* A store push per change, and the exchange with a peer that connects.
Push == [Sync EXCEPT !.page = 1, !.ids = {1}, !.calls = 1, !.loop = FALSE, !.sources = Nodes,
             !.lastSeen = {0}, !.faults = {"push", "crash"},
             !.ops = {"create", "update", "push", "subscribe", "unsubscribe", "exchange"}]
\* A profile with a retention time, and the history loaded on request.
History == [Push EXCEPT !.faults = {"crash"},
                !.ops = {"create", "update", "profile", "retention", "subscribe", "load", "exchange"}]
Safety == {Sync, Push, History}
\* Overlapping edits of the owner on a channel that limits the age of messages.
Edits == {[Sync EXCEPT !.loop = FALSE, !.faults = {},
               !.ops = {"create", "update", "profile", "retention"}]}

Live == {[Sync EXCEPT !.page = 1, !.ids = {1}, !.calls = 1, !.attempts = 2,
              !.ops = {"create", "update", "subscribe", "sync", "provide"},
              !.faults = {"rpc", "loss", "provide"}]}

=============================================================================
