-------------------------- MODULE DirectChatProofs --------------------------
(***************************************************************************)
(* What DirectChat promises, for every number of messages, goroutines,     *)
(* retries, crashes and lost envelopes.                                    *)
(*                                                                         *)
(* The argument has layers: how far the counters can go (RoomInv), which   *)
(* revokes are queued (RevokeInv), what the sender has numbered (SendInv), *)
(* what is under way (Carried), and what the receiver's goroutines know    *)
(* about the messages below a counter (RecvInv) or right before it, when   *)
(* offline items may skip some (StandInv).                                 *)
(***************************************************************************)
EXTENDS DirectChat, FiniteSetTheorems, TLAPS

----------------------------------------------------------------------------
(* How far the counters go.                                                *)

\* The messages whose SendText has gone past UpdateSendCounter.
Past == {m \in Msgs : spc[m] \notin {"new", "read", "added"}}

\* A counter is the number of messages sent before, at most.
Room ==
    /\ sendCounter <= Cardinality(Past)
    /\ \A m \in Msgs : counter[m] < Cardinality(Msgs)
    /\ \A m \in Msgs : spc[m] \in {"read", "added"} => counter[m] <= Cardinality(Past)

\* A goroutine at a step of handleIncomingChatText is in a frame of it.
InText(h) == hpc[h] \in {"load", "store", "ack"}
Shape ==
    \A h \in Handlers :
        /\ InText(h) => Top(h).op # "sync"
        /\ \A i \in 1 .. Len(stack[h]) : stack[h][i].op # "sync" => stack[h][i].msg \in Msgs

\* A worker that is not between two items has one.
Holds == \A w \in Workers : wpc[w] \notin {"idle", "revoke", "recover", "retry"} => wmsg[w] \in Msgs

RoomInv == TypeOK /\ Room /\ Shape /\ Holds

----------------------------------------------------------------------------
(* Revokes.                                                                *)

\* A revoke job belongs to a revoke that has ended, also when it is listed, and
\* the one DeleteRevokeJob is about to delete has been sent.
RevokeInv ==
    /\ RevokeKept
    /\ \A m \in revokeJobs : vpc[m] = "done"
    /\ \A w \in Workers :
        /\ wpc[w] \in {"revoke", "unqueue"} => \A item \in batch[w] : vpc[item[1]] = "done"
        /\ wpc[w] = "unqueue" => vpc[wmsg[w]] = "done" /\ wmsg[w] \notin owed

----------------------------------------------------------------------------
(* What the sender has numbered.                                           *)

\* The message has, or had until it was revoked, a row.
Known(m) == row[m] # "none" \/ vpc[m] # "idle"

\* It has one from InsertOutbound on, and only then.
Rows == \A m \in Msgs : Known(m) <=> Numbered(m)

\* The messages whose SendText has updated the send counter, and that a crash has
\* not cut short.
Counted(m) == spc[m] \notin {"new", "read", "added", "lost", "cut"}

\* One of them has the number n; two messages have it.
Used(n) == \E m \in Msgs : Counted(m) /\ counter[m] = n
Twice(n) == \E i, j \in Msgs : i # j /\ Numbered(i) /\ Numbered(j) /\ counter[i] = n /\ counter[j] = n

\* No number is left out below the send counter or below a number that was given.
\* If the send counter was set back to or below a number in use, two messages have
\* the one before.
Filled ==
    /\ \A n \in 0 .. sendCounter - 1 : Used(n)
    /\ \A m \in Msgs : spc[m] # "new" => \A n \in 0 .. counter[m] - 1 : Used(n)
    /\ \A m \in Msgs :
        (spc[m] # "new" /\ counter[m] > sendCounter) \/ (Counted(m) /\ counter[m] >= sendCounter)
            => Twice(sendCounter - 1)

\* Whatever is numbered after a message that was alone, and that no crash cut short,
\* has a higher number.
Kin(m) == m \in alone /\ spc[m] \notin {"lost", "cut"}
Apart ==
    /\ \A m \in alone : spc[m] # "new"
    /\ \A m \in Msgs : Kin(m) =>
        /\ counter[m] <= sendCounter /\ (Counted(m) => counter[m] < sendCounter)
        /\ \A n \in Msgs : spc[n] \in {"read", "added"} => counter[m] <= counter[n]
    /\ \A m, n \in Msgs : Kin(m) /\ Kin(n) /\ m # n => counter[m] # counter[n]

SendInv == Rows /\ Filled /\ Apart

\* What is under way is a message, or the revoke of one.
FrameKnown(f) == (f.op # "sync" => Known(f.msg)) /\ \A m \in f.todo : Known(m)
Carried ==
    /\ \A m \in wire \cup depot : Known(m)
    /\ depot # {} => Offline
    /\ \A m \in revokes : vpc[m] # "idle"
    /\ \A w \in Workers : wpc[w] = "sending" => Known(wmsg[w])
    /\ \A h \in Handlers : \A i \in 1 .. Len(stack[h]) :
          FrameKnown(stack[h][i]) /\ (stack[h][i].op = "offline" => Offline)

----------------------------------------------------------------------------
(* What the receiver knows.                                                *)

\* The receiver has the message, or it was revoked, or the cursor may pass it.
Kept(m) == m \in inbox \/ vpc[m] # "idle" \/ Passable(m)

\* The counter stands right behind a message, and none below it is missing.
Reached(n) == n = 0 \/ \E m \in Msgs : Known(m) /\ counter[m] + 1 = n
Covered(n) == Reached(n) /\ \A m \in Msgs : Known(m) /\ counter[m] < n => Kept(m)

\* What a response lists: at first every message from its cursor on, then those up
\* to the send counter it carries.
Listed(f) == \A m \in Msgs : row[m] # "none" /\ vpc[m] = "idle" /\ counter[m] >= f.at
                                => m \in f.todo \/ Passable(m)
ListedBelow(f) == \A m \in Msgs : Known(m) /\ vpc[m] = "idle" /\ f.at <= counter[m] /\ counter[m] < f.rsc
                                => m \in f.todo \/ Passable(m)

\* What a goroutine at a step knows about its innermost frame.
TopKnows(step, f) ==
    /\ step = "store" => Covered(counter[f.msg])
    /\ step = "ack" => Kept(f.msg)
    /\ step = "served" => Listed(f)
    /\ step = "apply" => Reached(f.rsc) /\ ListedBelow(f)
    /\ step = "jump" => Covered(f.rsc)

Sound ==
    /\ Covered(recvCounter)
    /\ \A n \in triggered : Covered(n)
    /\ \A m \in acks : Known(m) /\ Kept(m)
    /\ \A m \in Msgs : row[m] = "delivered" => Kept(m)
    /\ \A h \in Handlers : \A i \in 1 .. Len(stack[h]) : Covered(stack[h][i].at)
    /\ \A h \in Handlers : TopKnows(hpc[h], Top(h))

RecvInv == ~Offline => Sound

----------------------------------------------------------------------------
(* The stack of a goroutine.                                               *)

\* Goroutine h moves, and its frames are old ones or in S; the others stay.
Grown(h, S) ==
    /\ stack' \in [Handlers -> Seq(Frames)] /\ hpc' \in [Handlers -> HandlerSteps]
    /\ \A g \in Handlers \ {h} : stack'[g] = stack[g] /\ hpc'[g] = hpc[g]
    /\ \A i \in 1 .. Len(stack'[h]) :
        stack'[h][i] \in S \/ \E j \in 1 .. Len(stack[h]) : stack'[h][i] = stack[h][j]
    /\ (hpc'[h] = "idle") = (stack'[h] = <<>>)

\* Counters are natural numbers up to the number of messages.
LEMMA CounterRange ==
  /\ Cardinality(Msgs) \in Nat
  /\ \A n : n \in Counters <=> n \in Nat /\ n <= Cardinality(Msgs)
  /\ 0 \in Counters
<1>1. Cardinality(Msgs) \in Nat
  BY ChatAssumption, FS_CardinalityType
<1> QED BY <1>1 DEF Counters

\* The frames a goroutine starts with.
LEMMA FrameTypes ==
  /\ \A op \in {"text", "offline"}, m \in Msgs : TextFrame(op, m) \in Frames
  /\ \A n \in Counters : SyncFrame(n) \in Frames
  BY CounterRange DEF Frames, TextFrame, SyncFrame

\* Their fields.
LEMMA FrameFields ==
  /\ \A op, m : /\ TextFrame(op, m).op = op /\ TextFrame(op, m).msg = m /\ TextFrame(op, m).at = 0
                /\ TextFrame(op, m).todo = {}
  /\ \A n : /\ SyncFrame(n).op = "sync" /\ SyncFrame(n).at = n /\ SyncFrame(n).todo = {}
  BY DEF TextFrame, SyncFrame

\* The frames that are changed in a field.
LEMMA FrameEdits ==
  ASSUME NEW f \in Frames, NEW v
  PROVE  /\ [f EXCEPT !.at = v].op = f.op /\ [f EXCEPT !.at = v].msg = f.msg
         /\ [f EXCEPT !.at = v].at = v /\ [f EXCEPT !.at = v].todo = f.todo
         /\ [f EXCEPT !.todo = v].op = f.op /\ [f EXCEPT !.todo = v].msg = f.msg
         /\ [f EXCEPT !.todo = v].at = f.at /\ [f EXCEPT !.todo = v].todo = v
         /\ [f EXCEPT !.rsc = v].op = f.op /\ [f EXCEPT !.rsc = v].msg = f.msg
         /\ [f EXCEPT !.rsc = v].at = f.at /\ [f EXCEPT !.rsc = v].todo = f.todo
         /\ [f EXCEPT !.rsc = v].rsc = v
  BY DEF Frames

\* The innermost frame of a sequence of frames becomes f.
LEMMA Replace ==
  ASSUME NEW F, NEW s \in Seq(F), s # <<>>, NEW f \in F
  PROVE  /\ <<f>> \o Tail(s) \in Seq(F) /\ <<f>> \o Tail(s) # <<>> /\ (<<f>> \o Tail(s))[1] = f
         /\ \A i \in 1 .. Len(<<f>> \o Tail(s)) :
              (<<f>> \o Tail(s))[i] \in {f} \/ \E j \in 1 .. Len(s) : (<<f>> \o Tail(s))[i] = s[j]
<1> DEFINE t == <<f>> \o Tail(s)
<1>1. t \in Seq(F) /\ Len(t) = Len(s) /\ t[1] = f /\ \A i \in 1 .. Len(s) : i # 1 => t[i] = s[i]
  OBVIOUS
<1> HIDE DEF t
<1>2. \A i \in 1 .. Len(t) : t[i] \in {f} \/ \E j \in 1 .. Len(s) : t[i] = s[j]
  BY <1>1
<1>3. t # <<>>
  BY <1>1
<1> QED BY <1>1, <1>2, <1>3 DEF t

\* The innermost frame f of a sequence of frames has called g.
LEMMA Push ==
  ASSUME NEW F, NEW s \in Seq(F), s # <<>>, NEW f \in F, NEW g \in F
  PROVE  /\ <<g, f>> \o Tail(s) \in Seq(F) /\ <<g, f>> \o Tail(s) # <<>> /\ (<<g, f>> \o Tail(s))[1] = g
         /\ \A i \in 1 .. Len(<<g, f>> \o Tail(s)) :
              (<<g, f>> \o Tail(s))[i] \in {f, g} \/ \E j \in 1 .. Len(s) : (<<g, f>> \o Tail(s))[i] = s[j]
<1> DEFINE t == <<g, f>> \o Tail(s)
<1>1. /\ t \in Seq(F) /\ Len(t) = Len(s) + 1 /\ t[1] = g /\ t[2] = f
      /\ \A i \in 1 .. Len(s) + 1 : i # 1 /\ i # 2 => t[i] = s[i - 1]
  OBVIOUS
<1> HIDE DEF t
<1>2. ASSUME NEW i \in 1 .. Len(t) PROVE t[i] \in {f, g} \/ \E j \in 1 .. Len(s) : t[i] = s[j]
  <2>1. CASE i = 1 \/ i = 2
    BY <1>1, <2>1
  <2>2. CASE i # 1 /\ i # 2
    <3>1. i - 1 \in 1 .. Len(s) /\ t[i] = s[i - 1]
      BY <1>1, <2>2
    <3> QED BY <3>1
  <2> QED BY <2>1, <2>2
<1>3. t # <<>>
  BY <1>1
<1> QED BY <1>1, <1>2, <1>3 DEF t

\* The innermost frame of a sequence of frames returns.
LEMMA Pop ==
  ASSUME NEW F, NEW s \in Seq(F), s # <<>>
  PROVE  /\ Tail(s) \in Seq(F) /\ Len(Tail(s)) = Len(s) - 1
         /\ \A i \in 1 .. Len(Tail(s)) : i + 1 \in 1 .. Len(s) /\ Tail(s)[i] = s[i + 1]
         /\ \A i \in 1 .. Len(Tail(s)) : \E j \in 1 .. Len(s) : Tail(s)[i] = s[j]
<1>1. /\ Tail(s) \in Seq(F) /\ Len(Tail(s)) = Len(s) - 1
      /\ \A i \in 1 .. Len(Tail(s)) : i + 1 \in 1 .. Len(s) /\ Tail(s)[i] = s[i + 1]
  OBVIOUS
<1> QED BY <1>1

\* Continue, as a move of the stack.
LEMMA ContinueMoves ==
  ASSUME TypeOK, NEW h \in Handlers, hpc[h] # "idle", NEW f \in Frames,
         NEW step \in HandlerSteps \ {"idle"}, Continue(h, f, step)
  PROVE  Grown(h, {f}) /\ Top(h)' = f /\ hpc'[h] = step
<1> DEFINE s == stack[h]
<1>1. s \in Seq(Frames) /\ s # <<>>
  BY DEF TypeOK
<1>2. stack' = [stack EXCEPT ![h] = <<f>> \o Tail(s)] /\ hpc' = [hpc EXCEPT ![h] = step]
  BY DEF Continue
<1> HIDE DEF s
<1>3. <<f>> \o Tail(s) \in Seq(Frames) /\ <<f>> \o Tail(s) # <<>>
  BY <1>1, Replace
<1>4. /\ stack' \in [Handlers -> Seq(Frames)] /\ stack'[h] = <<f>> \o Tail(s)
      /\ hpc' \in [Handlers -> HandlerSteps] /\ hpc'[h] = step
      /\ \A g \in Handlers \ {h} : stack'[g] = stack[g] /\ hpc'[g] = hpc[g]
  BY <1>2, <1>3 DEF TypeOK
<1>5. stack'[h][1] = f /\ \A i \in 1 .. Len(stack'[h]) : stack'[h][i] \in {f} \/ \E j \in 1 .. Len(s) : stack'[h][i] = s[j]
  BY <1>1, <1>4, Replace
<1> QED BY <1>3, <1>4, <1>5 DEF Grown, Top, s

\* Call, as a move of the stack.
LEMMA CallMoves ==
  ASSUME TypeOK, NEW h \in Handlers, hpc[h] # "idle", NEW f \in Frames, NEW k \in Frames,
         NEW step \in HandlerSteps \ {"idle"}, Call(h, f, k, step)
  PROVE  Grown(h, {f, k}) /\ Top(h)' = k /\ hpc'[h] = step
<1> DEFINE s == stack[h]
<1>1. s \in Seq(Frames) /\ s # <<>>
  BY DEF TypeOK
<1>2. stack' = [stack EXCEPT ![h] = <<k, f>> \o Tail(s)] /\ hpc' = [hpc EXCEPT ![h] = step]
  BY DEF Call
<1> HIDE DEF s
<1>3. <<k, f>> \o Tail(s) \in Seq(Frames) /\ <<k, f>> \o Tail(s) # <<>>
  BY <1>1, Push
<1>4. /\ stack' \in [Handlers -> Seq(Frames)] /\ stack'[h] = <<k, f>> \o Tail(s)
      /\ hpc' \in [Handlers -> HandlerSteps] /\ hpc'[h] = step
      /\ \A g \in Handlers \ {h} : stack'[g] = stack[g] /\ hpc'[g] = hpc[g]
  BY <1>2, <1>3 DEF TypeOK
<1>5. stack'[h][1] = k /\ \A i \in 1 .. Len(stack'[h]) : stack'[h][i] \in {f, k} \/ \E j \in 1 .. Len(s) : stack'[h][i] = s[j]
  BY <1>1, <1>4, Push
<1> QED BY <1>3, <1>4, <1>5 DEF Grown, Top, s

\* Start, as a move of the stack.
LEMMA StartMoves ==
  ASSUME TypeOK, NEW h \in Handlers, NEW f \in Frames,
         NEW step \in HandlerSteps \ {"idle"}, Start(h, f, step)
  PROVE  Grown(h, {f}) /\ Top(h)' = f /\ hpc'[h] = step
<1>1. /\ stack' \in [Handlers -> Seq(Frames)] /\ stack'[h] = <<f>>
      /\ hpc' \in [Handlers -> HandlerSteps] /\ hpc'[h] = step
      /\ \A g \in Handlers \ {h} : stack'[g] = stack[g] /\ hpc'[g] = hpc[g]
  BY DEF TypeOK, Start
<1> QED BY <1>1 DEF Grown, Top

\* ReturnOk, as a move of the stack: what is returned to "load" is a text frame.
LEMMA ReturnMoves ==
  ASSUME TypeOK, NEW h \in Handlers, hpc[h] # "idle", ReturnOk(h)
  PROVE  /\ Grown(h, {}) /\ hpc'[h] \in {"idle", "next", "load"}
         /\ hpc'[h] = "load" => Top(h)'.op # "sync"
         /\ UNCHANGED triggered
<1> DEFINE s == stack[h]
<1>1. s \in Seq(Frames) /\ s # <<>>
  BY DEF TypeOK
<1>2. /\ stack' = [stack EXCEPT ![h] = Tail(s)] /\ UNCHANGED triggered
      /\ hpc' = [hpc EXCEPT ![h] = IF Tail(s) = <<>> THEN "idle" ELSE IF Tail(s)[1].op = "sync" THEN "next" ELSE "load"]
  BY DEF ReturnOk, Below
<1> HIDE DEF s
<1>3. Tail(s) \in Seq(Frames) /\ \A i \in 1 .. Len(Tail(s)) : \E j \in 1 .. Len(s) : Tail(s)[i] = s[j]
  BY <1>1, Pop
<1>4. /\ stack' \in [Handlers -> Seq(Frames)] /\ stack'[h] = Tail(s)
      /\ hpc' \in [Handlers -> HandlerSteps] /\ hpc'[h] \in {"idle", "next", "load"}
      /\ (hpc'[h] = "idle") = (Tail(s) = <<>>) /\ (hpc'[h] = "load" => Tail(s)[1].op # "sync")
      /\ \A g \in Handlers \ {h} : stack'[g] = stack[g] /\ hpc'[g] = hpc[g]
  BY <1>2, <1>3 DEF TypeOK, HandlerSteps
<1>5. \A i \in 1 .. Len(stack'[h]) : \E j \in 1 .. Len(s) : stack'[h][i] = s[j]
  BY <1>3, <1>4
<1>6. hpc'[h] = "load" => Top(h)'.op # "sync"
  BY <1>4 DEF Top
<1>7. Grown(h, {})
  BY <1>4, <1>5 DEF Grown, s
<1> QED BY <1>2, <1>4, <1>6, <1>7

\* ReturnErr, as a move of the stack: what it triggers are cursors of the frames left.
LEMMA ErrorMoves ==
  ASSUME TypeOK, NEW h \in Handlers, hpc[h] # "idle", ReturnErr(h)
  PROVE  /\ Grown(h, {}) /\ hpc'[h] = "idle"
         /\ \A n \in triggered' : n \in triggered \/ \E j \in 1 .. Len(stack[h]) : n = stack[h][j].at
<1> DEFINE s == stack[h]
<1>1. s \in Seq(Frames) /\ s # <<>>
  BY DEF TypeOK
<1>2. \A i \in 1 .. Len(Tail(s)) : \E j \in 1 .. Len(s) : Tail(s)[i] = s[j]
  BY <1>1, Pop
<1>3. \A n \in triggered' : n \in triggered \/ \E i \in 1 .. Len(Tail(s)) : n = Tail(s)[i].at
  BY DEF ReturnErr, Below
<1>4. \A n \in triggered' : n \in triggered \/ \E j \in 1 .. Len(s) : n = s[j].at
  BY <1>2, <1>3
<1>5. /\ stack' \in [Handlers -> Seq(Frames)] /\ stack'[h] = <<>>
      /\ hpc' \in [Handlers -> HandlerSteps] /\ hpc'[h] = "idle"
      /\ \A g \in Handlers \ {h} : stack'[g] = stack[g] /\ hpc'[g] = hpc[g]
  BY DEF TypeOK, ReturnErr, HandlerSteps
<1>6. \A i \in 1 .. Len(stack'[h]) : FALSE
  BY <1>5
<1>7. Grown(h, {})
  BY <1>5, <1>6 DEF Grown
<1> QED BY <1>4, <1>5, <1>7

----------------------------------------------------------------------------
(* The steps of a goroutine of the receiver, as moves of its stack.        *)

Moved(h, S, f, step) == Grown(h, S) /\ Top(h)' = f /\ hpc'[h] = step
Returned(h) == /\ Grown(h, {}) /\ hpc'[h] \in {"idle", "next", "load"}
               /\ hpc'[h] = "load" => Top(h)'.op # "sync"

\* A step that neither stores nor acknowledges nor moves the cursor.
Entered(h) ==
    \/ \E m \in wire : Moved(h, {TextFrame("text", m)}, TextFrame("text", m), "load") /\ UNCHANGED triggered
    \/ \E m \in depot : Moved(h, {TextFrame("offline", m)}, TextFrame("offline", m), "load") /\ UNCHANGED triggered
    \/ \E n \in triggered \cup {recvCounter} :
          Moved(h, {SyncFrame(n)}, SyncFrame(n), "request") /\ triggered' \subseteq triggered
Loaded(h) ==
    LET f == Top(h) IN
    /\ hpc[h] = "load" /\ UNCHANGED triggered
    /\ \/ Returned(h)
       \/ counter[f.msg] < recvCounter /\ Moved(h, {f}, f, "ack")
       \/ Moved(h, {[f EXCEPT !.at = recvCounter], SyncFrame(recvCounter)}, SyncFrame(recvCounter), "request")
       \/ (counter[f.msg] = recvCounter \/ f.op = "offline") /\ Moved(h, {f}, f, "store")
Synced(h) ==
    LET f == Top(h) IN
    UNCHANGED triggered /\
    \/ hpc[h] = "request" /\ Moved(h, {[f EXCEPT !.todo = SyncItems(f.at)]}, [f EXCEPT !.todo = SyncItems(f.at)], "served")
    \/ hpc[h] = "served" /\ Moved(h, {[f EXCEPT !.rsc = sendCounter]}, [f EXCEPT !.rsc = sendCounter], "apply")
    \/ hpc[h] = "apply" /\ f.todo = {} /\ f.rsc > recvCounter /\ Moved(h, {f}, f, "jump")
    \/ hpc[h] = "apply" /\ Moved(h, {f}, f, "next")
    \/ hpc[h] = "next" /\ \E m \in f.todo : Moved(h, {[f EXCEPT !.todo = @ \ {m}], TextFrame("text", m)}, TextFrame("text", m), "load")
    \/ hpc[h] = "next" /\ Moved(h, {f}, f, "round")
    \/ hpc[h] = "round" /\ Moved(h, {SyncFrame(recvCounter)}, SyncFrame(recvCounter), "request")
    \/ hpc[h] = "round" /\ Returned(h)
Erred(h) ==
    /\ Grown(h, {}) /\ hpc'[h] = "idle"
    /\ \A n \in triggered' : n \in triggered \/ \E j \in 1 .. Len(stack[h]) : n = stack[h][j].at

Moves(h) ==
    LET f == Top(h) IN
    \/ UNCHANGED <<recvCounter, inbox, acks>> /\ (Entered(h) \/ Loaded(h) \/ Synced(h) \/ Erred(h))
    \/ /\ hpc[h] = "store" /\ inbox' = inbox \cup {f.msg} /\ recvCounter' = counter[f.msg] + 1
       /\ UNCHANGED <<acks, triggered>> /\ (Returned(h) \/ Moved(h, {f}, f, "ack"))
    \/ /\ hpc[h] = "ack" /\ acks' = acks \cup {f.msg} /\ Returned(h)
       /\ UNCHANGED <<recvCounter, inbox, triggered>>
    \/ /\ hpc[h] = "jump" /\ recvCounter' = f.rsc /\ Moved(h, {f}, f, "round")
       /\ UNCHANGED <<inbox, acks, triggered>>

\* Every step of a goroutine is such a move, and leaves the sender alone.
LEMMA HandlerMoves ==
  ASSUME RoomInv, NEW h \in Handlers, HandlerStep(h)
  PROVE  Moves(h) /\ UNCHANGED <<senderDb, senderThreads, revokes, depot, env>> /\ wire' \subseteq wire
<1> USE DEF HandlerSteps
<1>0. TypeOK /\ Shape
  BY DEF RoomInv
<1>a. ASSUME hpc[h] # "idle" PROVE Top(h) \in Frames
  <2>1. stack[h] \in Seq(Frames) /\ stack[h] # <<>>
    BY <1>0, <1>a DEF TypeOK
  <2> QED BY <2>1 DEF Top
<1>b. ASSUME InText(h) PROVE Top(h).msg \in Msgs
  <2>1. stack[h] \in Seq(Frames) /\ stack[h] # <<>>
    BY <1>0, <1>b DEF TypeOK, InText
  <2>2. 1 \in 1 .. Len(stack[h])
    BY <2>1
  <2> QED BY <1>0, <1>b, <2>2 DEF Shape, Top, InText
<1>c. recvCounter \in Counters /\ sendCounter \in Counters /\ wire \subseteq Msgs /\ depot \subseteq Msgs /\ triggered \subseteq Counters
  BY <1>0 DEF TypeOK
<1>d. SUFFICES Moves(h)
  BY DEF HandlerStep, ReceiveText, FetchOffline, StartSync, LoadState, StoreInbound, SendDeliveryAck, ServeList,
     ServeCounter, SyncFails, ApplyResponse, UpdateRecvCounter, ApplyNext, EndRound, senderDb, senderThreads, env, history, network
<1>1. ASSUME NEW m \in Msgs, ReceiveText(h, m) PROVE Moves(h)
  <2>1. TextFrame("text", m) \in Frames
    BY FrameTypes
  <2>2. Moved(h, {TextFrame("text", m)}, TextFrame("text", m), "load")
    BY <1>0, <1>1, <2>1, StartMoves DEF ReceiveText, Moved
  <2> QED BY <1>1, <2>2 DEF ReceiveText, Moves, Entered
<1>2. ASSUME NEW m \in Msgs, FetchOffline(h, m) PROVE Moves(h)
  <2>1. TextFrame("offline", m) \in Frames
    BY FrameTypes
  <2>2. Moved(h, {TextFrame("offline", m)}, TextFrame("offline", m), "load")
    BY <1>0, <1>2, <2>1, StartMoves DEF FetchOffline, Moved
  <2> QED BY <1>2, <2>2 DEF FetchOffline, Moves, Entered, network
<1>3. CASE StartSync(h)
  <2>1. PICK n \in triggered \cup {recvCounter} : Start(h, SyncFrame(n), "request") /\ triggered' \subseteq triggered
    BY <1>3 DEF StartSync
  <2>2. SyncFrame(n) \in Frames
    BY <1>c, FrameTypes
  <2>3. Moved(h, {SyncFrame(n)}, SyncFrame(n), "request")
    BY <1>0, <2>1, <2>2, StartMoves DEF Moved
  <2>4. UNCHANGED <<recvCounter, inbox, acks>>
    BY <1>3 DEF StartSync, network
  <2> QED BY <2>1, <2>3, <2>4 DEF Moves, Entered
<1>4. CASE LoadState(h)
  <2> DEFINE f == Top(h)
  <2>1. hpc[h] = "load" /\ UNCHANGED <<recvCounter, inbox, acks>> /\ f \in Frames
    BY <1>4, <1>a DEF LoadState, network
  <2>2. [f EXCEPT !.at = recvCounter] \in Frames /\ SyncFrame(recvCounter) \in Frames
    BY <1>c, <2>1, FrameTypes DEF Frames
  <2>3. \/ ReturnOk(h)
        \/ counter[f.msg] < recvCounter /\ Continue(h, f, "ack") /\ UNCHANGED triggered
        \/ Call(h, [f EXCEPT !.at = recvCounter], SyncFrame(recvCounter), "request") /\ UNCHANGED triggered
        \/ (counter[f.msg] = recvCounter \/ f.op = "offline") /\ Continue(h, f, "store") /\ UNCHANGED triggered
    BY <1>4 DEF LoadState, Duplicate
  <2> HIDE DEF f
  <2>4. CASE ReturnOk(h)
    BY <1>0, <2>1, <2>4, ReturnMoves DEF Moves, Loaded, Returned
  <2>5. CASE counter[f.msg] < recvCounter /\ Continue(h, f, "ack") /\ UNCHANGED triggered
    <3>1. Moved(h, {f}, f, "ack")
      BY <1>0, <2>1, <2>5, ContinueMoves DEF Moved
    <3> QED BY <2>1, <2>5, <3>1 DEF Moves, Loaded, f
  <2>6. CASE Call(h, [f EXCEPT !.at = recvCounter], SyncFrame(recvCounter), "request") /\ UNCHANGED triggered
    <3>1. Moved(h, {[f EXCEPT !.at = recvCounter], SyncFrame(recvCounter)}, SyncFrame(recvCounter), "request")
      BY <1>0, <2>1, <2>2, <2>6, CallMoves DEF Moved
    <3> QED BY <2>1, <2>6, <3>1 DEF Moves, Loaded, f
  <2>7. CASE (counter[f.msg] = recvCounter \/ f.op = "offline") /\ Continue(h, f, "store") /\ UNCHANGED triggered
    <3>1. Moved(h, {f}, f, "store")
      BY <1>0, <2>1, <2>7, ContinueMoves DEF Moved
    <3> QED BY <2>1, <2>7, <3>1 DEF Moves, Loaded, f
  <2> QED BY <2>3, <2>4, <2>5, <2>6, <2>7
<1>5. CASE StoreInbound(h)
  <2> DEFINE f == Top(h)
  <2>1. /\ hpc[h] = "store" /\ inbox' = inbox \cup {f.msg} /\ recvCounter' = counter[f.msg] + 1 /\ UNCHANGED acks
        /\ f \in Frames
    BY <1>5, <1>a DEF StoreInbound, NextRecv, network
  <2>2. ReturnOk(h) \/ (Continue(h, f, "ack") /\ UNCHANGED triggered)
    BY <1>5 DEF StoreInbound
  <2> HIDE DEF f
  <2>3. CASE ReturnOk(h)
    <3>1. Returned(h) /\ UNCHANGED triggered
      BY <1>0, <2>1, <2>3, ReturnMoves DEF Returned
    <3> QED BY <2>1, <3>1 DEF Moves, f
  <2>4. CASE Continue(h, f, "ack") /\ UNCHANGED triggered
    <3>1. Moved(h, {f}, f, "ack")
      BY <1>0, <2>1, <2>4, ContinueMoves DEF Moved
    <3> QED BY <2>1, <2>4, <3>1 DEF Moves, f
  <2> QED BY <2>2, <2>3, <2>4
<1>6. ASSUME NEW ok \in BOOLEAN, SendDeliveryAck(h, ok) PROVE Moves(h)
  <2>1. hpc[h] = "ack" /\ UNCHANGED <<recvCounter, inbox>>
    BY <1>6 DEF SendDeliveryAck
  <2>2. CASE ok
    <3>1. acks' = acks \cup {Top(h).msg} /\ ReturnOk(h)
      BY <1>6, <2>2 DEF SendDeliveryAck
    <3>2. Returned(h) /\ UNCHANGED triggered
      BY <1>0, <2>1, <3>1, ReturnMoves DEF Returned
    <3> QED BY <2>1, <3>1, <3>2 DEF Moves
  <2>3. CASE ~ok
    <3>1. acks' = acks /\ ReturnErr(h)
      BY <1>6, <2>3 DEF SendDeliveryAck
    <3>2. Erred(h)
      BY <1>0, <2>1, <3>1, ErrorMoves DEF Erred
    <3> QED BY <2>1, <3>1, <3>2 DEF Moves
  <2> QED BY <2>2, <2>3
<1>7. CASE ServeList(h)
  <2> DEFINE f == [Top(h) EXCEPT !.todo = SyncItems(Top(h).at)]
  <2>1. hpc[h] = "request" /\ Continue(h, f, "served") /\ UNCHANGED <<recvCounter, inbox, acks, triggered>>
    BY <1>7 DEF ServeList, network
  <2>2. f \in Frames
    BY <1>a, <2>1 DEF Frames, SyncItems
  <2> HIDE DEF f
  <2>3. Moved(h, {f}, f, "served")
    BY <1>0, <2>1, <2>2, ContinueMoves DEF Moved
  <2> QED BY <2>1, <2>3 DEF Moves, Synced, f
<1>8. CASE ServeCounter(h)
  <2> DEFINE f == [Top(h) EXCEPT !.rsc = sendCounter]
  <2>1. hpc[h] = "served" /\ Continue(h, f, "apply") /\ UNCHANGED <<recvCounter, inbox, acks, triggered>>
    BY <1>8 DEF ServeCounter, network
  <2>2. f \in Frames
    BY <1>a, <1>c, <2>1 DEF Frames
  <2> HIDE DEF f
  <2>3. Moved(h, {f}, f, "apply")
    BY <1>0, <2>1, <2>2, ContinueMoves DEF Moved
  <2> QED BY <2>1, <2>3 DEF Moves, Synced, f
<1>9. CASE SyncFails(h)
  <2>1. hpc[h] # "idle" /\ ReturnErr(h) /\ UNCHANGED <<recvCounter, inbox, acks>>
    BY <1>9 DEF SyncFails, network
  <2>2. Erred(h)
    BY <1>0, <2>1, ErrorMoves DEF Erred
  <2> QED BY <2>1, <2>2 DEF Moves
<1>10. CASE ApplyResponse(h)
  <2> DEFINE f == Top(h)
  <2>1. /\ hpc[h] = "apply" /\ UNCHANGED <<recvCounter, inbox, acks, triggered>>
        /\ \/ f.todo = {} /\ f.rsc > recvCounter /\ Continue(h, f, "jump")
           \/ Continue(h, f, "next")
    BY <1>10 DEF ApplyResponse, network
  <2>2. f \in Frames
    BY <1>a, <2>1
  <2> HIDE DEF f
  <2>3. CASE f.todo = {} /\ f.rsc > recvCounter /\ Continue(h, f, "jump")
    <3>1. Moved(h, {f}, f, "jump")
      BY <1>0, <2>1, <2>2, <2>3, ContinueMoves DEF Moved
    <3> QED BY <2>1, <2>3, <3>1 DEF Moves, Synced, f
  <2>4. CASE Continue(h, f, "next")
    <3>1. Moved(h, {f}, f, "next")
      BY <1>0, <2>1, <2>2, <2>4, ContinueMoves DEF Moved
    <3> QED BY <2>1, <3>1 DEF Moves, Synced, f
  <2> QED BY <2>1, <2>3, <2>4
<1>11. CASE UpdateRecvCounter(h)
  <2> DEFINE f == Top(h)
  <2>1. /\ hpc[h] = "jump" /\ UNCHANGED <<inbox, acks, triggered>> /\ recvCounter' = f.rsc /\ Continue(h, f, "round")
    BY <1>11 DEF UpdateRecvCounter, network
  <2>2. f \in Frames
    BY <1>a, <2>1
  <2> HIDE DEF f
  <2>3. Moved(h, {f}, f, "round")
    BY <1>0, <2>1, <2>2, ContinueMoves DEF Moved
  <2> QED BY <2>1, <2>3 DEF Moves, f
<1>12. CASE ApplyNext(h)
  <2> DEFINE f == Top(h)
             r(m) == [f EXCEPT !.todo = @ \ {m}]
  <2>1. /\ hpc[h] = "next" /\ UNCHANGED <<recvCounter, inbox, acks, triggered>>
        /\ \/ \E m \in f.todo : Call(h, r(m), TextFrame("text", m), "load")
           \/ Continue(h, f, "round")
    BY <1>12 DEF ApplyNext, network
  <2>2. f \in Frames /\ f.todo \subseteq Msgs
    BY <1>a, <2>1 DEF Frames
  <2>3. ASSUME NEW m \in f.todo, Call(h, r(m), TextFrame("text", m), "load") PROVE Moves(h)
    <3>1. r(m) \in Frames /\ TextFrame("text", m) \in Frames
      BY <2>2, FrameTypes DEF Frames
    <3>2. Moved(h, {r(m), TextFrame("text", m)}, TextFrame("text", m), "load")
      <4> HIDE DEF r, f
      <4> QED BY <1>0, <2>1, <2>3, <3>1, CallMoves DEF Moved
    <3> QED BY <2>1, <3>2 DEF Moves, Synced
  <2>4. CASE Continue(h, f, "round")
    <3>1. Moved(h, {f}, f, "round")
      <4> HIDE DEF f
      <4> QED BY <1>0, <2>1, <2>2, <2>4, ContinueMoves DEF Moved
    <3> QED BY <2>1, <3>1 DEF Moves, Synced
  <2> QED BY <2>1, <2>3, <2>4
<1>13. CASE EndRound(h)
  <2>1. /\ hpc[h] = "round" /\ UNCHANGED <<recvCounter, inbox, acks>>
        /\ \/ ReturnOk(h) \/ ReturnErr(h) \/ (Continue(h, SyncFrame(recvCounter), "request") /\ UNCHANGED triggered)
    BY <1>13 DEF EndRound, network
  <2>2. CASE ReturnOk(h)
    BY <1>0, <2>1, <2>2, ReturnMoves DEF Moves, Synced, Returned
  <2>3. CASE ReturnErr(h)
    <3>1. Erred(h)
      BY <1>0, <2>1, <2>3, ErrorMoves DEF Erred
    <3> QED BY <2>1, <3>1 DEF Moves
  <2>4. CASE Continue(h, SyncFrame(recvCounter), "request") /\ UNCHANGED triggered
    <3>1. Moved(h, {SyncFrame(recvCounter)}, SyncFrame(recvCounter), "request")
      BY <1>0, <1>c, <2>1, <2>4, ContinueMoves, FrameTypes DEF Moved
    <3> QED BY <2>1, <2>4, <3>1 DEF Moves, Synced
  <2> QED BY <2>1, <2>2, <2>3, <2>4
<1> QED BY <1>1, <1>2, <1>3, <1>4, <1>5, <1>6, <1>7, <1>8, <1>9, <1>10, <1>11, <1>12, <1>13 DEF HandlerStep

----------------------------------------------------------------------------
(* RoomInv is inductive.                                                   *)

\* No message enters or leaves Past and no counter moves.
LEMMA RoomKept ==
  ASSUME Room, UNCHANGED <<sendCounter, counter>>,
         \A m \in Msgs : /\ spc'[m] \in {"new", "read", "added"} <=> spc[m] \in {"new", "read", "added"}
                         /\ spc'[m] \in {"read", "added"} => spc[m] \in {"read", "added"}
  PROVE  Room'
<1>1. Past' = Past
  BY DEF Past
<1> QED BY <1>1 DEF Room

\* What Past has room for.
LEMMA PastRoom ==
  ASSUME NEW m \in Msgs, m \notin Past
  PROVE  /\ Cardinality(Past) \in Nat /\ Cardinality(Past) < Cardinality(Msgs)
         /\ IsFiniteSet(Past) /\ Cardinality(Past \cup {m}) = Cardinality(Past) + 1
<1> DEFINE P == Past
<1>1. P \subseteq Msgs /\ IsFiniteSet(Msgs) /\ m \notin P
  BY ChatAssumption DEF Past
<1> HIDE DEF P
<1>2. IsFiniteSet(P) /\ Cardinality(P) \in Nat /\ Cardinality(Msgs) \in Nat
  BY <1>1, FS_Subset, FS_CardinalityType
<1>3. Cardinality(P \cup {m}) = Cardinality(P) + 1
  BY <1>1, <1>2, FS_AddElement
<1>4. P \cup {m} \subseteq Msgs
  BY <1>1
<1>5. Cardinality(P \cup {m}) <= Cardinality(Msgs)
  BY <1>1, <1>4, FS_Subset
<1> QED BY <1>2, <1>3, <1>5 DEF P

\* The steps of SendText and completeOutboundDirectSend.
LEMMA RoomSender ==
  ASSUME RoomInv, NEW m \in Msgs, SenderStep(m)
  PROVE  RoomInv'
<1> USE CounterRange
<1>0. TypeOK /\ Room /\ Shape /\ Holds
  BY DEF RoomInv
<1>1. /\ UNCHANGED <<revokeJobs, owed, wpc, wmsg, batch, apc, vpc, acks, revokes, recvCounter, inbox, stack, hpc, triggered, crashes, scope>>
      /\ alone' \subseteq alone \cup {m} /\ missed' \subseteq missed \cup {m}
  BY DEF SenderStep, ReadSendCounter, InsertOutbound, UpdateSendCounter, RegisterJob, CheckLocalOnly, FirstTransmit,
     PersistOutcome, RescheduleJob, senderDb, receiver, env, history, network
<1>2. Shape' /\ Holds'
  BY <1>0, <1>1 DEF Shape, Holds, Top, InText
<1>3. /\ row' \in [Msgs -> RowStates] /\ outbox' \subseteq Msgs /\ spc' \in [Msgs -> SendSteps]
      /\ wire' \subseteq Msgs /\ depot' \subseteq Msgs
  BY <1>0 DEF SenderStep, ReadSendCounter, InsertOutbound, UpdateSendCounter, RegisterJob, CheckLocalOnly, FirstTransmit,
     PersistOutcome, RescheduleJob, senderDb, network, TypeOK, AddMessage, Transmit, SendStep, SendSteps, RowStates
<1>4. SUFFICES sendCounter' \in Counters /\ counter' \in [Msgs -> Counters] /\ Room'
  BY <1>0, <1>1, <1>2, <1>3 DEF RoomInv, TypeOK
<1>5. CASE ReadSendCounter(m)
  <2>1. /\ spc[m] = "new" /\ counter' = [counter EXCEPT ![m] = sendCounter] /\ UNCHANGED sendCounter
        /\ spc' = [spc EXCEPT ![m] = "read"]
    BY <1>5 DEF ReadSendCounter, SendStep
  <2>2. Past' = Past /\ m \notin Past
    BY <1>0, <2>1 DEF Past, TypeOK
  <2>3. sendCounter < Cardinality(Msgs) /\ sendCounter \in Nat
    <3>1. Cardinality(Past) \in Nat /\ Cardinality(Past) < Cardinality(Msgs)
      BY <2>2, PastRoom
    <3>2. sendCounter <= Cardinality(Past) /\ sendCounter \in Nat
      BY <1>0 DEF Room, TypeOK
    <3> QED BY <3>1, <3>2
  <2>4. counter' \in [Msgs -> Counters] /\ counter'[m] = sendCounter /\ \A n \in Msgs : n # m => counter'[n] = counter[n] /\ spc'[n] = spc[n]
    BY <1>0, <2>1 DEF TypeOK
  <2> QED BY <1>0, <2>1, <2>2, <2>3, <2>4 DEF Room, TypeOK
<1>6. CASE UpdateSendCounter(m)
  <2>1. /\ spc[m] = "added" /\ sendCounter' = counter[m] + 1 /\ UNCHANGED counter
        /\ spc' = [spc EXCEPT ![m] = "counted"]
    BY <1>6 DEF UpdateSendCounter, SendStep, NextSend
  <2>2. Past' = Past \cup {m} /\ m \notin Past
    BY <1>0, <2>1 DEF Past, TypeOK
  <2>3. Cardinality(Past') = Cardinality(Past) + 1 /\ Cardinality(Past) \in Nat
    BY <2>2, PastRoom
  <2>4. /\ counter[m] <= Cardinality(Past) /\ counter[m] < Cardinality(Msgs) /\ counter[m] \in Nat
        /\ \A n \in Msgs : spc'[n] \in {"read", "added"} => spc[n] \in {"read", "added"} /\ counter[n] \in Nat
    BY <1>0, <2>1 DEF Room, TypeOK
  <2>5. \A n \in Msgs : spc'[n] \in {"read", "added"} => counter[n] <= Cardinality(Past)
    BY <1>0, <2>4 DEF Room
  <2>6. \A n \in Msgs : spc'[n] \in {"read", "added"} => counter[n] <= Cardinality(Past')
    BY <2>3, <2>4, <2>5
  <2>7. sendCounter' <= Cardinality(Past') /\ sendCounter' \in Counters
    BY <2>1, <2>3, <2>4
  <2> QED BY <1>0, <2>1, <2>6, <2>7 DEF Room, TypeOK
<1>7. CASE ~(ReadSendCounter(m) \/ UpdateSendCounter(m))
  <2>1. /\ UNCHANGED <<sendCounter, counter>>
        /\ \/ \E from \in {"read"} : SendStep(m, from, "added")
           \/ \E from \in {"counted", "spawned", "sending", "sent", "failed", "mark"},
                 to \in {"spawned", "sending", "sent", "failed", "mark", "done"} : SendStep(m, from, to)
    BY <1>7 DEF SenderStep, InsertOutbound, RegisterJob, CheckLocalOnly, FirstTransmit, PersistOutcome, RescheduleJob, senderDb
  <2>2. \A n \in Msgs : /\ spc'[n] \in {"new", "read", "added"} <=> spc[n] \in {"new", "read", "added"}
                        /\ spc'[n] \in {"read", "added"} => spc[n] \in {"read", "added"}
    BY <1>0, <2>1 DEF SendStep, TypeOK
  <2> QED BY <1>0, <2>1, <2>2, RoomKept DEF TypeOK
<1> QED BY <1>5, <1>6, <1>7

\* The resending goroutines.
LEMMA RoomWorker ==
  ASSUME RoomInv, NEW w \in Workers, WorkerStep(w)
  PROVE  RoomInv'
<1>0. TypeOK /\ Room /\ Shape /\ Holds
  BY DEF RoomInv
<1>1. UNCHANGED <<sendCounter, counter, spc, apc, vpc, acks, recvCounter, inbox, stack, hpc, triggered, crashes, scope, alone, missed>>
  BY DEF WorkerStep, Wake, SendPendingRevoke, DeleteRevokeJob, NextPhase, RecoverJob, RequeueRecovered, RetryJob,
     RetryTransmit, RetryPersist, RetryReschedule, senderDb, receiver, env, history, network
<1>2. Shape' /\ Room'
  BY <1>0, <1>1, RoomKept DEF Shape, Top, InText
<1>3. /\ Jobs \subseteq Msgs \X BOOLEAN /\ MissingJobs \subseteq Msgs \X BOOLEAN /\ Items(revokeJobs) \subseteq Msgs \X BOOLEAN
      /\ batch[w] \subseteq Msgs \X BOOLEAN
  <2>1. outbox \subseteq Msgs /\ revokeJobs \subseteq Msgs /\ batch \in [Workers -> SUBSET (Msgs \X BOOLEAN)]
    BY <1>0 DEF TypeOK
  <2>2. \A S \in SUBSET Msgs : Items(S) \subseteq Msgs \X BOOLEAN
    <3>1. ASSUME NEW S \in SUBSET Msgs, NEW item \in Items(S) PROVE item \in Msgs \X BOOLEAN
      <4>1. PICK m \in S : item = <<m, FALSE>>
        BY <3>1 DEF Items
      <4> QED BY <4>1
    <3> QED BY <3>1
  <2>3. ASSUME NEW item \in MissingJobs PROVE item \in Msgs \X BOOLEAN
    <3>1. PICK m \in Msgs : item = <<m, row[m] = "local_only">>
      BY <2>3 DEF MissingJobs
    <3> QED BY <3>1
  <2> QED BY <2>1, <2>2, <2>3 DEF Jobs
<1>4. /\ batch' \in [Workers -> SUBSET (Msgs \X BOOLEAN)] /\ wpc' \in [Workers -> WorkSteps] 
      /\ wmsg' \in [Workers -> Msgs \cup {NoMsg}]
  <2>1. batch \in [Workers -> SUBSET (Msgs \X BOOLEAN)] /\ wmsg \in [Workers -> Msgs \cup {NoMsg}] /\ wpc \in [Workers -> WorkSteps]
    BY <1>0 DEF TypeOK
  <2>2. \E B \in SUBSET (Msgs \X BOOLEAN) : batch' = [batch EXCEPT ![w] = B]
    BY <1>3, <2>1
       DEF WorkerStep, Wake, SendPendingRevoke, DeleteRevokeJob, NextPhase, RecoverJob, RequeueRecovered, RetryJob,
           RetryTransmit, RetryPersist, RetryReschedule, Take, Drop
  <2>3. \E m \in Msgs \cup {NoMsg} : wmsg' = [wmsg EXCEPT ![w] = m]
    <3>1. \A item \in batch[w] : item[1] \in Msgs
      BY <1>3
    <3> QED BY <2>1, <3>1
       DEF WorkerStep, Wake, SendPendingRevoke, DeleteRevokeJob, NextPhase, RecoverJob, RequeueRecovered, RetryJob,
           RetryTransmit, RetryPersist, RetryReschedule, Take, Drop, Release
  <2>4. \E step \in WorkSteps : wpc' = [wpc EXCEPT ![w] = step]
    BY DEF WorkerStep, Wake, SendPendingRevoke, DeleteRevokeJob, NextPhase, RecoverJob, RequeueRecovered, RetryJob,
           RetryTransmit, RetryPersist, RetryReschedule, WorkStep, WorkSteps
  <2> QED BY <2>1, <2>2, <2>3, <2>4
<1>5. wpc'[w] \notin {"idle", "revoke", "recover", "retry"} => wmsg'[w] \in Msgs
  BY <1>0, <1>3
     DEF WorkerStep, Wake, SendPendingRevoke, DeleteRevokeJob, NextPhase, RecoverJob, RequeueRecovered, RetryJob,
         RetryTransmit, RetryPersist, RetryReschedule, WorkStep, Take, Drop, Release, Holds, TypeOK
<1>6. \A v \in Workers : v # w => wpc'[v] = wpc[v] /\ wmsg'[v] = wmsg[v]
  BY <1>0
     DEF WorkerStep, Wake, SendPendingRevoke, DeleteRevokeJob, NextPhase, RecoverJob, RequeueRecovered, RetryJob,
         RetryTransmit, RetryPersist, RetryReschedule, WorkStep, Take, Drop, Release, TypeOK
<1>7. Holds'
  BY <1>0, <1>5, <1>6 DEF Holds
<1>8. wpc[w] \notin {"idle", "revoke", "recover", "retry"} => wmsg[w] \in Msgs
  BY <1>0 DEF Holds
<1>9. row' \in [Msgs -> RowStates]
  BY <1>0
     DEF WorkerStep, Wake, SendPendingRevoke, DeleteRevokeJob, NextPhase, RecoverJob, RequeueRecovered, RetryJob,
         RetryTransmit, RetryPersist, RetryReschedule, UpdateMessageState, TypeOK, RowStates, senderDb
<1>10. outbox' \subseteq Msgs /\ revokeJobs' \subseteq Msgs /\ owed' \subseteq Msgs
  BY <1>0, <1>3, <1>8
     DEF WorkerStep, Wake, SendPendingRevoke, DeleteRevokeJob, NextPhase, RecoverJob, RequeueRecovered, RetryJob,
         RetryTransmit, RetryPersist, RetryReschedule, WorkStep, TypeOK, senderDb
<1>11. wire' \subseteq Msgs /\ depot' \subseteq Msgs /\ revokes' \subseteq Msgs
  BY <1>0, <1>3, <1>8
     DEF WorkerStep, Wake, SendPendingRevoke, DeleteRevokeJob, NextPhase, RecoverJob, RequeueRecovered, RetryJob,
         RetryTransmit, RetryPersist, RetryReschedule, WorkStep, TypeOK, network, Transmit
<1> QED BY <1>0, <1>1, <1>2, <1>4, <1>7, <1>9, <1>10, <1>11 DEF RoomInv, TypeOK

\* Acknowledgements and revokes at the sender.
LEMMA RoomAnswer ==
  ASSUME RoomInv, NEW m \in Msgs, AckStep(m) \/ RevokeMessage(m)
  PROVE  RoomInv'
<1>0. TypeOK /\ Room /\ Shape /\ Holds
  BY DEF RoomInv
<1>1. UNCHANGED <<sendCounter, counter, spc, wpc, wmsg, batch, wire, depot, recvCounter, inbox, stack, hpc, triggered, crashes, scope, alone, missed>>
  BY DEF AckStep, MarkDelivered, DeleteOutboxJob, RevokeMessage, BeginRevoke, SendRevoke, RevokeDeleteJob, RevokeDeleteRow,
     senderDb, receiver, env, history, network
<1>2. Shape' /\ Room' /\ Holds'
  BY <1>0, <1>1, RoomKept DEF Shape, Top, InText, Holds
<1>3. /\ row' \in [Msgs -> RowStates] /\ outbox' \subseteq Msgs /\ revokeJobs' \subseteq Msgs /\ owed' \subseteq Msgs
      /\ acks' \subseteq Msgs /\ revokes' \subseteq Msgs
  BY <1>0
     DEF AckStep, MarkDelivered, DeleteOutboxJob, RevokeMessage, BeginRevoke, SendRevoke, RevokeDeleteJob, RevokeDeleteRow,
         senderDb, network, TypeOK, RowStates
<1>4. apc' \in [Msgs -> {"idle", "delete"}] /\ vpc' \in [Msgs -> {"idle", "send", "unjob", "unrow", "done", "cut"}]
  BY <1>0
     DEF AckStep, MarkDelivered, DeleteOutboxJob, RevokeMessage, BeginRevoke, SendRevoke, RevokeDeleteJob, RevokeDeleteRow,
         RevokeStep, TypeOK
<1> QED BY <1>0, <1>1, <1>2, <1>3, <1>4 DEF RoomInv, TypeOK

\* A goroutine of the receiver.
LEMMA RoomHandler ==
  ASSUME RoomInv, NEW h \in Handlers, HandlerStep(h)
  PROVE  RoomInv'
<1> USE CounterRange
<1>0. TypeOK /\ Room /\ Shape /\ Holds
  BY DEF RoomInv
<1>1. Moves(h) /\ wire' \subseteq wire
      /\ UNCHANGED <<sendCounter, row, counter, outbox, revokeJobs, owed, spc, wpc, wmsg, batch, apc, vpc, revokes, depot, crashes, scope, alone, missed>>
  BY HandlerMoves DEF senderDb, senderThreads, env, history
<1>2. Room' /\ Holds'
  BY <1>0, <1>1, RoomKept DEF Holds
<1>a. ASSUME hpc[h] # "idle" PROVE Top(h) \in Frames /\ 1 \in 1 .. Len(stack[h])
  <2>1. stack[h] \in Seq(Frames) /\ stack[h] # <<>>
    BY <1>0, <1>a DEF TypeOK
  <2> QED BY <2>1 DEF Top
<1>b. ASSUME InText(h) PROVE Top(h).msg \in Msgs
  <2>1. 1 \in 1 .. Len(stack[h])
    BY <1>a, <1>b DEF InText
  <2> QED BY <1>0, <1>b, <2>1 DEF Shape, Top, InText
<1>c. wire \subseteq Msgs /\ depot \subseteq Msgs
  BY <1>0 DEF TypeOK
\* What the new frames and the new step must be.
<1> DEFINE Good(S) == \A f \in S : f.op # "sync" => f.msg \in Msgs
<1>3. ASSUME NEW S, Grown(h, S), Good(S), hpc'[h] \in {"load", "store", "ack"} => Top(h)'.op # "sync",
             recvCounter' \in Counters, inbox' \subseteq Msgs, acks' \subseteq Msgs, triggered' \subseteq Counters
      PROVE  RoomInv'
  <2>1. ASSUME NEW g \in Handlers PROVE /\ InText(g)' => Top(g)'.op # "sync"
                                        /\ \A i \in 1 .. Len(stack'[g]) : stack'[g][i].op # "sync" => stack'[g][i].msg \in Msgs
                                        /\ (hpc'[g] = "idle") = (stack'[g] = <<>>)
    <3>1. CASE g = h
      <4>1. ASSUME NEW i \in 1 .. Len(stack'[h]), stack'[h][i].op # "sync" PROVE stack'[h][i].msg \in Msgs
        <5>1. CASE stack'[h][i] \in S
          BY <1>3, <4>1, <5>1
        <5>2. CASE \E j \in 1 .. Len(stack[h]) : stack'[h][i] = stack[h][j]
          BY <1>0, <4>1, <5>2 DEF Shape
        <5> QED BY <1>3, <5>1, <5>2 DEF Grown
      <4> QED BY <1>3, <3>1, <4>1 DEF Grown, InText
    <3>2. CASE g # h
      <4>1. stack'[g] = stack[g] /\ hpc'[g] = hpc[g]
        BY <1>3, <3>2 DEF Grown
      <4>2. (hpc[g] = "idle") = (stack[g] = <<>>)
        BY <1>0 DEF TypeOK
      <4>3. /\ InText(g) => Top(g).op # "sync"
            /\ \A i \in 1 .. Len(stack[g]) : stack[g][i].op # "sync" => stack[g][i].msg \in Msgs
        BY <1>0 DEF Shape
      <4> QED BY <4>1, <4>2, <4>3 DEF InText, Top
    <3> QED BY <3>1, <3>2
  <2>2. Shape'
    BY <2>1 DEF Shape
  <2>3. TypeOK'
    BY <1>0, <1>1, <1>3, <2>1 DEF TypeOK, Grown
  <2> QED BY <1>2, <2>2, <2>3 DEF RoomInv
<1>4. recvCounter \in Counters /\ inbox \subseteq Msgs /\ acks \subseteq Msgs /\ triggered \subseteq Counters
  BY <1>0 DEF TypeOK
<1>d. ASSUME hpc[h] # "idle", NEW step, Moved(h, {Top(h)}, Top(h), step), step \in {"load", "store", "ack"} => InText(h),
             recvCounter' \in Counters, inbox' \subseteq Msgs, acks' \subseteq Msgs, triggered' \subseteq Counters
      PROVE  RoomInv'
  <2>1. Good({Top(h)})
    <3>1. 1 \in 1 .. Len(stack[h])
      BY <1>a, <1>d
    <3> QED BY <1>0, <3>1 DEF Shape, Top
  <2>2. InText(h) => Top(h).op # "sync"
    BY <1>0 DEF Shape
  <2> QED BY <1>3, <1>d, <2>1, <2>2 DEF Moved
<1>e. ASSUME Returned(h), recvCounter' \in Counters, inbox' \subseteq Msgs, acks' \subseteq Msgs, triggered' \subseteq Counters
      PROVE  RoomInv'
  BY <1>3, <1>e DEF Returned
<1>5. CASE UNCHANGED <<recvCounter, inbox, acks>> /\ Entered(h)
  <2>1. ASSUME NEW m \in wire \cup depot, NEW op \in {"text", "offline"},
               Moved(h, {TextFrame(op, m)}, TextFrame(op, m), "load"), UNCHANGED triggered
        PROVE  RoomInv'
    BY <1>3, <1>4, <1>5, <1>c, <2>1 DEF Moved, TextFrame
  <2>2. ASSUME NEW n \in triggered \cup {recvCounter},
               Moved(h, {SyncFrame(n)}, SyncFrame(n), "request"), triggered' \subseteq triggered
        PROVE  RoomInv'
    BY <1>3, <1>4, <1>5, <2>2 DEF Moved, SyncFrame
  <2> QED BY <1>5, <2>1, <2>2 DEF Entered
<1>6. CASE UNCHANGED <<recvCounter, inbox, acks>> /\ Loaded(h)
  <2> DEFINE f == Top(h)
             r == [f EXCEPT !.at = recvCounter]
  <2>1. hpc[h] = "load" /\ UNCHANGED triggered /\ InText(h)
    BY <1>6 DEF Loaded, InText
  <2>2. CASE Moved(h, {r, SyncFrame(recvCounter)}, SyncFrame(recvCounter), "request")
    <3>1. r.op = f.op /\ r.msg = f.msg /\ f.msg \in Msgs
      BY <1>a, <1>b, <2>1, FrameEdits
    <3> HIDE DEF r
    <3>2. Good({r, SyncFrame(recvCounter)})
      BY <3>1, FrameFields
    <3> HIDE DEF Good
    <3> QED BY <1>3, <1>4, <1>6, <2>1, <2>2, <3>2 DEF Moved
  <2>3. CASE Moved(h, {f}, f, "ack") \/ Moved(h, {f}, f, "store")
    BY <1>4, <1>6, <1>d, <2>1, <2>3
  <2>4. CASE Returned(h)
    BY <1>4, <1>6, <1>e, <2>1, <2>4
  <2> QED BY <1>6, <2>2, <2>3, <2>4 DEF Loaded
<1>7. CASE UNCHANGED <<recvCounter, inbox, acks>> /\ Synced(h)
  <2> DEFINE f == Top(h)
             q == [f EXCEPT !.todo = SyncItems(f.at)]
             r == [f EXCEPT !.rsc = sendCounter]
             t(m) == [f EXCEPT !.todo = @ \ {m}]
  <2>0. UNCHANGED triggered
    BY <1>7 DEF Synced
  <2>1. ASSUME hpc[h] # "idle" PROVE f \in Frames /\ (f.op # "sync" => f.msg \in Msgs)
    BY <1>0, <1>a, <2>1 DEF Shape, Top
  <2>2. ASSUME hpc[h] # "idle", NEW k \in {q, r}, Moved(h, {k}, k, "served") \/ Moved(h, {k}, k, "apply") PROVE RoomInv'
    <3>1. k.op = f.op /\ k.msg = f.msg
      <4>1. q.op = f.op /\ q.msg = f.msg /\ r.op = f.op /\ r.msg = f.msg
        BY <2>1, <2>2, FrameEdits
      <4> HIDE DEF q, r
      <4> QED BY <4>1
    <3> HIDE DEF q, r
    <3> QED BY <1>3, <1>4, <1>7, <2>0, <2>1, <2>2, <3>1 DEF Moved
  <2>3. ASSUME hpc[h] # "idle", NEW step \in {"jump", "next", "round"}, Moved(h, {f}, f, step) PROVE RoomInv'
    BY <1>4, <1>7, <1>d, <2>0, <2>3
  <2>4. ASSUME NEW m \in f.todo, hpc[h] # "idle", Moved(h, {t(m), TextFrame("text", m)}, TextFrame("text", m), "load") PROVE RoomInv'
    <3>1. t(m).op = f.op /\ t(m).msg = f.msg /\ m \in Msgs
      BY <2>1, <2>4, FrameEdits DEF Frames
    <3> HIDE DEF t
    <3>2. Good({t(m), TextFrame("text", m)})
      BY <2>1, <2>4, <3>1, FrameFields
    <3>3. TextFrame("text", m).op # "sync"
      BY FrameFields
    <3> HIDE DEF Good
    <3> QED BY <1>3, <1>4, <1>7, <2>0, <2>4, <3>2, <3>3 DEF Moved
  <2>5. CASE Moved(h, {SyncFrame(recvCounter)}, SyncFrame(recvCounter), "request")
    BY <1>3, <1>4, <1>7, <2>0, <2>5 DEF Moved, SyncFrame
  <2>6. CASE Returned(h)
    BY <1>4, <1>7, <1>e, <2>0, <2>6
  <2>7. \/ hpc[h] # "idle" /\ (Moved(h, {q}, q, "served") \/ Moved(h, {r}, r, "apply"))
        \/ hpc[h] # "idle" /\ \E step \in {"jump", "next", "round"} : Moved(h, {f}, f, step)
        \/ \E m \in f.todo : hpc[h] # "idle" /\ Moved(h, {t(m), TextFrame("text", m)}, TextFrame("text", m), "load")
        \/ Moved(h, {SyncFrame(recvCounter)}, SyncFrame(recvCounter), "request")
        \/ Returned(h)
    BY <1>7 DEF Synced
  <2> HIDE DEF f, q, r, t
  <2> QED BY <2>2, <2>3, <2>4, <2>5, <2>6, <2>7
<1>8. CASE UNCHANGED <<recvCounter, inbox, acks>> /\ Erred(h)
  <2>1. \A j \in 1 .. Len(stack[h]) : stack[h][j].at \in Counters
    <3>1. stack[h] \in Seq(Frames)
      BY <1>0 DEF TypeOK
    <3>2. \A j \in 1 .. Len(stack[h]) : stack[h][j] \in Frames
      BY <3>1
    <3> QED BY <3>2 DEF Frames
  <2>2. triggered' \subseteq Counters
    BY <1>4, <1>8, <2>1 DEF Erred
  <2> QED BY <1>3, <1>4, <1>8, <2>2 DEF Erred
<1>9. CASE /\ hpc[h] = "store" /\ inbox' = inbox \cup {Top(h).msg} /\ recvCounter' = counter[Top(h).msg] + 1
           /\ UNCHANGED <<acks, triggered>> /\ (Returned(h) \/ Moved(h, {Top(h)}, Top(h), "ack"))
  <2>1. Top(h).msg \in Msgs /\ InText(h)
    BY <1>b, <1>9 DEF InText
  <2>2. recvCounter' \in Counters
    <3>1. counter[Top(h).msg] \in Nat /\ counter[Top(h).msg] < Cardinality(Msgs)
      BY <1>0, <2>1 DEF Room, TypeOK
    <3> QED BY <1>9, <3>1
  <2> QED BY <1>4, <1>9, <1>d, <1>e, <2>1, <2>2
<1>10. CASE /\ hpc[h] = "ack" /\ acks' = acks \cup {Top(h).msg} /\ Returned(h)
            /\ UNCHANGED <<recvCounter, inbox, triggered>>
  <2>1. Top(h).msg \in Msgs
    BY <1>b, <1>10 DEF InText
  <2> QED BY <1>4, <1>10, <1>e, <2>1
<1>11. CASE /\ hpc[h] = "jump" /\ recvCounter' = Top(h).rsc /\ Moved(h, {Top(h)}, Top(h), "round")
            /\ UNCHANGED <<inbox, acks, triggered>>
  <2>1. Top(h).rsc \in Counters
    BY <1>a, <1>11 DEF Frames
  <2> QED BY <1>4, <1>11, <1>d, <2>1
<1> QED BY <1>1, <1>5, <1>6, <1>7, <1>8, <1>9, <1>10, <1>11 DEF Moves

\* The crashes, the network and the revokes at the receiver.
LEMMA RoomRest ==
  ASSUME RoomInv, SenderCrash \/ ReceiverCrash \/ \E m \in Msgs : ReceiveRevoke(m) \/ ForgetOffline(m) \/ Lose(m)
  PROVE  RoomInv'
<1>0. TypeOK /\ Room /\ Shape /\ Holds
  BY DEF RoomInv
<1>1. CASE SenderCrash
  <2>1. /\ UNCHANGED <<scope, alone, missed, sendCounter, row, counter, outbox, revokeJobs, owed, wire, acks, revokes, depot,
                       recvCounter, inbox, stack, triggered>>
        /\ crashes' = crashes + 1
        /\ spc' = [m \in Msgs |-> AfterCrash(spc[m])]
        /\ hpc' = [h \in Handlers |-> IF hpc[h] = "served" THEN "request" ELSE hpc[h]]
    BY <1>1 DEF SenderCrash, senderDb, network, history
  <2>2. MissingJobs \subseteq Msgs \X BOOLEAN
    <3>1. ASSUME NEW item \in MissingJobs PROVE item \in Msgs \X BOOLEAN
      <4>1. PICK m \in Msgs : item = <<m, row[m] = "local_only">>
        BY <3>1 DEF MissingJobs
      <4> QED BY <4>1
    <3> QED BY <3>1
  <2>3. /\ wpc' \in [Workers -> WorkSteps] /\ wmsg' \in [Workers -> Msgs \cup {NoMsg}]
        /\ batch' \in [Workers -> SUBSET (Msgs \X BOOLEAN)] /\ Holds'
    BY <1>1, <2>2 DEF SenderCrash, WorkSteps, Holds
  <2>4. apc' \in [Msgs -> {"idle", "delete"}] /\ vpc' \in [Msgs -> {"idle", "send", "unjob", "unrow", "done", "cut"}]
    BY <1>0, <1>1 DEF SenderCrash, TypeOK
  <2>5. spc' \in [Msgs -> SendSteps] /\ hpc' \in [Handlers -> HandlerSteps] /\ crashes' \in Nat
    BY <1>0, <2>1 DEF TypeOK, SendSteps, HandlerSteps, AfterCrash
  <2>6. \A h \in Handlers : /\ (hpc'[h] = "idle") = (stack'[h] = <<>>)
                            /\ hpc'[h] \in {"load", "store", "ack"} => hpc[h] = hpc'[h]
    BY <1>0, <2>1 DEF TypeOK
  <2>7. Shape'
    BY <1>0, <2>1, <2>6 DEF Shape, InText, Top
  <2>8. Room'
    <3> DEFINE P == Past
               Q == Past'
    <3>0. \A m \in Msgs : spc'[m] \notin {"read", "added"} /\ (spc'[m] = "new" => spc[m] = "new")
      BY <2>1 DEF AfterCrash
    <3>1. P \subseteq Q /\ Q \subseteq Msgs /\ IsFiniteSet(Msgs)
      BY <3>0, ChatAssumption DEF Past
    <3> HIDE DEF P, Q
    <3>2. IsFiniteSet(Q)
      BY <3>1, FS_Subset
    <3>3. Cardinality(P) <= Cardinality(Q) /\ Cardinality(P) \in Nat /\ Cardinality(Q) \in Nat
      BY <3>1, <3>2, FS_Subset, FS_CardinalityType
    <3>4. sendCounter \in Nat /\ sendCounter <= Cardinality(P)
      BY <1>0, CounterRange DEF TypeOK, Room, P
    <3>5. sendCounter <= Cardinality(Q)
      BY <3>3, <3>4
    <3> QED BY <1>0, <2>1, <3>0, <3>5 DEF Room, Q
  <2>9. TypeOK'
    BY <1>0, <2>1, <2>3, <2>4, <2>5, <2>6 DEF TypeOK
  <2> QED BY <2>3, <2>7, <2>8, <2>9 DEF RoomInv
<1>2. CASE ReceiverCrash
  <2>1. /\ UNCHANGED <<scope, alone, missed, sendCounter, row, counter, outbox, revokeJobs, owed, spc, wpc, wmsg, batch, apc, vpc, wire, acks, revokes, depot, recvCounter, inbox>>
        /\ crashes' = crashes + 1 /\ triggered' = {}
        /\ stack' = [h \in Handlers |-> <<>>] /\ hpc' = [h \in Handlers |-> "idle"]
    BY <1>2 DEF ReceiverCrash, senderDb, senderThreads, network, history
  <2>2. Room' /\ Holds'
    BY <1>0, <2>1, RoomKept DEF Holds
  <2>3. Shape'
    BY <2>1 DEF Shape, InText
  <2>4. TypeOK'
    BY <1>0, <2>1 DEF TypeOK, HandlerSteps
  <2> QED BY <2>2, <2>3, <2>4 DEF RoomInv
<1>3. ASSUME NEW m \in Msgs, ReceiveRevoke(m) \/ ForgetOffline(m) \/ Lose(m) PROVE RoomInv'
  <2>1. /\ UNCHANGED <<senderDb, senderThreads, recvCounter, stack, hpc, triggered, env>>
        /\ wire' \subseteq wire /\ acks' \subseteq acks /\ revokes' \subseteq revokes /\ depot' \subseteq depot /\ inbox' \subseteq inbox
    BY <1>3 DEF ReceiveRevoke, ForgetOffline, Lose, receiver
  <2>2. Room' /\ Holds' /\ Shape'
    BY <1>0, <2>1, RoomKept DEF Holds, Shape, InText, Top, senderDb, senderThreads
  <2>3. TypeOK'
    BY <1>0, <2>1 DEF TypeOK, senderDb, senderThreads, env, history
  <2> QED BY <2>2, <2>3 DEF RoomInv
<1> QED BY <1>1, <1>2, <1>3

\* The backlog has distinct messages, so it is as long as it has members.
LEMMA BacklogCount ==
  ASSUME scope \in Scopes
  PROVE  /\ Waiting \subseteq Msgs /\ Len(Backlog) \in Nat /\ Cardinality(Waiting) = Len(Backlog)
         /\ Len(Backlog) <= Cardinality(Msgs)
         /\ \A m \in Waiting : \E i \in 1 .. Len(Backlog) : Backlog[i] = m
         /\ \A i, j \in 1 .. Len(Backlog) : Backlog[i] = Backlog[j] => i = j
<1> DEFINE b == Backlog
           D == 1 .. Len(Backlog)
           W == Waiting
<1>1. b \in Seq(Msgs) /\ \A i, j \in D : b[i] = b[j] => i = j
  BY ChatAssumption DEF Scope, Backlog
<1>2. D = DOMAIN b /\ Len(b) \in Nat /\ b \in [D -> Msgs]
  BY <1>1
<1>3. W = {b[i] : i \in D}
  BY <1>2 DEF Waiting
<1> HIDE DEF b, D, W
<1>4. b \in Bijection(D, W)
  BY <1>1, <1>2, <1>3 DEF Bijection, Injection, Surjection, IsInjective
<1>5. IsFiniteSet(D) /\ Cardinality(D) = Len(b)
  BY SMTT(20), <1>2, FS_Interval DEF D, b
<1>6. Cardinality(W) = Len(b)
  BY <1>4, <1>5, FS_Bijection DEF ExistsBijection
<1>7. W \subseteq Msgs
  BY <1>2, <1>3
<1>8. Cardinality(W) <= Cardinality(Msgs)
  BY <1>7, ChatAssumption, FS_Subset
<1> QED BY <1>1, <1>2, <1>3, <1>6, <1>7, <1>8 DEF b, D, W

\* The counters of the backlog are its positions.
LEMMA BacklogCounters ==
  ASSUME Init
  PROVE  /\ \A m \in Waiting : counter[m] + 1 \in 1 .. Len(Backlog) /\ Backlog[counter[m] + 1] = m
         /\ \A m \in Msgs \ Waiting : counter[m] = 0
<1>1. scope \in Scopes
  BY DEF Init
<1>2. ASSUME NEW m \in Waiting PROVE counter[m] + 1 \in 1 .. Len(Backlog) /\ Backlog[counter[m] + 1] = m
  <2> DEFINE i == CHOOSE i \in DOMAIN Backlog : Backlog[i] = m
  <2>1. \E k \in DOMAIN Backlog : Backlog[k] = m
    BY DEF Waiting
  <2>2. DOMAIN Backlog = 1 .. Len(Backlog)
    BY <1>1, ChatAssumption DEF Scope, Backlog
  <2>3. i \in DOMAIN Backlog /\ Backlog[i] = m
    BY <2>1
  <2>4. counter[m] = i - 1
    BY <1>1, BacklogCount DEF Init
  <2> HIDE DEF i
  <2>5. i \in 1 .. Len(Backlog) /\ Len(Backlog) \in Nat
    BY <1>1, <2>2, <2>3, BacklogCount
  <2>6. counter[m] + 1 = i
    BY <2>4, <2>5
  <2> QED BY <2>3, <2>5, <2>6
<1>3. \A m \in Msgs \ Waiting : counter[m] = 0
  BY DEF Init
<1> QED BY <1>2, <1>3

\* RoomInv at the start.
LEMMA RoomInit == ASSUME Init PROVE RoomInv
<1> USE CounterRange
<1>1. scope \in Scopes
  BY DEF Init
<1>2. Past = Waiting
  BY <1>1, BacklogCount DEF Init, Past
<1>3. \A m \in Msgs : counter[m] \in Nat /\ counter[m] < Cardinality(Msgs)
  <2>1. \A m \in Msgs : Cardinality(Msgs) > 0
    <3>1. \A m \in Msgs : Cardinality(Msgs) # 0
      BY ChatAssumption, FS_EmptySet
    <3> QED BY <3>1
  <2>2. Len(Backlog) \in Nat /\ Len(Backlog) <= Cardinality(Msgs)
    BY <1>1, BacklogCount
  <2>3. \A m \in Waiting : counter[m] + 1 \in 1 .. Len(Backlog) /\ counter[m] \in Int
    <3>1. ASSUME NEW m \in Waiting PROVE counter[m] \in Int
      <4>1. PICK i \in 1 .. Len(Backlog) : Backlog[i] = m
        BY <1>1, BacklogCount
      <4>2. DOMAIN Backlog = 1 .. Len(Backlog)
        BY <1>1, ChatAssumption DEF Scope, Backlog
      <4>3. (CHOOSE k \in DOMAIN Backlog : Backlog[k] = m) \in 1 .. Len(Backlog)
        BY <4>1, <4>2
      <4>4. counter[m] = (CHOOSE k \in DOMAIN Backlog : Backlog[k] = m) - 1
        BY <1>1, BacklogCount DEF Init
      <4> QED BY <4>3, <4>4
    <3> QED BY <3>1, BacklogCounters
  <2> QED BY <2>1, <2>2, <2>3, BacklogCounters
<1>4. sendCounter = Cardinality(Past) /\ sendCounter \in Counters
  BY <1>1, <1>2, BacklogCount DEF Init
<1>5. Room
  <2>1. \A m \in Msgs : spc[m] \notin {"read", "added"}
    BY DEF Init
  <2>2. sendCounter <= Cardinality(Past)
    BY <1>4
  <2> QED BY <1>3, <2>1, <2>2 DEF Room
<1>6. counter \in [Msgs -> Counters]
  <2>1. \A m \in Msgs : counter[m] \in Counters
    BY <1>3
  <2> QED BY <2>1 DEF Init
<1>7. row \in [Msgs -> RowStates] /\ spc \in [Msgs -> SendSteps] /\ outbox \subseteq Msgs
  BY <1>1, BacklogCount DEF Init, RowStates, SendSteps
<1>8. \A h \in Handlers : hpc[h] = "idle" /\ stack[h] = <<>>
  BY DEF Init
<1>9. TypeOK
  <2>1. /\ wpc \in [Workers -> WorkSteps] /\ wmsg \in [Workers -> Msgs \cup {NoMsg}]
        /\ batch \in [Workers -> SUBSET (Msgs \X BOOLEAN)] /\ apc \in [Msgs -> {"idle", "delete"}]
        /\ vpc \in [Msgs -> {"idle", "send", "unjob", "unrow", "done", "cut"}]
    BY DEF Init, WorkSteps
  <2>2. stack \in [Handlers -> Seq(Frames)] /\ hpc \in [Handlers -> HandlerSteps]
    BY DEF Init, HandlerSteps
  <2>3. /\ wire = {} /\ acks = {} /\ revokes = {} /\ depot = {} /\ recvCounter = 0 /\ inbox = {} /\ triggered = {}
        /\ crashes = 0 /\ revokeJobs = {} /\ owed = {} /\ alone \subseteq Msgs /\ missed = {}
    BY <1>1, BacklogCount DEF Init
  <2> QED BY <1>1, <1>4, <1>6, <1>7, <1>8, <2>1, <2>2, <2>3 DEF TypeOK
<1>10. Shape /\ Holds
  BY <1>8 DEF Shape, InText, Holds, Init
<1> QED BY <1>5, <1>9, <1>10 DEF RoomInv

\* RoomInv through every step.
LEMMA RoomStep ==
  ASSUME RoomInv, [Next]_vars
  PROVE  RoomInv'
<1>1. CASE UNCHANGED vars
  BY <1>1, RoomKept DEF vars, senderDb, senderThreads, network, receiver, env, history, RoomInv, TypeOK, Shape, Holds, InText, Top
<1>2. CASE Next
  BY <1>2, RoomSender, RoomWorker, RoomAnswer, RoomHandler, RoomRest DEF Next
<1> QED BY <1>1, <1>2

\* Type correctness: the columns of the tables, the steps of the goroutines and
\* their frames; no counter of either node exceeds the number of messages.
THEOREM ChatTypeCorrect == Spec => []TypeOK
<1>1. Init => RoomInv
  BY RoomInit
<1>2. RoomInv /\ [Next]_vars => RoomInv'
  BY RoomStep
<1>3. RoomInv => TypeOK
  BY DEF RoomInv
<1> QED BY <1>1, <1>2, <1>3, PTL DEF Spec

----------------------------------------------------------------------------
(* Revokes.                                                                *)

\* A step that leaves revoke jobs, revokes and the goroutines that send them.
LEMMA RevokeQuiet ==
  ASSUME RevokeInv, UNCHANGED <<revokeJobs, owed, vpc, wpc, wmsg, batch>>
  PROVE  RevokeInv'
  BY DEF RevokeInv, RevokeKept

\* The message of an item of a list.
LEMMA ItemsOf == \A S : \A item \in Items(S) : item[1] \in S
<1>1. ASSUME NEW S, NEW item \in Items(S) PROVE item[1] \in S
  <2>1. PICK m \in S : item = <<m, FALSE>>
    BY DEF Items
  <2> QED BY <2>1
<1> QED BY <1>1

\* RevokeInv is inductive: a listed job cannot be queued again, because the
\* revoke that queued it has ended.
LEMMA RevokeInvStep ==
  ASSUME RoomInv, RevokeInv, [Next]_vars
  PROVE  RevokeInv'
<1>0. TypeOK
  BY DEF RoomInv
<1>1. ASSUME NEW m \in Msgs, SenderStep(m) PROVE RevokeInv'
  BY <1>1, RevokeQuiet
     DEF SenderStep, ReadSendCounter, InsertOutbound, UpdateSendCounter, RegisterJob, CheckLocalOnly, FirstTransmit,
         PersistOutcome, RescheduleJob, senderDb
<1>2. ASSUME NEW m \in Msgs, AckStep(m) PROVE RevokeInv'
  BY <1>2, RevokeQuiet DEF AckStep, MarkDelivered, DeleteOutboxJob
<1>3. ASSUME NEW m \in Msgs, RevokeMessage(m) PROVE RevokeInv'
  <2>1. /\ UNCHANGED <<wpc, wmsg, batch>> /\ vpc[m] # "done" /\ \A n \in Msgs \ {m} : vpc'[n] = vpc[n]
        /\ \/ UNCHANGED <<revokeJobs, owed>>
           \/ vpc'[m] = "done" /\ revokeJobs' = revokeJobs \cup {m} /\ owed' = owed \cup {m}
    BY <1>0, <1>3 DEF RevokeMessage, BeginRevoke, SendRevoke, RevokeDeleteJob, RevokeDeleteRow, RevokeStep, senderDb, TypeOK
  <2>2. \A n \in Msgs : vpc[n] = "done" => vpc'[n] = "done" /\ n # m
    BY <2>1
  <2>3. \A v \in Workers : \A item \in batch[v] : item[1] \in Msgs
    BY <1>0 DEF TypeOK
  <2>4. \A v \in Workers : wpc[v] = "unqueue" => wmsg[v] \in Msgs
    BY DEF RoomInv, Holds
  <2>5. revokeJobs \subseteq Msgs
    BY <1>0 DEF TypeOK
  <2> QED BY <2>1, <2>2, <2>3, <2>4, <2>5 DEF RevokeInv, RevokeKept
<1>4. ASSUME NEW w \in Workers, WorkerStep(w) PROVE RevokeInv'
  <2>1. UNCHANGED vpc /\ \A v \in Workers : v # w => wpc'[v] = wpc[v] /\ wmsg'[v] = wmsg[v] /\ batch'[v] = batch[v]
    BY <1>0, <1>4
       DEF WorkerStep, Wake, SendPendingRevoke, DeleteRevokeJob, NextPhase, RecoverJob, RequeueRecovered, RetryJob,
           RetryTransmit, RetryPersist, RetryReschedule, WorkStep, Take, Drop, Release, TypeOK
  <2>2. CASE SendPendingRevoke(w)
    <3>1. PICK item \in batch[w] :
            \/ /\ wpc[w] = "revoke" /\ wpc'[w] = "unqueue" /\ wmsg'[w] = item[1] /\ owed' = owed \ {item[1]}
            \/ /\ wpc[w] = "revoke" /\ wpc'[w] = "revoke" /\ batch'[w] = {} /\ owed' = owed
      BY <1>0, <2>2 DEF SendPendingRevoke, WorkStep, Take, TypeOK
    <3>2. UNCHANGED revokeJobs /\ batch'[w] \subseteq batch[w]
      BY <1>0, <2>2 DEF SendPendingRevoke, Take, TypeOK
    <3> QED BY <2>1, <3>1, <3>2 DEF RevokeInv, RevokeKept
  <2>3. CASE DeleteRevokeJob(w)
    <3>1. /\ wpc[w] = "unqueue" /\ wpc'[w] = "revoke" /\ batch'[w] = batch[w] /\ revokeJobs' = revokeJobs \ {wmsg[w]}
          /\ UNCHANGED owed
      BY <1>0, <2>3 DEF DeleteRevokeJob, WorkStep, TypeOK
    <3>2. \A item \in batch[w] : vpc[item[1]] = "done"
      BY <3>1 DEF RevokeInv
    <3> QED BY <2>1, <3>1, <3>2 DEF RevokeInv, RevokeKept
  <2>4. CASE ~(SendPendingRevoke(w) \/ DeleteRevokeJob(w))
    <3>1. UNCHANGED <<revokeJobs, owed>> /\ wpc'[w] # "unqueue"
      BY <1>0, <1>4, <2>4
         DEF WorkerStep, Wake, NextPhase, RecoverJob, RequeueRecovered, RetryJob,
             RetryTransmit, RetryPersist, RetryReschedule, WorkStep, senderDb, TypeOK
    <3>2. wpc'[w] = "revoke" => batch'[w] = Items(revokeJobs)
      BY <1>0, <1>4, <2>4
         DEF WorkerStep, Wake, NextPhase, RecoverJob, RequeueRecovered, RetryJob,
             RetryTransmit, RetryPersist, RetryReschedule, WorkStep, TypeOK
    <3>3. \A item \in Items(revokeJobs) : item[1] \in revokeJobs
      BY ItemsOf
    <3> QED BY <2>1, <3>1, <3>2, <3>3 DEF RevokeInv, RevokeKept
  <2> QED BY <2>2, <2>3, <2>4
<1>5. ASSUME NEW h \in Handlers, HandlerStep(h) PROVE RevokeInv'
  BY <1>5, HandlerMoves, RevokeQuiet DEF senderDb, senderThreads
<1>6. ASSUME NEW m \in Msgs, ReceiveRevoke(m) \/ ForgetOffline(m) \/ Lose(m) PROVE RevokeInv'
  BY <1>6, RevokeQuiet DEF ReceiveRevoke, ForgetOffline, Lose, senderDb, senderThreads
<1>7. CASE SenderCrash
  <2>1. /\ UNCHANGED <<revokeJobs, owed>> /\ \A w \in Workers : wpc'[w] \notin {"revoke", "unqueue"}
        /\ \A m \in Msgs : vpc[m] = "done" => vpc'[m] = "done"
    BY <1>7 DEF SenderCrash, senderDb
  <2> QED BY <1>0, <2>1 DEF RevokeInv, RevokeKept, TypeOK
<1>8. CASE ReceiverCrash \/ UNCHANGED vars
  BY <1>8, RevokeQuiet DEF ReceiverCrash, vars, senderDb, senderThreads
<1> QED BY <1>1, <1>2, <1>3, <1>4, <1>5, <1>6, <1>7, <1>8 DEF Next

\* The revoke a peer could not be sent stays queued until a send of it has
\* succeeded, however sends fail and reconnects, revokes and crashes overlap.
THEOREM RevokeKeptAlways == Spec => []RevokeKept
<1>1. Init => RoomInv /\ RevokeInv
  <2>1. Init => RevokeInv
    BY DEF Init, RevokeInv, RevokeKept
  <2> QED BY <2>1, RoomInit
<1>2. RoomInv /\ RevokeInv /\ [Next]_vars => RoomInv' /\ RevokeInv'
  BY RoomStep, RevokeInvStep
<1>3. RevokeInv => RevokeKept
  BY DEF RevokeInv
<1> QED BY <1>1, <1>2, <1>3, PTL DEF Spec

----------------------------------------------------------------------------
(* What the sender has numbered.                                           *)

\* Most steps number nothing, store no new row and forget no revoke.
Late == {"counted", "spawned", "sending", "sent", "failed", "mark"}
Quiet ==
    /\ UNCHANGED <<sendCounter, counter, alone, missed>>
    /\ \A m \in Msgs : /\ Known(m)' <=> Known(m)
                       /\ vpc[m] # "idle" => vpc'[m] # "idle"
                       /\ spc'[m] = spc[m] \/ (spc[m] \in Late /\ spc'[m] \in Late \cup {"done"})

\* The others, and what they change.
Reads(m) ==
    /\ spc[m] = "new" /\ spc' = [spc EXCEPT ![m] = "read"] /\ counter' = [counter EXCEPT ![m] = sendCounter]
    /\ alone' = (IF Uncounted = {} THEN alone \cup {m} ELSE alone)
    /\ UNCHANGED <<sendCounter, row, vpc, missed, receiver, network>>
Inserts(m) ==
    /\ spc[m] = "read" /\ spc' = [spc EXCEPT ![m] = "added"] /\ row' = [row EXCEPT ![m] = "local_only"]
    /\ missed' = (IF \E h \in Handlers : hpc[h] = "served" THEN missed \cup {m} ELSE missed)
    /\ UNCHANGED <<sendCounter, counter, vpc, alone, receiver, network>>
Counts(m) ==
    /\ spc[m] = "added" /\ spc' = [spc EXCEPT ![m] = "counted"] /\ sendCounter' = counter[m] + 1
    /\ UNCHANGED <<counter, row, vpc, alone, missed, receiver, network>>
Crashes ==
    /\ spc' = [m \in Msgs |-> AfterCrash(spc[m])]
    /\ vpc' = [m \in Msgs |-> IF vpc[m] \in {"idle", "done"} THEN vpc[m] ELSE "cut"]
    /\ UNCHANGED <<sendCounter, counter, row, alone, missed, recvCounter, inbox, stack, triggered, network>>
    /\ hpc' = [h \in Handlers |-> IF hpc[h] = "served" THEN "request" ELSE hpc[h]]

\* A step that leaves the counters, the steps of SendText and the history.
LEMMA QuietIf ==
  ASSUME UNCHANGED <<sendCounter, counter, spc, alone, missed>>,
         \A m \in Msgs : /\ row'[m] = "none" <=> row[m] = "none"
                         /\ vpc'[m] = vpc[m]
  PROVE  Quiet
  BY DEF Quiet, Known

\* Every step is one of these.
LEMMA SendMoves ==
  ASSUME RoomInv, Rows, [Next]_vars
  PROVE  UNCHANGED scope /\ (Quiet \/ (\E m \in Msgs : Reads(m) \/ Inserts(m) \/ Counts(m)) \/ Crashes)
<1>0. TypeOK /\ Holds
  BY DEF RoomInv
<1>1. ASSUME NEW m \in Msgs, SenderStep(m)
      PROVE  UNCHANGED scope /\ (Quiet \/ Reads(m) \/ Inserts(m) \/ Counts(m))
  <2>1. CASE ReadSendCounter(m)
    BY <2>1 DEF ReadSendCounter, SendStep, Reads, env, history
  <2>2. CASE InsertOutbound(m)
    BY <2>2 DEF InsertOutbound, SendStep, AddMessage, Inserts, env, history
  <2>3. CASE UpdateSendCounter(m)
    BY <2>3 DEF UpdateSendCounter, SendStep, Counts, NextSend, env, history
  <2>4. CASE RegisterJob(m) \/ CheckLocalOnly(m) \/ (\E ok \in BOOLEAN : FirstTransmit(m, ok)) \/ PersistOutcome(m) \/ RescheduleJob(m)
    <3>1. UNCHANGED <<sendCounter, counter, vpc, scope, alone, missed>>
      BY <2>4 DEF RegisterJob, CheckLocalOnly, FirstTransmit, PersistOutcome, RescheduleJob, senderDb, env, history
    <3>2. /\ spc[m] \in Late /\ spc'[m] \in Late \cup {"done"}
          /\ \A n \in Msgs : n # m => spc'[n] = spc[n] /\ row'[n] = row[n]
          /\ row'[m] = row[m] \/ row'[m] \in {"sent", "queued"}
      BY <1>0, <2>4 DEF RegisterJob, CheckLocalOnly, FirstTransmit, PersistOutcome, RescheduleJob, senderDb, SendStep, AddMessage, TypeOK, Late
    <3>3. Known(m)
      BY <3>2 DEF Rows, Late, Numbered
    <3>4. Known(m)'
      BY <3>1, <3>2, <3>3 DEF Known
    <3>5. \A n \in Msgs : Known(n)' <=> Known(n)
      BY <3>1, <3>2, <3>3, <3>4 DEF Known
    <3> QED BY <3>1, <3>2, <3>5 DEF Quiet
  <2> QED BY <1>1, <2>1, <2>2, <2>3, <2>4 DEF SenderStep
<1>2. ASSUME NEW m \in Msgs, AckStep(m) PROVE UNCHANGED scope /\ Quiet
  <2>1. /\ UNCHANGED <<sendCounter, counter, spc, scope, vpc, alone, missed>>
        /\ \A n \in Msgs : row'[n] = "none" <=> row[n] = "none"
    BY <1>0, <1>2 DEF AckStep, MarkDelivered, DeleteOutboxJob, env, history, TypeOK
  <2> QED BY <2>1, QuietIf
<1>3. ASSUME NEW m \in Msgs, RevokeMessage(m) PROVE UNCHANGED scope /\ Quiet
  <2>1. /\ UNCHANGED <<sendCounter, counter, spc, scope, alone, missed>> /\ vpc'[m] # "idle"
        /\ \A n \in Msgs : n # m => vpc'[n] = vpc[n] /\ row'[n] = row[n]
        /\ row[m] # "none" \/ vpc[m] # "idle"
    BY <1>0, <1>3 DEF RevokeMessage, BeginRevoke, SendRevoke, RevokeDeleteJob, RevokeDeleteRow, RevokeStep, senderDb, TypeOK, env, history
  <2> QED BY <2>1 DEF Quiet, Known
<1>4. ASSUME NEW w \in Workers, WorkerStep(w) PROVE UNCHANGED scope /\ Quiet
  <2>1. /\ UNCHANGED <<sendCounter, counter, spc, scope, vpc, alone, missed>>
        /\ \A n \in Msgs : row'[n] = "none" <=> row[n] = "none"
    BY <1>0, <1>4
       DEF WorkerStep, Wake, SendPendingRevoke, DeleteRevokeJob, NextPhase, RecoverJob, RequeueRecovered, RetryJob,
           RetryTransmit, RetryPersist, RetryReschedule, UpdateMessageState, TypeOK, senderDb, env, history
  <2> QED BY <2>1, QuietIf
<1>5. ASSUME NEW h \in Handlers, HandlerStep(h) PROVE UNCHANGED scope /\ Quiet
  BY <1>5, HandlerMoves, QuietIf DEF senderDb, senderThreads, env, history
<1>6. ASSUME NEW m \in Msgs, ReceiveRevoke(m) \/ ForgetOffline(m) \/ Lose(m) PROVE UNCHANGED scope /\ Quiet
  BY <1>6, QuietIf DEF ReceiveRevoke, ForgetOffline, Lose, senderDb, senderThreads, env, history
<1>7. CASE SenderCrash
  BY <1>7 DEF SenderCrash, Crashes, senderDb, history
<1>8. CASE ReceiverCrash \/ UNCHANGED vars
  BY <1>8, QuietIf DEF ReceiverCrash, vars, senderDb, senderThreads, env, history
<1> QED BY <1>1, <1>2, <1>3, <1>4, <1>5, <1>6, <1>7, <1>8 DEF Next

\* What any step keeps: that a message is numbered, counted, revoked or missed, and
\* its number; the number of a SendText under way, too.
LEMMA KnownStays ==
  ASSUME RoomInv, Rows, [Next]_vars, NEW m \in Msgs
  PROVE  /\ Numbered(m) => Numbered(m)'
         /\ spc[m] # "new" => spc'[m] # "new" /\ counter'[m] = counter[m]
         /\ Counted(m) => Counted(m)'
         /\ vpc[m] # "idle" => vpc'[m] # "idle"
         /\ Numbered(m)' => Numbered(m) \/ Inserts(m)
         /\ m \in missed => m \in missed'
<1>0. TypeOK
  BY DEF RoomInv
<1>1. CASE Quiet
  BY <1>1 DEF Quiet, Numbered, Counted, Late
<1>2. CASE \E n \in Msgs : Reads(n)
  BY <1>0, <1>2 DEF Reads, Numbered, Counted, TypeOK
<1>3. CASE \E n \in Msgs : Inserts(n)
  BY <1>0, <1>3 DEF Inserts, Numbered, Counted, TypeOK
<1>4. CASE \E n \in Msgs : Counts(n)
  BY <1>0, <1>4 DEF Counts, Numbered, Counted, TypeOK
<1>5. CASE Crashes
  BY <1>0, <1>5 DEF Crashes, Numbered, Counted, AfterCrash, TypeOK
<1> QED BY <1>1, <1>2, <1>3, <1>4, <1>5, SendMoves

\* Rows through every step.
LEMMA RowsStep ==
  ASSUME RoomInv, Rows, [Next]_vars
  PROVE  Rows'
<1>0. TypeOK
  BY DEF RoomInv
<1>1. CASE Quiet
  BY <1>1 DEF Quiet, Rows, Numbered, Late
<1>2. CASE \E n \in Msgs : Reads(n)
  BY <1>0, <1>2 DEF Reads, Rows, Numbered, TypeOK, Known
<1>3. CASE \E n \in Msgs : Inserts(n)
  BY <1>0, <1>3 DEF Inserts, Rows, Numbered, TypeOK, Known
<1>4. CASE \E n \in Msgs : Counts(n)
  BY <1>0, <1>4 DEF Counts, Rows, Numbered, TypeOK, Known
<1>5. CASE Crashes
  <2>1. \A m \in Msgs : /\ row'[m] = row[m] /\ (vpc'[m] = "idle" <=> vpc[m] = "idle")
                        /\ spc'[m] \in {"new", "read", "lost"} <=> spc[m] \in {"new", "read", "lost"}
    BY <1>0, <1>5 DEF Crashes, AfterCrash, TypeOK
  <2> QED BY <2>1 DEF Rows, Numbered, Known
<1> QED BY <1>1, <1>2, <1>3, <1>4, <1>5, SendMoves

\* A number that is used stays used.
LEMMA UsedStays ==
  ASSUME RoomInv, Rows, [Next]_vars, NEW n, Used(n)
  PROVE  Used(n)'
<1>1. PICK m \in Msgs : Counted(m) /\ counter[m] = n
  BY DEF Used
<1>2. Counted(m)' /\ counter'[m] = counter[m]
  BY <1>1, KnownStays DEF Counted
<1> QED BY <1>1, <1>2 DEF Used

\* And one that two messages have.
LEMMA TwiceStays ==
  ASSUME RoomInv, Rows, [Next]_vars, NEW n, Twice(n)
  PROVE  Twice(n)'
<1>1. PICK i, j \in Msgs : i # j /\ Numbered(i) /\ Numbered(j) /\ counter[i] = n /\ counter[j] = n
  BY DEF Twice
<1>2. Numbered(i)' /\ Numbered(j)' /\ counter'[i] = counter[i] /\ counter'[j] = counter[j]
  BY <1>1, KnownStays DEF Numbered
<1> QED BY <1>1, <1>2 DEF Twice

\* Filled through every step.  UpdateSendCounter sets the send counter to one more
\* than a number that was read when every number below it was used; if it is set
\* back by that, a message counted meanwhile has the same number.
LEMMA FilledStep ==
  ASSUME RoomInv, Rows, Filled, [Next]_vars
  PROVE  Filled'
<1> USE CounterRange
<1>0. TypeOK
  BY DEF RoomInv
<1>1. sendCounter \in Nat /\ \A m \in Msgs : counter[m] \in Nat
  BY <1>0 DEF TypeOK
<1>2. \A n : /\ Used(n) => Used(n)'
             /\ Twice(n) => Twice(n)'
  BY UsedStays, TwiceStays
<1>a. PICK s : s = sendCounter'
  OBVIOUS
\* What each message must satisfy after the step.
<1>3. SUFFICES /\ \A n \in 0 .. s - 1 : Used(n)'
               /\ \A m \in Msgs : spc'[m] # "new" => \A n \in 0 .. counter'[m] - 1 : Used(n)'
               /\ \A m \in Msgs :
                    (spc'[m] # "new" /\ counter'[m] > s) \/ (Counted(m)' /\ counter'[m] >= s) => Twice(s - 1)'
  BY <1>a DEF Filled, Twice
<1>4. CASE Quiet \/ Crashes \/ \E k \in Msgs : Inserts(k)
  <2>1. s = sendCounter /\ UNCHANGED counter
    BY <1>4, <1>a DEF Quiet, Crashes, Inserts
  <2>2. \A m \in Msgs : (spc'[m] # "new" => spc[m] # "new") /\ (Counted(m)' => Counted(m))
    <3>1. CASE Quiet
      BY <3>1 DEF Quiet, Counted, Late
    <3>2. CASE Crashes
      BY <1>0, <3>2 DEF Crashes, Counted, AfterCrash, TypeOK
    <3>3. CASE \E k \in Msgs : Inserts(k)
      BY <1>0, <3>3 DEF Inserts, Counted, TypeOK
    <3> QED BY <1>4, <3>1, <3>2, <3>3
  <2> QED BY <1>2, <2>1, <2>2 DEF Filled
<1>5. ASSUME NEW k \in Msgs, Reads(k) 
      PROVE  /\ \A n \in 0 .. s - 1 : Used(n)'
             /\ \A m \in Msgs : spc'[m] # "new" => \A n \in 0 .. counter'[m] - 1 : Used(n)'
             /\ \A m \in Msgs :
                  (spc'[m] # "new" /\ counter'[m] > s) \/ (Counted(m)' /\ counter'[m] >= s) => Twice(s - 1)'
  <2>1. /\ s = sendCounter /\ counter'[k] = s /\ ~Counted(k)'
        /\ \A m \in Msgs : m # k => counter'[m] = counter[m] /\ (spc'[m] # "new" => spc[m] # "new") /\ (Counted(m)' => Counted(m))
    BY <1>0, <1>5, <1>a DEF Reads, Counted, TypeOK
  <2>2. \A n \in 0 .. s - 1 : Used(n)'
    BY <1>2, <2>1 DEF Filled
  <2>3. ASSUME NEW m \in Msgs, spc'[m] # "new" PROVE \A n \in 0 .. counter'[m] - 1 : Used(n)'
    BY <1>2, <2>1, <2>2, <2>3 DEF Filled
  <2>4. ASSUME NEW m \in Msgs,
               (spc'[m] # "new" /\ counter'[m] > s) \/ (Counted(m)' /\ counter'[m] >= s)
        PROVE  Twice(s - 1)'
    <3>1. m # k
      BY <1>1, <2>1, <2>4
    <3> QED BY <1>2, <2>1, <2>4, <3>1 DEF Filled
  <2> QED BY <2>2, <2>3, <2>4
<1>6. ASSUME NEW k \in Msgs, Counts(k) 
      PROVE  /\ \A n \in 0 .. s - 1 : Used(n)'
             /\ \A m \in Msgs : spc'[m] # "new" => \A n \in 0 .. counter'[m] - 1 : Used(n)'
             /\ \A m \in Msgs :
                  (spc'[m] # "new" /\ counter'[m] > s) \/ (Counted(m)' /\ counter'[m] >= s) => Twice(s - 1)'
  <2>1. /\ UNCHANGED counter /\ s = counter[k] + 1 /\ Counted(k)' /\ spc[k] # "new" /\ ~Counted(k)
        /\ Numbered(k)' /\ \A m \in Msgs : m # k => (spc'[m] # "new" => spc[m] # "new")
    BY <1>0, <1>6, <1>a DEF Counts, Counted, Numbered, TypeOK
  <2>2. \A m \in Msgs : spc'[m] # "new" => \A n \in 0 .. counter'[m] - 1 : Used(n)'
    BY <1>2, <2>1 DEF Filled
  <2>3. Used(counter[k])'
    BY <2>1 DEF Used
  <2>4. ASSUME NEW n \in 0 .. s - 1 PROVE Used(n)'
    <3>1. n = counter[k] \/ n \in 0 .. counter[k] - 1
      BY <1>1, <2>1, <2>4
    <3> QED BY <1>2, <2>1, <2>3, <3>1 DEF Filled
  <2>5. ASSUME NEW m \in Msgs, spc'[m] # "new", counter'[m] >= s PROVE Twice(s - 1)'
    <3>1. counter[k] \in 0 .. counter[m] - 1 /\ spc[m] # "new"
      BY <1>1, <2>1, <2>5
    <3>2. PICK j \in Msgs : Counted(j) /\ counter[j] = counter[k]
      BY <3>1 DEF Filled, Used
    <3>3. j # k /\ Numbered(j)'
      BY <2>1, <3>2, KnownStays DEF Counted, Numbered
    <3>4. s - 1 = counter[k]
      BY <1>1, <2>1
    <3>5. Twice(counter[k])'
      BY <2>1, <3>2, <3>3 DEF Twice
    <3> QED BY <2>1, <3>4, <3>5
  <2>6. ASSUME NEW m \in Msgs,
               (spc'[m] # "new" /\ counter'[m] > s) \/ (Counted(m)' /\ counter'[m] >= s)
        PROVE  Twice(s - 1)'
    <3>1. spc'[m] # "new" /\ counter'[m] >= s
      BY <1>1, <2>1, <2>6 DEF Counted
    <3> QED BY <2>5, <3>1
  <2> QED BY <2>2, <2>4, <2>6
<1> QED BY <1>4, <1>5, <1>6, SendMoves

\* Apart through every step.  A SendText that reads the counter while no other is
\* between reading and updating it reads more than all numbers counted before.
LEMMA ApartStep ==
  ASSUME RoomInv, Rows, Apart, [Next]_vars
  PROVE  Apart'
<1> USE CounterRange
<1>0. TypeOK
  BY DEF RoomInv
<1>1. sendCounter \in Nat /\ \A m \in Msgs : counter[m] \in Nat
  BY <1>0 DEF TypeOK
<1>2. CASE Quiet
  <2>1. /\ UNCHANGED <<sendCounter, counter, alone>>
        /\ \A m \in Msgs : /\ Kin(m)' <=> Kin(m)
                           /\ Counted(m)' <=> Counted(m)
                           /\ spc'[m] \in {"read", "added"} <=> spc[m] \in {"read", "added"}
                           /\ spc'[m] = "new" => spc[m] = "new"
    BY <1>2 DEF Quiet, Kin, Counted, Late
  <2>2. alone \subseteq Msgs
    BY <1>0 DEF TypeOK
  <2> QED BY <2>1, <2>2 DEF Apart
<1>3. CASE Crashes
  <2>1. /\ UNCHANGED <<sendCounter, counter, alone>>
        /\ \A m \in Msgs : /\ Kin(m)' => Kin(m)
                           /\ Counted(m)' => Counted(m)
                           /\ spc'[m] \notin {"read", "added"} /\ (spc'[m] = "new" => spc[m] = "new")
    BY <1>0, <1>3 DEF Crashes, Kin, Counted, AfterCrash, TypeOK
  <2>2. alone \subseteq Msgs
    BY <1>0 DEF TypeOK
  <2> QED BY <2>1, <2>2 DEF Apart
<1>4. ASSUME NEW k \in Msgs, Reads(k) PROVE Apart'
  <2>1. /\ UNCHANGED sendCounter /\ counter'[k] = sendCounter /\ ~Counted(k)' /\ k \notin alone
        /\ \A m \in Msgs : m # k => /\ counter'[m] = counter[m] /\ spc'[m] = spc[m]
                                    /\ (Kin(m)' <=> Kin(m)) /\ (Counted(m)' <=> Counted(m))
        /\ alone' \subseteq alone \cup {k} /\ spc'[k] = "read"
        /\ Kin(k)' => Uncounted = {}
    BY <1>0, <1>4 DEF Reads, Kin, Counted, TypeOK, Apart
  <2>2. \A m \in Msgs : Kin(m) => counter[m] <= sendCounter /\ (Counted(m) => counter[m] < sendCounter)
    BY DEF Apart
  <2>3. ASSUME Kin(k)'
        PROVE  \A m \in Msgs : (Kin(m) => counter[m] < sendCounter) /\ (m # k => spc'[m] \notin {"read", "added"})
    <3>1. \A m \in Msgs : spc[m] \notin {"read", "added"}
      BY <2>1, <2>3 DEF Uncounted
    <3>2. \A m \in Msgs : Kin(m) => Counted(m)
      BY <3>1 DEF Kin, Counted, Apart
    <3> QED BY <2>1, <2>2, <3>1, <3>2
  <2>4. ASSUME NEW m \in Msgs, Kin(m)'
        PROVE  /\ counter'[m] <= sendCounter' /\ (Counted(m)' => counter'[m] < sendCounter')
               /\ \A n \in Msgs : spc'[n] \in {"read", "added"} => counter'[m] <= counter'[n]
    <3>1. CASE m = k
      BY <1>1, <2>1, <2>3, <2>4, <3>1
    <3>2. CASE m # k
      BY <1>1, <2>1, <2>2, <2>4, <3>2 DEF Apart
    <3> QED BY <3>1, <3>2
  <2>5. ASSUME NEW m \in Msgs, NEW n \in Msgs, Kin(m)', Kin(n)', m # n PROVE counter'[m] # counter'[n]
    <3>1. CASE m # k /\ n # k
      BY <2>1, <2>5, <3>1 DEF Apart
    <3>2. ASSUME NEW x \in Msgs, Kin(k)', x # k, Kin(x)' PROVE counter'[x] # counter'[k]
      <4>1. Kin(x) /\ counter'[x] = counter[x] /\ counter'[k] = sendCounter
        BY <2>1, <3>2
      <4>2. counter[x] < sendCounter
        BY <2>3, <3>2, <4>1
      <4>3. counter[x] \in Nat /\ sendCounter \in Nat
        BY <1>1
      <4>4. counter[x] # sendCounter
        BY <4>2, <4>3
      <4> QED BY <4>1, <4>4
    <3>3. CASE n = k
      BY <2>5, <3>2, <3>3
    <3>4. CASE m = k
      <4>1. counter'[n] # counter'[k]
        BY <2>5, <3>2, <3>4
      <4> QED BY <3>4, <4>1
    <3> QED BY <3>1, <3>3, <3>4
  <2>6. \A m \in alone' : spc'[m] # "new"
    <3>1. alone \subseteq Msgs
      BY <1>0 DEF TypeOK
    <3> QED BY <2>1, <3>1 DEF Apart
  <2> QED BY <2>4, <2>5, <2>6 DEF Apart
<1>5. ASSUME NEW k \in Msgs, Inserts(k) PROVE Apart'
  <2>1. /\ UNCHANGED <<sendCounter, counter, alone>>
        /\ \A m \in Msgs : /\ Kin(m)' <=> Kin(m)
                           /\ Counted(m)' <=> Counted(m)
                           /\ spc'[m] \in {"read", "added"} <=> spc[m] \in {"read", "added"}
                           /\ spc'[m] = "new" => spc[m] = "new"
        /\ alone \subseteq Msgs
    BY <1>0, <1>5 DEF Inserts, Kin, Counted, TypeOK
  <2> QED BY <2>1 DEF Apart
<1>6. ASSUME NEW k \in Msgs, Counts(k) PROVE Apart'
  <2>1. /\ UNCHANGED <<counter, alone>> /\ sendCounter' = counter[k] + 1 /\ spc[k] = "added"
        /\ \A m \in Msgs : /\ Kin(m)' <=> Kin(m)
                           /\ spc'[m] \in {"read", "added"} => spc[m] \in {"read", "added"}
                           /\ spc'[m] = "new" => spc[m] = "new"
        /\ alone \subseteq Msgs
    BY <1>0, <1>6 DEF Counts, Kin, TypeOK
  <2>2. \A m \in Msgs : Kin(m) => counter[m] <= counter[k]
    BY <2>1 DEF Apart
  <2> QED BY <1>1, <2>1, <2>2 DEF Apart
<1> QED BY <1>2, <1>3, <1>4, <1>5, <1>6, SendMoves

\* SendInv is inductive.
LEMMA SendInvStep ==
  ASSUME RoomInv, SendInv, [Next]_vars
  PROVE  SendInv'
  BY RowsStep, FilledStep, ApartStep DEF SendInv

\* SendInv at the start: the backlog is numbered by position.
LEMMA SendInit == ASSUME Init PROVE SendInv
<1>1. scope \in Scopes /\ RoomInv
  BY RoomInit DEF Init
<1>2. \A m \in Msgs : /\ spc[m] = (IF m \in Waiting THEN "done" ELSE "new") /\ (Known(m) <=> m \in Waiting)
                      /\ (Counted(m) <=> m \in Waiting) /\ (Kin(m) <=> m \in Waiting) /\ (Numbered(m) <=> m \in Waiting)
  BY DEF Init, Known, Counted, Kin, Numbered
<1>3. Rows
  BY <1>2 DEF Rows
<1>4. \A m \in Msgs : counter[m] \in Nat
  BY <1>1, CounterRange DEF RoomInv, TypeOK
<1>5. sendCounter = Len(Backlog) /\ Len(Backlog) \in Nat /\ Waiting \subseteq Msgs /\ alone = Waiting
  BY <1>1, BacklogCount DEF Init
<1>6. \A m \in Waiting : counter[m] < sendCounter
  BY <1>4, <1>5, BacklogCounters
<1>7. ASSUME NEW k \in 0 .. sendCounter - 1 PROVE Used(k)
  <2>1. k + 1 \in 1 .. Len(Backlog) /\ k \in Nat
    BY <1>5, <1>7
  <2>2. DOMAIN Backlog = 1 .. Len(Backlog)
    BY <1>1, ChatAssumption DEF Scope, Backlog
  <2> DEFINE m == Backlog[k + 1]
  <2>3. m \in Waiting
    BY <2>1, <2>2 DEF Waiting
  <2>4. counter[m] + 1 \in 1 .. Len(Backlog) /\ Backlog[counter[m] + 1] = m
    BY <2>3, BacklogCounters
  <2>5. counter[m] + 1 = k + 1
    BY <1>1, <2>1, <2>4, BacklogCount
  <2>6. m \in Msgs
    BY <1>5, <2>3
  <2> HIDE DEF m
  <2>7. counter[m] = k
    BY <1>4, <2>1, <2>5, <2>6
  <2> QED BY <1>2, <2>3, <2>6, <2>7 DEF Used
<1>8. Filled
  <2>1. \A m \in Msgs : spc[m] # "new" => \A n \in 0 .. counter[m] - 1 : n \in 0 .. sendCounter - 1
    BY <1>2, <1>4, <1>5, <1>6
  <2>2. \A m \in Msgs : spc[m] # "new" \/ Counted(m) => ~(counter[m] >= sendCounter) /\ ~(counter[m] > sendCounter)
    BY <1>2, <1>4, <1>5, <1>6
  <2> QED BY <1>7, <2>1, <2>2 DEF Filled
<1>9. Apart
  <2>1. \A m, n \in Waiting : counter[m] = counter[n] => m = n
    BY BacklogCounters
  <2>2. \A m \in Waiting : counter[m] <= sendCounter
    BY <1>4, <1>5, <1>6
  <2> QED BY <1>2, <1>5, <1>6, <2>1, <2>2 DEF Apart
<1> QED BY <1>3, <1>8, <1>9 DEF SendInv

\* SendText gives two messages one nonce only if one of them read the counter while
\* another call was between reading and updating it, or was cut by a crash before
\* it counted: however other SendTexts overlap, and however far they set the send
\* counter back, messages that were numbered alone have numbers of their own.
THEOREM NonceSharedByOverlapAlways == Spec => []NonceSharedByOverlap
<1>1. Init => RoomInv /\ SendInv
  BY RoomInit, SendInit
<1>2. RoomInv /\ SendInv /\ [Next]_vars => RoomInv' /\ SendInv'
  BY RoomStep, SendInvStep
<1>3. ASSUME RoomInv, SendInv PROVE NonceSharedByOverlap
  <2>1. ASSUME NEW m \in alone, row[m] # "none", spc[m] # "cut" PROVE m \in Msgs /\ Kin(m)
    BY <1>3, <2>1 DEF RoomInv, TypeOK, SendInv, Rows, Known, Numbered, Kin
  <2> QED BY <1>3, <2>1 DEF NonceSharedByOverlap, SendInv, Apart
<1> QED BY <1>1, <1>2, <1>3, PTL DEF Spec

----------------------------------------------------------------------------
(* What is under way.                                                      *)

\* What a step keeps of a message with a row.
LEMMA KnownOn ==
  ASSUME RoomInv, Rows, [Next]_vars, NEW m \in Msgs
  PROVE  /\ Known(m) => Known(m)' /\ counter'[m] = counter[m] /\ Numbered(m) /\ Numbered(m)'
         /\ Known(m)' => Known(m) \/ Inserts(m)
         /\ vpc[m] # "idle" => vpc'[m] # "idle"
<1>1. Rows'
  BY RowsStep
<1>2. Numbered(m) => spc[m] # "new"
  BY DEF Numbered
<1> QED BY <1>1, <1>2, KnownStays DEF Rows

\* The frames of a step: the old ones, and those of S.
Framed(S) ==
    \A h \in Handlers : \A i \in 1 .. Len(stack'[h]) :
        stack'[h][i] \in S \/ \E j \in 1 .. Len(stack[h]) : stack'[h][i] = stack[h][j]

\* The frames stay known when the new ones are.
LEMMA FramesStay ==
  ASSUME RoomInv, Rows, Carried, [Next]_vars, NEW S, Framed(S),
         \A f \in S : FrameKnown(f)' /\ (f.op = "offline" => Offline)
  PROVE  \A h \in Handlers : \A i \in 1 .. Len(stack'[h]) :
            FrameKnown(stack[h][i])' /\ (stack'[h][i].op = "offline" => Offline')
<1>0. UNCHANGED scope /\ Offline' = Offline
  BY SendMoves DEF Offline
<1>1. ASSUME NEW h \in Handlers, NEW j \in 1 .. Len(stack[h]), NEW f, f = stack[h][j]
      PROVE  FrameKnown(f)' /\ (f.op = "offline" => Offline)
  <2>1. stack[h] \in Seq(Frames)
    BY DEF RoomInv, TypeOK
  <2>2. f \in Frames /\ (f.op # "sync" => f.msg \in Msgs)
    BY <1>1, <2>1 DEF RoomInv, Shape
  <2>3. FrameKnown(f) /\ (f.op = "offline" => Offline)
    BY <1>1 DEF Carried
  <2>4. f.todo \subseteq Msgs
    BY <2>2 DEF Frames
  <2>5. \A m \in Msgs : Known(m) => Known(m)'
    BY KnownOn
  <2> QED BY <2>2, <2>3, <2>4, <2>5 DEF FrameKnown
<1>2. ASSUME NEW h \in Handlers, NEW i \in 1 .. Len(stack'[h])
      PROVE  FrameKnown(stack[h][i])' /\ (stack'[h][i].op = "offline" => Offline')
  <2>1. PICK f : f = stack'[h][i]
    OBVIOUS
  <2>2. FrameKnown(f)' /\ (f.op = "offline" => Offline)
    <3>1. CASE f \in S
      BY <3>1
    <3>2. CASE \E j \in 1 .. Len(stack[h]) : f = stack[h][j]
      BY <1>1, <3>2
    <3> QED BY <2>1, <3>1, <3>2 DEF Framed
  <2>3. FrameKnown(stack[h][i])'
    BY <2>1, <2>2 DEF FrameKnown, Known
  <2> QED BY <1>0, <2>1, <2>2, <2>3
<1> QED BY <1>2

\* A step of a goroutine keeps Carried.
LEMMA CarriedHandler ==
  ASSUME RoomInv, Rows, Carried, NEW h \in Handlers, HandlerStep(h)
  PROVE  Carried'
<1>0. TypeOK /\ Shape /\ [Next]_vars
  BY DEF RoomInv, Next
<1>1. Moves(h) /\ wire' \subseteq wire /\ UNCHANGED <<row, vpc, wpc, wmsg, revokes, depot, scope>>
  BY HandlerMoves DEF senderDb, senderThreads, env, history
<1>2. Offline' = Offline /\ \A m : Known(m)' <=> Known(m)
  BY <1>1 DEF Known, Offline
<1> DEFINE Good(S) == \A f \in S : FrameKnown(f) /\ (f.op = "offline" => Offline)
<1>3. ASSUME NEW S, Grown(h, S), Good(S) PROVE Carried'
  <2>1. Framed(S)
    BY <1>3 DEF Grown, Framed
  <2>2. \A f \in S : FrameKnown(f)' /\ (f.op = "offline" => Offline)
    BY <1>2, <1>3 DEF FrameKnown
  <2>3. \A g \in Handlers : \A i \in 1 .. Len(stack'[g]) :
            FrameKnown(stack[g][i])' /\ (stack'[g][i].op = "offline" => Offline')
    BY <1>0, <2>1, <2>2, FramesStay
  <2> QED BY <1>1, <1>2, <2>3 DEF Carried
<1>4. ASSUME hpc[h] # "idle" PROVE Top(h) \in Frames /\ Good({Top(h)})
  <2>1. stack[h] \in Seq(Frames) /\ stack[h] # <<>>
    BY <1>0, <1>4 DEF TypeOK
  <2>2. 1 \in 1 .. Len(stack[h])
    BY <2>1
  <2> QED BY <2>1, <2>2 DEF Top, Carried
<1>5. Returned(h) \/ Erred(h) => Carried'
  BY <1>3 DEF Returned, Erred
<1>6. ASSUME hpc[h] # "idle", NEW step, Moved(h, {Top(h)}, Top(h), step) PROVE Carried'
  BY <1>3, <1>4, <1>6 DEF Moved
<1>7. ASSUME NEW n, Grown(h, {SyncFrame(n)}) PROVE Carried'
  BY <1>3, <1>7, FrameFields DEF FrameKnown
<1>8. ASSUME NEW m, NEW op \in {"text", "offline"}, Known(m), op = "offline" => Offline, Grown(h, {TextFrame(op, m)}) PROVE Carried'
  BY <1>3, <1>8, FrameFields DEF FrameKnown
<1>9. CASE Entered(h)
  BY <1>7, <1>8, <1>9 DEF Entered, Moved, Carried
<1>10. CASE Loaded(h)
  <2> DEFINE f == Top(h)
             r == [f EXCEPT !.at = recvCounter]
  <2>1. hpc[h] = "load"
    BY <1>10 DEF Loaded
  <2>2. CASE Moved(h, {r, SyncFrame(recvCounter)}, SyncFrame(recvCounter), "request")
    <3>1. r.op = f.op /\ r.msg = f.msg /\ r.todo = f.todo
      BY <1>4, <2>1, FrameEdits
    <3> HIDE DEF r
    <3>2. Good({r, SyncFrame(recvCounter)})
      BY <1>4, <2>1, <3>1, FrameFields DEF FrameKnown
    <3> HIDE DEF Good
    <3> QED BY <1>3, <2>2, <3>2 DEF Moved
  <2> QED BY <1>5, <1>6, <1>10, <2>1, <2>2 DEF Loaded
<1>11. CASE Synced(h)
  <2> DEFINE f == Top(h)
             q == [f EXCEPT !.todo = SyncItems(f.at)]
             r == [f EXCEPT !.rsc = sendCounter]
             t(m) == [f EXCEPT !.todo = @ \ {m}]
  <2>1. ASSUME hpc[h] # "idle", Moved(h, {q}, q, "served") PROVE Carried'
    <3>1. q.op = f.op /\ q.msg = f.msg /\ q.todo = SyncItems(f.at)
      BY <1>4, <2>1, FrameEdits
    <3> HIDE DEF q
    <3>2. Good({q})
      BY <1>4, <2>1, <3>1 DEF FrameKnown, SyncItems, Known
    <3> HIDE DEF Good
    <3> QED BY <1>3, <2>1, <3>2 DEF Moved
  <2>2. ASSUME hpc[h] # "idle", Moved(h, {r}, r, "apply") PROVE Carried'
    <3>1. r.op = f.op /\ r.msg = f.msg /\ r.todo = f.todo
      BY <1>4, <2>2, FrameEdits
    <3> HIDE DEF r
    <3>2. Good({r})
      BY <1>4, <2>2, <3>1 DEF FrameKnown
    <3> HIDE DEF Good
    <3> QED BY <1>3, <2>2, <3>2 DEF Moved
  <2>3. ASSUME NEW m \in f.todo, hpc[h] # "idle", Moved(h, {t(m), TextFrame("text", m)}, TextFrame("text", m), "load") PROVE Carried'
    <3>1. t(m).op = f.op /\ t(m).msg = f.msg /\ t(m).todo \subseteq f.todo
      BY <1>4, <2>3, FrameEdits
    <3> HIDE DEF t
    <3>2. Good({t(m), TextFrame("text", m)})
      BY <1>4, <2>3, <3>1, FrameFields DEF FrameKnown
    <3> HIDE DEF Good
    <3> QED BY <1>3, <2>3, <3>2 DEF Moved
  <2>4. \/ hpc[h] # "idle" /\ (Moved(h, {q}, q, "served") \/ Moved(h, {r}, r, "apply"))
        \/ hpc[h] # "idle" /\ \E step \in {"jump", "next", "round"} : Moved(h, {f}, f, step)
        \/ \E m \in f.todo : hpc[h] # "idle" /\ Moved(h, {t(m), TextFrame("text", m)}, TextFrame("text", m), "load")
        \/ Moved(h, {SyncFrame(recvCounter)}, SyncFrame(recvCounter), "request")
        \/ Returned(h)
    BY <1>11 DEF Synced
  <2>5. CASE Moved(h, {SyncFrame(recvCounter)}, SyncFrame(recvCounter), "request")
    BY <1>7, <2>5 DEF Moved
  <2>6. ASSUME hpc[h] # "idle", NEW step \in {"jump", "next", "round"}, Moved(h, {f}, f, step) PROVE Carried'
    BY <1>6, <2>6
  <2> HIDE DEF f, q, r, t
  <2> QED BY <1>5, <2>1, <2>2, <2>3, <2>4, <2>5, <2>6
<1>12. CASE hpc[h] # "idle" /\ (Returned(h) \/ \E step \in {"ack", "round"} : Moved(h, {Top(h)}, Top(h), step))
  BY <1>5, <1>6, <1>12
<1> QED BY <1>1, <1>5, <1>9, <1>10, <1>11, <1>12 DEF Moves

\* Carried is inductive.
LEMMA CarriedStep ==
  ASSUME RoomInv, RevokeInv, Rows, Carried, [Next]_vars
  PROVE  Carried'
<1>0. TypeOK /\ Holds /\ Shape
  BY DEF RoomInv
<1>1. UNCHANGED scope /\ Offline' = Offline
  BY SendMoves DEF Offline
<1>2. \A m \in Msgs : (Known(m) => Known(m)') /\ (vpc[m] # "idle" => vpc'[m] # "idle")
  BY KnownOn
\* What a step outside the receiver's goroutines must show.
<1>3. ASSUME \A h \in Handlers : stack'[h] = stack[h] \/ stack'[h] = <<>>,
             \A m \in wire' \cup depot' : m \in Msgs /\ (m \in wire \cup depot \/ Known(m)),
             depot' = depot \/ Offline \/ depot' \subseteq depot,
             \A m \in revokes' : m \in Msgs /\ (m \in revokes \/ vpc'[m] # "idle"),
             \A w \in Workers : wpc'[w] = "sending" => wmsg'[w] \in Msgs /\ (Known(wmsg'[w]) \/ (wpc[w] = "sending" /\ wmsg'[w] = wmsg[w]))
      PROVE  Carried'
  <2>1. Framed({})
    BY <1>3 DEF Framed
  <2>2. \A g \in Handlers : \A i \in 1 .. Len(stack'[g]) :
            FrameKnown(stack[g][i])' /\ (stack'[g][i].op = "offline" => Offline')
    BY <2>1, FramesStay
  <2>3. \A m \in wire' \cup depot' : Known(m)'
    BY <1>2, <1>3 DEF Carried
  <2>4. depot' # {} => Offline'
    BY <1>1, <1>3 DEF Carried
  <2>5. \A m \in revokes' : vpc'[m] # "idle"
    BY <1>2, <1>3 DEF Carried
  <2>6. \A w \in Workers : wpc'[w] = "sending" => Known(wmsg[w])'
    <3>1. ASSUME NEW w \in Workers, wpc'[w] = "sending" PROVE Known(wmsg[w])'
      <4>1. PICK m : m = wmsg'[w]
        OBVIOUS
      <4>2. m \in Msgs /\ Known(m)
        BY <1>3, <3>1, <4>1 DEF Carried
      <4>3. Known(m)'
        BY <1>2, <4>2
      <4> QED BY <4>1, <4>3 DEF Known
    <3> QED BY <3>1
  <2> QED BY <2>2, <2>3, <2>4, <2>5, <2>6 DEF Carried
<1>4. wire \subseteq Msgs /\ depot \subseteq Msgs /\ revokes \subseteq Msgs
      /\ \A w \in Workers : wpc[w] = "sending" => wmsg[w] \in Msgs
  BY <1>0 DEF TypeOK, Holds
<1>5. ASSUME NEW m \in Msgs, SenderStep(m) PROVE Carried'
  <2>1. UNCHANGED <<stack, revokes, wpc, wmsg>>
    BY <1>5 DEF SenderStep, ReadSendCounter, InsertOutbound, UpdateSendCounter, RegisterJob, CheckLocalOnly, FirstTransmit,
       PersistOutcome, RescheduleJob, receiver, network
  <2>2. \/ UNCHANGED <<wire, depot>>
        \/ /\ spc[m] = "sending" /\ wire' \subseteq wire \cup {m} /\ depot' \subseteq depot \cup {m}
           /\ (depot' = depot \/ Offline)
    BY <1>5 DEF SenderStep, ReadSendCounter, InsertOutbound, UpdateSendCounter, RegisterJob, CheckLocalOnly, FirstTransmit,
       PersistOutcome, RescheduleJob, network, Transmit, SendStep
  <2>3. spc[m] = "sending" => Known(m)
    BY DEF Rows, Numbered
  <2> QED BY <1>3, <1>4, <2>1, <2>2, <2>3
<1>6. ASSUME NEW m \in Msgs, AckStep(m) \/ RevokeMessage(m) PROVE Carried'
  <2>1. UNCHANGED <<stack, wire, depot, wpc, wmsg>>
    BY <1>6 DEF AckStep, MarkDelivered, DeleteOutboxJob, RevokeMessage, BeginRevoke, SendRevoke, RevokeDeleteJob, RevokeDeleteRow,
       receiver, network
  <2>2. revokes' = revokes \/ (vpc[m] # "idle" /\ revokes' = revokes \cup {m})
    BY <1>6 DEF AckStep, MarkDelivered, DeleteOutboxJob, RevokeMessage, BeginRevoke, SendRevoke, RevokeDeleteJob, RevokeDeleteRow,
       RevokeStep, network
  <2> QED BY <1>2, <1>3, <1>4, <2>1, <2>2
<1>7. ASSUME NEW w \in Workers, WorkerStep(w) PROVE Carried'
  <2>1. UNCHANGED stack /\ \A v \in Workers : v # w => wpc'[v] = wpc[v] /\ wmsg'[v] = wmsg[v]
    BY <1>0, <1>7
       DEF WorkerStep, Wake, SendPendingRevoke, DeleteRevokeJob, NextPhase, RecoverJob, RequeueRecovered, RetryJob,
           RetryTransmit, RetryPersist, RetryReschedule, WorkStep, Take, Drop, Release, TypeOK, receiver
  <2>2. \/ UNCHANGED <<wire, depot>>
        \/ /\ wpc[w] = "sending" /\ wire' \subseteq wire \cup {wmsg[w]} /\ depot' \subseteq depot \cup {wmsg[w]}
           /\ (depot' = depot \/ Offline)
    BY <1>7
       DEF WorkerStep, Wake, SendPendingRevoke, DeleteRevokeJob, NextPhase, RecoverJob, RequeueRecovered, RetryJob,
           RetryTransmit, RetryPersist, RetryReschedule, WorkStep, network, Transmit
  <2>3. revokes' = revokes \/ (wpc[w] = "revoke" /\ \E item \in batch[w] : revokes' = revokes \cup {item[1]})
    BY <1>7
       DEF WorkerStep, Wake, SendPendingRevoke, DeleteRevokeJob, NextPhase, RecoverJob, RequeueRecovered, RetryJob,
           RetryTransmit, RetryPersist, RetryReschedule, WorkStep, network
  <2>4. \A item \in batch[w] : item[1] \in Msgs
    BY <1>0 DEF TypeOK
  <2>5. wpc'[w] = "sending" => wmsg'[w] \in Msgs /\ Known(wmsg'[w])
    BY <1>0, <1>7, <2>4
       DEF WorkerStep, Wake, SendPendingRevoke, DeleteRevokeJob, NextPhase, RecoverJob, RequeueRecovered, RetryJob,
           RetryTransmit, RetryPersist, RetryReschedule, WorkStep, Take, TypeOK, Known
  <2>6. \A m \in revokes' : m \in Msgs /\ (m \in revokes \/ vpc'[m] # "idle")
    BY <1>2, <1>4, <2>3, <2>4 DEF RevokeInv
  <2>7. wpc[w] = "sending" => Known(wmsg[w])
    BY DEF Carried
  <2>8. \A v \in Workers : wpc'[v] = "sending" => wmsg'[v] \in Msgs /\ (Known(wmsg'[v]) \/ (wpc[v] = "sending" /\ wmsg'[v] = wmsg[v]))
    BY <1>4, <2>1, <2>5
  <2> QED BY <1>3, <1>4, <2>1, <2>2, <2>6, <2>7, <2>8
<1>8. ASSUME NEW h \in Handlers, HandlerStep(h) PROVE Carried'
  BY <1>8, CarriedHandler
<1>9. ASSUME NEW m \in Msgs, ReceiveRevoke(m) \/ ForgetOffline(m) \/ Lose(m) PROVE Carried'
  <2>1. /\ UNCHANGED <<stack, wpc, wmsg>> /\ wire' \subseteq wire /\ depot' \subseteq depot /\ revokes' \subseteq revokes
    BY <1>9 DEF ReceiveRevoke, ForgetOffline, Lose, senderThreads, receiver
  <2> QED BY <1>3, <1>4, <2>1
<1>10. CASE SenderCrash
  <2>1. UNCHANGED <<stack, wire, depot, revokes>> /\ \A w \in Workers : wpc'[w] # "sending"
    BY <1>10 DEF SenderCrash, network
  <2> QED BY <1>3, <1>4, <2>1
<1>11. CASE ReceiverCrash
  <2>1. UNCHANGED <<wire, depot, revokes, wpc, wmsg>> /\ \A h \in Handlers : stack'[h] = <<>>
    BY <1>11 DEF ReceiverCrash, network, senderThreads
  <2> QED BY <1>3, <1>4, <2>1
<1>12. CASE UNCHANGED vars
  <2>1. UNCHANGED <<wire, depot, revokes, wpc, wmsg, stack>>
    BY <1>12 DEF vars, network, senderThreads, receiver
  <2> QED BY <1>3, <1>4, <2>1
<1> QED BY <1>5, <1>6, <1>7, <1>8, <1>9, <1>10, <1>11, <1>12 DEF Next

----------------------------------------------------------------------------
(* What the receiver knows.                                                *)

\* All of it together.
ChatInv == RoomInv /\ RevokeInv /\ SendInv /\ Carried /\ RecvInv

\* A message the cursor may pass stays one.
LEMMA PassableStays ==
  ASSUME RoomInv, Rows, [Next]_vars, NEW m \in Msgs, Known(m), Passable(m)
  PROVE  Passable(m)'
<1>1. CASE m \in missed
  BY <1>1, KnownStays DEF Passable
<1>2. ASSUME NEW n \in Msgs \ {m}, Numbered(n), counter[n] = counter[m] PROVE Passable(m)'
  <2>1. Numbered(n)' /\ counter'[n] = counter[n]
    BY <1>2, KnownStays DEF Numbered
  <2>2. counter'[m] = counter[m]
    BY KnownOn
  <2> QED BY <1>2, <2>1, <2>2 DEF Passable, Shares
<1> QED BY <1>1, <1>2 DEF Passable, Shares

\* A message the receiver has is only deleted when it was revoked.
LEMMA KeptStays ==
  ASSUME RoomInv, Rows, Carried, [Next]_vars, NEW m \in Msgs, Known(m), Kept(m)
  PROVE  Kept(m)'
<1>1. vpc[m] # "idle" => vpc'[m] # "idle"
  BY KnownOn
<1>2. m \in inbox => m \in inbox' \/ m \in revokes
  <2>1. ASSUME NEW h \in Handlers, HandlerStep(h) PROVE inbox \subseteq inbox'
    BY <2>1, HandlerMoves DEF Moves
  <2>2. ASSUME NEW n \in Msgs, ReceiveRevoke(n) PROVE n \in revokes /\ inbox' = inbox \ {n}
    BY <2>2 DEF ReceiveRevoke
  <2>3. CASE UNCHANGED inbox
    BY <2>3
  <2>4. \/ UNCHANGED inbox \/ (\E h \in Handlers : HandlerStep(h)) \/ (\E n \in Msgs : ReceiveRevoke(n))
    <3>1. ASSUME NEW n \in Msgs, SenderStep(n) PROVE UNCHANGED inbox
      BY <3>1 DEF SenderStep, ReadSendCounter, InsertOutbound, UpdateSendCounter, RegisterJob, CheckLocalOnly, FirstTransmit,
         PersistOutcome, RescheduleJob, receiver
    <3>2. ASSUME NEW n \in Msgs, AckStep(n) \/ RevokeMessage(n) PROVE UNCHANGED inbox
      BY <3>2 DEF AckStep, MarkDelivered, DeleteOutboxJob, RevokeMessage, BeginRevoke, SendRevoke, RevokeDeleteJob,
         RevokeDeleteRow, receiver
    <3>3. ASSUME NEW w \in Workers, WorkerStep(w) PROVE UNCHANGED inbox
      BY <3>3 DEF WorkerStep, Wake, SendPendingRevoke, DeleteRevokeJob, NextPhase, RecoverJob, RequeueRecovered, RetryJob,
         RetryTransmit, RetryPersist, RetryReschedule, receiver
    <3>4. ASSUME NEW n \in Msgs, ForgetOffline(n) \/ Lose(n) PROVE UNCHANGED inbox
      BY <3>4 DEF ForgetOffline, Lose, receiver
    <3>5. CASE SenderCrash \/ ReceiverCrash \/ UNCHANGED vars
      BY <3>5 DEF SenderCrash, ReceiverCrash, vars, receiver
    <3> QED BY <3>1, <3>2, <3>3, <3>4, <3>5 DEF Next
  <2> QED BY <2>1, <2>2, <2>3, <2>4
<1>3. m \in revokes => vpc[m] # "idle"
  BY DEF Carried
<1> QED BY <1>1, <1>2, <1>3, PassableStays DEF Kept

\* What was reached stays reached.
LEMMA ReachedStays ==
  ASSUME RoomInv, Rows, [Next]_vars, NEW n, Reached(n)
  PROVE  Reached(n)'
<1>1. ASSUME NEW m \in Msgs, Known(m), counter[m] + 1 = n PROVE Reached(n)'
  BY <1>1, KnownOn DEF Reached
<1> QED BY <1>1 DEF Reached

\* A message that is stored below a counter that was reached has the number of
\* another: all of those were used.
LEMMA InsertedShares ==
  ASSUME RoomInv, SendInv, NEW n \in Nat, Reached(n), NEW m \in Msgs, Inserts(m), counter[m] < n
  PROVE  Passable(m)'
<1> USE CounterRange
<1>0. TypeOK /\ Rows /\ Filled
  BY DEF RoomInv, SendInv
<1>1. counter[m] \in Nat /\ ~Numbered(m) /\ UNCHANGED counter /\ \A k \in Msgs : Numbered(k) => Numbered(k)'
  BY <1>0 DEF TypeOK, Inserts, Numbered
<1>2. PICK k \in Msgs : Known(k) /\ counter[k] + 1 = n
  BY <1>1 DEF Reached
<1>3. k # m /\ Numbered(k) /\ counter[k] \in Nat
  BY <1>0, <1>1, <1>2 DEF Rows, TypeOK
<1>4. CASE counter[k] = counter[m]
  BY <1>1, <1>3, <1>4 DEF Passable, Shares
<1>5. CASE counter[k] # counter[m]
  <2>1. counter[m] \in 0 .. counter[k] - 1 /\ spc[k] # "new"
    BY <1>1, <1>2, <1>3, <1>5 DEF Numbered
  <2>2. PICK j \in Msgs : Counted(j) /\ counter[j] = counter[m]
    BY <1>0, <2>1 DEF Filled, Used
  <2>3. Numbered(j) /\ j # m
    BY <1>1, <2>2 DEF Counted, Numbered
  <2> QED BY <1>1, <2>2, <2>3 DEF Passable, Shares
<1> QED BY <1>4, <1>5

\* A covered counter stays covered.
LEMMA CoveredStays ==
  ASSUME RoomInv, SendInv, Carried, [Next]_vars, NEW n \in Nat, Covered(n)
  PROVE  Covered(n)'
<1>0. Rows
  BY DEF SendInv
<1>1. Reached(n)'
  BY <1>0, ReachedStays DEF Covered
<1>2. ASSUME NEW m \in Msgs, Known(m)', counter'[m] < n PROVE Kept(m)'
  <2>1. CASE Known(m)
    <3>1. counter[m] < n
      BY <1>0, <1>2, <2>1, KnownOn
    <3> QED BY <1>0, <2>1, <3>1, KeptStays DEF Covered
  <2>2. CASE Inserts(m)
    <3>1. counter[m] < n
      BY <1>2, <2>2 DEF Inserts
    <3> QED BY <2>2, <3>1, InsertedShares DEF Covered, Kept
  <2> QED BY <1>0, <1>2, <2>1, <2>2, KnownOn
<1> QED BY <1>1, <1>2 DEF Covered

\* The rows a response was built from stay the ones it lists, but for what is stored
\* before the send counter is read.
LEMMA ListedStays ==
  ASSUME RoomInv, Rows, [Next]_vars, NEW h \in Handlers, hpc[h] = "served", NEW f, Listed(f)
  PROVE  Listed(f)'
<1>1. ASSUME NEW m \in Msgs, row'[m] # "none", vpc'[m] = "idle", counter'[m] >= f.at PROVE m \in f.todo \/ Passable(m)'
  <2>1. CASE Known(m)
    <3>1. vpc[m] = "idle" /\ row[m] # "none" /\ counter'[m] = counter[m]
      BY <1>1, <2>1, KnownOn DEF Known
    <3> QED BY <1>1, <2>1, <3>1, PassableStays DEF Listed
  <2>2. CASE Inserts(m)
    BY <2>2 DEF Inserts, Passable
  <2> QED BY <1>1, <2>1, <2>2, KnownOn DEF Known
<1> QED BY <1>1 DEF Listed

\* Below the send counter it carries nothing else is stored any more.
LEMMA ListedBelowStays ==
  ASSUME RoomInv, SendInv, [Next]_vars, NEW f \in Frames, Reached(f.rsc), ListedBelow(f)
  PROVE  ListedBelow(f)'
<1>0. Rows /\ f.rsc \in Nat
  BY CounterRange DEF SendInv, Frames
<1>1. ASSUME NEW m \in Msgs, Known(m)', vpc'[m] = "idle", f.at <= counter'[m], counter'[m] < f.rsc
      PROVE  m \in f.todo \/ Passable(m)'
  <2>1. CASE Known(m)
    <3>1. vpc[m] = "idle" /\ counter'[m] = counter[m]
      BY <1>0, <1>1, <2>1, KnownOn
    <3> QED BY <1>0, <1>1, <2>1, <3>1, PassableStays DEF ListedBelow
  <2>2. CASE Inserts(m)
    <3>1. counter[m] < f.rsc
      BY <1>1, <2>2 DEF Inserts
    <3> QED BY <1>0, <2>2, <3>1, InsertedShares
  <2> QED BY <1>0, <1>1, <2>1, <2>2, KnownOn
<1> QED BY <1>1 DEF ListedBelow

\* So does what a goroutine knows about its innermost frame, while it stays at
\* its step.
LEMMA TopStays ==
  ASSUME RoomInv, SendInv, Carried, [Next]_vars, NEW h \in Handlers, NEW step, step = hpc[h],
         NEW f \in Frames, f.op # "sync" => f.msg \in Msgs,
         InText(h) => f.op # "sync", FrameKnown(f), TopKnows(step, f)
  PROVE  TopKnows(step, f)'
<1> USE CounterRange
<1>0. Rows
  BY DEF SendInv
<1>1. f.rsc \in Nat
  BY DEF Frames
<1>2. step = "store" => Covered(counter[f.msg])'
  <2> SUFFICES ASSUME step = "store" PROVE Covered(counter[f.msg])'
    OBVIOUS
  <2>1. f.msg \in Msgs /\ Known(f.msg)
    BY DEF FrameKnown, InText
  <2>2. counter'[f.msg] = counter[f.msg] /\ counter[f.msg] \in Nat
    BY <1>0, <2>1, KnownOn DEF RoomInv, TypeOK
  <2>3. PICK n \in Nat : n = counter[f.msg]
    BY <2>2
  <2>4. Covered(n)'
    BY <2>3, CoveredStays DEF TopKnows
  <2> QED BY <2>2, <2>3, <2>4 DEF Covered, Reached
<1>3. step = "ack" => Kept(f.msg)'
  BY <1>0, KeptStays DEF TopKnows, InText, FrameKnown
<1>4. step = "jump" => Covered(f.rsc)'
  BY <1>1, CoveredStays DEF TopKnows
<1>5. step = "served" => Listed(f)'
  BY <1>0, ListedStays DEF TopKnows
<1>6. step = "apply" => Reached(f.rsc)' /\ ListedBelow(f)'
  BY <1>0, ReachedStays, ListedBelowStays DEF TopKnows
<1> QED BY <1>2, <1>3, <1>4, <1>5, <1>6 DEF TopKnows

\* Facts about a goroutine's innermost frame.
LEMMA TopFacts ==
  ASSUME RoomInv, Carried, NEW h \in Handlers, hpc[h] # "idle"
  PROVE  /\ Top(h) \in Frames /\ FrameKnown(Top(h)) /\ 1 \in 1 .. Len(stack[h]) /\ Top(h) = stack[h][1]
         /\ Top(h).op # "sync" => Top(h).msg \in Msgs
         /\ InText(h) => Top(h).op # "sync"
         /\ Top(h).op = "offline" => Offline
<1>1. stack[h] \in Seq(Frames) /\ stack[h] # <<>>
  BY DEF RoomInv, TypeOK
<1>2. 1 \in 1 .. Len(stack[h]) /\ stack[h][1] \in Frames
  BY <1>1
<1> QED BY <1>2 DEF Top, Carried, RoomInv, Shape

\* A step outside the receiver's goroutines.
LEMMA SoundOutside ==
  ASSUME RoomInv, RevokeInv, SendInv, Carried, Sound, [Next]_vars,
         UNCHANGED recvCounter, triggered' \subseteq triggered, acks' \subseteq acks,
         \A m \in Msgs : row'[m] = "delivered" => row[m] = "delivered" \/ m \in acks,
         \A h \in Handlers : \/ /\ stack'[h] = stack[h]
                                /\ hpc'[h] = hpc[h] \/ hpc'[h] = "request"
                             \/ stack'[h] = <<>> /\ hpc'[h] = "idle"
  PROVE  Sound'
<1> USE CounterRange
<1>0. TypeOK /\ Rows
  BY DEF RoomInv, SendInv
<1>1. \A n \in Nat : Covered(n) => Covered(n)'
  BY CoveredStays
<1>2. \A m \in Msgs : Known(m) /\ Kept(m) => Known(m)' /\ Kept(m)'
  BY <1>0, KnownOn, KeptStays
<1>3. recvCounter \in Nat /\ (\A n \in triggered : n \in Nat) /\ acks \subseteq Msgs
  BY <1>0 DEF TypeOK
<1>4. Covered(recvCounter)'
  <2>1. PICK n \in Nat : n = recvCounter
    BY <1>3
  <2>2. Covered(n)'
    BY <1>1, <2>1 DEF Sound
  <2> QED BY <2>1, <2>2 DEF Covered, Reached
<1>5. \A n \in triggered' : Covered(n)'
  BY <1>1, <1>3 DEF Sound
<1>6. \A m \in acks' : Known(m)' /\ Kept(m)'
  BY <1>2, <1>3 DEF Sound
<1>7. \A m \in Msgs : row'[m] = "delivered" => Kept(m)'
  <2>1. \A m \in Msgs : row[m] = "delivered" => Known(m)
    BY DEF Known
  <2> QED BY <1>2, <1>3, <2>1 DEF Sound
<1>8. ASSUME NEW h \in Handlers, NEW i \in 1 .. Len(stack'[h]) PROVE Covered(stack[h][i].at)'
  <2>1. stack'[h] = stack[h] /\ stack[h] \in Seq(Frames)
    BY <1>0, <1>8 DEF TypeOK
  <2>2. stack[h][i] \in Frames
    BY <1>8, <2>1
  <2>3. PICK n \in Nat : n = stack[h][i].at
    BY <2>2 DEF Frames
  <2>4. Covered(n)'
    BY <1>1, <1>8, <2>1, <2>3 DEF Sound
  <2> QED BY <2>1, <2>3, <2>4 DEF Covered, Reached
<1>9. ASSUME NEW h \in Handlers PROVE TopKnows(hpc[h], Top(h))'
  <2>1. CASE hpc'[h] \in {"request", "idle"}
    BY <2>1 DEF TopKnows
  <2>2. CASE stack'[h] = stack[h] /\ hpc'[h] = hpc[h] /\ hpc[h] # "idle"
    <3>1. PICK f, step : f \in Frames /\ f = Top(h) /\ step = hpc[h]
      BY <2>2, TopFacts
    <3>2. TopKnows(step, f) /\ FrameKnown(f) /\ (InText(h) => f.op # "sync") /\ (f.op # "sync" => f.msg \in Msgs)
      BY <2>2, <3>1, TopFacts DEF Sound
    <3>3. TopKnows(step, f)'
      BY <3>1, <3>2, TopStays
    <3>4. f = Top(h)' /\ step = hpc'[h]
      BY <2>2, <3>1 DEF Top
    <3> QED BY <3>3, <3>4 DEF TopKnows, Covered, Reached, Kept, Passable, Shares, Listed, ListedBelow
  <2> QED BY <2>1, <2>2
<1> QED BY <1>4, <1>5, <1>6, <1>7, <1>8, <1>9 DEF Sound

\* The send counter stands behind a message that was counted.
LEMMA SendReached ==
  ASSUME RoomInv, Rows, Filled
  PROVE  Reached(sendCounter) /\ (sendCounter = 0 \/ Used(sendCounter - 1))
<1>1. sendCounter \in Nat /\ \A m \in Msgs : counter[m] \in Nat
  BY CounterRange DEF RoomInv, TypeOK
<1>2. sendCounter = 0 \/ Used(sendCounter - 1)
  BY <1>1 DEF Filled
<1>3. ASSUME NEW m \in Msgs, Counted(m), counter[m] = sendCounter - 1 PROVE Reached(sendCounter)
  <2>1. Known(m) /\ counter[m] + 1 = sendCounter
    BY <1>1, <1>3 DEF Counted, Numbered, Rows
  <2> QED BY <2>1 DEF Reached
<1> QED BY <1>2, <1>3 DEF Used, Reached

\* A step of a goroutine of the receiver.
LEMMA SoundHandler ==
  ASSUME RoomInv, SendInv, Carried, ~Offline, Sound, NEW h \in Handlers, HandlerStep(h)
  PROVE  Sound'
<1> USE CounterRange
<1>0. TypeOK /\ Rows /\ Filled /\ [Next]_vars
  BY DEF RoomInv, SendInv, Next
<1>1. Moves(h) /\ UNCHANGED <<sendCounter, row, counter, spc, vpc, missed, depot, scope>> /\ wire' \subseteq wire
  BY HandlerMoves DEF senderDb, senderThreads, env, history
<1>2. /\ \A n \in Nat : Covered(n) => Covered(n)'
      /\ \A m \in Msgs : Known(m) /\ Kept(m) => Known(m)' /\ Kept(m)'
  BY <1>0, KnownOn, CoveredStays, KeptStays
<1>3. recvCounter \in Nat /\ (\A n \in triggered : n \in Nat) /\ acks \subseteq Msgs /\ \A m \in Msgs : counter[m] \in Nat
  BY <1>0 DEF TypeOK
<1>4. Covered(0)
  BY <1>3 DEF Covered, Reached
<1>5. \A m \in Msgs : row'[m] = "delivered" => Kept(m)'
  BY <1>1, <1>2 DEF Sound, Known
<1>6. ASSUME NEW g \in Handlers \ {h}, Grown(h, {}) \/ \E S : Grown(h, S) PROVE TopKnows(hpc[g], Top(g))'
  <2>1. stack'[g] = stack[g] /\ hpc'[g] = hpc[g]
    BY <1>6 DEF Grown
  <2>2. CASE hpc[g] = "idle"
    BY <2>1, <2>2 DEF TopKnows
  <2>3. CASE hpc[g] # "idle"
    <3>1. PICK f, step : f \in Frames /\ f = Top(g) /\ step = hpc[g]
      BY <2>3, TopFacts
    <3>2. TopKnows(step, f) /\ FrameKnown(f) /\ (InText(g) => f.op # "sync") /\ (f.op # "sync" => f.msg \in Msgs)
      BY <2>3, <3>1, TopFacts DEF Sound
    <3>3. TopKnows(step, f)'
      BY <1>0, <3>1, <3>2, TopStays
    <3>4. f = Top(g)' /\ step = hpc'[g]
      BY <2>1, <3>1 DEF Top
    <3> QED BY <3>3, <3>4 DEF TopKnows, Covered, Reached, Kept, Passable, Shares, Listed, ListedBelow
  <2> QED BY <2>2, <2>3
\* What is left to show of a step.
<1>7. ASSUME NEW S, Grown(h, S), \A f \in S : f.at \in Nat /\ Covered(f.at), TopKnows(hpc[h], Top(h))',
             Covered(recvCounter)', \A n \in triggered' : n \in Nat /\ Covered(n), \A m \in acks' : m \in Msgs /\ Known(m) /\ Kept(m)
      PROVE  Sound'
  <2>1. ASSUME NEW g \in Handlers, NEW i \in 1 .. Len(stack'[g]) PROVE Covered(stack[g][i].at)'
    <3>1. PICK f : f = stack'[g][i]
      OBVIOUS
    <3>2. f \in S \/ \E k \in Handlers : \E j \in 1 .. Len(stack[k]) : f = stack[k][j]
      <4>1. CASE g = h
        BY <1>7, <2>1, <3>1, <4>1 DEF Grown
      <4>2. CASE g # h
        BY <1>7, <2>1, <3>1, <4>2 DEF Grown
      <4> QED BY <4>1, <4>2
    <3>3. f.at \in Nat /\ Covered(f.at)
      <4>1. CASE f \in S
        BY <1>7, <4>1
      <4>2. ASSUME NEW k \in Handlers, NEW j \in 1 .. Len(stack[k]), f = stack[k][j] PROVE f.at \in Nat /\ Covered(f.at)
        <5>1. stack[k] \in Seq(Frames)
          BY <1>0 DEF TypeOK
        <5>2. f \in Frames
          BY <4>2, <5>1
        <5> QED BY <4>2, <5>2 DEF Frames, Sound
      <4> QED BY <3>2, <4>1, <4>2
    <3>4. Covered(f.at)'
      BY <1>2, <3>3
    <3> QED BY <3>1, <3>4 DEF Covered, Reached
  <2>2. \A g \in Handlers : TopKnows(hpc[g], Top(g))'
    BY <1>6, <1>7
  <2>3. (\A n \in triggered' : Covered(n)') /\ \A m \in acks' : Known(m)' /\ Kept(m)'
    BY <1>2, <1>7
  <2> QED BY <1>5, <1>7, <2>1, <2>2, <2>3 DEF Sound
<1>8. ASSUME UNCHANGED recvCounter PROVE Covered(recvCounter)'
  <2>1. PICK n \in Nat : n = recvCounter
    BY <1>3
  <2>2. Covered(n)'
    BY <1>2, <2>1 DEF Sound
  <2> QED BY <1>8, <2>1, <2>2 DEF Covered, Reached
<1>9. /\ \A n \in triggered : n \in Nat /\ Covered(n)
      /\ \A m \in acks : m \in Msgs /\ Known(m) /\ Kept(m)
      /\ Covered(recvCounter)
  BY <1>3 DEF Sound
<1>10. ASSUME hpc[h] # "idle" PROVE Top(h).at \in Nat /\ Covered(Top(h).at)
  <2>1. Top(h) \in Frames /\ 1 \in 1 .. Len(stack[h]) /\ Top(h) = stack[h][1]
    BY <1>10, TopFacts
  <2> QED BY <2>1 DEF Frames, Sound
<1>11. ASSUME hpc'[h] \in {"idle", "load", "request", "next", "round"} PROVE TopKnows(hpc[h], Top(h))'
  BY <1>11 DEF TopKnows
\* A move to a step that knows nothing special.
<1>12. ASSUME NEW S, Grown(h, S), \A f \in S : f.at \in Nat /\ Covered(f.at),
              hpc'[h] \in {"idle", "load", "request", "next", "round"},
              UNCHANGED <<recvCounter, acks>>, triggered' \subseteq triggered
       PROVE  Sound'
  BY <1>7, <1>8, <1>9, <1>11, <1>12
<1>13. CASE UNCHANGED <<recvCounter, inbox, acks>> /\ Entered(h)
  <2>1. ASSUME NEW m, NEW op, Moved(h, {TextFrame(op, m)}, TextFrame(op, m), "load"), UNCHANGED triggered PROVE Sound'
    BY <1>4, <1>12, <1>13, <2>1, FrameFields DEF Moved
  <2>2. ASSUME NEW n \in triggered \cup {recvCounter}, Moved(h, {SyncFrame(n)}, SyncFrame(n), "request"), triggered' \subseteq triggered
        PROVE  Sound'
    BY <1>3, <1>9, <1>12, <1>13, <2>2, FrameFields DEF Moved
  <2> QED BY <1>13, <2>1, <2>2 DEF Entered
<1>14. CASE UNCHANGED <<recvCounter, inbox, acks>> /\ Loaded(h)
  <2> DEFINE f == Top(h)
             r == [f EXCEPT !.at = recvCounter]
  <2>1. hpc[h] = "load" /\ UNCHANGED triggered /\ f.msg \in Msgs /\ f \in Frames /\ Known(f.msg) /\ f.op # "offline"
    BY <1>14, TopFacts DEF Loaded, InText, FrameKnown
  <2>2. CASE Returned(h)
    BY <1>12, <1>14, <2>1, <2>2 DEF Returned
  <2>3. CASE counter[f.msg] < recvCounter /\ Moved(h, {f}, f, "ack")
    <3>1. Kept(f.msg)
      BY <1>9, <2>1, <2>3 DEF Covered
    <3>2. PICK m \in Msgs : m = f.msg
      BY <2>1
    <3>3. Kept(m)'
      BY <1>2, <2>1, <3>1, <3>2
    <3>4. hpc'[h] = "ack" /\ Top(h)'.msg = m /\ Grown(h, {f})
      BY <2>3, <3>2 DEF Moved
    <3>5. TopKnows(hpc[h], Top(h))'
      BY <3>3, <3>4 DEF TopKnows, Kept, Passable, Shares
    <3>6. \A g \in {f} : g.at \in Nat /\ Covered(g.at)
      BY <1>10, <2>1
    <3> HIDE DEF f
    <3> QED BY <1>7, <1>8, <1>9, <1>14, <2>1, <3>4, <3>5, <3>6
  <2>4. CASE Moved(h, {r, SyncFrame(recvCounter)}, SyncFrame(recvCounter), "request")
    <3>1. r.at = recvCounter
      BY <2>1, FrameEdits
    <3> HIDE DEF r
    <3>2. \A g \in {r, SyncFrame(recvCounter)} : g.at \in Nat /\ Covered(g.at)
      BY <1>3, <1>9, <3>1, FrameFields
    <3> QED BY <1>12, <1>14, <2>1, <2>4, <3>2 DEF Moved
  <2>5. CASE counter[f.msg] = recvCounter /\ Moved(h, {f}, f, "store")
    <3>1. hpc'[h] = "store" /\ Top(h)' = f /\ Grown(h, {f})
      BY <2>5 DEF Moved
    <3>2. PICK n \in Nat : n = recvCounter
      BY <1>3
    <3>3. Covered(n)'
      BY <1>2, <1>9, <3>2
    <3>4. counter'[Top(h)'.msg] = n
      BY <1>1, <2>5, <3>1, <3>2
    <3>5. TopKnows(hpc[h], Top(h))'
      BY <3>1, <3>3, <3>4 DEF TopKnows, Covered, Reached
    <3>6. \A g \in {f} : g.at \in Nat /\ Covered(g.at)
      BY <1>10, <2>1
    <3> HIDE DEF f
    <3> QED BY <1>7, <1>8, <1>9, <1>14, <2>1, <3>1, <3>5, <3>6
  <2> QED BY <1>14, <2>1, <2>2, <2>3, <2>4, <2>5 DEF Loaded
<1>15. CASE UNCHANGED <<recvCounter, inbox, acks>> /\ Erred(h)
  <2>1. \A n \in triggered' : n \in Nat /\ Covered(n)
    <3>1. ASSUME NEW j \in 1 .. Len(stack[h]) PROVE stack[h][j].at \in Nat /\ Covered(stack[h][j].at)
      <4>1. stack[h] \in Seq(Frames)
        BY <1>0 DEF TypeOK
      <4>2. stack[h][j] \in Frames
        BY <4>1
      <4> QED BY <4>2 DEF Frames, Sound
    <3> QED BY <1>9, <1>15, <3>1 DEF Erred
  <2> QED BY <1>7, <1>8, <1>9, <1>11, <1>15, <2>1 DEF Erred
<1>16. CASE /\ hpc[h] = "store" /\ inbox' = inbox \cup {Top(h).msg} /\ recvCounter' = counter[Top(h).msg] + 1
            /\ UNCHANGED <<acks, triggered>> /\ (Returned(h) \/ Moved(h, {Top(h)}, Top(h), "ack"))
  <2>1. PICK m \in Msgs : m = Top(h).msg /\ Known(m)
    BY <1>16, TopFacts DEF InText, FrameKnown
  <2>2. Covered(counter[m])
    BY <1>16, <2>1 DEF Sound, TopKnows
  <2>3. Kept(m)' /\ Numbered(m)
    BY <1>0, <1>16, <2>1 DEF Kept, Rows
  <2>4. Covered(recvCounter)'
    <3>1. recvCounter' = counter[m] + 1 /\ counter[m] \in Nat
      BY <1>3, <1>16, <2>1
    <3>2. Reached(recvCounter)'
      BY <1>1, <2>1, <3>1 DEF Reached, Known
    <3>3. ASSUME NEW n \in Msgs, Known(n), counter[n] < counter[m] + 1 PROVE Kept(n)'
      <4>1. CASE counter[n] = counter[m]
        <5>1. n # m => Shares(n)
          BY <2>3, <4>1 DEF Shares
        <5> QED BY <1>2, <2>3, <3>3, <5>1 DEF Kept, Passable
      <4>2. CASE counter[n] < counter[m]
        BY <1>2, <2>2, <3>3, <4>2 DEF Covered
      <4> QED BY <1>3, <3>3, <4>1, <4>2
    <3>4. \A n \in Msgs : Known(n)' <=> Known(n)
      BY <1>1 DEF Known
    <3> QED BY <1>1, <3>1, <3>2, <3>3, <3>4 DEF Covered
  <2>5. CASE Returned(h)
    BY <1>7, <1>9, <1>11, <1>16, <2>4, <2>5 DEF Returned
  <2>6. CASE Moved(h, {Top(h)}, Top(h), "ack")
    <3> DEFINE f == Top(h)
    <3>1. hpc'[h] = "ack" /\ Top(h)'.msg = m /\ Grown(h, {f})
      BY <2>1, <2>6 DEF Moved
    <3>2. TopKnows(hpc[h], Top(h))'
      BY <2>3, <3>1 DEF TopKnows, Kept, Passable, Shares
    <3>3. \A g \in {f} : g.at \in Nat /\ Covered(g.at)
      BY <1>10, <1>16
    <3> HIDE DEF f
    <3> QED BY <1>7, <1>9, <1>16, <2>4, <3>1, <3>2, <3>3
  <2> QED BY <1>16, <2>5, <2>6
<1>17. CASE /\ hpc[h] = "ack" /\ acks' = acks \cup {Top(h).msg} /\ Returned(h)
            /\ UNCHANGED <<recvCounter, inbox, triggered>>
  <2>1. Top(h).msg \in Msgs /\ Known(Top(h).msg) /\ Kept(Top(h).msg)
    BY <1>17, TopFacts DEF InText, FrameKnown, Sound, TopKnows
  <2>2. \A m \in acks' : m \in Msgs /\ Known(m) /\ Kept(m)
    BY <1>9, <1>17, <2>1
  <2> QED BY <1>7, <1>8, <1>9, <1>11, <1>17, <2>2 DEF Returned
<1>18. CASE /\ hpc[h] = "jump" /\ recvCounter' = Top(h).rsc /\ Moved(h, {Top(h)}, Top(h), "round")
            /\ UNCHANGED <<inbox, acks, triggered>>
  <2> DEFINE f == Top(h)
  <2>1. PICK n \in Nat : n = f.rsc
    BY <1>18, TopFacts DEF Frames
  <2>2. Covered(n)'
    BY <1>2, <1>18, <2>1 DEF Sound, TopKnows
  <2>3. Covered(recvCounter)'
    BY <1>18, <2>1, <2>2 DEF Covered, Reached
  <2>4. \A g \in {f} : g.at \in Nat /\ Covered(g.at)
    BY <1>10, <1>18
  <2>5. hpc'[h] = "round" /\ Grown(h, {f})
    BY <1>18 DEF Moved
  <2> HIDE DEF f
  <2> QED BY <1>7, <1>9, <1>11, <1>18, <2>3, <2>4, <2>5
<1>19. CASE UNCHANGED <<recvCounter, inbox, acks>> /\ Synced(h)
  <2> DEFINE f == Top(h)
             q == [f EXCEPT !.todo = SyncItems(f.at)]
             r == [f EXCEPT !.rsc = sendCounter]
             t(m) == [f EXCEPT !.todo = @ \ {m}]
  <2>0. UNCHANGED triggered
    BY <1>19 DEF Synced
  <2>a. ASSUME hpc[h] # "idle" PROVE f \in Frames /\ f.at \in Nat /\ f.rsc \in Nat /\ Covered(f.at)
    BY <1>10, <2>a, TopFacts DEF Frames
  <2>1. ASSUME hpc[h] # "idle", Moved(h, {q}, q, "served") PROVE Sound'
    <3>1. q.at = f.at /\ q.todo = SyncItems(f.at)
      BY <2>1, <2>a, FrameEdits
    <3> HIDE DEF q
    <3>2. hpc'[h] = "served" /\ Top(h)' = q /\ Grown(h, {q})
      BY <2>1 DEF Moved
    <3>3. TopKnows(hpc[h], Top(h))'
      BY <1>1, <3>1, <3>2 DEF TopKnows, SyncItems, Listed
    <3>4. \A g \in {q} : g.at \in Nat /\ Covered(g.at)
      BY <2>1, <2>a, <3>1
    <3> QED BY <1>7, <1>8, <1>9, <1>19, <2>0, <3>2, <3>3, <3>4
  <2>2. ASSUME hpc[h] = "served", Moved(h, {r}, r, "apply") PROVE Sound'
    <3>1. PICK g : g = r
      OBVIOUS
    <3>2. g.at = f.at /\ g.todo = f.todo /\ g.rsc = sendCounter
      BY <2>2, <2>a, <3>1, FrameEdits
    <3>3. hpc'[h] = "apply" /\ Top(h)' = g /\ Grown(h, {g})
      BY <2>2, <3>1 DEF Moved
    <3>4. Listed(f)
      BY <2>2 DEF Sound, TopKnows
    <3>a. f.at \in Nat /\ Covered(f.at)
      BY <2>2, <2>a
    <3> HIDE DEF r, f
    <3>5. ASSUME NEW m \in Msgs, Known(m)', vpc'[m] = "idle", g.at <= counter'[m] PROVE m \in g.todo \/ Passable(m)'
      <4>1. row[m] # "none" /\ vpc[m] = "idle" /\ counter[m] \in Nat /\ f.at <= counter[m]
        BY <1>1, <1>3, <3>2, <3>5 DEF Known
      <4>2. m \in f.todo \/ Passable(m)
        BY <3>4, <3>a, <4>1 DEF Listed
      <4> QED BY <1>1, <3>2, <4>2 DEF Passable, Shares, Numbered
    <3>6. Reached(sendCounter)
      BY <1>0, SendReached
    <3>7. Reached(g.rsc)'
      BY <1>1, <3>2, <3>6 DEF Reached, Known
    <3>8. TopKnows(hpc[h], Top(h))'
      BY <3>3, <3>5, <3>7 DEF TopKnows, ListedBelow, Reached
    <3>9. \A x \in {g} : x.at \in Nat /\ Covered(x.at)
      BY <3>2, <3>a
    <3> QED BY <1>7, <1>8, <1>9, <1>19, <2>0, <3>3, <3>8, <3>9
  <2>3. ASSUME hpc[h] = "apply", f.todo = {}, Moved(h, {f}, f, "jump") PROVE Sound'
    <3>1. Covered(f.rsc)
      <4>1. Reached(f.rsc) /\ ListedBelow(f) /\ f.rsc \in Nat /\ f.at \in Nat /\ Covered(f.at)
        BY <2>3, <2>a DEF Sound, TopKnows
      <4>2. ASSUME NEW m \in Msgs, Known(m), counter[m] < f.rsc PROVE Kept(m)
        <5>1. CASE counter[m] < f.at
          BY <4>1, <4>2, <5>1 DEF Covered
        <5>2. CASE vpc[m] # "idle"
          BY <5>2 DEF Kept
        <5>3. CASE f.at <= counter[m] /\ vpc[m] = "idle"
          BY <2>3, <4>1, <4>2, <5>3 DEF ListedBelow, Kept
        <5> QED BY <1>3, <4>1, <5>1, <5>2, <5>3
      <4> QED BY <4>1, <4>2 DEF Covered
    <3>2. PICK n \in Nat : n = f.rsc
      BY <2>3, <2>a
    <3>3. Covered(n)'
      BY <1>2, <3>1, <3>2
    <3>4. hpc'[h] = "jump" /\ Top(h)' = f /\ Grown(h, {f})
      BY <2>3 DEF Moved
    <3>5. TopKnows(hpc[h], Top(h))'
      BY <3>2, <3>3, <3>4 DEF TopKnows, Covered, Reached
    <3>6. \A g \in {f} : g.at \in Nat /\ Covered(g.at)
      BY <2>3, <2>a
    <3> HIDE DEF f
    <3> QED BY <1>7, <1>8, <1>9, <1>19, <2>0, <3>4, <3>5, <3>6
  <2>4. ASSUME hpc[h] # "idle", NEW step \in {"next", "round"}, Moved(h, {f}, f, step) PROVE Sound'
    <3>1. \A g \in {f} : g.at \in Nat /\ Covered(g.at)
      BY <2>4, <2>a
    <3>2. hpc'[h] \in {"next", "round"} /\ Grown(h, {f})
      BY <2>4 DEF Moved
    <3> HIDE DEF f
    <3> QED BY <1>12, <1>19, <2>0, <3>1, <3>2
  <2>5. ASSUME NEW m \in f.todo, hpc[h] # "idle", Moved(h, {t(m), TextFrame("text", m)}, TextFrame("text", m), "load") PROVE Sound'
    <3>1. t(m).at = f.at
      BY <2>5, <2>a, FrameEdits
    <3> HIDE DEF t
    <3>2. \A g \in {t(m), TextFrame("text", m)} : g.at \in Nat /\ Covered(g.at)
      BY <1>4, <2>5, <2>a, <3>1, FrameFields
    <3> QED BY <1>12, <1>19, <2>0, <2>5, <3>2 DEF Moved
  <2>6. CASE Moved(h, {SyncFrame(recvCounter)}, SyncFrame(recvCounter), "request")
    BY <1>3, <1>9, <1>12, <1>19, <2>0, <2>6, FrameFields DEF Moved
  <2>7. CASE Returned(h)
    BY <1>12, <1>19, <2>0, <2>7 DEF Returned
  <2>8. \/ hpc[h] # "idle" /\ Moved(h, {q}, q, "served")
        \/ hpc[h] = "served" /\ Moved(h, {r}, r, "apply")
        \/ hpc[h] = "apply" /\ f.todo = {} /\ Moved(h, {f}, f, "jump")
        \/ hpc[h] # "idle" /\ \E step \in {"next", "round"} : Moved(h, {f}, f, step)
        \/ \E m \in f.todo : hpc[h] # "idle" /\ Moved(h, {t(m), TextFrame("text", m)}, TextFrame("text", m), "load")
        \/ Moved(h, {SyncFrame(recvCounter)}, SyncFrame(recvCounter), "request")
        \/ Returned(h)
    BY <1>19 DEF Synced
  <2> HIDE DEF f, q, r, t
  <2> QED BY <2>1, <2>2, <2>3, <2>4, <2>5, <2>6, <2>7, <2>8
<1> QED BY <1>1, <1>13, <1>14, <1>15, <1>16, <1>17, <1>18, <1>19 DEF Moves


\* What a step outside the receiver's goroutines leaves of what they work with.
Outside ==
    /\ UNCHANGED recvCounter /\ triggered' \subseteq triggered /\ acks' \subseteq acks
    /\ \A m \in Msgs : row'[m] = "delivered" => row[m] = "delivered" \/ m \in acks
    /\ \A h \in Handlers : \/ /\ stack'[h] = stack[h]
                              /\ hpc'[h] = hpc[h] \/ hpc'[h] = "request"
                           \/ stack'[h] = <<>> /\ hpc'[h] = "idle"

\* Every step is a step of a goroutine of the receiver or outside them.
LEMMA OutsideMoves ==
  ASSUME TypeOK, Holds, [Next]_vars
  PROVE  Outside \/ \E h \in Handlers : HandlerStep(h)
<1>1. ASSUME NEW m \in Msgs, SenderStep(m) PROVE Outside
  <2>1. UNCHANGED <<recvCounter, triggered, stack, hpc, acks>>
    BY <1>1 DEF SenderStep, ReadSendCounter, InsertOutbound, UpdateSendCounter, RegisterJob, CheckLocalOnly, FirstTransmit,
       PersistOutcome, RescheduleJob, receiver, network
  <2>2. \A n \in Msgs : row'[n] = "delivered" => row[n] = "delivered"
    BY <1>1 DEF SenderStep, ReadSendCounter, InsertOutbound, UpdateSendCounter, RegisterJob, CheckLocalOnly, FirstTransmit,
       PersistOutcome, RescheduleJob, senderDb, AddMessage, TypeOK
  <2> QED BY <2>1, <2>2 DEF Outside
<1>2. ASSUME NEW m \in Msgs, AckStep(m) \/ RevokeMessage(m) PROVE Outside
  <2>1. UNCHANGED <<recvCounter, triggered, stack, hpc>> /\ acks' \subseteq acks
    BY <1>2 DEF AckStep, MarkDelivered, DeleteOutboxJob, RevokeMessage, BeginRevoke, SendRevoke, RevokeDeleteJob,
       RevokeDeleteRow, receiver, network
  <2>2. \A n \in Msgs : row'[n] = "delivered" => row[n] = "delivered" \/ n \in acks
    BY <1>2 DEF AckStep, MarkDelivered, DeleteOutboxJob, RevokeMessage, BeginRevoke, SendRevoke, RevokeDeleteJob,
       RevokeDeleteRow, senderDb, TypeOK
  <2> QED BY <2>1, <2>2 DEF Outside
<1>3. ASSUME NEW w \in Workers, WorkerStep(w) PROVE Outside
  <2>1. UNCHANGED <<recvCounter, triggered, stack, hpc, acks>>
    BY <1>3 DEF WorkerStep, Wake, SendPendingRevoke, DeleteRevokeJob, NextPhase, RecoverJob, RequeueRecovered, RetryJob,
       RetryTransmit, RetryPersist, RetryReschedule, receiver, network
  <2>2. \A n \in Msgs : row'[n] = "delivered" => row[n] = "delivered"
    BY <1>3 DEF WorkerStep, Wake, SendPendingRevoke, DeleteRevokeJob, NextPhase, RecoverJob, RequeueRecovered, RetryJob,
       RetryTransmit, RetryPersist, RetryReschedule, UpdateMessageState, senderDb, TypeOK
  <2> QED BY <2>1, <2>2 DEF Outside
<1>4. ASSUME NEW m \in Msgs, ReceiveRevoke(m) \/ ForgetOffline(m) \/ Lose(m) PROVE Outside
  <2>1. UNCHANGED <<recvCounter, triggered, stack, hpc, row>> /\ acks' \subseteq acks
    BY <1>4 DEF ReceiveRevoke, ForgetOffline, Lose, receiver, senderDb
  <2> QED BY <2>1 DEF Outside
<1>5. CASE SenderCrash
  <2>1. /\ UNCHANGED <<recvCounter, triggered, stack, row, acks>>
        /\ \A h \in Handlers : hpc'[h] = hpc[h] \/ hpc'[h] = "request"
    BY <1>5 DEF SenderCrash, senderDb, network
  <2> QED BY <2>1 DEF Outside
<1>6. CASE ReceiverCrash
  <2>1. /\ UNCHANGED <<recvCounter, row, acks>> /\ triggered' = {}
        /\ \A h \in Handlers : stack'[h] = <<>> /\ hpc'[h] = "idle"
    BY <1>6 DEF ReceiverCrash, senderDb, network
  <2> QED BY <2>1 DEF Outside
<1>7. CASE UNCHANGED vars
  <2>1. UNCHANGED <<recvCounter, triggered, stack, hpc, row, acks>>
    BY <1>7 DEF vars, receiver, senderDb, network
  <2> QED BY <2>1 DEF Outside
<1> QED BY <1>1, <1>2, <1>3, <1>4, <1>5, <1>6, <1>7 DEF Next

\* RecvInv is inductive.
LEMMA RecvStep ==
  ASSUME ChatInv, [Next]_vars
  PROVE  RecvInv'
<1>0. RoomInv /\ RevokeInv /\ SendInv /\ Carried /\ RecvInv /\ TypeOK /\ Holds /\ Rows
  BY DEF ChatInv, RoomInv, SendInv
<1>1. Offline' = Offline
  BY <1>0, SendMoves DEF Offline
<1>2. SUFFICES ASSUME ~Offline PROVE Sound'
  BY <1>1 DEF RecvInv
<1>3. Sound
  BY <1>0, <1>2 DEF RecvInv
<1>4. CASE Outside
  BY <1>0, <1>2, <1>3, <1>4, SoundOutside DEF Outside
<1>5. ASSUME NEW h \in Handlers, HandlerStep(h) PROVE Sound'
  BY <1>0, <1>2, <1>3, <1>5, SoundHandler
<1> QED BY <1>0, <1>4, <1>5, OutsideMoves

\* At the start nothing is under way and nothing was received.
LEMMA ChatInit == ASSUME Init PROVE ChatInv
<1> USE CounterRange
<1>1. RoomInv /\ SendInv /\ TypeOK
  BY RoomInit, SendInit DEF RoomInv
<1>2. RevokeInv
  BY DEF Init, RevokeInv, RevokeKept
<1>3. Carried
  BY DEF Init, Carried
<1>4. Sound
  <2>1. Covered(0)
    <3>1. sendCounter \in Nat /\ \A m \in Msgs : counter[m] \in Nat
      BY <1>1 DEF TypeOK
    <3> QED BY <3>1 DEF Covered, Reached
  <2>2. recvCounter = 0 /\ triggered = {} /\ acks = {} /\ \A m \in Msgs : row[m] # "delivered"
    BY DEF Init
  <2>3. \A h \in Handlers : stack[h] = <<>> /\ hpc[h] = "idle"
    BY DEF Init
  <2>4. \A h \in Handlers : TopKnows(hpc[h], Top(h))
    BY <2>3 DEF TopKnows
  <2> QED BY <2>1, <2>2, <2>3, <2>4 DEF Sound
<1> QED BY <1>1, <1>2, <1>3, <1>4 DEF ChatInv, RecvInv

\* The invariant of the two nodes.
THEOREM ChatInvariance == Spec => []ChatInv
<1>1. Init => ChatInv
  BY ChatInit
<1>2. ChatInv /\ [Next]_vars => ChatInv'
  <2> SUFFICES ASSUME ChatInv, [Next]_vars PROVE ChatInv'
    OBVIOUS
  <2>1. RoomInv /\ RevokeInv /\ SendInv /\ Carried /\ Rows
    BY DEF ChatInv, SendInv
  <2>2. RoomInv' /\ RevokeInv' /\ SendInv'
    BY <2>1, RoomStep, RevokeInvStep, SendInvStep
  <2>3. Carried'
    BY <2>1, CarriedStep
  <2>4. RecvInv'
    BY RecvStep
  <2> QED BY <2>2, <2>3, <2>4 DEF ChatInv
<1> QED BY <1>1, <1>2, PTL DEF Spec

\* However SendTexts, streams, syncs, retries, losses and crashes of either node
\* overlap, the receive cursor passes a message that was neither stored nor revoked
\* only if another message has its number or a sync answer has left it out.
THEOREM CursorCoversAlways == Spec => []CursorCoversInbox
<1>1. ChatInv => CursorCoversInbox
  BY DEF ChatInv, RecvInv, Sound, Covered, Kept, Known, CursorCoversInbox
<1> QED BY <1>1, ChatInvariance, PTL

\* But for the same two exceptions, a message shown as delivered is in the receiver's
\* database unless it was revoked: the delivery_ack of a duplicate is sent on
\* the strength of the cursor alone, and the cursor covers the message.
THEOREM DeliveredIsStoredAlways == Spec => []DeliveredIsStored
<1>1. ChatInv => DeliveredIsStored
  BY DEF ChatInv, RecvInv, Sound, Kept, DeliveredIsStored
<1> QED BY <1>1, ChatInvariance, PTL

----------------------------------------------------------------------------
(* Where the cursor stands when offline items may skip messages.           *)

\* Only the retry loop sends again what recoverMissingOutboxJobs has not touched: no
\* message leaves between its AddMessage and its UpdateSendCounter.
Steady == scope.workers \subseteq {"loop"}

\* It only sends messages that SendText has counted.
QueueInv ==
    Steady =>
        /\ \A m \in outbox : Counted(m)
        /\ \A w \in Workers : /\ wpc[w] \notin {"revoke", "unqueue"}
                              /\ \A item \in batch[w] : Counted(item[1])
                              /\ wmsg[w] \in Msgs => Counted(wmsg[w])

\* The counter stands right behind a message the receiver has or may pass, and so
\* does the send counter when it is below.
Stood(n) == n = 0 \/ \E m \in Msgs : Known(m) /\ Kept(m) /\ counter[m] + 1 = n
Standing(n) == Stood(n) /\ (n > sendCounter => Stood(sendCounter))

\* So does the counter of a frame; an offline item was counted before it was sent.
FrameStands(f) == Standing(f.at) /\ (f.op = "offline" => Counted(f.msg))

\* What a goroutine at a step knows about its innermost frame.
TopStands(step, f) ==
    /\ step = "store" => f.op = "offline" \/ Stood(counter[f.msg])
    /\ step = "served" => Listed(f)
    /\ step = "apply" =>
        /\ f.rsc = 0 \/ \E m \in Msgs : Counted(m) /\ counter[m] + 1 = f.rsc
        /\ f.at > f.rsc => Stood(f.rsc)
        /\ ListedBelow(f)
    /\ step = "jump" => Standing(f.rsc)

Stands ==
    /\ Standing(recvCounter)
    /\ \A n \in triggered : Standing(n)
    /\ \A m \in depot : Counted(m)
    /\ \A h \in Handlers : \A i \in 1 .. Len(stack[h]) : FrameStands(stack[h][i])
    /\ \A h \in Handlers : TopStands(hpc[h], Top(h))

StandInv == Steady => Stands

\* QueueInv is inductive.
LEMMA QueueStep ==
  ASSUME RoomInv, SendInv, QueueInv, [Next]_vars
  PROVE  QueueInv'
<1>0. TypeOK /\ Rows /\ Holds
  BY DEF RoomInv, SendInv
<1>1. UNCHANGED scope
  BY <1>0, SendMoves
<1>2. SUFFICES ASSUME Steady
               PROVE  /\ \A m \in outbox' : Counted(m)'
                      /\ \A w \in Workers : /\ wpc'[w] \notin {"revoke", "unqueue"}
                                            /\ \A item \in batch'[w] : Counted(item[1])'
                                            /\ wmsg'[w] \in Msgs => Counted(wmsg[w])'
  BY <1>1 DEF QueueInv, Steady
<1>3. /\ outbox \subseteq Msgs /\ \A m \in outbox : Counted(m)
      /\ \A w \in Workers : /\ wpc[w] \notin {"revoke", "unqueue"}
                            /\ \A item \in batch[w] : item[1] \in Msgs /\ Counted(item[1])
                            /\ wmsg[w] \in Msgs => Counted(wmsg[w])
  BY <1>0, <1>2 DEF QueueInv, TypeOK
<1>4. \A m \in Msgs : Counted(m) => Counted(m)'
  <2>1. CASE Quiet
    BY <2>1 DEF Quiet, Counted, Late
  <2>2. CASE \E m \in Msgs : Reads(m) \/ Inserts(m) \/ Counts(m)
    BY <1>0, <2>2 DEF Reads, Inserts, Counts, Counted, TypeOK
  <2>3. CASE Crashes
    BY <1>0, <2>3 DEF Crashes, Counted, AfterCrash, TypeOK
  <2> QED BY <1>0, <2>1, <2>2, <2>3, SendMoves
<1>a. "connect" \notin scope.workers
  BY <1>2 DEF Steady
\* Nothing new is queued, listed or taken up.
<1>5. ASSUME \A m \in outbox' : m \in Msgs /\ Counted(m)',
             \A w \in Workers : /\ wpc'[w] \notin {"revoke", "unqueue"}
                                /\ \A item \in batch'[w] : item[1] \in Msgs /\ Counted(item[1])
                                /\ wmsg'[w] \in Msgs => Counted(wmsg'[w])
      PROVE  /\ \A m \in outbox' : Counted(m)'
             /\ \A w \in Workers : /\ wpc'[w] \notin {"revoke", "unqueue"}
                                   /\ \A item \in batch'[w] : Counted(item[1])'
                                   /\ wmsg'[w] \in Msgs => Counted(wmsg[w])'
  <2>1. ASSUME NEW w \in Workers, wmsg'[w] \in Msgs PROVE Counted(wmsg[w])'
    <3>1. PICK m \in Msgs : m = wmsg'[w]
      BY <2>1
    <3>2. Counted(m)'
      BY <1>4, <1>5, <2>1, <3>1
    <3> QED BY <3>1, <3>2 DEF Counted
  <2> QED BY <1>4, <1>5, <2>1
<1>6. ASSUME UNCHANGED <<wpc, wmsg, batch>>, outbox' \subseteq outbox
      PROVE  /\ \A m \in outbox' : Counted(m)'
             /\ \A w \in Workers : /\ wpc'[w] \notin {"revoke", "unqueue"}
                                   /\ \A item \in batch'[w] : Counted(item[1])'
                                   /\ wmsg'[w] \in Msgs => Counted(wmsg[w])'
  BY <1>3, <1>4, <1>5, <1>6
<1>7. ASSUME NEW m \in Msgs, SenderStep(m) PROVE QueueInv'
  <2>1. UNCHANGED <<wpc, wmsg, batch>>
    BY <1>7 DEF SenderStep, ReadSendCounter, InsertOutbound, UpdateSendCounter, RegisterJob, CheckLocalOnly, FirstTransmit,
       PersistOutcome, RescheduleJob
  <2>2. outbox' = outbox \/ (outbox' = outbox \cup {m} /\ spc[m] \in {"counted", "mark"})
    BY <1>7 DEF SenderStep, ReadSendCounter, InsertOutbound, UpdateSendCounter, RegisterJob, CheckLocalOnly, FirstTransmit,
       PersistOutcome, RescheduleJob, SendStep, senderDb
  <2>3. \A n \in outbox' : n \in Msgs /\ Counted(n)'
    BY <1>3, <1>4, <2>2 DEF Counted
  <2> QED BY <1>3, <1>5, <2>1, <2>3 DEF QueueInv
<1>8. ASSUME NEW m \in Msgs, AckStep(m) \/ RevokeMessage(m) PROVE QueueInv'
  <2>1. UNCHANGED <<wpc, wmsg, batch>> /\ outbox' \subseteq outbox
    BY <1>8 DEF AckStep, MarkDelivered, DeleteOutboxJob, RevokeMessage, BeginRevoke, SendRevoke, RevokeDeleteJob,
       RevokeDeleteRow, senderDb
  <2> QED BY <1>6, <2>1 DEF QueueInv
<1>9. ASSUME NEW w \in Workers, WorkerStep(w) PROVE QueueInv'
  <2>1. /\ \A v \in Workers : v # w => wpc'[v] = wpc[v] /\ wmsg'[v] = wmsg[v] /\ batch'[v] = batch[v]
        /\ wpc'[w] \notin {"revoke", "unqueue"}
    BY <1>0, <1>a, <1>3, <1>9
       DEF WorkerStep, Wake, SendPendingRevoke, DeleteRevokeJob, NextPhase, RecoverJob, RequeueRecovered, RetryJob,
           RetryTransmit, RetryPersist, RetryReschedule, WorkStep, Take, Drop, Release, TypeOK
  <2>2. batch'[w] \subseteq batch[w] \/ batch'[w] = Jobs
    BY <1>0, <1>a, <1>3, <1>9
       DEF WorkerStep, Wake, SendPendingRevoke, DeleteRevokeJob, NextPhase, RecoverJob, RequeueRecovered, RetryJob,
           RetryTransmit, RetryPersist, RetryReschedule, WorkStep, Take, Drop, Release, TypeOK
  <2>3. wmsg'[w] \in {wmsg[w], NoMsg} \/ \E item \in batch[w] : wmsg'[w] = item[1]
    BY <1>0, <1>9
       DEF WorkerStep, Wake, SendPendingRevoke, DeleteRevokeJob, NextPhase, RecoverJob, RequeueRecovered, RetryJob,
           RetryTransmit, RetryPersist, RetryReschedule, WorkStep, Take, Drop, Release, TypeOK
  <2>4. \A m \in outbox' : m \in outbox \/ (m \in Msgs /\ m = wmsg[w]) \/ \E item \in batch[w] : m = item[1]
    BY <1>0, <1>9
       DEF WorkerStep, Wake, SendPendingRevoke, DeleteRevokeJob, NextPhase, RecoverJob, RequeueRecovered, RetryJob,
           RetryTransmit, RetryPersist, RetryReschedule, WorkStep, senderDb, Holds
  <2>5. \A item \in Jobs : item[1] \in outbox
    BY ItemsOf DEF Jobs
  <2>6. \A item \in batch'[w] : item[1] \in Msgs /\ Counted(item[1])
    BY <1>3, <2>2, <2>5
  <2>7. wmsg'[w] \in Msgs => Counted(wmsg'[w])
    BY <1>3, <2>3, ChatAssumption
  <2>8. \A m \in outbox' : m \in Msgs /\ Counted(m)'
    BY <1>3, <1>4, <2>4
  <2>9. \A v \in Workers : /\ wpc'[v] \notin {"revoke", "unqueue"}
                           /\ \A item \in batch'[v] : item[1] \in Msgs /\ Counted(item[1])
                           /\ wmsg'[v] \in Msgs => Counted(wmsg'[v])
    BY <1>3, <2>1, <2>6, <2>7
  <2> QED BY <1>5, <2>8, <2>9 DEF QueueInv
<1>10. ASSUME NEW h \in Handlers, HandlerStep(h) PROVE QueueInv'
  <2>1. UNCHANGED <<wpc, wmsg, batch, outbox>>
    BY <1>10, HandlerMoves DEF senderDb, senderThreads
  <2> QED BY <1>6, <2>1 DEF QueueInv
<1>11. ASSUME NEW m \in Msgs, ReceiveRevoke(m) \/ ForgetOffline(m) \/ Lose(m) PROVE QueueInv'
  <2>1. UNCHANGED <<wpc, wmsg, batch, outbox>>
    BY <1>11 DEF ReceiveRevoke, ForgetOffline, Lose, senderDb, senderThreads
  <2> QED BY <1>6, <2>1 DEF QueueInv
<1>12. CASE SenderCrash
  <2>1. /\ UNCHANGED outbox
        /\ \A w \in Workers : /\ wpc'[w] \notin {"revoke", "unqueue"} /\ wmsg'[w] \notin Msgs /\ batch'[w] = {}
    BY <1>2, <1>12, ChatAssumption DEF SenderCrash, senderDb, Steady
  <2> QED BY <1>3, <1>4, <1>5, <2>1 DEF QueueInv
<1>13. CASE ReceiverCrash \/ UNCHANGED vars
  <2>1. UNCHANGED <<wpc, wmsg, batch, outbox>>
    BY <1>13 DEF ReceiverCrash, vars, senderDb, senderThreads
  <2> QED BY <1>6, <2>1 DEF QueueInv
<1>b. Steady'
  BY <1>1, <1>2 DEF Steady
<1> QED BY <1>b, <1>7, <1>8, <1>9, <1>10, <1>11, <1>12, <1>13 DEF Next, QueueInv

\* Where two messages have the number before the send counter, it stands.
LEMMA TwiceStands ==
  ASSUME RoomInv, Rows, Twice(sendCounter - 1)
  PROVE  Stood(sendCounter)
<1>1. sendCounter \in Nat /\ \A m \in Msgs : counter[m] \in Nat
  BY CounterRange DEF RoomInv, TypeOK
<1>2. PICK i \in Msgs, j \in Msgs : i # j /\ Numbered(i) /\ Numbered(j) /\ counter[i] = sendCounter - 1 /\ counter[j] = sendCounter - 1
  BY DEF Twice
<1>3. Known(i) /\ Shares(i) /\ counter[i] + 1 = sendCounter
  BY <1>1, <1>2 DEF Rows, Shares
<1> QED BY <1>3 DEF Stood, Kept, Passable

\* A number in use at or above the send counter shows that it was set back.
LEMMA SetBack ==
  ASSUME RoomInv, SendInv, NEW m \in Msgs,
         (Numbered(m) /\ counter[m] > sendCounter) \/ (Counted(m) /\ counter[m] >= sendCounter)
  PROVE  Stood(sendCounter)
<1>1. Twice(sendCounter - 1)
  BY DEF SendInv, Filled, Numbered
<1> QED BY <1>1, TwiceStands DEF SendInv

\* What stands keeps standing, also when the send counter is set back.
LEMMA StandingStays ==
  ASSUME RoomInv, SendInv, Carried, [Next]_vars, NEW n \in Nat
  PROVE  /\ Stood(n) => Stood(n)'
         /\ Standing(n) => Standing(n)'
<1> USE CounterRange
<1>0. Rows /\ Filled /\ TypeOK
  BY DEF SendInv, RoomInv
<1>1. ASSUME NEW k \in Nat, Stood(k) PROVE Stood(k)'
  <2>1. CASE k = 0
    BY <2>1 DEF Stood
  <2>2. ASSUME NEW m \in Msgs, Known(m), Kept(m), counter[m] + 1 = k PROVE Stood(k)'
    <3>1. Known(m)' /\ counter'[m] = counter[m] /\ Kept(m)'
      BY <1>0, <2>2, KnownOn, KeptStays
    <3> QED BY <2>2, <3>1 DEF Stood
  <2> QED BY <1>1, <2>1, <2>2 DEF Stood
<1>2. sendCounter \in Nat /\ \A m \in Msgs : counter[m] \in Nat
  BY <1>0 DEF TypeOK
<1>3. ASSUME Standing(n), n > sendCounter' PROVE Stood(sendCounter)'
  <2>1. CASE sendCounter' = sendCounter
    <3>1. PICK k \in Nat : k = sendCounter
      BY <1>2
    <3>2. Stood(k)'
      BY <1>1, <1>3, <2>1, <3>1 DEF Standing
    <3> QED BY <2>1, <3>1, <3>2 DEF Stood
  <2>2. ASSUME NEW k \in Msgs, Counts(k) PROVE Stood(sendCounter)'
    <3>1. sendCounter' = counter[k] + 1 /\ spc[k] = "added" /\ n > counter[k] + 1
      BY <1>3, <2>2 DEF Counts
    <3>2. PICK m \in Msgs : Known(m) /\ counter[m] + 1 = n
      BY <1>2, <1>3, <3>1 DEF Standing, Stood
    <3>3. counter[k] \in 0 .. counter[m] - 1
      BY <1>2, <3>1, <3>2
    <3>4. PICK j \in Msgs : Counted(j) /\ counter[j] = counter[k]
      BY <1>0, <3>2, <3>3 DEF Filled, Used, Rows, Numbered
    <3>5. j # k /\ Numbered(j) /\ Numbered(k)
      BY <3>1, <3>4 DEF Counted, Numbered
    <3>6. Known(k) /\ Kept(k)
      BY <1>0, <3>4, <3>5 DEF Rows, Kept, Passable, Shares
    <3>7. PICK c \in Nat : c = counter[k] + 1
      BY <1>2
    <3>8. Stood(c)
      BY <3>6, <3>7 DEF Stood
    <3>9. Stood(c)'
      BY <1>1, <3>8
    <3> QED BY <3>1, <3>7, <3>9 DEF Stood
  <2> QED BY <1>0, <2>1, <2>2, SendMoves DEF Quiet, Reads, Inserts, Crashes
<1> QED BY <1>1, <1>3 DEF Standing

\* So does a frame, and a message stays counted.
LEMMA FrameStays ==
  ASSUME RoomInv, SendInv, Carried, [Next]_vars
  PROVE  /\ \A m \in Msgs : Counted(m) => Counted(m)' /\ counter'[m] = counter[m]
         /\ \A f \in Frames : (f.op # "sync" => f.msg \in Msgs) /\ FrameStands(f) => FrameStands(f)'
<1> USE CounterRange
<1>0. Rows
  BY DEF SendInv
<1>1. \A m \in Msgs : Counted(m) => Counted(m)' /\ counter'[m] = counter[m]
  BY <1>0, KnownStays DEF Counted
<1>2. ASSUME NEW f \in Frames, f.op # "sync" => f.msg \in Msgs, FrameStands(f) PROVE FrameStands(f)'
  <2>1. PICK n \in Nat : n = f.at
    BY DEF Frames
  <2>2. Standing(n)'
    BY <1>2, <2>1, StandingStays DEF FrameStands
  <2>3. f.op = "offline" => Counted(f.msg)'
    BY <1>1, <1>2 DEF FrameStands
  <2> QED BY <2>1, <2>2, <2>3 DEF FrameStands
<1> QED BY <1>1, <1>2

\* What a goroutine knows about its innermost frame, while it stays at its step.
LEMMA TopStandStays ==
  ASSUME RoomInv, SendInv, Carried, [Next]_vars, NEW h \in Handlers, NEW step, step = hpc[h],
         NEW f \in Frames, f.op # "sync" => f.msg \in Msgs, InText(h) => f.op # "sync",
         FrameKnown(f), TopStands(step, f)
  PROVE  TopStands(step, f)'
<1> USE CounterRange
<1>0. Rows
  BY DEF SendInv
<1>1. f.at \in Nat /\ f.rsc \in Nat
  BY DEF Frames
<1>2. ASSUME step = "store", f.op # "offline" PROVE Stood(counter[f.msg])'
  <2>1. f.msg \in Msgs /\ Known(f.msg)
    BY <1>2 DEF FrameKnown, InText
  <2>2. counter'[f.msg] = counter[f.msg] /\ counter[f.msg] \in Nat
    BY <1>0, <2>1, KnownOn DEF RoomInv, TypeOK
  <2>3. PICK n \in Nat : n = counter[f.msg]
    BY <2>2
  <2>4. Stood(n)'
    BY <1>2, <2>3, StandingStays DEF TopStands
  <2> QED BY <2>2, <2>3, <2>4 DEF Stood
<1>3. step = "jump" => Standing(f.rsc)'
  BY <1>1, StandingStays DEF TopStands
<1>4. step = "served" => Listed(f)'
  BY <1>0, ListedStays DEF TopStands
<1>5. ASSUME step = "apply"
      PROVE  /\ f.rsc = 0 \/ \E m \in Msgs : Counted(m)' /\ counter'[m] + 1 = f.rsc
             /\ f.at > f.rsc => Stood(f.rsc)'
             /\ ListedBelow(f)'
  <2>1. f.rsc = 0 \/ \E m \in Msgs : Counted(m) /\ counter[m] + 1 = f.rsc
    BY <1>5 DEF TopStands
  <2>2. Reached(f.rsc)
    BY <1>0, <2>1 DEF Reached, Rows, Counted, Numbered
  <2>3. ListedBelow(f)'
    BY <1>5, <2>2, ListedBelowStays DEF TopStands
  <2>4. f.rsc = 0 \/ \E m \in Msgs : Counted(m)' /\ counter'[m] + 1 = f.rsc
    BY <2>1, FrameStays
  <2>5. f.at > f.rsc => Stood(f.rsc)'
    BY <1>1, <1>5, StandingStays DEF TopStands
  <2> QED BY <2>3, <2>4, <2>5
<1> QED BY <1>2, <1>3, <1>4, <1>5 DEF TopStands

\* A frame of a goroutine, and what is known of it.
LEMMA FrameFacts ==
  ASSUME RoomInv, Carried, Stands, NEW h \in Handlers, NEW j \in 1 .. Len(stack[h])
  PROVE  /\ stack[h][j] \in Frames /\ FrameKnown(stack[h][j]) /\ FrameStands(stack[h][j])
         /\ stack[h][j].op # "sync" => stack[h][j].msg \in Msgs
<1>1. stack[h] \in Seq(Frames)
  BY DEF RoomInv, TypeOK
<1>2. stack[h][j] \in Frames
  BY <1>1
<1> QED BY <1>2 DEF RoomInv, Shape, Carried, Stands

\* The innermost frame of a goroutine that stays where it is.
LEMMA TopStandsOn ==
  ASSUME RoomInv, SendInv, Carried, Stands, [Next]_vars, NEW h \in Handlers,
         stack'[h] = stack[h], hpc'[h] = hpc[h]
  PROVE  TopStands(hpc[h], Top(h))'
<1>1. CASE hpc[h] = "idle"
  BY <1>1 DEF TopStands
<1>2. CASE hpc[h] # "idle"
  <2>1. PICK f, step : f \in Frames /\ f = Top(h) /\ step = hpc[h]
    BY <1>2, TopFacts
  <2>2. TopStands(step, f) /\ FrameKnown(f) /\ (InText(h) => f.op # "sync") /\ (f.op # "sync" => f.msg \in Msgs)
    BY <1>2, <2>1, TopFacts DEF Stands
  <2>3. TopStands(step, f)'
    BY <2>1, <2>2, TopStandStays
  <2>4. f = Top(h)' /\ step = hpc'[h]
    BY <2>1 DEF Top
  <2> QED BY <2>3, <2>4 DEF TopStands, Standing, Stood, Listed, ListedBelow
<1> QED BY <1>1, <1>2

\* What a step puts into the offline stores was counted.
LEMMA DepotStays ==
  ASSUME RoomInv, SendInv, Carried, QueueInv, Steady, Stands, [Next]_vars
  PROVE  \A m \in depot' : m \in Msgs /\ Counted(m)'
<1> USE CounterRange
<1>0. TypeOK /\ Rows /\ Holds
  BY DEF RoomInv, SendInv
<1>2. \A m \in depot' : m \in Msgs /\ (m \in depot \/ Counted(m))
  <2>0. depot \subseteq Msgs
    BY <1>0 DEF TypeOK
  <2>1. ASSUME NEW m \in Msgs, SenderStep(m) PROVE depot' = depot \/ (spc[m] = "sending" /\ depot' \subseteq depot \cup {m})
    BY <2>1 DEF SenderStep, ReadSendCounter, InsertOutbound, UpdateSendCounter, RegisterJob, CheckLocalOnly, FirstTransmit,
       PersistOutcome, RescheduleJob, network, Transmit, SendStep
  <2>2. ASSUME NEW w \in Workers, WorkerStep(w) PROVE depot' = depot \/ (wpc[w] = "sending" /\ depot' \subseteq depot \cup {wmsg[w]})
    BY <2>2
       DEF WorkerStep, Wake, SendPendingRevoke, DeleteRevokeJob, NextPhase, RecoverJob, RequeueRecovered, RetryJob,
           RetryTransmit, RetryPersist, RetryReschedule, WorkStep, network, Transmit
  <2>3. ASSUME NEW m \in Msgs, AckStep(m) \/ RevokeMessage(m) PROVE depot' = depot
    BY <2>3 DEF AckStep, MarkDelivered, DeleteOutboxJob, RevokeMessage, BeginRevoke, SendRevoke, RevokeDeleteJob,
       RevokeDeleteRow, network
  <2>4. ASSUME NEW h \in Handlers, HandlerStep(h) PROVE depot' = depot
    BY <2>4, HandlerMoves
  <2>5. ASSUME NEW m \in Msgs, ReceiveRevoke(m) \/ ForgetOffline(m) \/ Lose(m) PROVE depot' \subseteq depot
    BY <2>5 DEF ReceiveRevoke, ForgetOffline, Lose
  <2>6. CASE SenderCrash \/ ReceiverCrash \/ UNCHANGED vars
    BY <2>0, <2>6 DEF SenderCrash, ReceiverCrash, vars, network
  <2>7. \A m \in Msgs : spc[m] = "sending" => Counted(m)
    BY DEF Counted
  <2>8. \A w \in Workers : wpc[w] = "sending" => wmsg[w] \in Msgs /\ Counted(wmsg[w])
    BY <1>0 DEF Holds, QueueInv
  <2> QED BY <2>0, <2>1, <2>2, <2>3, <2>4, <2>5, <2>6, <2>7, <2>8 DEF Next
<1> QED BY <1>2, FrameStays DEF Stands

\* A step outside the receiver's goroutines.
LEMMA StandsOutside ==
  ASSUME RoomInv, SendInv, Carried, QueueInv, Steady, Stands, [Next]_vars, Outside
  PROVE  Stands'
<1> USE CounterRange
<1>0. TypeOK
  BY DEF RoomInv
<1>1. recvCounter \in Nat /\ \A n \in triggered : n \in Nat
  BY <1>0 DEF TypeOK
<1>2. Standing(recvCounter)'
  <2>1. PICK n \in Nat : n = recvCounter
    BY <1>1
  <2>2. Standing(n)'
    BY <1>0, <2>1, StandingStays DEF Stands
  <2> QED BY <2>1, <2>2 DEF Outside, Standing, Stood
<1>3. \A n \in triggered' : Standing(n)'
  BY <1>0, <1>1, StandingStays DEF Stands, Outside
<1>4. ASSUME NEW h \in Handlers, NEW i \in 1 .. Len(stack'[h]) PROVE FrameStands(stack[h][i])'
  <2>1. stack'[h] = stack[h]
    BY <1>4 DEF Outside
  <2>2. PICK f : f = stack[h][i]
    OBVIOUS
  <2>3. FrameStands(f)'
    BY <1>0, <1>4, <2>1, <2>2, FrameFacts, FrameStays
  <2> QED BY <2>1, <2>2, <2>3 DEF FrameStands, Standing, Stood
<1>5. ASSUME NEW h \in Handlers PROVE TopStands(hpc[h], Top(h))'
  <2>1. CASE hpc'[h] \in {"request", "idle"}
    BY <2>1 DEF TopStands
  <2>2. CASE stack'[h] = stack[h] /\ hpc'[h] = hpc[h]
    BY <1>0, <2>2, TopStandsOn
  <2> QED BY <2>1, <2>2 DEF Outside
<1>6. \A m \in depot' : Counted(m)'
  BY DepotStays
<1> QED BY <1>2, <1>3, <1>4, <1>5, <1>6 DEF Stands

\* A step of a goroutine of the receiver.
LEMMA StandsHandler ==
  ASSUME RoomInv, SendInv, Carried, QueueInv, Steady, Stands, NEW h \in Handlers, HandlerStep(h)
  PROVE  Stands'
<1> USE CounterRange
<1>0. TypeOK /\ Rows /\ Filled /\ [Next]_vars
  BY DEF RoomInv, SendInv, Next
<1>1. Moves(h) /\ UNCHANGED <<sendCounter, row, counter, spc, vpc, missed, depot, scope>> /\ wire' \subseteq wire
  BY HandlerMoves DEF senderDb, senderThreads, env, history
<1>2. \A n \in Nat : (Stood(n) => Stood(n)') /\ (Standing(n) => Standing(n)')
  BY <1>0, StandingStays
<1>3. recvCounter \in Nat /\ (\A n \in triggered : n \in Nat) /\ sendCounter \in Nat /\ \A m \in Msgs : counter[m] \in Nat
  BY <1>0 DEF TypeOK
<1>4. Standing(0)
  BY <1>3 DEF Standing, Stood
<1>5. \A m \in depot : m \in Msgs /\ Counted(m)
  BY <1>0 DEF Stands, TypeOK
\* What is left to show of a step.
<1>7. ASSUME NEW S, Grown(h, S), \A f \in S : FrameStands(f)', TopStands(hpc[h], Top(h))',
             Standing(recvCounter)', \A n \in triggered' : n \in Nat /\ Standing(n)
      PROVE  Stands'
  <2>1. ASSUME NEW g \in Handlers, NEW i \in 1 .. Len(stack'[g]) PROVE FrameStands(stack[g][i])'
    <3>1. PICK f : f = stack'[g][i]
      OBVIOUS
    <3>2. f \in S \/ \E k \in Handlers : \E j \in 1 .. Len(stack[k]) : f = stack[k][j]
      <4>1. CASE g = h
        BY <1>7, <2>1, <3>1, <4>1 DEF Grown
      <4>2. CASE g # h
        BY <1>7, <2>1, <3>1, <4>2 DEF Grown
      <4> QED BY <4>1, <4>2
    <3>3. FrameStands(f)'
      <4>1. CASE f \in S
        BY <1>7, <4>1
      <4>2. ASSUME NEW k \in Handlers, NEW j \in 1 .. Len(stack[k]), f = stack[k][j] PROVE FrameStands(f)'
        BY <1>0, <4>2, FrameFacts, FrameStays
      <4> QED BY <3>2, <4>1, <4>2
    <3> QED BY <3>1, <3>3 DEF FrameStands, Standing, Stood
  <2>2. ASSUME NEW g \in Handlers PROVE TopStands(hpc[g], Top(g))'
    <3>1. CASE g = h
      BY <1>7, <3>1
    <3>2. CASE g # h
      <4>1. stack'[g] = stack[g] /\ hpc'[g] = hpc[g]
        BY <1>7, <3>2 DEF Grown
      <4> QED BY <1>0, <4>1, TopStandsOn
    <3> QED BY <3>1, <3>2
  <2>3. \A n \in triggered' : Standing(n)'
    BY <1>2, <1>7
  <2>4. \A m \in depot' : Counted(m)'
    BY <1>1, <1>5 DEF Counted
  <2> QED BY <1>7, <2>1, <2>2, <2>3, <2>4 DEF Stands
<1>8. ASSUME UNCHANGED recvCounter PROVE Standing(recvCounter)'
  <2>1. PICK n \in Nat : n = recvCounter
    BY <1>3
  <2>2. Standing(n)'
    BY <1>2, <2>1 DEF Stands
  <2> QED BY <1>8, <2>1, <2>2 DEF Standing, Stood
<1>9. Standing(recvCounter) /\ \A n \in triggered : n \in Nat /\ Standing(n)
  BY <1>3 DEF Stands
<1>10. ASSUME hpc[h] # "idle", NEW f, f = Top(h)
       PROVE  /\ f \in Frames /\ FrameKnown(f) /\ FrameStands(f) /\ FrameStands(f)'
              /\ f.op # "sync" => f.msg \in Msgs
              /\ InText(h) => f.op # "sync"
              /\ f.at \in Nat /\ f.rsc \in Nat
  <2>1. f \in Frames /\ FrameKnown(f) /\ FrameStands(f) /\ (f.op # "sync" => f.msg \in Msgs)
    BY <1>10, TopFacts, FrameFacts
  <2>2. f.at \in Nat /\ f.rsc \in Nat
    BY <2>1 DEF Frames
  <2> QED BY <1>0, <1>10, <2>1, <2>2, TopFacts, FrameStays
<1>11. ASSUME hpc'[h] \in {"idle", "load", "request", "next", "round", "ack"} PROVE TopStands(hpc[h], Top(h))'
  BY <1>11 DEF TopStands
\* A move to a step that knows nothing special.
<1>12. ASSUME NEW S, Grown(h, S), \A f \in S : FrameStands(f)',
              hpc'[h] \in {"idle", "load", "request", "next", "round", "ack"},
              UNCHANGED recvCounter, triggered' \subseteq triggered
       PROVE  Stands'
  BY <1>7, <1>8, <1>9, <1>11, <1>12
\* A new frame.
<1>13. ASSUME NEW f, NEW n \in Nat, Standing(n), f.at = n, f.op # "offline" PROVE FrameStands(f)'
  <2>1. Standing(n)'
    BY <1>2, <1>13
  <2> QED BY <1>13, <2>1 DEF FrameStands
<1>14. (\A n \in Nat : Standing(n) => FrameStands(SyncFrame(n))') /\ \A m : FrameStands(TextFrame("text", m))'
  <2>1. ASSUME NEW n \in Nat, Standing(n) PROVE FrameStands(SyncFrame(n))'
    <3>1. PICK f : f = SyncFrame(n)
      OBVIOUS
    <3>2. FrameStands(f)'
      BY <1>13, <2>1, <3>1, FrameFields
    <3> QED BY <3>1, <3>2
  <2>2. ASSUME NEW m PROVE FrameStands(TextFrame("text", m))'
    <3>1. PICK f : f = TextFrame("text", m)
      OBVIOUS
    <3>2. FrameStands(f)'
      BY <1>4, <1>13, <3>1, FrameFields
    <3> QED BY <3>1, <3>2
  <2> QED BY <2>1, <2>2
<1>15. CASE UNCHANGED <<recvCounter, inbox, acks>> /\ Entered(h)
  <2>1. ASSUME NEW m, Moved(h, {TextFrame("text", m)}, TextFrame("text", m), "load"), UNCHANGED triggered PROVE Stands'
    BY <1>12, <1>14, <1>15, <2>1 DEF Moved
  <2>2. ASSUME NEW m \in depot, Moved(h, {TextFrame("offline", m)}, TextFrame("offline", m), "load"), UNCHANGED triggered PROVE Stands'
    <3>1. PICK f : f = TextFrame("offline", m)
      OBVIOUS
    <3>2. f.at = 0 /\ f.msg = m
      BY <3>1, FrameFields
    <3>3. Standing(0)'
      BY <1>2, <1>4
    <3>4. FrameStands(f)'
      BY <1>1, <1>5, <2>2, <3>2, <3>3 DEF FrameStands, Counted
    <3> QED BY <1>12, <1>15, <2>2, <3>1, <3>4 DEF Moved
  <2>3. ASSUME NEW n \in triggered \cup {recvCounter}, Moved(h, {SyncFrame(n)}, SyncFrame(n), "request"), triggered' \subseteq triggered
        PROVE  Stands'
    BY <1>3, <1>9, <1>12, <1>14, <1>15, <2>3 DEF Moved
  <2> QED BY <1>15, <2>1, <2>2, <2>3 DEF Entered
<1>16. CASE UNCHANGED <<recvCounter, inbox, acks>> /\ Loaded(h)
  <2>1. PICK f : f = Top(h)
    OBVIOUS
  <2>2. hpc[h] = "load" /\ UNCHANGED triggered /\ f.msg \in Msgs /\ f \in Frames /\ Known(f.msg) /\ FrameStands(f) /\ FrameStands(f)' /\ f.op # "sync"
    BY <1>10, <1>16, <2>1 DEF Loaded, InText, FrameKnown
  <2>3. CASE Returned(h)
    BY <1>12, <1>16, <2>2, <2>3 DEF Returned
  <2>4. CASE Moved(h, {f}, f, "ack")
    BY <1>12, <1>16, <2>2, <2>4 DEF Moved
  <2>5. CASE Moved(h, {[f EXCEPT !.at = recvCounter], SyncFrame(recvCounter)}, SyncFrame(recvCounter), "request")
    <3>1. PICK r : r = [f EXCEPT !.at = recvCounter]
      OBVIOUS
    <3>2. r.at = recvCounter /\ r.op = f.op /\ r.msg = f.msg
      BY <2>2, <2>5, <3>1, FrameEdits
    <3>3. PICK n \in Nat : n = recvCounter /\ Standing(n)
      BY <1>3, <1>9
    <3>4. FrameStands(r)' /\ FrameStands(SyncFrame(n))'
      <4>1. Standing(n)'
        BY <1>2, <3>3
      <4>2. FrameStands(r)'
        BY <2>2, <3>2, <3>3, <4>1 DEF FrameStands
      <4> QED BY <1>14, <3>3, <4>2
    <3>5. Moved(h, {r, SyncFrame(n)}, SyncFrame(n), "request")
      BY <2>5, <3>1, <3>3
    <3> QED BY <1>12, <1>16, <2>2, <3>4, <3>5 DEF Moved
  <2>6. CASE (counter[f.msg] = recvCounter \/ f.op = "offline") /\ Moved(h, {f}, f, "store")
    <3>1. hpc'[h] = "store" /\ Top(h)' = f /\ Grown(h, {f})
      BY <2>6 DEF Moved
    <3>2. f.op = "offline" \/ Stood(counter[f.msg])'
      <4>1. CASE f.op = "offline"
        BY <4>1
      <4>2. CASE counter[f.msg] = recvCounter
        <5>1. PICK n \in Nat : n = recvCounter
          BY <1>3
        <5>2. Stood(n)'
          BY <1>2, <1>9, <5>1 DEF Standing
        <5> QED BY <1>1, <4>2, <5>1, <5>2 DEF Stood
      <4> QED BY <2>6, <4>1, <4>2
    <3>3. TopStands(hpc[h], Top(h))'
      BY <3>1, <3>2 DEF TopStands, Stood
    <3> QED BY <1>7, <1>8, <1>9, <1>16, <2>2, <3>1, <3>3
  <2> QED BY <1>16, <2>1, <2>2, <2>3, <2>4, <2>5, <2>6 DEF Loaded
<1>17. CASE UNCHANGED <<recvCounter, inbox, acks>> /\ Erred(h)
  <2>1. \A n \in triggered' : n \in Nat /\ Standing(n)
    <3>1. ASSUME NEW j \in 1 .. Len(stack[h]) PROVE stack[h][j].at \in Nat /\ Standing(stack[h][j].at)
      <4>1. stack[h][j] \in Frames /\ FrameStands(stack[h][j])
        BY FrameFacts
      <4> QED BY <4>1 DEF Frames, FrameStands
    <3> QED BY <1>9, <1>17, <3>1 DEF Erred
  <2> QED BY <1>7, <1>8, <1>11, <1>17, <2>1 DEF Erred
<1>18. CASE /\ hpc[h] = "store" /\ inbox' = inbox \cup {Top(h).msg} /\ recvCounter' = counter[Top(h).msg] + 1
            /\ UNCHANGED <<acks, triggered>> /\ (Returned(h) \/ Moved(h, {Top(h)}, Top(h), "ack"))
  <2>1. PICK f : f = Top(h)
    OBVIOUS
  <2>2. PICK m \in Msgs : m = f.msg /\ Known(m) /\ FrameStands(f)' /\ (f.op = "offline" => Counted(m))
    BY <1>10, <1>18, <2>1 DEF InText, FrameKnown, FrameStands
  <2>3. Counted(m) \/ Stood(counter[m])
    BY <1>18, <2>1, <2>2 DEF Stands, TopStands
  <2>4. Standing(recvCounter)'
    <3>1. recvCounter' = counter[m] + 1 /\ counter[m] \in Nat
      BY <1>3, <1>18, <2>1, <2>2
    <3>2. Known(m)' /\ Kept(m)' /\ counter'[m] = counter[m] /\ Numbered(m)
      BY <1>0, <1>1, <1>18, <2>1, <2>2 DEF Known, Kept, Rows
    <3>3. Stood(recvCounter)'
      BY <3>1, <3>2 DEF Stood
    <3>4. ASSUME recvCounter' > sendCounter' PROVE Stood(sendCounter)'
      <4>1. counter[m] >= sendCounter
        BY <1>1, <1>3, <3>1, <3>4
      <4>2. Stood(sendCounter)
        <5>1. CASE Counted(m) \/ counter[m] > sendCounter
          BY <3>2, <4>1, <5>1, SetBack
        <5>2. CASE Stood(counter[m]) /\ counter[m] = sendCounter
          BY <5>2
        <5> QED BY <1>3, <2>3, <4>1, <5>1, <5>2
      <4>3. PICK n \in Nat : n = sendCounter
        BY <1>3
      <4>4. Stood(n)'
        BY <1>2, <4>2, <4>3
      <4> QED BY <1>1, <4>3, <4>4 DEF Stood
    <3> QED BY <3>3, <3>4 DEF Standing
  <2>5. CASE Returned(h)
    BY <1>7, <1>9, <1>11, <1>18, <2>4, <2>5 DEF Returned
  <2>6. CASE Moved(h, {f}, f, "ack")
    BY <1>7, <1>9, <1>11, <1>18, <2>2, <2>4, <2>6 DEF Moved
  <2> QED BY <1>18, <2>1, <2>5, <2>6
<1>19. CASE /\ hpc[h] = "ack" /\ acks' = acks \cup {Top(h).msg} /\ Returned(h)
            /\ UNCHANGED <<recvCounter, inbox, triggered>>
  BY <1>12, <1>19 DEF Returned
<1>20. CASE /\ hpc[h] = "jump" /\ recvCounter' = Top(h).rsc /\ Moved(h, {Top(h)}, Top(h), "round")
            /\ UNCHANGED <<inbox, acks, triggered>>
  <2>1. PICK f : f = Top(h)
    OBVIOUS
  <2>2. f.rsc \in Nat /\ FrameStands(f)' /\ Standing(f.rsc)
    BY <1>10, <1>20, <2>1 DEF Stands, TopStands
  <2>3. PICK n \in Nat : n = f.rsc
    BY <2>2
  <2>4. Standing(n)
    BY <2>2, <2>3
  <2>5. Standing(n)'
    BY <1>2, <2>4
  <2>6. recvCounter' = n
    BY <1>20, <2>1, <2>3
  <2>7. Standing(recvCounter)'
    BY <2>5, <2>6 DEF Standing, Stood
  <2> QED BY <1>7, <1>9, <1>11, <1>20, <2>1, <2>2, <2>7 DEF Moved
<1>21. CASE UNCHANGED <<recvCounter, inbox, acks>> /\ Synced(h)
  <2>0. PICK f : f = Top(h)
    OBVIOUS
  <2> DEFINE q == [f EXCEPT !.todo = SyncItems(f.at)]
             r == [f EXCEPT !.rsc = sendCounter]
             t(m) == [f EXCEPT !.todo = @ \ {m}]
  <2>a. UNCHANGED triggered
    BY <1>21 DEF Synced
  <2>b. ASSUME hpc[h] # "idle"
        PROVE  f \in Frames /\ f.at \in Nat /\ f.rsc \in Nat /\ FrameStands(f) /\ FrameStands(f)' /\ Standing(f.at)
    BY <1>10, <2>0, <2>b DEF FrameStands
  <2>1. ASSUME hpc[h] # "idle", Moved(h, {q}, q, "served") PROVE Stands'
    <3>1. q.at = f.at /\ q.todo = SyncItems(f.at) /\ q.op = f.op /\ q.msg = f.msg
      BY <2>1, <2>b, FrameEdits
    <3>2. PICK g : g = q
      OBVIOUS
    <3>3. hpc'[h] = "served" /\ Top(h)' = g /\ Grown(h, {g})
      BY <2>1, <3>2 DEF Moved
    <3>4. TopStands(hpc[h], Top(h))'
      <4>1. g.at = f.at /\ g.todo = SyncItems(f.at)
        BY <3>1, <3>2
      <4> HIDE DEF q
      <4> QED BY <1>1, <3>3, <4>1 DEF TopStands, SyncItems, Listed
    <3>5. FrameStands(g)'
      <4>1. g.at = f.at /\ g.op = f.op /\ g.msg = f.msg /\ FrameStands(f)'
        BY <2>1, <2>b, <3>1, <3>2
      <4> HIDE DEF q
      <4> QED BY <4>1 DEF FrameStands, Standing, Stood
    <3> HIDE DEF q
    <3> QED BY <1>7, <1>8, <1>9, <1>21, <2>a, <3>3, <3>4, <3>5
  <2>2. ASSUME hpc[h] = "served", Moved(h, {r}, r, "apply") PROVE Stands'
    <3>1. PICK g : g = r
      OBVIOUS
    <3>2. g.at = f.at /\ g.todo = f.todo /\ g.rsc = sendCounter /\ g.op = f.op /\ g.msg = f.msg
      BY <2>2, <2>b, <3>1, FrameEdits
    <3>3. hpc'[h] = "apply" /\ Top(h)' = g /\ Grown(h, {g})
      BY <2>2, <3>1 DEF Moved
    <3> HIDE DEF r
    <3>4. Listed(f)
      BY <2>0, <2>2 DEF Stands, TopStands
    <3>5. ASSUME NEW m \in Msgs, Known(m)', vpc'[m] = "idle", g.at <= counter'[m] PROVE m \in g.todo \/ Passable(m)'
      <4>1. row[m] # "none" /\ vpc[m] = "idle" /\ counter[m] >= f.at
        BY <1>1, <1>3, <2>2, <2>b, <3>2, <3>5 DEF Known
      <4>2. m \in f.todo \/ Passable(m)
        BY <3>4, <4>1 DEF Listed
      <4> QED BY <1>1, <3>2, <4>2 DEF Passable, Shares, Numbered
    <3>6. g.rsc = 0 \/ \E m \in Msgs : Counted(m)' /\ counter'[m] + 1 = g.rsc
      <4>1. sendCounter = 0 \/ \E m \in Msgs : Counted(m) /\ counter[m] = sendCounter - 1
        BY <1>0, SendReached DEF Used
      <4>2. sendCounter = 0 \/ \E m \in Msgs : Counted(m) /\ counter[m] + 1 = sendCounter
        BY <1>3, <4>1
      <4> QED BY <1>1, <3>2, <4>2 DEF Counted
    <3>7. ASSUME g.at > g.rsc PROVE Stood(g.rsc)'
      <4>1. PICK n \in Nat : n = sendCounter
        BY <1>3
      <4>2. Stood(n)
        BY <2>2, <2>b, <3>2, <3>7, <4>1 DEF Standing
      <4>3. Stood(n)'
        BY <1>2, <4>2
      <4> QED BY <3>2, <4>1, <4>3
    <3>8. TopStands(hpc[h], Top(h))'
      BY <3>3, <3>5, <3>6, <3>7 DEF TopStands, ListedBelow
    <3>9. FrameStands(g)'
      BY <2>2, <2>b, <3>2 DEF FrameStands, Standing, Stood
    <3> QED BY <1>7, <1>8, <1>9, <1>21, <2>a, <3>3, <3>8, <3>9
  <2>3. ASSUME hpc[h] = "apply", f.todo = {}, f.rsc > recvCounter, Moved(h, {f}, f, "jump") PROVE Stands'
    <3>1. /\ f.rsc \in Nat /\ f.at \in Nat /\ Standing(f.at) /\ ListedBelow(f)
          /\ f.at > f.rsc => Stood(f.rsc)
          /\ f.rsc = 0 \/ \E m \in Msgs : Counted(m) /\ counter[m] + 1 = f.rsc
      BY <2>0, <2>3, <2>b DEF Stands, TopStands
    <3>2. ASSUME NEW m \in Msgs, Counted(m), counter[m] + 1 = f.rsc PROVE Standing(f.rsc)
      <4>1. Known(m) /\ counter[m] \in Nat
        BY <1>0, <1>3, <3>2 DEF Rows, Counted, Numbered
      <4>2. ASSUME f.at < f.rsc PROVE Stood(f.rsc)
        <5>1. f.at <= counter[m] /\ counter[m] < f.rsc
          BY <3>1, <3>2, <4>1, <4>2
        <5>2. Kept(m)
          BY <2>3, <3>1, <4>1, <5>1 DEF Kept, ListedBelow
        <5> QED BY <3>2, <4>1, <5>2 DEF Stood
      <4>3. Stood(f.rsc)
        <5>1. f.at = f.rsc => Stood(f.rsc)
          BY <3>1 DEF Standing
        <5> QED BY <3>1, <4>2, <5>1
      <4>4. f.rsc > sendCounter => Stood(sendCounter)
        BY <1>3, <3>2, <4>1, SetBack
      <4> QED BY <4>3, <4>4 DEF Standing
    <3>3. hpc'[h] = "jump" /\ Top(h)' = f /\ Grown(h, {f})
      BY <2>3 DEF Moved
    <3>4. Standing(f.rsc)'
      BY <1>2, <1>3, <2>3, <3>1, <3>2
    <3>5. TopStands(hpc[h], Top(h))'
      BY <3>3, <3>4 DEF TopStands
    <3> QED BY <1>7, <1>8, <1>9, <1>21, <2>3, <2>a, <2>b, <3>3, <3>5
  <2>4. ASSUME hpc[h] # "idle", NEW step \in {"next", "round"}, Moved(h, {f}, f, step) PROVE Stands'
    BY <1>12, <1>21, <2>4, <2>a, <2>b DEF Moved
  <2>5. ASSUME NEW m \in f.todo, hpc[h] # "idle", Moved(h, {t(m), TextFrame("text", m)}, TextFrame("text", m), "load") PROVE Stands'
    <3>1. PICK g : g = t(m)
      OBVIOUS
    <3>2. g.at = f.at /\ g.op = f.op /\ g.msg = f.msg
      BY <2>5, <2>b, <3>1, FrameEdits
    <3>3. Moved(h, {g, TextFrame("text", m)}, TextFrame("text", m), "load")
      BY <2>5, <3>1
    <3> HIDE DEF t
    <3>4. FrameStands(g)'
      BY <2>5, <2>b, <3>2 DEF FrameStands, Standing, Stood
    <3> QED BY <1>12, <1>14, <1>21, <2>a, <3>3, <3>4 DEF Moved
  <2>6. CASE Moved(h, {SyncFrame(recvCounter)}, SyncFrame(recvCounter), "request")
    <3>1. PICK n \in Nat : n = recvCounter /\ Standing(n)
      BY <1>3, <1>9
    <3> QED BY <1>12, <1>14, <1>21, <2>6, <2>a, <3>1 DEF Moved
  <2>7. CASE Returned(h)
    BY <1>12, <1>21, <2>7, <2>a DEF Returned
  <2>8. \/ hpc[h] # "idle" /\ Moved(h, {q}, q, "served")
        \/ hpc[h] = "served" /\ Moved(h, {r}, r, "apply")
        \/ hpc[h] = "apply" /\ f.todo = {} /\ f.rsc > recvCounter /\ Moved(h, {f}, f, "jump")
        \/ hpc[h] # "idle" /\ \E step \in {"next", "round"} : Moved(h, {f}, f, step)
        \/ \E m \in f.todo : hpc[h] # "idle" /\ Moved(h, {t(m), TextFrame("text", m)}, TextFrame("text", m), "load")
        \/ Moved(h, {SyncFrame(recvCounter)}, SyncFrame(recvCounter), "request")
        \/ Returned(h)
    BY <1>21, <2>0 DEF Synced
  <2> HIDE DEF q, r, t
  <2> QED BY <2>1, <2>2, <2>3, <2>4, <2>5, <2>6, <2>7, <2>8
<1> QED BY <1>1, <1>15, <1>16, <1>17, <1>18, <1>19, <1>20, <1>21 DEF Moves

\* StandInv is inductive.
LEMMA StandStep ==
  ASSUME ChatInv, QueueInv, StandInv, [Next]_vars
  PROVE  StandInv'
<1>0. RoomInv /\ SendInv /\ Carried /\ TypeOK /\ Holds /\ Rows
  BY DEF ChatInv, RoomInv, SendInv
<1>1. Steady' = Steady
  BY <1>0, SendMoves DEF Steady
<1>2. SUFFICES ASSUME Steady PROVE Stands'
  BY <1>1 DEF StandInv
<1>3. Stands
  BY <1>2 DEF StandInv
<1> QED BY <1>0, <1>2, <1>3, OutsideMoves, StandsOutside, StandsHandler

\* The cursor stands right behind a message that is stored, was until its revoke or
\* may be passed, also where an offline item has moved it across a gap, an overlapping
\* goroutine has moved it back, SendTexts have set the send counter back or a sync
\* response lets it jump.  With offline stores this needs that no message leaves
\* before SendText has counted it, which recoverMissingOutboxJobs does not respect.
THEOREM CursorBehindStoredAlways ==
  Spec => []((Offline => scope.workers \subseteq {"loop"}) => CursorBehindStored)
<1>1. Init => QueueInv /\ StandInv
  <2> SUFFICES ASSUME Init PROVE QueueInv /\ StandInv
    OBVIOUS
  <2>1. QueueInv
    <3>1. outbox = Waiting /\ spc = [m \in Msgs |-> IF m \in Waiting THEN "done" ELSE "new"]
      BY DEF Init
    <3>2. outbox \subseteq Msgs
      BY RoomInit DEF RoomInv, TypeOK
    <3>3. \A w \in Workers : wpc[w] = "idle" /\ batch[w] = {} /\ wmsg[w] \notin Msgs
      BY ChatAssumption DEF Init
    <3> QED BY <3>1, <3>2, <3>3 DEF QueueInv, Counted
  <2>2. ChatInv
    BY ChatInit
  <2>3. Standing(0)
    <3>1. sendCounter \in Nat
      BY <2>2, CounterRange DEF ChatInv, RoomInv, TypeOK
    <3> QED BY <3>1 DEF Standing, Stood
  <2>4. Stands
    <3>1. recvCounter = 0 /\ triggered = {} /\ depot = {}
      BY DEF Init
    <3>2. \A h \in Handlers : stack[h] = <<>> /\ hpc[h] = "idle"
      BY DEF Init
    <3>3. \A h \in Handlers : TopStands(hpc[h], Top(h))
      BY <3>2 DEF TopStands
    <3> QED BY <2>3, <3>1, <3>2, <3>3 DEF Stands
  <2> QED BY <2>1, <2>4 DEF StandInv
<1>2. ChatInv /\ QueueInv /\ StandInv /\ [Next]_vars => QueueInv' /\ StandInv'
  BY QueueStep, StandStep DEF ChatInv
<1>3. ChatInv /\ StandInv => ((Offline => scope.workers \subseteq {"loop"}) => CursorBehindStored)
  <2> SUFFICES ASSUME ChatInv, StandInv, Offline => Steady, recvCounter > 0
               PROVE  \E m \in Msgs : Known(m) /\ Kept(m) /\ counter[m] + 1 = recvCounter
    BY DEF CursorBehindStored, Steady, Kept, ChatInv, SendInv, Rows
  <2>1. recvCounter \in Nat /\ \A m \in Msgs : counter[m] \in Nat
    BY CounterRange DEF ChatInv, RoomInv, TypeOK
  <2>2. CASE ~Offline
    <3>1. PICK m \in Msgs : Known(m) /\ counter[m] + 1 = recvCounter
      BY <2>1, <2>2 DEF ChatInv, RecvInv, Sound, Covered, Reached
    <3>2. counter[m] < recvCounter
      BY <2>1, <3>1
    <3> QED BY <2>2, <3>1, <3>2 DEF ChatInv, RecvInv, Sound, Covered
  <2>3. CASE Offline
    BY <2>1, <2>3 DEF StandInv, Stands, Standing, Stood
  <2> QED BY <2>2, <2>3
<1> QED BY <1>1, <1>2, <1>3, ChatInvariance, PTL DEF Spec
=============================================================================
