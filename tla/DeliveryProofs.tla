--------------------------- MODULE DeliveryProofs ---------------------------
(***************************************************************************)
(* Delivery for any number of connections, User objects, messages and      *)
(* CONNECT frames: no message is duplicated, none is lost while nobody     *)
(* leaves, no frame waits for a writer that will not come, and one thread  *)
(* at a time empties a user's queue.                                       *)
(***************************************************************************)
EXTENDS Delivery, FiniteSetTheorems, TLAPS

-----------------------------------------------------------------------------
(* The inductive invariant                                                 *)

\* The places of ConnectionHandler.flushMessages.
HPlaces == {"htest", "hloop", "hpoll", "hwrite"}

\* The synchronized part of login or of User.flushMessages, and what it calls.
FlushAt(pc, back) == pc \in {"test", "loop", "use", "unlock"} \/ (pc \in HPlaces /\ back = "loop")
InFlush(t) == FlushAt(thread[t].pc, thread[t].back)

\* A connection that has begun to log its user out or to close.
Leaving == {"drop", "receipt", "close", "ended"}

\* A thread's local variables have the values that its place relies on.
ThreadInv ==
    /\ users \in made \cup {None}
    /\ \A c \in Conns : thread[c].pc \in {"check", "reject", "login"} => users \in made
    /\ At(Poster, "login") => thread[Poster].user \in made
    /\ \A t \in Threads :
         /\ thread[t].pc \in HPlaces => thread[t].conn \in Conns
         /\ InFlush(t) => thread[t].user \in made
         /\ thread[t].msg # None => thread[t].pc \in {"use", "hwrite"}
         /\ At(t, "use") => thread[t].msg # None

\* A thread that empties a user's queue is in the User's monitor.
LockInv == \A t \in Threads : InFlush(t) => lock[thread[t].user] = t

\* While nobody leaves, every User has a connection; a socket is closed only by
\* a handler that has come to its end.
LeftInv ==
    /\ NobodyLeft => \A u \in made : protocol[u] # None
    /\ \A c \in Conns : ~open[c] => At(c, "ended")

ControlInv == TypeOK /\ ThreadInv /\ LockInv /\ LeftInv /\ HeldHasWriter

-----------------------------------------------------------------------------
(* Control                                                                 *)

\* What a thread knows: its place in the code and its local variables.
Call == [pc : Places, user : Users \cup {None}, msg : Msgs \cup {None}, conn : Conns \cup {None},
         back : {"idle", "loop"}]

\* The thread t goes on at pc with these local variables, and no other moves.
Moves(t, pc, user, msg, conn, back) ==
    /\ thread' \in [Threads -> Call]
    /\ thread'[t].pc = pc
    /\ thread'[t].user = user
    /\ thread'[t].msg = msg
    /\ thread'[t].conn = conn
    /\ thread'[t].back = back
    /\ \A s \in Threads : s # t => thread'[s] = thread[s]

\* Replacing the record of one thread is such a move.
LEMMA MovesTo ==
    ASSUME TypeOK, NEW t \in Threads, NEW r \in Call, thread' = [thread EXCEPT ![t] = r]
    PROVE  Moves(t, r.pc, r.user, r.msg, r.conn, r.back)
BY DEF TypeOK, Moves, Call

\* So is changing its place only.
LEMMA GotoMoves ==
    ASSUME TypeOK, NEW t \in Threads, NEW p \in Places, Goto(t, p)
    PROVE  Moves(t, p, thread[t].user, thread[t].msg, thread[t].conn, thread[t].back)
<1>1. PICK r \in Call : r = [thread[t] EXCEPT !.pc = p]
  BY DEF TypeOK, Call
<1>2. /\ r.pc = p /\ r.user = thread[t].user /\ r.msg = thread[t].msg
      /\ r.conn = thread[t].conn /\ r.back = thread[t].back
  BY <1>1 DEF TypeOK, Call
<1>3. thread' = [thread EXCEPT ![t] = r]
  BY <1>1 DEF Goto
<1> QED BY <1>2, <1>3, MovesTo

\* Changing its place and its user, as login and send do.
LEMMA EnterMoves ==
    ASSUME TypeOK, NEW t \in Threads, NEW p \in Places, NEW u \in Users \cup {None},
           thread' = [thread EXCEPT ![t].pc = p, ![t].user = u]
    PROVE  Moves(t, p, u, thread[t].msg, thread[t].conn, thread[t].back)
<1>1. PICK r \in Call : r = [thread[t] EXCEPT !.pc = p, !.user = u]
  BY DEF TypeOK, Call
<1>2. /\ r.pc = p /\ r.user = u /\ r.msg = thread[t].msg /\ r.conn = thread[t].conn /\ r.back = thread[t].back
  BY <1>1 DEF TypeOK, Call
<1>3. thread' = [thread EXCEPT ![t] = r]
  BY <1>1
<1> QED BY <1>2, <1>3, MovesTo

\* Changing its place and the message in its hands, as both loops do.
LEMMA TakeMoves ==
    ASSUME TypeOK, NEW t \in Threads, NEW p \in Places, NEW m \in Msgs \cup {None},
           thread' = [thread EXCEPT ![t].pc = p, ![t].msg = m]
    PROVE  Moves(t, p, thread[t].user, m, thread[t].conn, thread[t].back)
<1>1. PICK r \in Call : r = [thread[t] EXCEPT !.pc = p, !.msg = m]
  BY DEF TypeOK, Call
<1>2. /\ r.pc = p /\ r.user = thread[t].user /\ r.msg = m /\ r.conn = thread[t].conn /\ r.back = thread[t].back
  BY <1>1 DEF TypeOK, Call
<1>3. thread' = [thread EXCEPT ![t] = r]
  BY <1>1
<1> QED BY <1>2, <1>3, MovesTo

\* Returning from ConnectionHandler.flushMessages.
LEMMA ReturnMoves ==
    ASSUME TypeOK, NEW t \in Threads, Return(t)
    PROVE  Moves(t, thread[t].back, thread[t].user, None, None, "idle")
<1>1. PICK r \in Call : r = [thread[t] EXCEPT !.pc = thread[t].back, !.conn = None, !.msg = None, !.back = "idle"]
  BY DEF TypeOK, Call, Places
<1>2. r.pc = thread[t].back /\ r.user = thread[t].user /\ r.msg = None /\ r.conn = None /\ r.back = "idle"
  BY <1>1 DEF TypeOK, Call
<1>3. thread' = [thread EXCEPT ![t] = r]
  BY <1>1 DEF Return
<1> QED BY <1>2, <1>3, MovesTo

\* Calling ConnectionHandler.flushMessages from User.flushMessages.
LEMMA UseMoves ==
    ASSUME TypeOK, NEW t \in Threads, NEW d \in Conns,
           thread' = [thread EXCEPT ![t].pc = "htest", ![t].msg = None, ![t].conn = d, ![t].back = "loop"]
    PROVE  Moves(t, "htest", thread[t].user, None, d, "loop")
<1>1. PICK r \in Call : r = [thread[t] EXCEPT !.pc = "htest", !.msg = None, !.conn = d, !.back = "loop"]
  BY DEF TypeOK, Call, Places
<1>2. r.pc = "htest" /\ r.user = thread[t].user /\ r.msg = None /\ r.conn = d /\ r.back = "loop"
  BY <1>1 DEF TypeOK, Call
<1>3. thread' = [thread EXCEPT ![t] = r]
  BY <1>1
<1> QED BY <1>2, <1>3, MovesTo

\* The end of a frame or of a post.
LEMMA EndMoves ==
    ASSUME TypeOK, NEW t \in Threads, thread' = [thread EXCEPT ![t] = NoCall]
    PROVE  Moves(t, "idle", None, None, None, "idle")
<1>1. NoCall \in Call
  BY DEF NoCall, Call, Places
<1>2. NoCall.pc = "idle" /\ NoCall.user = None /\ NoCall.msg = None /\ NoCall.conn = None /\ NoCall.back = "idle"
  BY DEF NoCall
<1>3. \A r \in Call : thread' = [thread EXCEPT ![t] = r] => Moves(t, r.pc, r.user, r.msg, r.conn, r.back)
  BY MovesTo
<1>4. Moves(t, NoCall.pc, NoCall.user, NoCall.msg, NoCall.conn, NoCall.back)
  BY <1>1, <1>3
<1> QED BY <1>2, <1>4

\* A monitor is kept by the thread that is in it.
LEMMA LockKeeps ==
    ASSUME LockInv, NEW t \in Threads, NEW pc, NEW user, NEW msg, NEW conn, NEW back,
           Moves(t, pc, user, msg, conn, back),
           \A s \in Threads : s # t /\ InFlush(s) => lock'[thread[s].user] = s,
           FlushAt(pc, back) => lock'[user] = t
    PROVE  LockInv'
BY DEF LockInv, Moves, InFlush

\* In particular by a thread that neither takes nor gives back a lock.
LEMMA LockQuiet ==
    ASSUME LockInv, NEW t \in Threads, NEW pc, NEW user, NEW msg, NEW conn, NEW back,
           Moves(t, pc, user, msg, conn, back), UNCHANGED lock,
           FlushAt(pc, back) => InFlush(t) /\ user = thread[t].user
    PROVE  LockInv'
BY LockKeeps DEF LockInv

\* A thread that has not begun to leave, and that leaves no User without connection.
LEMMA StayingKeeps ==
    ASSUME LeftInv, NEW t \in Threads, NEW pc, NEW user, NEW msg, NEW conn, NEW back,
           Moves(t, pc, user, msg, conn, back), thread[t].pc \notin Leaving, UNCHANGED open,
           \A u \in made' : protocol'[u] # None \/ (u \in made /\ protocol'[u] = protocol[u])
    PROVE  LeftInv' /\ (NobodyLeft' => NobodyLeft)
<1>1. ASSUME NobodyLeft' PROVE NobodyLeft
  BY <1>1 DEF NobodyLeft, Moves, Leaving, Threads
<1>2. ASSUME NEW c \in Conns, ~open[c] PROVE At(c, "ended")'
  BY <1>2 DEF LeftInv, Moves, Leaving, Threads, At
<1> QED BY <1>1, <1>2 DEF LeftInv

\* A connection that leaves, whatever becomes of its user.
LEMMA LeavingKeeps ==
    ASSUME LeftInv, NEW c \in Conns, NEW pc, NEW user, NEW msg, NEW conn, NEW back,
           Moves(c, pc, user, msg, conn, back), pc \in Leaving,
           \A d \in Conns : d # c => open'[d] = open[d],
           ~open'[c] => pc = "ended"
    PROVE  LeftInv' /\ ~NobodyLeft'
BY DEF LeftInv, NobodyLeft, Moves, Leaving, Threads, At

\* A thread at this place is on its way to write what c's handler holds.
WritesFor(t, pc, conn, c) == (t = c /\ pc = "connected") \/ (conn = c /\ pc \in HPlaces)

\* A frame that is held after a step was held before by a writer that has not
\* moved, or the thread that has moved will write it.
LEMMA HeldKeeps ==
    ASSUME HeldHasWriter, NEW t \in Threads, NEW pc, NEW user, NEW msg, NEW conn, NEW back,
           Moves(t, pc, user, msg, conn, back),
           \A c \in Conns : open'[c] /\ currentUser'[c] # None /\ messagesQueue'[c] # <<>> =>
             \/ /\ open[c] /\ currentUser[c] # None /\ messagesQueue[c] # <<>>
                /\ ~WritesFor(t, thread[t].pc, thread[t].conn, c)
             \/ WritesFor(t, pc, conn, c)
    PROVE  HeldHasWriter'
<1> SUFFICES ASSUME NEW c \in Conns, open'[c], currentUser'[c] # None, messagesQueue'[c] # <<>>
             PROVE  Flushing(c)'
  BY DEF HeldHasWriter
<1>1. CASE WritesFor(t, pc, conn, c)
  BY <1>1 DEF WritesFor, Flushing, Moves, HPlaces, At, Threads
<1>2. CASE Flushing(c) /\ ~WritesFor(t, thread[t].pc, thread[t].conn, c)
  BY <1>2 DEF WritesFor, Flushing, Moves, HPlaces, At, Threads
<1> QED BY <1>1, <1>2 DEF HeldHasWriter

-----------------------------------------------------------------------------
(* Sequences that hold a value once                                        *)

\* m is in the sequences of C; it is there once at most.
In(C, m) == \E a \in DOMAIN C : \E i \in DOMAIN C[a] : C[a][i] = m
Once(C, m) ==
    \A a, b \in DOMAIN C : \A i \in DOMAIN C[a], j \in DOMAIN C[b] :
        C[a][i] = m /\ C[b][j] = m => a = b /\ i = j

\* D is C after a value was appended to one sequence, or the first was taken.
Appends(C, a, v, D) == a \in DOMAIN C /\ D = [C EXCEPT ![a] = Append(@, v)]
Takes(C, a, D) == a \in DOMAIN C /\ C[a] # <<>> /\ D = [C EXCEPT ![a] = Tail(@)]

\* A function to sequences.
SeqValued(C, V) == C \in [DOMAIN C -> Seq(V)]

\* Appending a value changes nothing for another value.
LEMMA AppendOther ==
    ASSUME NEW V, NEW C, SeqValued(C, V), NEW a, NEW v \in V, NEW D, Appends(C, a, v, D), NEW m, v # m
    PROVE  (In(D, m) <=> In(C, m)) /\ (Once(C, m) => Once(D, m))
<1>1. /\ DOMAIN D = DOMAIN C /\ a \in DOMAIN C
      /\ \A b \in DOMAIN C : b # a => D[b] = C[b]
      /\ DOMAIN D[a] = 1..(Len(C[a]) + 1) /\ DOMAIN C[a] = 1..Len(C[a])
      /\ \A i \in 1..Len(C[a]) : D[a][i] = C[a][i]
      /\ D[a][Len(C[a]) + 1] = v
      /\ Len(C[a]) \in Nat
  BY DEF SeqValued, Appends
<1>2. \A b \in DOMAIN C : \A i \in DOMAIN C[b] : i \in DOMAIN D[b] /\ D[b][i] = C[b][i]
  BY <1>1
<1>3. \A b \in DOMAIN C : \A i \in DOMAIN D[b] : D[b][i] = m => i \in DOMAIN C[b] /\ C[b][i] = m
  BY <1>1
<1>4. In(D, m) <=> In(C, m)
  BY <1>1, <1>2, <1>3 DEF In
<1>5. Once(C, m) => Once(D, m)
  BY <1>1, <1>3 DEF Once
<1> QED BY <1>4, <1>5

\* A value that was nowhere is there once when it has been appended.
LEMMA AppendNew ==
    ASSUME NEW V, NEW C, SeqValued(C, V), NEW a, NEW m, NEW D, Appends(C, a, m, D), ~In(C, m)
    PROVE  In(D, m) /\ Once(D, m)
<1>1. /\ DOMAIN D = DOMAIN C /\ a \in DOMAIN C
      /\ \A b \in DOMAIN C : b # a => D[b] = C[b]
      /\ DOMAIN D[a] = 1..(Len(C[a]) + 1) /\ DOMAIN C[a] = 1..Len(C[a])
      /\ \A i \in 1..Len(C[a]) : D[a][i] = C[a][i]
      /\ D[a][Len(C[a]) + 1] = m
      /\ Len(C[a]) \in Nat
  BY DEF SeqValued, Appends
<1>2. \A b \in DOMAIN C : \A i \in DOMAIN D[b] : D[b][i] = m => b = a /\ i = Len(C[a]) + 1
  BY <1>1 DEF In
<1>3. Len(C[a]) + 1 \in DOMAIN D[a]
  BY <1>1
<1> QED BY <1>1, <1>2, <1>3 DEF In, Once

\* When the first value is taken it is nowhere, and nothing changes for others.
LEMMA TakeHead ==
    ASSUME NEW V, NEW C, SeqValued(C, V), NEW a, NEW D, Takes(C, a, D), NEW m, Once(C, m)
    PROVE  /\ Once(D, m)
           /\ In(D, m) => In(C, m)
           /\ Head(C[a]) = m => ~In(D, m) /\ In(C, m)
           /\ Head(C[a]) # m => (In(D, m) <=> In(C, m))
<1>1. /\ DOMAIN D = DOMAIN C /\ a \in DOMAIN C
      /\ \A b \in DOMAIN C : b # a => D[b] = C[b]
      /\ Len(C[a]) \in Nat /\ Len(C[a]) > 0
      /\ DOMAIN D[a] = 1..(Len(C[a]) - 1) /\ DOMAIN C[a] = 1..Len(C[a])
      /\ \A i \in 1..(Len(C[a]) - 1) : D[a][i] = C[a][i + 1]
      /\ Head(C[a]) = C[a][1]
  BY DEF SeqValued, Takes
<1> DEFINE before(b, i) == IF b = a THEN i + 1 ELSE i
<1>2. \A b \in DOMAIN C : \A i \in DOMAIN D[b] : D[b][i] = m =>
         before(b, i) \in DOMAIN C[b] /\ C[b][before(b, i)] = m
  BY <1>1
<1>3. In(D, m) => In(C, m)
  BY <1>1, <1>2 DEF In
<1>4. Once(D, m)
  <2> SUFFICES ASSUME NEW b \in DOMAIN C, NEW c \in DOMAIN C, NEW i \in DOMAIN D[b], NEW j \in DOMAIN D[c],
                      D[b][i] = m, D[c][j] = m
               PROVE  b = c /\ i = j
    BY <1>1 DEF Once
  <2>1. b = c /\ before(b, i) = before(c, j)
    BY <1>2 DEF Once
  <2> QED BY <1>1, <2>1
<1>5. ASSUME Head(C[a]) = m PROVE ~In(D, m) /\ In(C, m)
  <2>1. C[a][1] = m /\ 1 \in DOMAIN C[a]
    BY <1>1, <1>5
  <2>2. In(C, m)
    BY <1>1, <2>1 DEF In
  <2>3. ASSUME NEW b \in DOMAIN C, NEW i \in DOMAIN D[b], D[b][i] = m PROVE FALSE
    <3>1. b = a /\ before(b, i) = 1
      BY <1>1, <1>2, <2>1, <2>3 DEF Once
    <3> QED BY <1>1, <3>1
  <2> QED BY <1>1, <2>2, <2>3 DEF In
<1>6. ASSUME Head(C[a]) # m, In(C, m) PROVE In(D, m)
  <2>1. PICK b \in DOMAIN C : \E i \in DOMAIN C[b] : C[b][i] = m
    BY <1>6 DEF In
  <2>2. PICK i \in DOMAIN C[b] : C[b][i] = m
    BY <2>1
  <2>3. CASE b # a
    BY <1>1, <2>2, <2>3 DEF In
  <2>4. CASE b = a
    <3>1. i - 1 \in DOMAIN D[a] /\ D[a][i - 1] = m
      BY <1>1, <1>6, <2>2, <2>4
    <3> QED BY <1>1, <3>1 DEF In
  <2> QED BY <2>3, <2>4
<1> QED BY <1>3, <1>4, <1>5, <1>6

\* Taking the first value of a sequence and appending it to another one.
LEMMA Moved ==
    ASSUME NEW V, NEW C, SeqValued(C, V), NEW a, NEW E, Takes(C, a, E),
           NEW b, NEW D, Appends(E, b, Head(C[a]), D), NEW m, Once(C, m)
    PROVE  (In(D, m) <=> In(C, m)) /\ Once(D, m)
<1>1. SeqValued(E, V) /\ Head(C[a]) \in V
  BY DEF SeqValued, Takes
<1>2. CASE Head(C[a]) = m
  <2>1. ~In(E, m) /\ In(C, m)
    BY <1>2, TakeHead
  <2>2. Appends(E, b, m, D)
    BY <1>2
  <2> QED BY <1>1, <2>1, <2>2, AppendNew
<1>3. CASE Head(C[a]) # m
  <2>1. Once(E, m) /\ (In(E, m) <=> In(C, m))
    BY <1>3, TakeHead
  <2> QED BY <1>1, <1>3, <2>1, AppendOther
<1> QED BY <1>2, <1>3

-----------------------------------------------------------------------------
(* Where the messages are                                                  *)

\* Every place that a message can be at is a sequence: the two kinds of queues,
\* the sockets, and the hands of a thread, which hold one message or none.
Boxes == ({"messages"} \X Users) \cup ({"messagesQueue", "out"} \X Conns) \cup ({"msg"} \X Threads)
Values == Msgs \cup {"CONNECTED", "RECEIPT", None}
Hand(t) == IF thread[t].msg = None THEN <<>> ELSE <<thread[t].msg>>
Contents == [b \in Boxes |->
    IF b[1] = "messages" THEN messages[b[2]]
    ELSE IF b[1] = "messagesQueue" THEN messagesQueue[b[2]]
    ELSE IF b[1] = "out" THEN out[b[2]] ELSE Hand(b[2])]

\* A message is in one place at most, in none before it is posted, and in one
\* while nobody leaves.
MsgInv ==
    /\ \A m \in Msgs : Once(Contents, m)
    /\ \A m \in Msgs : In(Contents, m) => m \in posted
    /\ NobodyLeft => \A m \in posted : In(Contents, m)

IInv == ControlInv /\ MsgInv

\* What is where.
LEMMA ContentsAt ==
    /\ Contents = [b \in Boxes |-> Contents[b]] /\ DOMAIN Contents = Boxes
    /\ \A u \in Users : <<"messages", u>> \in Boxes /\ Contents[<<"messages", u>>] = messages[u]
    /\ \A c \in Conns : <<"messagesQueue", c>> \in Boxes /\ Contents[<<"messagesQueue", c>>] = messagesQueue[c]
    /\ \A c \in Conns : <<"out", c>> \in Boxes /\ Contents[<<"out", c>>] = out[c]
    /\ \A t \in Threads : <<"msg", t>> \in Boxes /\ Contents[<<"msg", t>>] = Hand(t)
BY DEF Contents, Boxes

\* There are no other places.
LEMMA EveryBox ==
    ASSUME NEW b \in Boxes
    PROVE  \/ \E u \in Users : b = <<"messages", u>>
           \/ \E c \in Conns : b = <<"messagesQueue", c>> \/ b = <<"out", c>>
           \/ \E t \in Threads : b = <<"msg", t>>
<1>1. CASE b \in {"messages"} \X Users
  BY <1>1
<1>2. CASE b \in {"messagesQueue", "out"} \X Conns
  BY <1>2
<1>3. CASE b \in {"msg"} \X Threads
  BY <1>3
<1> QED BY <1>1, <1>2, <1>3 DEF Boxes

\* What is where after a step.
LEMMA ContentsAfter ==
    ASSUME NEW D, DOMAIN D = Boxes, D = [b \in Boxes |-> D[b]],
           \A u \in Users : D[<<"messages", u>>] = messages'[u],
           \A c \in Conns : D[<<"messagesQueue", c>>] = messagesQueue'[c] /\ D[<<"out", c>>] = out'[c],
           \A t \in Threads : D[<<"msg", t>>] = Hand(t)'
    PROVE  Contents' = D
<1>1. /\ Contents' = [b \in Boxes |-> Contents'[b]]
      /\ \A u \in Users : Contents'[<<"messages", u>>] = messages'[u]
      /\ \A c \in Conns : Contents'[<<"messagesQueue", c>>] = messagesQueue'[c] /\ Contents'[<<"out", c>>] = out'[c]
      /\ \A t \in Threads : Contents'[<<"msg", t>>] = Hand(t)'
  BY DEF Contents, Boxes
<1>2. ASSUME NEW b \in Boxes PROVE Contents'[b] = D[b]
  <2>1. CASE \E u \in Users : b = <<"messages", u>>
    BY <1>1, <2>1
  <2>2. CASE \E c \in Conns : b = <<"messagesQueue", c>> \/ b = <<"out", c>>
    <3>1. PICK c \in Conns : b = <<"messagesQueue", c>> \/ b = <<"out", c>>
      BY <2>2
    <3>2. /\ Contents'[<<"messagesQueue", c>>] = D[<<"messagesQueue", c>>]
          /\ Contents'[<<"out", c>>] = D[<<"out", c>>]
      BY <1>1
    <3> QED BY <3>1, <3>2
  <2>3. CASE \E t \in Threads : b = <<"msg", t>>
    BY <1>1, <2>3
  <2> QED BY <2>1, <2>2, <2>3, EveryBox
<1> QED BY <1>1, <1>2

LEMMA ContentsType ==
    ASSUME TypeOK
    PROVE  SeqValued(Contents, Values)
<1>1. \A b \in Boxes : Contents[b] \in Seq(Values)
  <2> SUFFICES ASSUME NEW b \in Boxes PROVE Contents[b] \in Seq(Values)
    OBVIOUS
  <2>1. CASE b \in {"messages"} \X Users
    <3>1. PICK u \in Users : b = <<"messages", u>>
      BY <2>1
    <3>2. messages[u] \in Seq(Values)
      BY DEF TypeOK, Values
    <3> QED BY <3>1, <3>2, ContentsAt
  <2>2. CASE b \in {"messagesQueue", "out"} \X Conns
    <3>1. PICK c \in Conns : b = <<"messagesQueue", c>> \/ b = <<"out", c>>
      BY <2>2
    <3>2. messagesQueue[c] \in Seq(Values) /\ out[c] \in Seq(Values)
      BY DEF TypeOK, Values
    <3> QED BY <3>1, <3>2, ContentsAt
  <2>3. CASE b \in {"msg"} \X Threads
    <3>1. PICK t \in Threads : b = <<"msg", t>>
      BY <2>3
    <3>2. thread[t].msg \in Values
      BY DEF TypeOK, Values
    <3>3. Hand(t) \in Seq(Values)
      BY <3>2 DEF Hand
    <3> QED BY <3>1, <3>3, ContentsAt
  <2> QED BY <2>1, <2>2, <2>3 DEF Boxes
<1> QED BY <1>1, ContentsAt DEF SeqValued

-----------------------------------------------------------------------------
\* Something other than a message is written.
LEMMA OtherKeeps ==
    ASSUME TypeOK, MsgInv, NobodyLeft' => NobodyLeft, UNCHANGED posted,
           NEW a, NEW v \in Values, v \notin Msgs, Appends(Contents, a, v, Contents')
    PROVE  MsgInv'
<1>1. \A m \in Msgs : (In(Contents', m) <=> In(Contents, m)) /\ (Once(Contents, m) => Once(Contents', m))
  BY ContentsType, AppendOther
<1> QED BY <1>1 DEF MsgInv, TypeOK

\* A message goes from one place to another.
LEMMA MovedKeeps ==
    ASSUME TypeOK, MsgInv, NobodyLeft' => NobodyLeft, UNCHANGED posted,
           NEW a, NEW E, Takes(Contents, a, E), NEW b, Appends(E, b, Head(Contents[a]), Contents')
    PROVE  MsgInv'
<1>1. \A m \in Msgs : (In(Contents', m) <=> In(Contents, m)) /\ Once(Contents', m)
  BY ContentsType, Moved DEF MsgInv
<1> QED BY <1>1 DEF MsgInv, TypeOK

\* A new message is posted.
LEMMA PostedKeeps ==
    ASSUME TypeOK, MsgInv, NobodyLeft' => NobodyLeft, NEW m \in Msgs, m \notin posted, posted' = posted \cup {m},
           NEW a, Appends(Contents, a, m, Contents')
    PROVE  MsgInv'
<1>1. In(Contents', m) /\ Once(Contents', m)
  BY ContentsType, AppendNew DEF MsgInv
<1>2. ASSUME NEW n \in Msgs, n # m PROVE (In(Contents', n) <=> In(Contents, n)) /\ Once(Contents', n)
  BY <1>2, ContentsType, AppendOther DEF MsgInv, Values
<1> QED BY <1>1, <1>2 DEF MsgInv, TypeOK

\* A message is lost because somebody has left.
LEMMA LostKeeps ==
    ASSUME TypeOK, MsgInv, ~NobodyLeft', UNCHANGED posted, NEW a, Takes(Contents, a, Contents')
    PROVE  MsgInv'
<1>1. \A m \in Msgs : (In(Contents', m) => In(Contents, m)) /\ Once(Contents', m)
  BY ContentsType, TakeHead DEF MsgInv
<1> QED BY <1>1 DEF MsgInv

\* A step that moves no message.
LEMMA QuietKeeps ==
    ASSUME MsgInv, NobodyLeft' => NobodyLeft, NEW t \in Threads, NEW pc, NEW user, NEW conn, NEW back,
           Moves(t, pc, user, thread[t].msg, conn, back), UNCHANGED <<messages, messagesQueue, out, posted>>
    PROVE  MsgInv'
<1>1. \A s \in Threads : Hand(s)' = Hand(s)
  BY DEF Moves, Hand
<1>2. Contents' = Contents
  BY <1>1 DEF Contents, Boxes
<1> QED BY <1>2 DEF MsgInv, In, Once

\* Only a message in the hands of a thread goes where a thread puts it.
LEMMA HandsAfter ==
    ASSUME NEW t \in Threads, NEW pc, NEW user, NEW msg, NEW conn, NEW back, Moves(t, pc, user, msg, conn, back)
    PROVE  /\ Hand(t)' = IF msg = None THEN <<>> ELSE <<msg>>
           /\ \A s \in Threads : s # t => Hand(s)' = Hand(s)
BY DEF Moves, Hand

-----------------------------------------------------------------------------
\* From a user's queue to the hands of a thread.
LEMMA LoopTakes ==
    ASSUME NEW t \in Threads, thread[t].msg = None, NEW u \in Users, messages[u] # <<>>, TypeOK,
           NEW pc, NEW user, NEW conn, NEW back, Moves(t, pc, user, Head(messages[u]), conn, back),
           messages' = [messages EXCEPT ![u] = Tail(@)], UNCHANGED <<messagesQueue, out>>
    PROVE  \E E : Takes(Contents, <<"messages", u>>, E)
                  /\ Appends(E, <<"msg", t>>, Head(Contents[<<"messages", u>>]), Contents')
<1>1. PICK E : E = [Contents EXCEPT ![<<"messages", u>>] = Tail(@)]
  OBVIOUS
<1>2. Takes(Contents, <<"messages", u>>, E)
  BY <1>1, ContentsAt DEF Takes
<1>3. Head(messages[u]) \in Msgs /\ Head(messages[u]) # None
  BY DeliveryAssumption DEF TypeOK
<1>4. PICK D : D = [E EXCEPT ![<<"msg", t>>] = Append(@, Head(messages[u]))]
  OBVIOUS
<1>5. D = Contents'
  <2>1. /\ E = [b \in Boxes |-> E[b]] /\ DOMAIN E = Boxes
        /\ \A v \in Users : E[<<"messages", v>>] = IF v = u THEN Tail(messages[u]) ELSE messages[v]
        /\ \A c \in Conns : E[<<"messagesQueue", c>>] = messagesQueue[c] /\ E[<<"out", c>>] = out[c]
        /\ \A s \in Threads : E[<<"msg", s>>] = Hand(s)
    BY <1>1, ContentsAt
  <2>2. /\ D = [b \in Boxes |-> D[b]] /\ DOMAIN D = Boxes
        /\ \A v \in Users : D[<<"messages", v>>] = messages'[v]
        /\ \A c \in Conns : D[<<"messagesQueue", c>>] = messagesQueue'[c] /\ D[<<"out", c>>] = out'[c]
    BY <1>4, <2>1, ContentsAt DEF TypeOK
  <2>3. \A s \in Threads : D[<<"msg", s>>] = Hand(s)'
    <3>1. Hand(t)' = <<Head(messages[u])>> /\ \A s \in Threads : s # t => Hand(s)' = Hand(s)
      BY <1>3, HandsAfter
    <3>2. Hand(t) = <<>>
      BY DEF Hand
    <3>3. Append(Hand(t), Head(messages[u])) = Hand(t)'
      BY <3>1, <3>2
    <3> QED BY <1>4, <2>1, <3>1, <3>3, ContentsAt
  <2> QED BY <2>2, <2>3, ContentsAfter
<1> QED BY <1>1, <1>2, <1>4, <1>5, ContentsAt DEF Appends

\* From the hands of a thread to a handler's queue.
LEMMA UseTakes ==
    ASSUME TypeOK, NEW t \in Threads, thread[t].msg # None, NEW d \in Conns,
           NEW pc, NEW user, NEW conn, NEW back, Moves(t, pc, user, None, conn, back),
           messagesQueue' = [messagesQueue EXCEPT ![d] = Append(@, thread[t].msg)], UNCHANGED <<messages, out>>
    PROVE  \E E : /\ Takes(Contents, <<"msg", t>>, E)
                  /\ Appends(E, <<"messagesQueue", d>>, Head(Contents[<<"msg", t>>]), Contents')
<1>0. /\ Hand(t) = <<thread[t].msg>> /\ Hand(t)' = <<>>
      /\ \A s \in Threads : s # t => Hand(s)' = Hand(s)
  BY HandsAfter DEF Hand
<1>1. PICK E : E = [Contents EXCEPT ![<<"msg", t>>] = Tail(@)]
  OBVIOUS
<1>2. Takes(Contents, <<"msg", t>>, E) /\ Head(Contents[<<"msg", t>>]) = thread[t].msg
  BY <1>0, <1>1, ContentsAt DEF Takes
<1>3. PICK D : D = [E EXCEPT ![<<"messagesQueue", d>>] = Append(@, thread[t].msg)]
  OBVIOUS
<1>4. /\ E = [b \in Boxes |-> E[b]] /\ DOMAIN E = Boxes
      /\ \A u \in Users : E[<<"messages", u>>] = messages[u]
      /\ \A c \in Conns : E[<<"messagesQueue", c>>] = messagesQueue[c] /\ E[<<"out", c>>] = out[c]
      /\ \A s \in Threads : E[<<"msg", s>>] = IF s = t THEN Tail(Hand(t)) ELSE Hand(s)
  BY <1>1, ContentsAt
<1>5. /\ D = [b \in Boxes |-> D[b]] /\ DOMAIN D = Boxes
      /\ \A u \in Users : D[<<"messages", u>>] = messages'[u]
      /\ \A c \in Conns : D[<<"messagesQueue", c>>] = messagesQueue'[c] /\ D[<<"out", c>>] = out'[c]
  BY <1>3, <1>4, ContentsAt DEF TypeOK
<1>6. \A s \in Threads : D[<<"msg", s>>] = Hand(s)'
  <2>1. Tail(Hand(t)) = Hand(t)'
    BY <1>0
  <2> QED BY <1>0, <1>3, <1>4, <2>1, ContentsAt
<1>7. Contents' = D
  BY <1>5, <1>6, ContentsAfter
<1> QED BY <1>2, <1>3, <1>4, <1>7, ContentsAt DEF Appends

\* From a handler's queue to the hands of a thread.
LEMMA HPollTakes ==
    ASSUME TypeOK, NEW t \in Threads, thread[t].msg = None, NEW d \in Conns, messagesQueue[d] # <<>>,
           NEW pc, NEW user, NEW conn, NEW back, Moves(t, pc, user, Head(messagesQueue[d]), conn, back),
           messagesQueue' = [messagesQueue EXCEPT ![d] = Tail(@)], UNCHANGED <<messages, out>>
    PROVE  \E E : /\ Takes(Contents, <<"messagesQueue", d>>, E)
                  /\ Appends(E, <<"msg", t>>, Head(Contents[<<"messagesQueue", d>>]), Contents')
<1>0. Head(messagesQueue[d]) \in Msgs /\ Head(messagesQueue[d]) # None
  BY DeliveryAssumption DEF TypeOK
<1>1. PICK E : E = [Contents EXCEPT ![<<"messagesQueue", d>>] = Tail(@)]
  OBVIOUS
<1>2. Takes(Contents, <<"messagesQueue", d>>, E)
  BY <1>1, ContentsAt DEF Takes
<1>3. PICK D : D = [E EXCEPT ![<<"msg", t>>] = Append(@, Head(messagesQueue[d]))]
  OBVIOUS
<1>4. /\ E = [b \in Boxes |-> E[b]] /\ DOMAIN E = Boxes
      /\ \A u \in Users : E[<<"messages", u>>] = messages[u]
      /\ \A c \in Conns : E[<<"messagesQueue", c>>] = IF c = d THEN Tail(messagesQueue[d]) ELSE messagesQueue[c]
      /\ \A c \in Conns : E[<<"out", c>>] = out[c]
      /\ \A s \in Threads : E[<<"msg", s>>] = Hand(s)
  BY <1>1, ContentsAt
<1>5. /\ D = [b \in Boxes |-> D[b]] /\ DOMAIN D = Boxes
      /\ \A u \in Users : D[<<"messages", u>>] = messages'[u]
      /\ \A c \in Conns : D[<<"messagesQueue", c>>] = messagesQueue'[c] /\ D[<<"out", c>>] = out'[c]
  BY <1>3, <1>4, ContentsAt DEF TypeOK
<1>6. \A s \in Threads : D[<<"msg", s>>] = Hand(s)'
  <2>1. Hand(t)' = <<Head(messagesQueue[d])>> /\ \A s \in Threads : s # t => Hand(s)' = Hand(s)
    BY <1>0, HandsAfter
  <2>2. Hand(t) = <<>>
    BY DEF Hand
  <2>3. Append(Hand(t), Head(messagesQueue[d])) = Hand(t)'
    BY <2>1, <2>2
  <2> QED BY <1>3, <1>4, <2>1, <2>3, ContentsAt
<1>7. Contents' = D
  BY <1>5, <1>6, ContentsAfter
<1> QED BY <1>2, <1>3, <1>4, <1>7, ContentsAt DEF Appends

\* From the hands of a thread to a socket.
LEMMA HWriteTakes ==
    ASSUME TypeOK, NEW t \in Threads, thread[t].msg # None, NEW d \in Conns,
           NEW pc, NEW user, NEW conn, NEW back, Moves(t, pc, user, None, conn, back),
           out' = [out EXCEPT ![d] = Append(@, thread[t].msg)], UNCHANGED <<messages, messagesQueue>>
    PROVE  \E E : /\ Takes(Contents, <<"msg", t>>, E)
                  /\ Appends(E, <<"out", d>>, Head(Contents[<<"msg", t>>]), Contents')
<1>0. /\ Hand(t) = <<thread[t].msg>> /\ Hand(t)' = <<>>
      /\ \A s \in Threads : s # t => Hand(s)' = Hand(s)
  BY HandsAfter DEF Hand
<1>1. PICK E : E = [Contents EXCEPT ![<<"msg", t>>] = Tail(@)]
  OBVIOUS
<1>2. Takes(Contents, <<"msg", t>>, E) /\ Head(Contents[<<"msg", t>>]) = thread[t].msg
  BY <1>0, <1>1, ContentsAt DEF Takes
<1>3. PICK D : D = [E EXCEPT ![<<"out", d>>] = Append(@, thread[t].msg)]
  OBVIOUS
<1>4. /\ E = [b \in Boxes |-> E[b]] /\ DOMAIN E = Boxes
      /\ \A u \in Users : E[<<"messages", u>>] = messages[u]
      /\ \A c \in Conns : E[<<"messagesQueue", c>>] = messagesQueue[c] /\ E[<<"out", c>>] = out[c]
      /\ \A s \in Threads : E[<<"msg", s>>] = IF s = t THEN Tail(Hand(t)) ELSE Hand(s)
  BY <1>1, ContentsAt
<1>5. /\ D = [b \in Boxes |-> D[b]] /\ DOMAIN D = Boxes
      /\ \A u \in Users : D[<<"messages", u>>] = messages'[u]
      /\ \A c \in Conns : D[<<"messagesQueue", c>>] = messagesQueue'[c] /\ D[<<"out", c>>] = out'[c]
  BY <1>3, <1>4, ContentsAt DEF TypeOK
<1>6. \A s \in Threads : D[<<"msg", s>>] = Hand(s)'
  <2>1. Tail(Hand(t)) = Hand(t)'
    BY <1>0
  <2> QED BY <1>0, <1>3, <1>4, <2>1, ContentsAt
<1>7. Contents' = D
  BY <1>5, <1>6, ContentsAfter
<1> QED BY <1>2, <1>3, <1>4, <1>7, ContentsAt DEF Appends

\* From the hands of a thread to nowhere.
LEMMA LostTakes ==
    ASSUME NEW t \in Threads, thread[t].msg # None,
           NEW pc, NEW user, NEW conn, NEW back, Moves(t, pc, user, None, conn, back),
           UNCHANGED <<messages, messagesQueue, out>>
    PROVE  Takes(Contents, <<"msg", t>>, Contents')
<1>0. /\ Hand(t) = <<thread[t].msg>> /\ Hand(t)' = <<>>
      /\ \A s \in Threads : s # t => Hand(s)' = Hand(s)
  BY HandsAfter DEF Hand
<1>1. PICK D : D = [Contents EXCEPT ![<<"msg", t>>] = Tail(@)]
  OBVIOUS
<1>2. Tail(Hand(t)) = Hand(t)'
  BY <1>0
<1>3. /\ D = [b \in Boxes |-> D[b]] /\ DOMAIN D = Boxes
      /\ \A u \in Users : D[<<"messages", u>>] = messages'[u]
      /\ \A c \in Conns : D[<<"messagesQueue", c>>] = messagesQueue'[c] /\ D[<<"out", c>>] = out'[c]
      /\ \A s \in Threads : D[<<"msg", s>>] = Hand(s)'
  BY <1>0, <1>1, <1>2, ContentsAt
<1>4. Contents' = D
  BY <1>3, ContentsAfter
<1>5. Hand(t) # <<>>
  <2>1. Len(Hand(t)) = 1
    BY <1>0
  <2> QED BY <2>1
<1> QED BY <1>1, <1>4, <1>5, ContentsAt DEF Takes

\* From the poster to a user's queue.
LEMMA PostAppends ==
    ASSUME TypeOK, NEW u \in Users, NEW m, NEW t \in Threads,
           NEW pc, NEW user, NEW conn, NEW back, Moves(t, pc, user, thread[t].msg, conn, back),
           messages' = [messages EXCEPT ![u] = Append(@, m)], UNCHANGED <<messagesQueue, out>>
    PROVE  Appends(Contents, <<"messages", u>>, m, Contents')
<1>0. \A s \in Threads : Hand(s)' = Hand(s)
  BY DEF Moves, Hand
<1>1. PICK D : D = [Contents EXCEPT ![<<"messages", u>>] = Append(@, m)]
  OBVIOUS
<1>2. /\ D = [b \in Boxes |-> D[b]] /\ DOMAIN D = Boxes
      /\ \A v \in Users : D[<<"messages", v>>] = messages'[v]
      /\ \A c \in Conns : D[<<"messagesQueue", c>>] = messagesQueue'[c] /\ D[<<"out", c>>] = out'[c]
      /\ \A s \in Threads : D[<<"msg", s>>] = Hand(s)'
  BY <1>0, <1>1, ContentsAt DEF TypeOK
<1>3. Contents' = D
  BY <1>2, ContentsAfter
<1> QED BY <1>1, <1>3, ContentsAt DEF Appends

\* A frame, or null, that a thread has not taken from a queue is written.
LEMMA WriteAppends ==
    ASSUME TypeOK, NEW d \in Conns, NEW v, NEW t \in Threads, thread[t].msg = None,
           NEW pc, NEW user, NEW conn, NEW back, Moves(t, pc, user, None, conn, back),
           out' = [out EXCEPT ![d] = Append(@, v)], UNCHANGED <<messages, messagesQueue>>
    PROVE  Appends(Contents, <<"out", d>>, v, Contents')
<1>0. \A s \in Threads : Hand(s)' = Hand(s)
  BY DEF Moves, Hand
<1>1. PICK D : D = [Contents EXCEPT ![<<"out", d>>] = Append(@, v)]
  OBVIOUS
<1>2. /\ D = [b \in Boxes |-> D[b]] /\ DOMAIN D = Boxes
      /\ \A u \in Users : D[<<"messages", u>>] = messages'[u]
      /\ \A c \in Conns : D[<<"messagesQueue", c>>] = messagesQueue'[c] /\ D[<<"out", c>>] = out'[c]
      /\ \A s \in Threads : D[<<"msg", s>>] = Hand(s)'
  BY <1>0, <1>1, ContentsAt DEF TypeOK
<1>3. Contents' = D
  BY <1>2, ContentsAfter
<1> QED BY <1>1, <1>3, ContentsAt DEF Appends

-----------------------------------------------------------------------------
(* Steps                                                                   *)

\* No thread has begun anything.
LEMMA InitControl == Init => ControlInv
<1> SUFFICES ASSUME Init PROVE ControlInv
  OBVIOUS
<1>1. TypeOK
  BY DeliveryAssumption DEF Init, TypeOK, NoCall, Places
<1>2. ThreadInv /\ LockInv /\ LeftInv /\ HeldHasWriter
  BY DeliveryAssumption
     DEF Init, ThreadInv, LockInv, LeftInv, HeldHasWriter, InFlush, FlushAt, HPlaces, NoCall, At, Threads
<1> QED BY <1>1, <1>2 DEF ControlInv

\* No message is anywhere.
LEMMA InitMsg == Init => MsgInv
<1> SUFFICES ASSUME Init PROVE MsgInv
  OBVIOUS
<1>1. \A t \in Threads : Hand(t) = <<>>
  BY DEF Init, Hand, NoCall
<1>2. \A b \in Boxes : Contents[b] = <<>>
  <2> SUFFICES ASSUME NEW b \in Boxes PROVE Contents[b] = <<>>
    OBVIOUS
  <2>1. CASE \E u \in Users : b = <<"messages", u>>
    BY <2>1, ContentsAt DEF Init
  <2>2. CASE \E c \in Conns : b = <<"messagesQueue", c>> \/ b = <<"out", c>>
    <3>1. PICK c \in Conns : b = <<"messagesQueue", c>> \/ b = <<"out", c>>
      BY <2>2
    <3> QED BY <3>1, ContentsAt DEF Init
  <2>3. CASE \E t \in Threads : b = <<"msg", t>>
    BY <1>1, <2>3, ContentsAt
  <2> QED BY <2>1, <2>2, <2>3, EveryBox
<1>3. \A m \in Msgs : ~In(Contents, m)
  BY <1>2, ContentsAt DEF In
<1> QED BY <1>2, <1>3, ContentsAt DEF MsgInv, Once, Init

\* Every step of every thread keeps it.
LEMMA StepInv == IInv /\ [Next]_vars => IInv'
<1> SUFFICES ASSUME ControlInv, MsgInv, [Next]_vars
             PROVE  TypeOK' /\ ThreadInv' /\ LockInv' /\ LeftInv' /\ HeldHasWriter' /\ MsgInv'
  BY DEF IInv, ControlInv
<1> DEFINE Kept == TypeOK' /\ ThreadInv' /\ LockInv' /\ LeftInv' /\ HeldHasWriter' /\ MsgInv'
<1>0. TypeOK
  BY DEF ControlInv
<1> USE DeliveryAssumption DEF At, Threads
<1>1. ASSUME NEW c \in Conns, Connect(c) PROVE Kept
  <2>1. Moves(c, "find", thread[c].user, thread[c].msg, thread[c].conn, thread[c].back)
    BY <1>0, <1>1, GotoMoves DEF Connect, Places
  <2>2. /\ At(c, "idle")
        /\ frames' \in [Conns -> 0..MaxFrames]
        /\ UNCHANGED <<engineVars, userVars, handlerVars, posted>>
    BY <1>0, <1>1 DEF Connect, ControlInv, TypeOK, ThreadInv, InFlush, FlushAt, HPlaces
  <2>3. TypeOK'
    BY <1>0, <1>1, <2>1, <2>2 DEF TypeOK, Moves, Call, engineVars, userVars, handlerVars, inputVars
  <2>4. ThreadInv'
    BY <1>0, <1>1, <2>1, <2>2
       DEF ControlInv, ThreadInv, TypeOK, InFlush, FlushAt, HPlaces, Moves, engineVars, userVars, handlerVars
  <2>5. LockInv'
    BY <1>1, <2>1, <2>2, LockQuiet DEF ControlInv, InFlush, FlushAt, HPlaces, userVars
  <2>6. LeftInv' /\ (NobodyLeft' => NobodyLeft)
    BY <1>0, <1>1, <2>1, <2>2, StayingKeeps
       DEF ControlInv, Leaving, TypeOK, ThreadInv, engineVars, userVars, handlerVars
  <2>7. HeldHasWriter'
    BY <1>0, <1>1, <2>1, <2>2, HeldKeeps DEF ControlInv, WritesFor, TypeOK, HPlaces, handlerVars
  <2>8. MsgInv'
    BY <1>1, <2>1, <2>2, <2>6, QuietKeeps DEF userVars, handlerVars, inputVars
  <2> QED BY <2>3, <2>4, <2>5, <2>6, <2>7, <2>8
<1>2. ASSUME NEW c \in Conns, Disconnect(c) PROVE Kept
  <2>1. \E p \in {"logout", "receipt"} : Moves(c, p, thread[c].user, thread[c].msg, thread[c].conn, thread[c].back)
    BY <1>0, <1>2, GotoMoves DEF Disconnect, Places
  <2>2. /\ At(c, "idle")
        /\ UNCHANGED <<engineVars, userVars, handlerVars, inputVars>>
    BY <1>0, <1>2 DEF Disconnect, ControlInv, TypeOK, ThreadInv, InFlush, FlushAt, HPlaces
  <2>3. TypeOK'
    BY <1>0, <1>2, <2>1, <2>2 DEF TypeOK, Moves, Call, engineVars, userVars, handlerVars, inputVars
  <2>4. ThreadInv'
    BY <1>0, <1>2, <2>1, <2>2
       DEF ControlInv, ThreadInv, TypeOK, InFlush, FlushAt, HPlaces, Moves, engineVars, userVars, handlerVars
  <2>5. LockInv'
    BY <1>2, <2>1, <2>2, LockQuiet DEF ControlInv, InFlush, FlushAt, HPlaces, userVars
  <2>6. LeftInv' /\ (NobodyLeft' => NobodyLeft)
    BY <1>0, <1>2, <2>1, <2>2, StayingKeeps
       DEF ControlInv, Leaving, TypeOK, ThreadInv, engineVars, userVars, handlerVars
  <2>7. HeldHasWriter'
    BY <1>0, <1>2, <2>1, <2>2, HeldKeeps DEF ControlInv, WritesFor, TypeOK, HPlaces, handlerVars
  <2>8. MsgInv'
    BY <1>2, <2>1, <2>2, <2>6, QuietKeeps DEF userVars, handlerVars, inputVars
  <2> QED BY <2>3, <2>4, <2>5, <2>6, <2>7, <2>8
<1>3. ASSUME NEW c \in Conns, Find(c) PROVE Kept
  <2>1. \E p \in {"create", "check"} :
          /\ Moves(c, p, thread[c].user, thread[c].msg, thread[c].conn, thread[c].back)
          /\ p = "check" => users # None
    BY <1>0, <1>3, GotoMoves DEF Find, Places
  <2>2. /\ At(c, "find")
        /\ UNCHANGED <<engineVars, userVars, handlerVars, inputVars>>
    BY <1>0, <1>3 DEF Find, ControlInv, TypeOK, ThreadInv, InFlush, FlushAt, HPlaces
  <2>3. TypeOK'
    BY <1>0, <1>3, <2>1, <2>2 DEF TypeOK, Moves, Call, engineVars, userVars, handlerVars, inputVars
  <2>4. ThreadInv'
    BY <1>0, <1>3, <2>1, <2>2
       DEF ControlInv, ThreadInv, TypeOK, InFlush, FlushAt, HPlaces, Moves, engineVars, userVars, handlerVars
  <2>5. LockInv'
    BY <1>3, <2>1, <2>2, LockQuiet DEF ControlInv, InFlush, FlushAt, HPlaces, userVars
  <2>6. LeftInv' /\ (NobodyLeft' => NobodyLeft)
    BY <1>0, <1>3, <2>1, <2>2, StayingKeeps
       DEF ControlInv, Leaving, TypeOK, ThreadInv, engineVars, userVars, handlerVars
  <2>7. HeldHasWriter'
    BY <1>0, <1>3, <2>1, <2>2, HeldKeeps DEF ControlInv, WritesFor, TypeOK, HPlaces, handlerVars
  <2>8. MsgInv'
    BY <1>3, <2>1, <2>2, <2>6, QuietKeeps DEF userVars, handlerVars, inputVars
  <2> QED BY <2>3, <2>4, <2>5, <2>6, <2>7, <2>8
<1>4. ASSUME NEW c \in Conns, NEW u \in Users, Create(c, u) PROVE Kept
  <2>1. Moves(c, "authorize", u, thread[c].msg, thread[c].conn, thread[c].back)
    BY <1>0, <1>4, EnterMoves DEF Create, Places, TypeOK
  <2>2. /\ At(c, "create")
        /\ made' = made \cup {u} /\ users' = u
        /\ protocol' = [protocol EXCEPT ![u] = c]
        /\ UNCHANGED <<messages, lock, handlerVars, inputVars>>
    BY <1>0, <1>4 DEF Create, ControlInv, TypeOK, ThreadInv, InFlush, FlushAt, HPlaces
  <2>3. TypeOK'
    BY <1>0, <1>4, <2>1, <2>2 DEF TypeOK, Moves, Call, engineVars, userVars, handlerVars, inputVars
  <2>4. ThreadInv'
    BY <1>0, <1>4, <2>1, <2>2
       DEF ControlInv, ThreadInv, TypeOK, InFlush, FlushAt, HPlaces, Moves, engineVars, userVars, handlerVars
  <2>5. LockInv'
    BY <1>4, <2>1, <2>2, LockQuiet DEF ControlInv, InFlush, FlushAt, HPlaces, userVars
  <2>6. LeftInv' /\ (NobodyLeft' => NobodyLeft)
    <3>1. \A v \in made' : protocol'[v] # None \/ (v \in made /\ protocol'[v] = protocol[v])
      BY <1>0, <1>4, <2>2 DEF TypeOK
    <3> QED BY <1>4, <2>1, <2>2, <3>1, StayingKeeps DEF ControlInv, Leaving, handlerVars
  <2>7. HeldHasWriter'
    BY <1>0, <1>4, <2>1, <2>2, HeldKeeps DEF ControlInv, WritesFor, TypeOK, HPlaces, handlerVars
  <2>8. MsgInv'
    BY <1>4, <2>1, <2>2, <2>6, QuietKeeps DEF userVars, handlerVars, inputVars
  <2> QED BY <2>3, <2>4, <2>5, <2>6, <2>7, <2>8
<1>5. ASSUME NEW c \in Conns, Check(c) PROVE Kept
  <2>1. \E p \in {"reject", "login"} : Moves(c, p, thread[c].user, thread[c].msg, thread[c].conn, thread[c].back)
    BY <1>0, <1>5, GotoMoves DEF Check, Places
  <2>2. /\ At(c, "check")
        /\ UNCHANGED <<engineVars, userVars, handlerVars, inputVars>>
    BY <1>0, <1>5 DEF Check, ControlInv, TypeOK, ThreadInv, InFlush, FlushAt, HPlaces
  <2>3. TypeOK'
    BY <1>0, <1>5, <2>1, <2>2 DEF TypeOK, Moves, Call, engineVars, userVars, handlerVars, inputVars
  <2>4. ThreadInv'
    BY <1>0, <1>5, <2>1, <2>2
       DEF ControlInv, ThreadInv, TypeOK, InFlush, FlushAt, HPlaces, Moves, engineVars, userVars, handlerVars
  <2>5. LockInv'
    BY <1>5, <2>1, <2>2, LockQuiet DEF ControlInv, InFlush, FlushAt, HPlaces, userVars
  <2>6. LeftInv' /\ (NobodyLeft' => NobodyLeft)
    BY <1>0, <1>5, <2>1, <2>2, StayingKeeps
       DEF ControlInv, Leaving, TypeOK, ThreadInv, engineVars, userVars, handlerVars
  <2>7. HeldHasWriter'
    BY <1>0, <1>5, <2>1, <2>2, HeldKeeps DEF ControlInv, WritesFor, TypeOK, HPlaces, handlerVars
  <2>8. MsgInv'
    BY <1>5, <2>1, <2>2, <2>6, QuietKeeps DEF userVars, handlerVars, inputVars
  <2> QED BY <2>3, <2>4, <2>5, <2>6, <2>7, <2>8
<1>6. ASSUME NEW c \in Conns, Reject(c) PROVE Kept
  <2>1. Moves(c, "idle", None, None, None, "idle")
    BY <1>0, <1>6, EndMoves DEF Reject, Places
  <2>2. /\ At(c, "reject")
        /\ protocol' = [protocol EXCEPT ![users] = c]
        /\ UNCHANGED <<engineVars, messages, lock, handlerVars, inputVars>>
    BY <1>0, <1>6 DEF Reject, ControlInv, TypeOK, ThreadInv, InFlush, FlushAt, HPlaces
  <2>3. TypeOK'
    BY <1>0, <1>6, <2>1, <2>2 DEF TypeOK, Moves, Call, engineVars, userVars, handlerVars, inputVars
  <2>4. ThreadInv'
    BY <1>0, <1>6, <2>1, <2>2
       DEF ControlInv, ThreadInv, TypeOK, InFlush, FlushAt, HPlaces, Moves, engineVars, userVars, handlerVars
  <2>5. LockInv'
    BY <1>6, <2>1, <2>2, LockQuiet DEF ControlInv, InFlush, FlushAt, HPlaces, userVars
  <2>6. LeftInv' /\ (NobodyLeft' => NobodyLeft)
    BY <1>0, <1>6, <2>1, <2>2, StayingKeeps
       DEF ControlInv, Leaving, TypeOK, ThreadInv, engineVars, userVars, handlerVars
  <2>7. HeldHasWriter'
    BY <1>0, <1>6, <2>1, <2>2, HeldKeeps DEF ControlInv, WritesFor, TypeOK, HPlaces, handlerVars
  <2>8. MsgInv'
    <3>1. thread[c].msg = None
      BY <1>6, <2>2 DEF ControlInv, ThreadInv
    <3> QED BY <1>6, <2>1, <2>2, <2>6, <3>1, QuietKeeps DEF userVars, handlerVars, inputVars
  <2> QED BY <2>3, <2>4, <2>5, <2>6, <2>7, <2>8
<1>7. ASSUME NEW c \in Conns, Login(c) PROVE Kept
  <2>1. Moves(c, "test", users, thread[c].msg, thread[c].conn, thread[c].back)
    BY <1>0, <1>7, EnterMoves DEF Login, Places, TypeOK
  <2>2. /\ At(c, "login") /\ lock[users] = None
        /\ lock' = [lock EXCEPT ![users] = c]
        /\ protocol' = [protocol EXCEPT ![users] = c]
        /\ UNCHANGED <<engineVars, messages, handlerVars, inputVars>>
    BY <1>0, <1>7 DEF Login, ControlInv, TypeOK, ThreadInv, InFlush, FlushAt, HPlaces
  <2>3. TypeOK'
    BY <1>0, <1>7, <2>1, <2>2 DEF TypeOK, Moves, Call, engineVars, userVars, handlerVars, inputVars
  <2>4. ThreadInv'
    BY <1>0, <1>7, <2>1, <2>2
       DEF ControlInv, ThreadInv, TypeOK, InFlush, FlushAt, HPlaces, Moves, engineVars, userVars, handlerVars
  <2>5. LockInv'
    <3>1. \A s \in Threads : s # c /\ InFlush(s) => lock'[thread[s].user] = s
      BY <1>0, <1>7, <2>2 DEF ControlInv, LockInv, ThreadInv, TypeOK
    <3>2. lock'[users] = c
      BY <1>0, <1>7, <2>2 DEF ControlInv, ThreadInv, TypeOK
    <3> QED BY <2>1, <3>1, <3>2, LockKeeps DEF ControlInv
  <2>6. LeftInv' /\ (NobodyLeft' => NobodyLeft)
    BY <1>0, <1>7, <2>1, <2>2, StayingKeeps
       DEF ControlInv, Leaving, TypeOK, ThreadInv, engineVars, userVars, handlerVars
  <2>7. HeldHasWriter'
    BY <1>0, <1>7, <2>1, <2>2, HeldKeeps DEF ControlInv, WritesFor, TypeOK, HPlaces, handlerVars
  <2>8. MsgInv'
    BY <1>7, <2>1, <2>2, <2>6, QuietKeeps DEF userVars, handlerVars, inputVars
  <2> QED BY <2>3, <2>4, <2>5, <2>6, <2>7, <2>8
<1>8. ASSUME NEW c \in Conns, WrongPassword(c) PROVE Kept
  <2>1. Moves(c, "idle", None, None, None, "idle")
    BY <1>0, <1>8, EndMoves DEF WrongPassword, Places
  <2>2. /\ At(c, "login")
        /\ UNCHANGED <<engineVars, userVars, handlerVars, inputVars>>
    BY <1>0, <1>8 DEF WrongPassword, ControlInv, TypeOK, ThreadInv, InFlush, FlushAt, HPlaces
  <2>3. TypeOK'
    BY <1>0, <1>8, <2>1, <2>2 DEF TypeOK, Moves, Call, engineVars, userVars, handlerVars, inputVars
  <2>4. ThreadInv'
    BY <1>0, <1>8, <2>1, <2>2
       DEF ControlInv, ThreadInv, TypeOK, InFlush, FlushAt, HPlaces, Moves, engineVars, userVars, handlerVars
  <2>5. LockInv'
    BY <1>8, <2>1, <2>2, LockQuiet DEF ControlInv, InFlush, FlushAt, HPlaces, userVars
  <2>6. LeftInv' /\ (NobodyLeft' => NobodyLeft)
    BY <1>0, <1>8, <2>1, <2>2, StayingKeeps
       DEF ControlInv, Leaving, TypeOK, ThreadInv, engineVars, userVars, handlerVars
  <2>7. HeldHasWriter'
    BY <1>0, <1>8, <2>1, <2>2, HeldKeeps DEF ControlInv, WritesFor, TypeOK, HPlaces, handlerVars
  <2>8. MsgInv'
    <3>1. thread[c].msg = None
      BY <1>8, <2>2 DEF ControlInv, ThreadInv
    <3> QED BY <1>8, <2>1, <2>2, <2>6, <3>1, QuietKeeps DEF userVars, handlerVars, inputVars
  <2> QED BY <2>3, <2>4, <2>5, <2>6, <2>7, <2>8
<1>9. ASSUME NEW c \in Conns, Authorize(c) PROVE Kept
  <2>1. Moves(c, "connected", thread[c].user, thread[c].msg, thread[c].conn, thread[c].back)
    BY <1>0, <1>9, GotoMoves DEF Authorize, Places
  <2>2. /\ At(c, "authorize")
        /\ currentUser' = [currentUser EXCEPT ![c] = thread[c].user]
        /\ UNCHANGED <<engineVars, userVars, open, messagesQueue, out, inputVars>>
    BY <1>0, <1>9 DEF Authorize, ControlInv, TypeOK, ThreadInv, InFlush, FlushAt, HPlaces
  <2>3. TypeOK'
    BY <1>0, <1>9, <2>1, <2>2 DEF TypeOK, Moves, Call, engineVars, userVars, handlerVars, inputVars
  <2>4. ThreadInv'
    BY <1>0, <1>9, <2>1, <2>2
       DEF ControlInv, ThreadInv, TypeOK, InFlush, FlushAt, HPlaces, Moves, engineVars, userVars, handlerVars
  <2>5. LockInv'
    BY <1>9, <2>1, <2>2, LockQuiet DEF ControlInv, InFlush, FlushAt, HPlaces, userVars
  <2>6. LeftInv' /\ (NobodyLeft' => NobodyLeft)
    BY <1>0, <1>9, <2>1, <2>2, StayingKeeps
       DEF ControlInv, Leaving, TypeOK, ThreadInv, engineVars, userVars, handlerVars
  <2>7. HeldHasWriter'
    BY <1>0, <1>9, <2>1, <2>2, HeldKeeps DEF ControlInv, WritesFor, TypeOK, HPlaces, handlerVars
  <2>8. MsgInv'
    BY <1>9, <2>1, <2>2, <2>6, QuietKeeps DEF userVars, handlerVars, inputVars
  <2> QED BY <2>3, <2>4, <2>5, <2>6, <2>7, <2>8
<1>10. ASSUME NEW c \in Conns, Connected(c) PROVE Kept
  <2>1. Moves(c, "htest", None, None, c, "idle")
    <3>1. PICK r \in Call : r = [NoCall EXCEPT !.pc = "htest", !.conn = c]
      BY DEF NoCall, Call, Places
    <3>2. r.pc = "htest" /\ r.user = None /\ r.msg = None /\ r.conn = c /\ r.back = "idle"
      BY <3>1 DEF NoCall
    <3>3. thread' = [thread EXCEPT ![c] = r]
      BY <1>10, <3>1 DEF Connected
    <3> QED BY <1>0, <3>2, <3>3, MovesTo
  <2>2. /\ At(c, "connected")
        /\ out' \in [Conns -> Seq(Msgs \cup {"CONNECTED", "RECEIPT", None})]
        /\ UNCHANGED <<engineVars, userVars, currentUser, open, messagesQueue, inputVars>>
    BY <1>0, <1>10 DEF Connected, ControlInv, TypeOK, ThreadInv, InFlush, FlushAt, HPlaces
  <2>3. TypeOK'
    BY <1>0, <1>10, <2>1, <2>2 DEF TypeOK, Moves, Call, engineVars, userVars, handlerVars, inputVars
  <2>4. ThreadInv'
    BY <1>0, <1>10, <2>1, <2>2
       DEF ControlInv, ThreadInv, TypeOK, InFlush, FlushAt, HPlaces, Moves, engineVars, userVars, handlerVars
  <2>5. LockInv'
    BY <1>10, <2>1, <2>2, LockQuiet DEF ControlInv, InFlush, FlushAt, HPlaces, userVars
  <2>6. LeftInv' /\ (NobodyLeft' => NobodyLeft)
    BY <1>0, <1>10, <2>1, <2>2, StayingKeeps
       DEF ControlInv, Leaving, TypeOK, ThreadInv, engineVars, userVars, handlerVars
  <2>7. HeldHasWriter'
    <3>1. \A d \in Conns : WritesFor(c, thread[c].pc, thread[c].conn, d) => WritesFor(c, "htest", c, d)
      BY <1>10, <2>2 DEF WritesFor, HPlaces
    <3> QED BY <1>10, <2>1, <2>2, <3>1, HeldKeeps DEF ControlInv
  <2>8. MsgInv'
    <3>1. thread[c].msg = None
      BY <1>10, <2>2 DEF ControlInv, ThreadInv
    <3>2. out' = [out EXCEPT ![c] = Append(@, "CONNECTED")] /\ UNCHANGED <<messages, messagesQueue, posted>>
      BY <1>10 DEF Connected, userVars, inputVars
    <3>3. Appends(Contents, <<"out", c>>, "CONNECTED", Contents')
      BY <1>0, <1>10, <2>1, <3>1, <3>2, WriteAppends
    <3>4. "CONNECTED" \in Values /\ "CONNECTED" \notin Msgs
      BY DEF Values
    <3> QED BY <1>0, <2>6, <3>2, <3>3, <3>4, OtherKeeps
  <2> QED BY <2>3, <2>4, <2>5, <2>6, <2>7, <2>8
<1>11. ASSUME NEW c \in Conns, Logout(c) PROVE Kept
  <2>1. Moves(c, "drop", thread[c].user, thread[c].msg, thread[c].conn, thread[c].back)
    BY <1>0, <1>11, GotoMoves DEF Logout, Places
  <2>2. /\ At(c, "logout")
        /\ protocol' = [protocol EXCEPT ![currentUser[c]] = None]
        /\ UNCHANGED <<engineVars, messages, lock, handlerVars, inputVars>>
    BY <1>0, <1>11 DEF Logout, ControlInv, TypeOK, ThreadInv, InFlush, FlushAt, HPlaces
  <2>3. TypeOK'
    BY <1>0, <1>11, <2>1, <2>2 DEF TypeOK, Moves, Call, engineVars, userVars, handlerVars, inputVars
  <2>4. ThreadInv'
    BY <1>0, <1>11, <2>1, <2>2
       DEF ControlInv, ThreadInv, TypeOK, InFlush, FlushAt, HPlaces, Moves, engineVars, userVars, handlerVars
  <2>5. LockInv'
    BY <1>11, <2>1, <2>2, LockQuiet DEF ControlInv, InFlush, FlushAt, HPlaces, userVars
  <2>6. LeftInv' /\ (NobodyLeft' => NobodyLeft)
    BY <1>0, <1>11, <2>1, <2>2, LeavingKeeps DEF ControlInv, LeftInv, Leaving, TypeOK, handlerVars
  <2>7. HeldHasWriter'
    BY <1>0, <1>11, <2>1, <2>2, HeldKeeps DEF ControlInv, WritesFor, TypeOK, HPlaces, handlerVars
  <2>8. MsgInv'
    BY <1>11, <2>1, <2>2, <2>6, QuietKeeps DEF userVars, handlerVars, inputVars
  <2> QED BY <2>3, <2>4, <2>5, <2>6, <2>7, <2>8
<1>12. ASSUME NEW c \in Conns, Drop(c) PROVE Kept
  <2>1. Moves(c, "receipt", thread[c].user, thread[c].msg, thread[c].conn, thread[c].back)
    BY <1>0, <1>12, GotoMoves DEF Drop, Places
  <2>2. /\ At(c, "drop")
        /\ currentUser' = [currentUser EXCEPT ![c] = None]
        /\ UNCHANGED <<engineVars, userVars, open, messagesQueue, out, inputVars>>
    BY <1>0, <1>12 DEF Drop, ControlInv, TypeOK, ThreadInv, InFlush, FlushAt, HPlaces
  <2>3. TypeOK'
    BY <1>0, <1>12, <2>1, <2>2 DEF TypeOK, Moves, Call, engineVars, userVars, handlerVars, inputVars
  <2>4. ThreadInv'
    BY <1>0, <1>12, <2>1, <2>2
       DEF ControlInv, ThreadInv, TypeOK, InFlush, FlushAt, HPlaces, Moves, engineVars, userVars, handlerVars
  <2>5. LockInv'
    BY <1>12, <2>1, <2>2, LockQuiet DEF ControlInv, InFlush, FlushAt, HPlaces, userVars
  <2>6. LeftInv' /\ (NobodyLeft' => NobodyLeft)
    BY <1>0, <1>12, <2>1, <2>2, LeavingKeeps DEF ControlInv, LeftInv, Leaving, TypeOK, handlerVars
  <2>7. HeldHasWriter'
    BY <1>0, <1>12, <2>1, <2>2, HeldKeeps DEF ControlInv, WritesFor, TypeOK, HPlaces, handlerVars
  <2>8. MsgInv'
    BY <1>12, <2>1, <2>2, <2>6, QuietKeeps DEF userVars, handlerVars, inputVars
  <2> QED BY <2>3, <2>4, <2>5, <2>6, <2>7, <2>8
<1>13. ASSUME NEW c \in Conns, Receipt(c) PROVE Kept
  <2>1. Moves(c, "close", thread[c].user, thread[c].msg, thread[c].conn, thread[c].back)
    BY <1>0, <1>13, GotoMoves DEF Receipt, Places
  <2>2. /\ At(c, "receipt")
        /\ out' \in [Conns -> Seq(Msgs \cup {"CONNECTED", "RECEIPT", None})]
        /\ UNCHANGED <<engineVars, userVars, currentUser, open, messagesQueue, inputVars>>
    BY <1>0, <1>13 DEF Receipt, ControlInv, TypeOK, ThreadInv, InFlush, FlushAt, HPlaces
  <2>3. TypeOK'
    BY <1>0, <1>13, <2>1, <2>2 DEF TypeOK, Moves, Call, engineVars, userVars, handlerVars, inputVars
  <2>4. ThreadInv'
    BY <1>0, <1>13, <2>1, <2>2
       DEF ControlInv, ThreadInv, TypeOK, InFlush, FlushAt, HPlaces, Moves, engineVars, userVars, handlerVars
  <2>5. LockInv'
    BY <1>13, <2>1, <2>2, LockQuiet DEF ControlInv, InFlush, FlushAt, HPlaces, userVars
  <2>6. LeftInv' /\ (NobodyLeft' => NobodyLeft)
    BY <1>0, <1>13, <2>1, <2>2, LeavingKeeps DEF ControlInv, LeftInv, Leaving, TypeOK, handlerVars
  <2>7. HeldHasWriter'
    BY <1>0, <1>13, <2>1, <2>2, HeldKeeps DEF ControlInv, WritesFor, TypeOK, HPlaces, handlerVars
  <2>8. MsgInv'
    <3>1. thread[c].msg = None
      BY <1>13, <2>2 DEF ControlInv, ThreadInv
    <3>2. out' = [out EXCEPT ![c] = Append(@, "RECEIPT")] /\ UNCHANGED <<messages, messagesQueue, posted>>
      BY <1>13 DEF Receipt, userVars, inputVars
    <3>3. Appends(Contents, <<"out", c>>, "RECEIPT", Contents')
      BY <1>0, <1>13, <2>1, <3>1, <3>2, WriteAppends
    <3>4. "RECEIPT" \in Values /\ "RECEIPT" \notin Msgs
      BY DEF Values
    <3> QED BY <1>0, <2>6, <3>2, <3>3, <3>4, OtherKeeps
  <2> QED BY <2>3, <2>4, <2>5, <2>6, <2>7, <2>8
<1>14. ASSUME NEW c \in Conns, Close(c) PROVE Kept
  <2>1. Moves(c, "ended", thread[c].user, thread[c].msg, thread[c].conn, thread[c].back)
    BY <1>0, <1>14, GotoMoves DEF Close, Places
  <2>2. /\ At(c, "close")
        /\ open' = [open EXCEPT ![c] = FALSE]
        /\ UNCHANGED <<engineVars, userVars, currentUser, messagesQueue, out, inputVars>>
    BY <1>0, <1>14 DEF Close, ControlInv, TypeOK, ThreadInv, InFlush, FlushAt, HPlaces
  <2>3. TypeOK'
    BY <1>0, <1>14, <2>1, <2>2 DEF TypeOK, Moves, Call, engineVars, userVars, handlerVars, inputVars
  <2>4. ThreadInv'
    BY <1>0, <1>14, <2>1, <2>2
       DEF ControlInv, ThreadInv, TypeOK, InFlush, FlushAt, HPlaces, Moves, engineVars, userVars, handlerVars
  <2>5. LockInv'
    BY <1>14, <2>1, <2>2, LockQuiet DEF ControlInv, InFlush, FlushAt, HPlaces, userVars
  <2>6. LeftInv' /\ (NobodyLeft' => NobodyLeft)
    BY <1>0, <1>14, <2>1, <2>2, LeavingKeeps DEF ControlInv, LeftInv, Leaving, TypeOK, handlerVars
  <2>7. HeldHasWriter'
    BY <1>0, <1>14, <2>1, <2>2, HeldKeeps DEF ControlInv, WritesFor, TypeOK, HPlaces, handlerVars
  <2>8. MsgInv'
    BY <1>14, <2>1, <2>2, <2>6, QuietKeeps DEF userVars, handlerVars, inputVars
  <2> QED BY <2>3, <2>4, <2>5, <2>6, <2>7, <2>8
<1>15. ASSUME NEW m \in Msgs, NEW u \in Users, Post(m, u) PROVE Kept
  <2>1. Moves(Poster, "login", u, thread[Poster].msg, thread[Poster].conn, thread[Poster].back)
    BY <1>0, <1>15, EnterMoves DEF Post, Places, TypeOK
  <2>2. /\ At(Poster, "idle") /\ u \in made
        /\ posted' \subseteq Msgs
        /\ messages' \in [Users -> Seq(Msgs)]
        /\ UNCHANGED <<engineVars, protocol, lock, handlerVars, frames>>
    BY <1>0, <1>15 DEF Post, ControlInv, TypeOK, ThreadInv, InFlush, FlushAt, HPlaces
  <2>3. TypeOK'
    BY <1>0, <1>15, <2>1, <2>2 DEF TypeOK, Moves, Call, engineVars, userVars, handlerVars, inputVars
  <2>4. ThreadInv'
    BY <1>0, <1>15, <2>1, <2>2
       DEF ControlInv, ThreadInv, TypeOK, InFlush, FlushAt, HPlaces, Moves, engineVars, userVars, handlerVars
  <2>5. LockInv'
    BY <1>15, <2>1, <2>2, LockQuiet DEF ControlInv, InFlush, FlushAt, HPlaces, userVars
  <2>6. LeftInv' /\ (NobodyLeft' => NobodyLeft)
    BY <1>0, <1>15, <2>1, <2>2, StayingKeeps
       DEF ControlInv, Leaving, TypeOK, ThreadInv, engineVars, userVars, handlerVars
  <2>7. HeldHasWriter'
    BY <1>0, <1>15, <2>1, <2>2, HeldKeeps DEF ControlInv, WritesFor, TypeOK, HPlaces, handlerVars
  <2>8. MsgInv'
    <3>1. /\ m \notin posted /\ posted' = posted \cup {m}
          /\ messages' = [messages EXCEPT ![u] = Append(@, m)] /\ UNCHANGED <<messagesQueue, out>>
      BY <1>15 DEF Post, handlerVars
    <3>2. Appends(Contents, <<"messages", u>>, m, Contents')
      BY <1>0, <1>15, <2>1, <3>1, PostAppends
    <3> QED BY <1>0, <1>15, <2>6, <3>1, <3>2, PostedKeeps
  <2> QED BY <2>3, <2>4, <2>5, <2>6, <2>7, <2>8
<1>16. ASSUME EnterFlush PROVE Kept
  <2>1. Moves(Poster, "test", thread[Poster].user, thread[Poster].msg, thread[Poster].conn, thread[Poster].back)
    BY <1>0, <1>16, GotoMoves DEF EnterFlush, Places
  <2>2. /\ At(Poster, "login") /\ lock[thread[Poster].user] = None
        /\ lock' = [lock EXCEPT ![thread[Poster].user] = Poster]
        /\ UNCHANGED <<engineVars, protocol, messages, handlerVars, inputVars>>
    BY <1>0, <1>16 DEF EnterFlush, ControlInv, TypeOK, ThreadInv, InFlush, FlushAt, HPlaces
  <2>3. TypeOK'
    BY <1>0, <1>16, <2>1, <2>2 DEF TypeOK, Moves, Call, engineVars, userVars, handlerVars, inputVars
  <2>4. ThreadInv'
    BY <1>0, <1>16, <2>1, <2>2
       DEF ControlInv, ThreadInv, TypeOK, InFlush, FlushAt, HPlaces, Moves, engineVars, userVars, handlerVars
  <2>5. LockInv'
    <3>1. \A s \in Threads : s # Poster /\ InFlush(s) => lock'[thread[s].user] = s
      BY <1>0, <1>16, <2>2 DEF ControlInv, LockInv, ThreadInv, TypeOK
    <3>2. lock'[thread[Poster].user] = Poster
      BY <1>0, <1>16, <2>2 DEF ControlInv, ThreadInv, TypeOK
    <3> QED BY <2>1, <3>1, <3>2, LockKeeps DEF ControlInv
  <2>6. LeftInv' /\ (NobodyLeft' => NobodyLeft)
    BY <1>0, <1>16, <2>1, <2>2, StayingKeeps
       DEF ControlInv, Leaving, TypeOK, ThreadInv, engineVars, userVars, handlerVars
  <2>7. HeldHasWriter'
    BY <1>0, <1>16, <2>1, <2>2, HeldKeeps DEF ControlInv, WritesFor, TypeOK, HPlaces, handlerVars
  <2>8. MsgInv'
    BY <1>16, <2>1, <2>2, <2>6, QuietKeeps DEF userVars, handlerVars, inputVars
  <2> QED BY <2>3, <2>4, <2>5, <2>6, <2>7, <2>8
<1>17. ASSUME NEW t \in Threads, Test(t) PROVE Kept
  <2>1. \E p \in {"loop", "unlock"} : Moves(t, p, thread[t].user, thread[t].msg, thread[t].conn, thread[t].back)
    BY <1>0, <1>17, GotoMoves DEF Test, Places
  <2>2. /\ At(t, "test")
        /\ UNCHANGED <<engineVars, userVars, handlerVars, inputVars>>
    BY <1>0, <1>17 DEF Test, ControlInv, TypeOK, ThreadInv, InFlush, FlushAt, HPlaces
  <2>3. TypeOK'
    BY <1>0, <1>17, <2>1, <2>2 DEF TypeOK, Moves, Call, engineVars, userVars, handlerVars, inputVars
  <2>4. ThreadInv'
    BY <1>0, <1>17, <2>1, <2>2
       DEF ControlInv, ThreadInv, TypeOK, InFlush, FlushAt, HPlaces, Moves, engineVars, userVars, handlerVars
  <2>5. LockInv'
    BY <1>17, <2>1, <2>2, LockQuiet DEF ControlInv, InFlush, FlushAt, HPlaces, userVars
  <2>6. LeftInv' /\ (NobodyLeft' => NobodyLeft)
    BY <1>0, <1>17, <2>1, <2>2, StayingKeeps
       DEF ControlInv, Leaving, TypeOK, ThreadInv, engineVars, userVars, handlerVars
  <2>7. HeldHasWriter'
    BY <1>0, <1>17, <2>1, <2>2, HeldKeeps DEF ControlInv, WritesFor, TypeOK, HPlaces, handlerVars
  <2>8. MsgInv'
    BY <1>17, <2>1, <2>2, <2>6, QuietKeeps DEF userVars, handlerVars, inputVars
  <2> QED BY <2>3, <2>4, <2>5, <2>6, <2>7, <2>8
<1>18. ASSUME NEW t \in Threads, Loop(t) PROVE Kept
  <2>1. \E p \in {"use", "unlock"}, m \in Msgs \cup {None} :
          /\ Moves(t, p, thread[t].user, m, thread[t].conn, thread[t].back)
          /\ p = "use" <=> m # None
    <3>1. CASE messages[thread[t].user] = <<>>
      <4>1. Moves(t, "unlock", thread[t].user, thread[t].msg, thread[t].conn, thread[t].back)
        BY <1>0, <1>18, <3>1, GotoMoves DEF Loop, Places
      <4>2. thread[t].msg = None
        BY <1>18 DEF Loop, ControlInv, ThreadInv
      <4> QED BY <4>1, <4>2
    <3>2. CASE messages[thread[t].user] # <<>>
      <4>1. PICK m \in Msgs : m = Head(messages[thread[t].user])
        BY <1>18, <3>2 DEF Loop, ControlInv, TypeOK, ThreadInv, InFlush, FlushAt
      <4>2. Moves(t, "use", thread[t].user, m, thread[t].conn, thread[t].back)
        BY <1>0, <1>18, <3>2, <4>1, TakeMoves DEF Loop, Places
      <4> QED BY <4>1, <4>2
    <3> QED BY <3>1, <3>2
  <2>2. /\ At(t, "loop")
        /\ messages' \in [Users -> Seq(Msgs)]
        /\ UNCHANGED <<engineVars, protocol, lock, handlerVars, inputVars>>
    <3>1. messages[thread[t].user] # <<>> => Tail(messages[thread[t].user]) \in Seq(Msgs)
      BY <1>18 DEF Loop, ControlInv, TypeOK, ThreadInv, InFlush, FlushAt
    <3>2. messages' = messages \/ (/\ messages[thread[t].user] # <<>>
                                  /\ messages' = [messages EXCEPT ![thread[t].user] = Tail(@)])
      BY <1>18 DEF Loop
    <3>3. messages' \in [Users -> Seq(Msgs)]
      BY <1>0, <3>1, <3>2 DEF TypeOK
    <3> QED BY <1>18, <3>3 DEF Loop
  <2>3. TypeOK'
    BY <1>0, <1>18, <2>1, <2>2 DEF TypeOK, Moves, Call, engineVars, userVars, handlerVars, inputVars
  <2>4. ThreadInv'
    BY <1>0, <1>18, <2>1, <2>2
       DEF ControlInv, ThreadInv, TypeOK, InFlush, FlushAt, HPlaces, Moves, engineVars, userVars, handlerVars
  <2>5. LockInv'
    BY <1>18, <2>1, <2>2, LockQuiet DEF ControlInv, InFlush, FlushAt, HPlaces, userVars
  <2>6. LeftInv' /\ (NobodyLeft' => NobodyLeft)
    BY <1>0, <1>18, <2>1, <2>2, StayingKeeps
       DEF ControlInv, Leaving, TypeOK, ThreadInv, engineVars, userVars, handlerVars
  <2>7. HeldHasWriter'
    BY <1>0, <1>18, <2>1, <2>2, HeldKeeps DEF ControlInv, WritesFor, TypeOK, HPlaces, handlerVars
  <2>8. MsgInv'
    <3>1. thread[t].msg = None
      BY <1>18, <2>2 DEF ControlInv, ThreadInv
    <3>2. thread[t].user \in Users
      BY <1>0, <1>18, <2>2 DEF ControlInv, ThreadInv, TypeOK, InFlush, FlushAt
    <3>3. CASE messages[thread[t].user] = <<>>
      <4>1. Moves(t, "unlock", thread[t].user, thread[t].msg, thread[t].conn, thread[t].back)
        BY <1>0, <1>18, <3>3, GotoMoves DEF Loop, Places
      <4>2. UNCHANGED <<messages, messagesQueue, out, posted>>
        BY <1>18, <3>3 DEF Loop, handlerVars, inputVars
      <4> QED BY <1>18, <2>6, <4>1, <4>2, QuietKeeps
    <3>4. CASE messages[thread[t].user] # <<>>
      <4>1. /\ messages' = [messages EXCEPT ![thread[t].user] = Tail(@)]
            /\ UNCHANGED <<messagesQueue, out, posted>>
        BY <1>18, <3>4 DEF Loop, handlerVars, inputVars
      <4>2. Head(messages[thread[t].user]) \in Msgs
        BY <1>0, <3>2, <3>4 DEF TypeOK
      <4>3. Moves(t, "use", thread[t].user, Head(messages[thread[t].user]), thread[t].conn, thread[t].back)
        BY <1>0, <1>18, <3>4, <4>2, TakeMoves DEF Loop, Places
      <4>4. \E E : /\ Takes(Contents, <<"messages", thread[t].user>>, E)
                   /\ Appends(E, <<"msg", t>>, Head(Contents[<<"messages", thread[t].user>>]), Contents')
        BY <1>0, <1>18, <3>1, <3>2, <3>4, <4>1, <4>3, LoopTakes
      <4> QED BY <1>0, <2>6, <4>1, <4>4, MovedKeeps
    <3> QED BY <3>3, <3>4
  <2> QED BY <2>3, <2>4, <2>5, <2>6, <2>7, <2>8
<1>19. ASSUME NEW t \in Threads, Use(t) PROVE Kept
  <2>1. \E d \in Conns : /\ Moves(t, "htest", thread[t].user, None, d, "loop")
                       /\ \A c \in Conns : c # d => messagesQueue'[c] = messagesQueue[c]
    <3>1. PICK d \in Conns : d = protocol[thread[t].user]
      BY <1>19 DEF Use, ControlInv, TypeOK, ThreadInv, InFlush
    <3>2. Moves(t, "htest", thread[t].user, None, d, "loop")
      BY <1>0, <1>19, <3>1, UseMoves DEF Use
    <3>3. \A c \in Conns : c # d => messagesQueue'[c] = messagesQueue[c]
      BY <1>0, <1>19, <3>1 DEF Use, TypeOK
    <3> QED BY <3>2, <3>3
  <2>2. /\ At(t, "use")
        /\ messagesQueue' \in [Conns -> Seq(Msgs)]
        /\ UNCHANGED <<engineVars, userVars, currentUser, open, out, inputVars>>
    BY <1>0, <1>19 DEF Use, ControlInv, TypeOK, ThreadInv, InFlush, FlushAt, HPlaces
  <2>3. TypeOK'
    BY <1>0, <1>19, <2>1, <2>2 DEF TypeOK, Moves, Call, engineVars, userVars, handlerVars, inputVars
  <2>4. ThreadInv'
    <3> PICK d \in Conns : Moves(t, "htest", thread[t].user, None, d, "loop")
      BY <2>1
    <3>1. InFlush(t)
      BY <2>2 DEF InFlush, FlushAt
    <3> QED BY <1>0, <1>19, <2>2, <3>1 DEF ControlInv, ThreadInv, InFlush, FlushAt, HPlaces, Moves, engineVars
  <2>5. LockInv'
    BY <1>19, <2>1, <2>2, LockQuiet DEF ControlInv, InFlush, FlushAt, HPlaces, userVars
  <2>6. LeftInv' /\ (NobodyLeft' => NobodyLeft)
    BY <1>0, <1>19, <2>1, <2>2, StayingKeeps
       DEF ControlInv, Leaving, TypeOK, ThreadInv, engineVars, userVars, handlerVars
  <2>7. HeldHasWriter'
    <3> PICK d \in Conns : /\ Moves(t, "htest", thread[t].user, None, d, "loop")
                           /\ \A c \in Conns : c # d => messagesQueue'[c] = messagesQueue[c]
      BY <2>1
    <3>1. WritesFor(t, "htest", d, d) /\ \A c \in Conns : ~WritesFor(t, thread[t].pc, thread[t].conn, c)
      BY <2>2 DEF WritesFor, HPlaces
    <3> QED BY <1>19, <2>2, <3>1, HeldKeeps DEF ControlInv
  <2>8. MsgInv'
    <3>1. PICK d \in Conns : d = protocol[thread[t].user]
      BY <1>19 DEF Use, ControlInv, TypeOK, ThreadInv, InFlush, FlushAt
    <3>2. /\ messagesQueue' = [messagesQueue EXCEPT ![d] = Append(@, thread[t].msg)]
          /\ UNCHANGED <<messages, out, posted>>
      BY <1>19, <3>1 DEF Use, userVars, inputVars
    <3>3. Moves(t, "htest", thread[t].user, None, d, "loop")
      BY <1>0, <1>19, <3>1, UseMoves DEF Use
    <3>4. thread[t].msg # None
      BY <1>19, <2>2 DEF ControlInv, ThreadInv
    <3>5. \E E : /\ Takes(Contents, <<"msg", t>>, E)
                 /\ Appends(E, <<"messagesQueue", d>>, Head(Contents[<<"msg", t>>]), Contents')
      BY <1>0, <1>19, <3>2, <3>3, <3>4, UseTakes
    <3> QED BY <1>0, <2>6, <3>2, <3>5, MovedKeeps
  <2> QED BY <2>3, <2>4, <2>5, <2>6, <2>7, <2>8
<1>20. ASSUME NEW t \in Threads, UseNull(t) PROVE Kept
  <2>1. Moves(t, "idle", None, None, None, "idle")
    BY <1>0, <1>20, EndMoves DEF UseNull, Places
  <2>2. /\ At(t, "use")
        /\ lock' = [lock EXCEPT ![thread[t].user] = None]
        /\ UNCHANGED <<engineVars, protocol, messages, handlerVars, inputVars>>
    BY <1>0, <1>20 DEF UseNull, ControlInv, TypeOK, ThreadInv, InFlush, FlushAt, HPlaces
  <2>3. TypeOK'
    BY <1>0, <1>20, <2>1, <2>2 DEF TypeOK, Moves, Call, engineVars, userVars, handlerVars, inputVars
  <2>4. ThreadInv'
    BY <1>0, <1>20, <2>1, <2>2
       DEF ControlInv, ThreadInv, TypeOK, InFlush, FlushAt, HPlaces, Moves, engineVars, userVars, handlerVars
  <2>5. LockInv'
    <3>1. lock[thread[t].user] = t
      BY <1>20, <2>2 DEF ControlInv, LockInv, InFlush, FlushAt
    <3>2. \A s \in Threads : s # t /\ InFlush(s) => lock'[thread[s].user] = s
      BY <1>0, <1>20, <2>2, <3>1 DEF ControlInv, LockInv, ThreadInv, TypeOK
    <3> QED BY <2>1, <3>2, LockKeeps DEF ControlInv, FlushAt, HPlaces
  <2>6. LeftInv' /\ (NobodyLeft' => NobodyLeft)
    BY <1>0, <1>20, <2>1, <2>2, StayingKeeps
       DEF ControlInv, Leaving, TypeOK, ThreadInv, engineVars, userVars, handlerVars
  <2>7. HeldHasWriter'
    BY <1>0, <1>20, <2>1, <2>2, HeldKeeps DEF ControlInv, WritesFor, TypeOK, HPlaces, handlerVars
  <2>8. MsgInv'
    <3>1. thread[t].msg # None
      BY <1>20, <2>2 DEF ControlInv, ThreadInv
    <3>2. UNCHANGED <<messages, messagesQueue, out, posted>>
      BY <2>2 DEF handlerVars, inputVars
    <3>3. Takes(Contents, <<"msg", t>>, Contents')
      BY <1>20, <2>1, <3>1, <3>2, LostTakes
    <3>4. ~NobodyLeft
      BY <1>20 DEF UseNull, ControlInv, ThreadInv, LeftInv, InFlush, FlushAt
    <3> QED BY <1>0, <2>6, <3>2, <3>3, <3>4, LostKeeps
  <2> QED BY <2>3, <2>4, <2>5, <2>6, <2>7, <2>8
<1>21. ASSUME NEW t \in Threads, Unlock(t) PROVE Kept
  <2>1. \E p \in {"idle", "authorize"}, u \in Users \cup {None} : Moves(t, p, u, None, None, "idle")
    <3>1. CASE t = Poster
      BY <1>0, <1>21, <3>1, EndMoves DEF Unlock
    <3>2. CASE t # Poster
      <4>1. PICK r \in Call : r = [NoCall EXCEPT !.pc = "authorize", !.user = users]
        BY <1>0 DEF NoCall, Call, Places, TypeOK
      <4>2. r.pc = "authorize" /\ r.user = users /\ r.msg = None /\ r.conn = None /\ r.back = "idle"
        BY <4>1 DEF NoCall
      <4>3. thread' = [thread EXCEPT ![t] = r]
        BY <1>21, <3>2, <4>1 DEF Unlock
      <4>4. Moves(t, "authorize", users, None, None, "idle")
        BY <1>0, <4>2, <4>3, MovesTo
      <4> QED BY <1>0, <4>4 DEF TypeOK
    <3> QED BY <3>1, <3>2
  <2>2. /\ At(t, "unlock")
        /\ lock' = [lock EXCEPT ![thread[t].user] = None]
        /\ UNCHANGED <<engineVars, protocol, messages, handlerVars, inputVars>>
    BY <1>0, <1>21 DEF Unlock, ControlInv, TypeOK, ThreadInv, InFlush, FlushAt, HPlaces
  <2>3. TypeOK'
    BY <1>0, <1>21, <2>1, <2>2 DEF TypeOK, Moves, Call, engineVars, userVars, handlerVars, inputVars
  <2>4. ThreadInv'
    BY <1>0, <1>21, <2>1, <2>2
       DEF ControlInv, ThreadInv, TypeOK, InFlush, FlushAt, HPlaces, Moves, engineVars, userVars, handlerVars
  <2>5. LockInv'
    <3>1. lock[thread[t].user] = t
      BY <1>21, <2>2 DEF ControlInv, LockInv, InFlush, FlushAt
    <3>2. \A s \in Threads : s # t /\ InFlush(s) => lock'[thread[s].user] = s
      BY <1>0, <1>21, <2>2, <3>1 DEF ControlInv, LockInv, ThreadInv, TypeOK
    <3> QED BY <2>1, <3>2, LockKeeps DEF ControlInv, FlushAt, HPlaces
  <2>6. LeftInv' /\ (NobodyLeft' => NobodyLeft)
    BY <1>0, <1>21, <2>1, <2>2, StayingKeeps
       DEF ControlInv, Leaving, TypeOK, ThreadInv, engineVars, userVars, handlerVars
  <2>7. HeldHasWriter'
    BY <1>0, <1>21, <2>1, <2>2, HeldKeeps DEF ControlInv, WritesFor, TypeOK, HPlaces, handlerVars
  <2>8. MsgInv'
    <3>1. thread[t].msg = None
      BY <1>21, <2>2 DEF ControlInv, ThreadInv
    <3> QED BY <1>21, <2>1, <2>2, <2>6, <3>1, QuietKeeps DEF userVars, handlerVars, inputVars
  <2> QED BY <2>3, <2>4, <2>5, <2>6, <2>7, <2>8
<1>22. ASSUME NEW t \in Threads, HTest(t) PROVE Kept
  <2>1. \/ Moves(t, "hloop", thread[t].user, thread[t].msg, thread[t].conn, thread[t].back)
        \/ /\ Moves(t, thread[t].back, thread[t].user, None, None, "idle")
           /\ currentUser[thread[t].conn] = None \/ ~open[thread[t].conn]
    BY <1>0, <1>22, GotoMoves, ReturnMoves DEF HTest, Places
  <2>2. /\ At(t, "htest")
        /\ UNCHANGED <<engineVars, userVars, handlerVars, inputVars>>
    BY <1>0, <1>22 DEF HTest, ControlInv, TypeOK, ThreadInv, InFlush, FlushAt, HPlaces
  <2>3. TypeOK'
    BY <1>0, <1>22, <2>1, <2>2 DEF TypeOK, Moves, Call, engineVars, userVars, handlerVars, inputVars
  <2>4. ThreadInv'
    BY <1>0, <1>22, <2>1, <2>2
       DEF ControlInv, ThreadInv, TypeOK, InFlush, FlushAt, HPlaces, Moves, engineVars, userVars, handlerVars
  <2>5. LockInv'
    <3>1. CASE Moves(t, "hloop", thread[t].user, thread[t].msg, thread[t].conn, thread[t].back)
      BY <1>22, <2>2, <3>1, LockQuiet DEF ControlInv, InFlush, FlushAt, HPlaces, userVars
    <3>2. CASE Moves(t, thread[t].back, thread[t].user, None, None, "idle")
      <4>1. FlushAt(thread[t].back, "idle") => InFlush(t)
        BY <1>0, <1>22, <2>2 DEF TypeOK, InFlush, FlushAt, HPlaces
      <4> QED BY <1>22, <2>2, <3>2, <4>1, LockQuiet DEF ControlInv, userVars
    <3> QED BY <2>1, <3>1, <3>2
  <2>6. LeftInv' /\ (NobodyLeft' => NobodyLeft)
    BY <1>0, <1>22, <2>1, <2>2, StayingKeeps
       DEF ControlInv, Leaving, TypeOK, ThreadInv, engineVars, userVars, handlerVars
  <2>7. HeldHasWriter'
    BY <1>0, <1>22, <2>1, <2>2, HeldKeeps DEF ControlInv, WritesFor, TypeOK, HPlaces, handlerVars
  <2>8. MsgInv'
    <3>1. thread[t].msg = None
      BY <1>22, <2>2 DEF ControlInv, ThreadInv
    <3> QED BY <1>22, <2>1, <2>2, <2>6, <3>1, QuietKeeps DEF userVars, handlerVars, inputVars
  <2> QED BY <2>3, <2>4, <2>5, <2>6, <2>7, <2>8
<1>23. ASSUME NEW t \in Threads, HLoop(t) PROVE Kept
  <2>1. \/ Moves(t, "hpoll", thread[t].user, thread[t].msg, thread[t].conn, thread[t].back)
        \/ Moves(t, thread[t].back, thread[t].user, None, None, "idle") /\ messagesQueue[thread[t].conn] = <<>>
    BY <1>0, <1>23, GotoMoves, ReturnMoves DEF HLoop, Places
  <2>2. /\ At(t, "hloop")
        /\ UNCHANGED <<engineVars, userVars, handlerVars, inputVars>>
    BY <1>0, <1>23 DEF HLoop, ControlInv, TypeOK, ThreadInv, InFlush, FlushAt, HPlaces
  <2>3. TypeOK'
    BY <1>0, <1>23, <2>1, <2>2 DEF TypeOK, Moves, Call, engineVars, userVars, handlerVars, inputVars
  <2>4. ThreadInv'
    BY <1>0, <1>23, <2>1, <2>2
       DEF ControlInv, ThreadInv, TypeOK, InFlush, FlushAt, HPlaces, Moves, engineVars, userVars, handlerVars
  <2>5. LockInv'
    <3>1. CASE Moves(t, "hpoll", thread[t].user, thread[t].msg, thread[t].conn, thread[t].back)
      BY <1>23, <2>2, <3>1, LockQuiet DEF ControlInv, InFlush, FlushAt, HPlaces, userVars
    <3>2. CASE Moves(t, thread[t].back, thread[t].user, None, None, "idle")
      <4>1. FlushAt(thread[t].back, "idle") => InFlush(t)
        BY <1>0, <1>23, <2>2 DEF TypeOK, InFlush, FlushAt, HPlaces
      <4> QED BY <1>23, <2>2, <3>2, <4>1, LockQuiet DEF ControlInv, userVars
    <3> QED BY <2>1, <3>1, <3>2
  <2>6. LeftInv' /\ (NobodyLeft' => NobodyLeft)
    BY <1>0, <1>23, <2>1, <2>2, StayingKeeps
       DEF ControlInv, Leaving, TypeOK, ThreadInv, engineVars, userVars, handlerVars
  <2>7. HeldHasWriter'
    BY <1>0, <1>23, <2>1, <2>2, HeldKeeps DEF ControlInv, WritesFor, TypeOK, HPlaces, handlerVars
  <2>8. MsgInv'
    <3>1. thread[t].msg = None
      BY <1>23, <2>2 DEF ControlInv, ThreadInv
    <3> QED BY <1>23, <2>1, <2>2, <2>6, <3>1, QuietKeeps DEF userVars, handlerVars, inputVars
  <2> QED BY <2>3, <2>4, <2>5, <2>6, <2>7, <2>8
<1>24. ASSUME NEW t \in Threads, HPoll(t) PROVE Kept
  <2>1. \E m \in Msgs \cup {None} : Moves(t, "hwrite", thread[t].user, m, thread[t].conn, thread[t].back)
    <3>1. CASE messagesQueue[thread[t].conn] = <<>>
      BY <1>0, <1>24, <3>1, TakeMoves DEF HPoll, Places
    <3>2. CASE messagesQueue[thread[t].conn] # <<>>
      <4>1. PICK m \in Msgs : m = Head(messagesQueue[thread[t].conn])
        BY <1>24, <3>2 DEF HPoll, ControlInv, TypeOK, ThreadInv, HPlaces
      <4> QED BY <1>0, <1>24, <3>2, <4>1, TakeMoves DEF HPoll, Places
    <3> QED BY <3>1, <3>2
  <2>2. /\ At(t, "hpoll")
        /\ messagesQueue' \in [Conns -> Seq(Msgs)]
        /\ \A c \in Conns : messagesQueue[c] = <<>> => messagesQueue'[c] = <<>>
        /\ UNCHANGED <<engineVars, userVars, currentUser, open, out, inputVars>>
    <3>1. thread[t].conn \in Conns
      BY <1>24 DEF HPoll, ControlInv, ThreadInv, HPlaces
    <3>2. messagesQueue[thread[t].conn] # <<>> => Tail(messagesQueue[thread[t].conn]) \in Seq(Msgs)
      BY <1>0, <3>1 DEF TypeOK
    <3>3. messagesQueue' = messagesQueue \/ (/\ messagesQueue[thread[t].conn] # <<>>
                                            /\ messagesQueue' = [messagesQueue EXCEPT ![thread[t].conn] = Tail(@)])
      BY <1>24 DEF HPoll
    <3>4. messagesQueue' \in [Conns -> Seq(Msgs)]
      BY <1>0, <3>2, <3>3 DEF TypeOK
    <3>5. \A c \in Conns : messagesQueue[c] = <<>> => messagesQueue'[c] = <<>>
      BY <1>0, <3>1, <3>3 DEF TypeOK
    <3> QED BY <1>24, <3>4, <3>5 DEF HPoll
  <2>3. TypeOK'
    BY <1>0, <1>24, <2>1, <2>2 DEF TypeOK, Moves, Call, engineVars, userVars, handlerVars, inputVars
  <2>4. ThreadInv'
    BY <1>0, <1>24, <2>1, <2>2
       DEF ControlInv, ThreadInv, TypeOK, InFlush, FlushAt, HPlaces, Moves, engineVars, userVars, handlerVars
  <2>5. LockInv'
    BY <1>24, <2>1, <2>2, LockQuiet DEF ControlInv, InFlush, FlushAt, HPlaces, userVars
  <2>6. LeftInv' /\ (NobodyLeft' => NobodyLeft)
    BY <1>0, <1>24, <2>1, <2>2, StayingKeeps
       DEF ControlInv, Leaving, TypeOK, ThreadInv, engineVars, userVars, handlerVars
  <2>7. HeldHasWriter'
    BY <1>0, <1>24, <2>1, <2>2, HeldKeeps DEF ControlInv, WritesFor, TypeOK, HPlaces, handlerVars
  <2>8. MsgInv'
    <3>1. thread[t].msg = None
      BY <1>24, <2>2 DEF ControlInv, ThreadInv
    <3>2. PICK d \in Conns : d = thread[t].conn
      BY <1>24, <2>2 DEF ControlInv, ThreadInv, HPlaces
    <3>3. CASE messagesQueue[d] = <<>>
      <4>1. Moves(t, "hwrite", thread[t].user, None, thread[t].conn, thread[t].back)
        BY <1>0, <1>24, <3>2, <3>3, TakeMoves DEF HPoll, Places
      <4>2. UNCHANGED <<messages, messagesQueue, out, posted>>
        BY <1>24, <3>2, <3>3 DEF HPoll, userVars, inputVars
      <4> QED BY <1>24, <2>6, <3>1, <4>1, <4>2, QuietKeeps
    <3>4. CASE messagesQueue[d] # <<>>
      <4>1. /\ messagesQueue' = [messagesQueue EXCEPT ![d] = Tail(@)]
            /\ UNCHANGED <<messages, out, posted>>
        BY <1>24, <3>2, <3>4 DEF HPoll, userVars, inputVars
      <4>2. Head(messagesQueue[d]) \in Msgs
        BY <1>0, <3>4 DEF TypeOK
      <4>3. Moves(t, "hwrite", thread[t].user, Head(messagesQueue[d]), thread[t].conn, thread[t].back)
        BY <1>0, <1>24, <3>2, <3>4, <4>2, TakeMoves DEF HPoll, Places
      <4>4. \E E : /\ Takes(Contents, <<"messagesQueue", d>>, E)
                   /\ Appends(E, <<"msg", t>>, Head(Contents[<<"messagesQueue", d>>]), Contents')
        BY <1>0, <1>24, <3>1, <3>4, <4>1, <4>3, HPollTakes
      <4> QED BY <1>0, <2>6, <4>1, <4>4, MovedKeeps
    <3> QED BY <3>3, <3>4
  <2> QED BY <2>3, <2>4, <2>5, <2>6, <2>7, <2>8
<1>25. ASSUME NEW t \in Threads, HWrite(t) PROVE Kept
  <2>1. Moves(t, "hloop", thread[t].user, None, thread[t].conn, thread[t].back)
    BY <1>0, <1>25, TakeMoves DEF HWrite, Places
  <2>2. /\ At(t, "hwrite")
        /\ out' \in [Conns -> Seq(Msgs \cup {"CONNECTED", "RECEIPT", None})]
        /\ UNCHANGED <<engineVars, userVars, currentUser, open, messagesQueue, inputVars>>
    BY <1>0, <1>25 DEF HWrite, ControlInv, TypeOK, ThreadInv, InFlush, FlushAt, HPlaces
  <2>3. TypeOK'
    BY <1>0, <1>25, <2>1, <2>2 DEF TypeOK, Moves, Call, engineVars, userVars, handlerVars, inputVars
  <2>4. ThreadInv'
    BY <1>0, <1>25, <2>1, <2>2
       DEF ControlInv, ThreadInv, TypeOK, InFlush, FlushAt, HPlaces, Moves, engineVars, userVars, handlerVars
  <2>5. LockInv'
    BY <1>25, <2>1, <2>2, LockQuiet DEF ControlInv, InFlush, FlushAt, HPlaces, userVars
  <2>6. LeftInv' /\ (NobodyLeft' => NobodyLeft)
    BY <1>0, <1>25, <2>1, <2>2, StayingKeeps
       DEF ControlInv, Leaving, TypeOK, ThreadInv, engineVars, userVars, handlerVars
  <2>7. HeldHasWriter'
    BY <1>0, <1>25, <2>1, <2>2, HeldKeeps DEF ControlInv, WritesFor, TypeOK, HPlaces, handlerVars
  <2>8. MsgInv'
    <3>1. PICK d \in Conns : d = thread[t].conn
      BY <1>25, <2>2 DEF ControlInv, ThreadInv, HPlaces
    <3>2. UNCHANGED <<messages, messagesQueue, posted>>
      BY <2>2 DEF userVars, inputVars
    <3>3. out' = IF open[d] THEN [out EXCEPT ![d] = Append(@, thread[t].msg)] ELSE out
      BY <1>25, <3>1 DEF HWrite
    <3>4. CASE open[d] /\ thread[t].msg = None
      <4>1. Appends(Contents, <<"out", d>>, None, Contents')
        BY <1>0, <1>25, <2>1, <3>2, <3>3, <3>4, WriteAppends
      <4>2. None \in Values /\ None \notin Msgs
        BY DEF Values
      <4> QED BY <1>0, <2>6, <3>2, <4>1, <4>2, OtherKeeps
    <3>5. CASE open[d] /\ thread[t].msg # None
      <4>1. \E E : /\ Takes(Contents, <<"msg", t>>, E)
                   /\ Appends(E, <<"out", d>>, Head(Contents[<<"msg", t>>]), Contents')
        BY <1>0, <1>25, <2>1, <3>2, <3>3, <3>5, HWriteTakes
      <4> QED BY <1>0, <2>6, <3>2, <4>1, MovedKeeps
    <3>6. CASE ~open[d] /\ thread[t].msg = None
      BY <1>25, <2>1, <2>6, <3>2, <3>3, <3>6, QuietKeeps
    <3>7. CASE ~open[d] /\ thread[t].msg # None
      <4>1. Takes(Contents, <<"msg", t>>, Contents')
        BY <1>25, <2>1, <3>2, <3>3, <3>7, LostTakes
      <4>2. ~NobodyLeft
        BY <3>7 DEF ControlInv, LeftInv, NobodyLeft
      <4> QED BY <1>0, <2>6, <3>2, <4>1, <4>2, LostKeeps
    <3> QED BY <3>4, <3>5, <3>6, <3>7
  <2> QED BY <2>3, <2>4, <2>5, <2>6, <2>7, <2>8
<1>26. CASE UNCHANGED vars
  <2>1. TypeOK' /\ ThreadInv' /\ LockInv'
    BY <1>26
       DEF ControlInv, vars, TypeOK, ThreadInv, LockInv, InFlush, engineVars, userVars, handlerVars, inputVars
  <2>2. LeftInv' /\ HeldHasWriter'
    BY <1>26
       DEF ControlInv, vars, LeftInv, NobodyLeft, HeldHasWriter, Flushing, engineVars, userVars, handlerVars
  <2>3. Contents' = Contents /\ UNCHANGED <<posted, thread>>
    BY <1>26 DEF vars, Contents, Hand, userVars, handlerVars, inputVars
  <2>4. MsgInv'
    BY <2>3 DEF MsgInv, NobodyLeft, In, Once
  <2> QED BY <2>1, <2>2, <2>4
<1> QED
  BY <1>1, <1>2, <1>3, <1>4, <1>5, <1>6, <1>7, <1>8, <1>9, <1>10, <1>11, <1>12, <1>13,
     <1>14, <1>15, <1>16, <1>17, <1>18, <1>19, <1>20, <1>21, <1>22, <1>23, <1>24, <1>25, <1>26
     DEF Next, HandlerStep, FlushStep, Terminated

\* The inductive invariant holds in every behaviour.
LEMMA Invariant == Spec => []IInv
BY InitControl, InitMsg, StepInv, PTL DEF Spec, IInv

-----------------------------------------------------------------------------
(* Theorems                                                                *)

\* Queues, sockets and threads hold what they may hold.
THEOREM TypeCorrect == Spec => []TypeOK
<1>1. IInv => TypeOK BY DEF IInv, ControlInv
<1> QED BY <1>1, Invariant, PTL

\* No wakeup is lost: whoever logs in while a message is put into the queue of
\* the handler, one of the two threads is on its way to write it.
THEOREM HeldHasWriterHolds == Spec => []HeldHasWriter
<1>1. IInv => HeldHasWriter BY DEF IInv, ControlInv
<1> QED BY <1>1, Invariant, PTL

\* Two threads are never in the synchronized part of one User: nobody else takes
\* from a user's queue between isEmpty and poll, which Loop makes one step.
OneFlusher == \A s, t \in Threads : InFlush(s) /\ InFlush(t) /\ thread[s].user = thread[t].user => s = t

THEOREM OneFlusherHolds == Spec => []OneFlusher
<1>1. IInv => OneFlusher BY DEF IInv, ControlInv, LockInv, OneFlusher
<1> QED BY <1>1, Invariant, PTL

\* Membership in one of the unions that make up Positions.
LEMMA InUnion ==
    ASSUME NEW S, NEW k, NEW f, NEW m, NEW p
    PROVE  p \in UNION {{<<x, k, i>> : i \in {j \in DOMAIN f[x] : f[x][j] = m}} : x \in S}
             <=> \E x \in S : \E i \in DOMAIN f[x] : f[x][i] = m /\ p = <<x, k, i>>
<1>1. \A x : p \in {<<x, k, i>> : i \in {j \in DOMAIN f[x] : f[x][j] = m}}
               <=> \E i \in DOMAIN f[x] : f[x][i] = m /\ p = <<x, k, i>>
  OBVIOUS
<1> QED BY <1>1

\* The positions of a message, kind by kind.
LEMMA InPositions ==
    ASSUME NEW m, NEW p
    PROVE  p \in Positions(m) <=>
             \/ \E u \in Users : \E i \in DOMAIN messages[u] : messages[u][i] = m /\ p = <<u, "messages", i>>
             \/ \E c \in Conns : \E i \in DOMAIN messagesQueue[c] :
                   messagesQueue[c][i] = m /\ p = <<c, "messagesQueue", i>>
             \/ \E c \in Conns : \E i \in DOMAIN out[c] : out[c][i] = m /\ p = <<c, "out", i>>
             \/ \E t \in Threads : thread[t].msg = m /\ p = <<t, "msg", 1>>
<1> DEFINE Of(k, f, S) == UNION {{<<x, k, i>> : i \in {j \in DOMAIN f[x] : f[x][j] = m}} : x \in S}
           Hands == {<<t, "msg", 1>> : t \in {x \in Threads : thread[x].msg = m}}
<1>1. Positions(m) = Of("messages", messages, Users) \cup Of("messagesQueue", messagesQueue, Conns)
                       \cup Of("out", out, Conns) \cup Hands
  BY DEF Positions
<1>2. p \in Of("messages", messages, Users) <=>
        \E u \in Users : \E i \in DOMAIN messages[u] : messages[u][i] = m /\ p = <<u, "messages", i>>
  BY InUnion
<1>3. p \in Of("messagesQueue", messagesQueue, Conns) <=>
        \E c \in Conns : \E i \in DOMAIN messagesQueue[c] :
          messagesQueue[c][i] = m /\ p = <<c, "messagesQueue", i>>
  BY InUnion
<1>4. p \in Of("out", out, Conns) <=>
        \E c \in Conns : \E i \in DOMAIN out[c] : out[c][i] = m /\ p = <<c, "out", i>>
  BY InUnion
<1>5. p \in Hands <=> \E t \in Threads : thread[t].msg = m /\ p = <<t, "msg", 1>>
  OBVIOUS
<1> HIDE DEF Of, Hands
<1> QED BY <1>1, <1>2, <1>3, <1>4, <1>5

\* The positions of a message are the places in the sequences that hold it.
LEMMA PositionsOf ==
    ASSUME NEW m, m # None
    PROVE  /\ \A p \in Positions(m) : \E b \in Boxes : \E i \in DOMAIN Contents[b] :
                Contents[b][i] = m /\ p = <<b[2], b[1], i>>
           /\ In(Contents, m) => Positions(m) # {}
<1>1. ASSUME NEW u \in Users, NEW i \in DOMAIN messages[u], messages[u][i] = m
      PROVE  <<u, "messages", i>> \in Positions(m)
  BY <1>1, InPositions
<1>2. ASSUME NEW c \in Conns, NEW i \in DOMAIN messagesQueue[c], messagesQueue[c][i] = m
      PROVE  <<c, "messagesQueue", i>> \in Positions(m)
  BY <1>2, InPositions
<1>3. ASSUME NEW c \in Conns, NEW i \in DOMAIN out[c], out[c][i] = m
      PROVE  <<c, "out", i>> \in Positions(m)
  BY <1>3, InPositions
<1>4. ASSUME NEW t \in Threads, thread[t].msg = m
      PROVE  <<t, "msg", 1>> \in Positions(m) /\ Contents[<<"msg", t>>] = <<m>>
  BY <1>4, InPositions, ContentsAt DEF Hand
<1>5. ASSUME NEW p \in Positions(m)
      PROVE  \E b \in Boxes : \E i \in DOMAIN Contents[b] : Contents[b][i] = m /\ p = <<b[2], b[1], i>>
  <2>1. CASE \E u \in Users : \E i \in DOMAIN messages[u] : messages[u][i] = m /\ p = <<u, "messages", i>>
    <3>1. PICK u \in Users : \E i \in DOMAIN messages[u] : messages[u][i] = m /\ p = <<u, "messages", i>>
      BY <2>1
    <3>2. PICK b \in Boxes : b = <<"messages", u>> /\ Contents[b] = messages[u]
      BY ContentsAt
    <3> QED BY <3>1, <3>2
  <2>2. CASE \E c \in Conns : \E i \in DOMAIN messagesQueue[c] :
               messagesQueue[c][i] = m /\ p = <<c, "messagesQueue", i>>
    <3>1. PICK c \in Conns : \E i \in DOMAIN messagesQueue[c] :
                               messagesQueue[c][i] = m /\ p = <<c, "messagesQueue", i>>
      BY <2>2
    <3>2. PICK b \in Boxes : b = <<"messagesQueue", c>> /\ Contents[b] = messagesQueue[c]
      BY ContentsAt
    <3> QED BY <3>1, <3>2
  <2>3. CASE \E c \in Conns : \E i \in DOMAIN out[c] : out[c][i] = m /\ p = <<c, "out", i>>
    <3>1. PICK c \in Conns : \E i \in DOMAIN out[c] : out[c][i] = m /\ p = <<c, "out", i>>
      BY <2>3
    <3>2. PICK b \in Boxes : b = <<"out", c>> /\ Contents[b] = out[c]
      BY ContentsAt
    <3> QED BY <3>1, <3>2
  <2>4. CASE \E t \in Threads : thread[t].msg = m /\ p = <<t, "msg", 1>>
    <3>1. PICK t \in Threads : thread[t].msg = m /\ p = <<t, "msg", 1>>
      BY <2>4
    <3>2. PICK b \in Boxes : b = <<"msg", t>> /\ Contents[b] = <<m>>
      BY <1>4, <3>1, ContentsAt
    <3>3. 1 \in DOMAIN Contents[b] /\ Contents[b][1] = m
      BY <3>2
    <3> QED BY <3>1, <3>2, <3>3
  <2> QED BY <2>1, <2>2, <2>3, <2>4, InPositions
<1>6. ASSUME In(Contents, m) PROVE Positions(m) # {}
  <2>1. PICK b \in Boxes : \E i \in DOMAIN Contents[b] : Contents[b][i] = m
    BY <1>6, ContentsAt DEF In
  <2>2. PICK i \in DOMAIN Contents[b] : Contents[b][i] = m
    BY <2>1
  <2>3. CASE \E u \in Users : b = <<"messages", u>>
    BY <1>1, <2>2, <2>3, ContentsAt
  <2>4. CASE \E c \in Conns : b = <<"messagesQueue", c>> \/ b = <<"out", c>>
    <3>1. PICK c \in Conns : b = <<"messagesQueue", c>> \/ b = <<"out", c>>
      BY <2>4
    <3> QED BY <1>2, <1>3, <2>2, <3>1, ContentsAt
  <2>5. CASE \E t \in Threads : b = <<"msg", t>>
    <3>1. PICK t \in Threads : b = <<"msg", t>>
      BY <2>5
    <3>2. Contents[b] = Hand(t) /\ i \in DOMAIN Hand(t) /\ Hand(t)[i] = m
      BY <2>2, <3>1, ContentsAt
    <3>3. thread[t].msg = m
      BY <3>2 DEF Hand
    <3> QED BY <1>4, <3>3
  <2> QED BY <2>3, <2>4, <2>5, EveryBox
<1> QED BY <1>5, <1>6

\* A set without two different elements has one at most.
LEMMA AtMostOne ==
    ASSUME NEW S, \A p, q \in S : p = q
    PROVE  Cardinality(S) <= 1
<1>1. CASE S = {}
  BY <1>1, FS_EmptySet
<1>2. CASE S # {}
  <2>1. PICK p : p \in S
    BY <1>2
  <2>2. S = {p}
    BY <2>1
  <2>3. Cardinality({p}) = 1
    BY FS_Singleton
  <2> QED BY <2>2, <2>3
<1> QED BY <1>1, <1>2

\* However the threads interleave, a message that was posted is in one place at
\* most: no queue gets it twice and it is not written twice; and while nobody
\* leaves it is in one place, so that it is not lost either.
THEOREM DeliveredOnceHolds == Spec => []DeliveredOnce
<1>1. ASSUME IInv PROVE DeliveredOnce
  <2> SUFFICES ASSUME NEW m \in posted
               PROVE  Cardinality(Positions(m)) <= 1 /\ (NobodyLeft => Positions(m) # {})
    BY DEF DeliveredOnce
  <2>1. m \in Msgs /\ m # None
    BY <1>1, DeliveryAssumption DEF IInv, ControlInv, TypeOK
  <2>2. Once(Contents, m) /\ (NobodyLeft => In(Contents, m))
    BY <1>1, <2>1 DEF IInv, MsgInv
  <2>3. ASSUME NEW p \in Positions(m), NEW q \in Positions(m) PROVE p = q
    <3>1. PICK b \in Boxes : \E i \in DOMAIN Contents[b] : Contents[b][i] = m /\ p = <<b[2], b[1], i>>
      BY <2>1, PositionsOf
    <3>2. PICK c \in Boxes : \E j \in DOMAIN Contents[c] : Contents[c][j] = m /\ q = <<c[2], c[1], j>>
      BY <2>1, PositionsOf
    <3> QED BY <2>2, <3>1, <3>2, ContentsAt DEF Once
  <2>4. Cardinality(Positions(m)) <= 1
    BY <2>3, AtMostOne
  <2>5. NobodyLeft => Positions(m) # {}
    BY <2>1, <2>2, PositionsOf
  <2> QED BY <2>4, <2>5
<1> QED BY <1>1, Invariant, PTL
=============================================================================
