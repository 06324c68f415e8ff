------------------------------ MODULE Reactor ------------------------------
(***************************************************************************)
(* The reactor server: one selector thread that accepts, reads and writes, *)
(* a fixed pool that tokenizes and processes frames, and the client        *)
(* connections they share.                                                 *)
(*                                                                         *)
(* Every connection logs in under a name of its own: two connections of    *)
(* one name, and messages for a user without a session, are the subject of *)
(* Delivery.  A SEND posts one MESSAGE to every session.  A step is what    *)
(* one thread does under one monitor or between two accesses to shared     *)
(* fields.  A client's frames are there from the start; a read takes any   *)
(* number of them, which is the same as their arriving at any time.  How   *)
(* reads cut frames into pieces is the subject of Tokenizer.               *)
(***************************************************************************)
EXTENDS Integers, Sequences

CONSTANTS
    Conns,      \* the client connections
    PoolSize,   \* the number of threads of the pool
    Scripts,    \* what each client may send: sequences of frames
    LoggedIn,   \* the connections whose login lies in the past
    Leavers,    \* the clients that may close the connection by themselves
    None        \* null

Frames == {"CONNECT", "SEND", "DISCONNECT", "STOP"}
Answers == {"CONNECTED", "ERROR", "RECEIPT", "MESSAGE"}

\* The threads of the pool are interchangeable: the first idle one takes a task.
Workers == 1..PoolSize

ASSUME ReactorAssumption ==
    /\ Scripts \in [Conns -> SUBSET Seq(Frames)]
    /\ LoggedIn \subseteq Conns
    /\ Leavers \subseteq Conns
    /\ PoolSize \in Nat \ {0}
    /\ None \notin Conns \cup Frames \cup Answers \cup Nat

VARIABLES
    wire,           \* frames the client has sent and the server has not read
    hangsUp,        \* the client closes the connection after its last frame
    key,            \* the SelectionKey: "none", "valid", "cancelled" (and the channel closed)
    interest,       \* its interest set
    outData,        \* ConnectionHandler._outData: frames, the first perhaps partly written
    messagesQueue,  \* the number of frames in ConnectionHandler._messagesQueue
    input,          \* the frames in the tokenizer
    session,        \* User.protocol is the connection's protocol
    authorized,     \* StompProtocol.currentUser # null
    shouldClose,    \* StompProtocol.shouldClose
    selector,       \* the selector thread's place, the key it is at
    pool,           \* the executor's queue of tasks
    worker,         \* each pool thread's place and local variables
    engine,         \* the worker in TwitterEngine.send, a synchronized method
    shouldRun       \* TwitterReactor._shouldRun; the pool is shut down when it is FALSE

netVars == <<wire, hangsUp>>
channelVars == <<key, interest, outData>>
protocolVars == <<session, authorized, shouldClose>>
vars == <<netVars, channelVars, messagesQueue, input, protocolVars, selector, pool, worker,
          engine, shouldRun>>

SelectorPlaces == {"select", "read", "eof", "logout", "write", "ended", "dead"}
WorkerPlaces == {"idle", "lock", "loop", "logout", "authorize", "enter", "post", "await",
                 "test", "flush", "poll", "encode", "add", "write"}

\* what: the frame in hand; at: the connection it goes to; posting: inside
\* TwitterEngine.send, where an exception becomes an ERROR; left: who is still
\* to be sent the message.
Idle == [pc |-> "idle", task |-> None, what |-> None, at |-> None, posting |-> FALSE, left |-> {}]

\* Every field holds what its Java type allows, and threads are at known places.
TypeOK ==
    /\ wire \in [Conns -> Seq(Frames)]
    /\ hangsUp \in [Conns -> BOOLEAN]
    /\ key \in [Conns -> {"none", "valid", "cancelled"}]
    /\ interest \in [Conns -> SUBSET {"R", "W"}]
    /\ outData \in [Conns -> Seq(Answers)]
    /\ messagesQueue \in [Conns -> Nat]
    /\ input \in [Conns -> Seq(Frames)]
    /\ session \in [Conns -> BOOLEAN]
    /\ authorized \in [Conns -> BOOLEAN]
    /\ shouldClose \in [Conns -> BOOLEAN]
    /\ selector \in [pc : SelectorPlaces, key : Conns \cup {None}]
    /\ pool \in Seq(Conns)
    /\ worker \in [Workers -> [pc : WorkerPlaces, task : Conns \cup {None},
                               what : Frames \cup Answers \cup {None}, at : Conns \cup {None},
                               posting : BOOLEAN, left : SUBSET Conns]]
    /\ engine \in Workers \cup {None}
    /\ shouldRun \in BOOLEAN

Init ==
    /\ wire \in [Conns -> UNION {Scripts[c] : c \in Conns}]
    /\ \A c \in Conns : wire[c] \in Scripts[c]
    /\ hangsUp \in {[c \in Conns |-> c \in h] : h \in SUBSET Leavers}
    /\ key = [c \in Conns |-> IF c \in LoggedIn THEN "valid" ELSE "none"]
    /\ interest = [c \in Conns |-> IF c \in LoggedIn THEN {"R"} ELSE {}]
    /\ outData = [c \in Conns |-> <<>>]
    /\ messagesQueue = [c \in Conns |-> 0]
    /\ input = [c \in Conns |-> <<>>]
    /\ session = [c \in Conns |-> c \in LoggedIn]
    /\ authorized = [c \in Conns |-> c \in LoggedIn]
    /\ shouldClose = [c \in Conns |-> FALSE]
    /\ selector = [pc |-> "select", key |-> None]
    /\ pool = <<>>
    /\ worker = [w \in Workers |-> Idle]
    /\ engine = None
    /\ shouldRun = TRUE

-----------------------------------------------------------------------------
(* ConnectionHandler                                                       *)

\* Mutated form: the frame is added without asking for write interest.
AddOutData1(c, f) ==
    /\ outData' = [outData EXCEPT ![c] = Append(@, f)]
    /\ UNCHANGED <<interest, key>>

\* addOutData: the buffer is added, then interestOps throws if the key was
\* cancelled.
AddOutData(c, f) ==
    /\ outData' = [outData EXCEPT ![c] = Append(@, f)]
    /\ interest' = IF key[c] = "valid" THEN [interest EXCEPT ![c] = {"R", "W"}] ELSE interest
    /\ UNCHANGED key

\* Mutated form: write returns to read mode whenever a buffer is done.
Write2(c, whole) ==
    /\ key[c] = "valid"
    /\ outData' = IF whole /\ outData[c] # <<>> THEN [outData EXCEPT ![c] = Tail(@)] ELSE outData
    /\ interest' = [interest EXCEPT ![c] = {"R"}]
    /\ UNCHANGED key

\* write on an open channel.  whole: the channel takes all that remains of the
\* first buffer.  A protocol that should close closes with that buffer.
Write(c, whole) ==
    /\ key[c] = "valid"
    /\ IF outData[c] = <<>>
       THEN interest' = [interest EXCEPT ![c] = {"R"}] /\ UNCHANGED <<outData, key>>
       ELSE /\ outData' = IF whole THEN [outData EXCEPT ![c] = Tail(@)] ELSE outData
            /\ interest' = IF shouldClose[c] THEN [interest EXCEPT ![c] = {"W"}] ELSE interest
            /\ key' = IF shouldClose[c] /\ whole THEN [key EXCEPT ![c] = "cancelled"] ELSE key

\* write on a closed channel puts the buffer back; a change of interest throws.
WriteThrows(c) == key[c] = "cancelled" /\ (outData[c] = <<>> \/ shouldClose[c])
WriteInVain(c) == key[c] = "cancelled" /\ ~WriteThrows(c) /\ UNCHANGED channelVars

-----------------------------------------------------------------------------
(* The selector thread                                                     *)

SelAt(p) == selector.pc = p
SelGoto(p) == selector' = [selector EXCEPT !.pc = p]

Readable(c) == wire[c] # <<>> \/ hangsUp[c]

\* The key is done: on to the next one.
NextKey == selector' = [pc |-> "select", key |-> None]

\* select finds the key of c ready to read or to write, and isValid is asked; the
\* key is used one step later.  The ready operations of a round are taken as
\* rounds of one operation each.
Select(c, op) ==
    /\ SelAt("select")
    /\ shouldRun
    /\ key[c] = "valid"
    /\ \/ op = "read" /\ "R" \in interest[c] /\ Readable(c)
       \/ op = "write" /\ "W" \in interest[c]
    /\ selector' = [pc |-> op, key |-> c]
    /\ UNCHANGED <<netVars, channelVars, messagesQueue, input, protocolVars, pool, worker, engine,
                   shouldRun>>

\* An acceptable key: ConnectionAcceptor.accept.
Accept(c) ==
    /\ SelAt("select")
    /\ shouldRun
    /\ key[c] = "none"
    /\ key' = [key EXCEPT ![c] = "valid"]
    /\ interest' = [interest EXCEPT ![c] = {"R"}]
    /\ UNCHANGED <<netVars, outData, messagesQueue, input, protocolVars, selector, pool, worker,
                   engine, shouldRun>>

\* read with some frames of those on the wire.  A pool that
\* has been shut down rejects the task and the exception ends the selector thread.
Read ==
    LET c == selector.key IN
    /\ SelAt("read")
    /\ ~shouldClose[c]
    /\ \E n \in 1..Len(wire[c]) :
        /\ wire' = [wire EXCEPT ![c] = SubSeq(@, n + 1, Len(@))]
        /\ input' = [input EXCEPT ![c] = @ \o SubSeq(wire[c], 1, n)]
    /\ IF shouldRun
       THEN pool' = Append(pool, c) /\ NextKey
       ELSE UNCHANGED pool /\ SelGoto("dead")
    /\ UNCHANGED <<hangsUp, channelVars, messagesQueue, protocolVars, worker, engine, shouldRun>>

\* The protocol has terminated: nothing is read.
ReadNothing ==
    /\ SelAt("read")
    /\ shouldClose[selector.key]
    /\ NextKey
    /\ UNCHANGED <<netVars, channelVars, messagesQueue, input, protocolVars, pool, worker, engine,
                   shouldRun>>

\* End of input, or a reset that overtakes frames: closeConnection.
ReadEof ==
    LET c == selector.key IN
    /\ SelAt("read")
    /\ ~shouldClose[c]
    /\ hangsUp[c]
    /\ key' = [key EXCEPT ![c] = "cancelled"]
    /\ SelGoto("eof")
    /\ UNCHANGED <<netVars, interest, outData, messagesQueue, input, protocolVars, pool, worker, engine,
                   shouldRun>>

\* processMessage of a DISCONNECT that the client did not send: is there a user?
Eof ==
    LET c == selector.key IN
    /\ SelAt("eof")
    /\ IF authorized[c]
       THEN SelGoto("logout") /\ UNCHANGED shouldClose
       ELSE shouldClose' = [shouldClose EXCEPT ![c] = TRUE] /\ NextKey
    /\ UNCHANGED <<netVars, channelVars, messagesQueue, input, session, authorized, pool, worker,
                   engine, shouldRun>>

\* currentUser.logout(), a NullPointerException if a worker cleared currentUser.
EofLogout ==
    LET c == selector.key IN
    /\ SelAt("logout")
    /\ IF authorized[c]
       THEN /\ session' = [session EXCEPT ![c] = FALSE]
            /\ authorized' = [authorized EXCEPT ![c] = FALSE]
            /\ shouldClose' = [shouldClose EXCEPT ![c] = TRUE]
            /\ NextKey
       ELSE SelGoto("dead") /\ UNCHANGED protocolVars
    /\ UNCHANGED <<netVars, channelVars, messagesQueue, input, pool, worker, engine, shouldRun>>

\* write by the selector thread.  A partial write counts when it changes the
\* interest; otherwise it is as if the channel had not been ready.
SelWrite(whole) ==
    /\ SelAt("write")
    /\ whole \/ (shouldClose[selector.key] /\ interest[selector.key] # {"W"})
    /\ Write(selector.key, whole) \/ WriteInVain(selector.key)
    /\ NextKey
    /\ UNCHANGED <<netVars, messagesQueue, input, protocolVars, pool, worker, engine, shouldRun>>

\* A worker cancelled the key after isValid: isReadable, isWritable or a change
\* of interest throws a CancelledKeyException, which nobody catches.
SelectorDies ==
    /\ SelAt("read") \/ SelAt("write")
    /\ key[selector.key] = "cancelled"
    /\ SelGoto("dead")
    /\ UNCHANGED <<netVars, channelVars, messagesQueue, input, protocolVars, pool, worker, engine,
                   shouldRun>>

\* The end of run: stopReactor waits for the monitor that kill holds, and finds
\* that the reactor has been stopped.
SelectorEnds ==
    /\ SelAt("select")
    /\ ~shouldRun
    /\ \A w \in Workers : worker[w].pc # "await"
    /\ SelGoto("ended")
    /\ UNCHANGED <<netVars, channelVars, messagesQueue, input, protocolVars, pool, worker, engine,
                   shouldRun>>

SelectorStep ==
    \/ (\E c \in Conns : Accept(c) \/ Select(c, "read") \/ Select(c, "write")) \/ Read \/ ReadNothing \/ ReadEof
    \/ Eof \/ EofLogout \/ (\E whole \in BOOLEAN : SelWrite(whole)) \/ SelectorDies \/ SelectorEnds

-----------------------------------------------------------------------------
(* ProtocolTask.run, by the pool thread w                                  *)

At(w, p) == worker[w].pc = p
Goto(w, p) == worker' = [worker EXCEPT ![w].pc = p]
Here(w) == worker[w].task

Running(c) == \E v \in Workers : worker[v].task = c /\ worker[v].pc # "lock"

\* The pool thread takes a task; run is synchronized on the task.
TakeTask(w) ==
    /\ At(w, "idle")
    /\ pool # <<>>
    /\ \A v \in Workers : At(v, "idle") => w <= v
    /\ worker' = [worker EXCEPT ![w] = [Idle EXCEPT !.pc = IF Running(Head(pool)) THEN "lock" ELSE "loop",
                                                    !.task = Head(pool)]]
    /\ pool' = Tail(pool)
    /\ UNCHANGED <<netVars, channelVars, messagesQueue, input, protocolVars, selector, engine,
                   shouldRun>>

LockTask(w) ==
    /\ At(w, "lock")
    /\ ~Running(Here(w))
    /\ Goto(w, "loop")
    /\ UNCHANGED <<netVars, channelVars, messagesQueue, input, protocolVars, selector, pool, engine,
                   shouldRun>>

\* Go on to answer with the frame f.
Answer(w, f) == worker' = [worker EXCEPT ![w].pc = "encode", ![w].what = f, ![w].at = Here(w)]

\* StompProtocol.processMessage of the frame f of c, up to the first shared
\* access after the tests.
Process(w, c, f) ==
    \/ /\ (f \in {"SEND", "STOP"} /\ ~authorized[c]) \/ (f = "CONNECT" /\ session[c])
       /\ Answer(w, "ERROR")
       /\ UNCHANGED <<session, shouldClose>>
    \/ /\ f = "CONNECT" /\ ~session[c]
       /\ session' = [session EXCEPT ![c] = TRUE]
       /\ Goto(w, "authorize")
       /\ UNCHANGED shouldClose
    \/ /\ f = "DISCONNECT" /\ authorized[c]
       /\ Goto(w, "logout")
       /\ UNCHANGED <<session, shouldClose>>
    \/ /\ f = "DISCONNECT" /\ ~authorized[c]
       /\ shouldClose' = [shouldClose EXCEPT ![c] = TRUE]
       /\ Answer(w, "RECEIPT")
       /\ UNCHANGED session
    \/ /\ f \in {"SEND", "STOP"} /\ authorized[c]
       /\ worker' = [worker EXCEPT ![w].pc = "enter", ![w].what = f]
       /\ UNCHANGED <<session, shouldClose>>

\* hasMessage and nextMessage: the next frame, if there is one.
NextMessage(w) ==
    LET c == Here(w) IN
    /\ At(w, "loop")
    /\ \/ /\ input[c] = <<>>
          /\ worker' = [worker EXCEPT ![w] = Idle]
          /\ UNCHANGED <<input, session, shouldClose>>
       \/ /\ input[c] # <<>>
          /\ Process(w, c, Head(input[c]))
          /\ input' = [input EXCEPT ![c] = Tail(@)]
    /\ UNCHANGED <<netVars, channelVars, messagesQueue, authorized, selector, pool, engine, shouldRun>>

\* connect sets currentUser after engine.connect has logged the user in.
Authorize(w) ==
    /\ At(w, "authorize")
    /\ authorized' = [authorized EXCEPT ![Here(w)] = TRUE]
    /\ Answer(w, "CONNECTED")
    /\ UNCHANGED <<netVars, channelVars, messagesQueue, input, session, shouldClose, selector, pool,
                   engine, shouldRun>>

\* An exception in TwitterEngine.send becomes the answer; elsewhere it ends the
\* thread, and the pool makes a new one.
Throw(w) ==
    /\ worker' = [worker EXCEPT ![w] = IF worker[w].posting
                                       THEN [Idle EXCEPT !.pc = "encode", !.task = Here(w), !.what = "ERROR", !.at = Here(w)]
                                       ELSE Idle]
    /\ engine' = IF worker[w].posting THEN None ELSE engine

\* Mutated form: the connection is not told that the client has left.
Logout1(w) ==
    /\ At(w, "logout")
    /\ session' = [session EXCEPT ![Here(w)] = FALSE]
    /\ authorized' = [authorized EXCEPT ![Here(w)] = FALSE]
    /\ Answer(w, "RECEIPT")
    /\ UNCHANGED <<netVars, channelVars, messagesQueue, input, shouldClose, selector, pool, engine, shouldRun>>

\* DISCONNECT of a logged-in client; the selector thread may have cleared
\* currentUser since it was tested.
Logout(w) ==
    /\ At(w, "logout")
    /\ IF authorized[Here(w)]
       THEN /\ session' = [session EXCEPT ![Here(w)] = FALSE]
            /\ authorized' = [authorized EXCEPT ![Here(w)] = FALSE]
            /\ shouldClose' = [shouldClose EXCEPT ![Here(w)] = TRUE]
            /\ Answer(w, "RECEIPT")
            /\ UNCHANGED engine
       ELSE Throw(w) /\ UNCHANGED protocolVars
    /\ UNCHANGED <<netVars, channelVars, messagesQueue, input, selector, pool, shouldRun>>

\* TwitterEngine.send of a tweet begins when the monitor is free.
EnterSend(w) ==
    /\ At(w, "enter") /\ worker[w].what = "SEND"
    /\ engine = None
    /\ engine' = w
    /\ worker' = [worker EXCEPT ![w].pc = "post", ![w].what = None, ![w].posting = TRUE, ![w].left = Conns]
    /\ UNCHANGED <<netVars, channelVars, messagesQueue, input, protocolVars, selector, pool, shouldRun>>

\* The stop command: everybody is logged out, and stopReactor ends the selector
\* loop, shuts the pool down and waits for it; the second time it returns.
EnterStop(w) ==
    /\ At(w, "enter") /\ worker[w].what = "STOP"
    /\ engine = None
    /\ session' = [c \in Conns |-> FALSE]
    /\ worker' = [worker EXCEPT ![w].pc = IF shouldRun THEN "await" ELSE "loop", ![w].what = None]
    /\ engine' = IF shouldRun THEN w ELSE None
    /\ shouldRun' = FALSE
    /\ UNCHANGED <<netVars, channelVars, messagesQueue, input, authorized, shouldClose, selector, pool>>

\* Mutated form: stopReactor waits until the pool has terminated.
AwaitTimesOut1(w) ==
    /\ At(w, "await")
    /\ \A v \in Workers : At(v, "idle")
    /\ engine' = None
    /\ Goto(w, "loop")
    /\ UNCHANGED <<netVars, channelVars, messagesQueue, input, protocolVars, selector, pool, shouldRun>>

\* The pool cannot terminate while its own thread waits for it: two seconds pass.
AwaitTimesOut(w) ==
    /\ At(w, "await")
    /\ engine' = None
    /\ Goto(w, "loop")
    /\ UNCHANGED <<netVars, channelVars, messagesQueue, input, protocolVars, selector, pool, shouldRun>>

\* User.send for a subscriber d that has a session: the frame enters the queue
\* of its handler.
Post(w, d) ==
    /\ At(w, "post")
    /\ d \in worker[w].left
    /\ session[d]
    /\ messagesQueue' = [messagesQueue EXCEPT ![d] = @ + 1]
    /\ worker' = [worker EXCEPT ![w].pc = "test", ![w].at = d, ![w].left = @ \ {d}]
    /\ UNCHANGED <<netVars, channelVars, input, protocolVars, selector, pool, engine, shouldRun>>

\* The subscribers that are left have no session; a SEND has no answer.
PostDone(w) ==
    /\ At(w, "post")
    /\ \A d \in worker[w].left : ~session[d]
    /\ engine' = None
    /\ worker' = [worker EXCEPT ![w] = [Idle EXCEPT !.pc = "loop", !.task = Here(w)]]
    /\ UNCHANGED <<netVars, channelVars, messagesQueue, input, protocolVars, selector, pool, shouldRun>>

-----------------------------------------------------------------------------
(* ConnectionHandler.flushMessages of worker[w].at, and the answers        *)

\* The end of flushMessages: back to the post, or to ProtocolTask.run.
FlushDone(w) == Goto(w, IF worker[w].posting THEN "post" ELSE "loop")

\* isAuthorized
Test(w) ==
    /\ At(w, "test")
    /\ IF authorized[worker[w].at] THEN Goto(w, "flush") ELSE FlushDone(w)
    /\ UNCHANGED <<netVars, channelVars, messagesQueue, input, protocolVars, selector, pool, engine,
                   shouldRun>>

\* isEmpty
Flush(w) ==
    /\ At(w, "flush")
    /\ IF messagesQueue[worker[w].at] = 0 THEN FlushDone(w) ELSE Goto(w, "poll")
    /\ UNCHANGED <<netVars, channelVars, messagesQueue, input, protocolVars, selector, pool, engine,
                   shouldRun>>

\* poll gives null when another thread has taken the last frame: an exception in
\* getBytesForMessage.
Poll(w) ==
    LET d == worker[w].at IN
    /\ At(w, "poll")
    /\ IF messagesQueue[d] = 0
       THEN Throw(w) /\ UNCHANGED messagesQueue
       ELSE /\ messagesQueue' = [messagesQueue EXCEPT ![d] = @ - 1]
            /\ worker' = [worker EXCEPT ![w].pc = "encode", ![w].what = "MESSAGE"]
            /\ UNCHANGED engine
    /\ UNCHANGED <<netVars, channelVars, input, protocolVars, selector, pool, shouldRun>>

\* getBytesForMessage: the connection's encoder is not synchronized; it may throw
\* an IllegalStateException when two threads are inside it.
Encode(w) ==
    /\ At(w, "encode")
    /\ \/ Goto(w, "add") /\ UNCHANGED engine
       \/ /\ \E v \in Workers \ {w} : At(v, "encode") /\ worker[v].at = worker[w].at
          /\ Throw(w)
    /\ UNCHANGED <<netVars, channelVars, messagesQueue, input, protocolVars, selector, pool, shouldRun>>

\* Mutated form: nothing is flushed after CONNECTED.
Add1(w) ==
    LET d == worker[w].at IN
    /\ At(w, "add")
    /\ AddOutData(d, worker[w].what)
    /\ IF key[d] = "cancelled" THEN Throw(w)
       ELSE Goto(w, IF worker[w].what = "MESSAGE" THEN "write" ELSE "loop") /\ UNCHANGED engine
    /\ UNCHANGED <<netVars, messagesQueue, input, protocolVars, selector, pool, shouldRun>>

\* addOutData; a MESSAGE is then written, CONNECTED is followed by flushMessages.
Add(w) ==
    LET d == worker[w].at IN
    /\ At(w, "add")
    /\ AddOutData(d, worker[w].what)
    /\ IF key[d] = "cancelled" THEN Throw(w)
       ELSE /\ Goto(w, CASE worker[w].what = "MESSAGE" -> "write"
                         [] worker[w].what = "CONNECTED" -> "test"
                         [] OTHER -> "loop")
            /\ UNCHANGED engine
    /\ UNCHANGED <<netVars, messagesQueue, input, protocolVars, selector, pool, shouldRun>>

\* write by the worker.
WorkerWrite(w, whole) ==
    LET d == worker[w].at IN
    /\ At(w, "write")
    /\ \/ (Write(d, whole) \/ WriteInVain(d)) /\ Goto(w, "flush") /\ UNCHANGED engine
       \/ WriteThrows(d) /\ Throw(w) /\ UNCHANGED channelVars
    /\ UNCHANGED <<netVars, messagesQueue, input, protocolVars, selector, pool, shouldRun>>

WorkerStep(w) ==
    \/ TakeTask(w) \/ LockTask(w) \/ NextMessage(w) \/ Authorize(w) \/ Logout(w)
    \/ EnterSend(w) \/ EnterStop(w) \/ AwaitTimesOut(w) \/ (\E d \in Conns : Post(w, d)) \/ PostDone(w)
    \/ Test(w) \/ Flush(w) \/ Poll(w) \/ Encode(w) \/ Add(w) \/ (\E whole \in BOOLEAN : WorkerWrite(w, whole))

-----------------------------------------------------------------------------

Next == SelectorStep \/ \E w \in Workers : WorkerStep(w)

\* The threads run, and select serves every key that is ready again and again to
\* write: a client reads what is sent to it.
Fairness ==
    /\ WF_vars(SelectorStep)
    /\ \A c \in Conns : SF_vars(Select(c, "write"))
    /\ \A w \in Workers : WF_vars(WorkerStep(w))

Spec == Init /\ [][Next]_vars /\ Fairness

-----------------------------------------------------------------------------
(* Properties                                                              *)

\* addOutData of a pool thread and write of the selector thread never leave
\* output behind that the selector is not asked to write.
OutputHasInterest == \A c \in Conns : key[c] = "valid" /\ outData[c] # <<>> => "W" \in interest[c]

\* No wakeup is lost between the poster, which queues a frame and then tests
\* isAuthorized, and the connection's own thread, which sets it, answers and then
\* flushes: queued frames of a client that is logged in have a thread that will
\* write them, even if one of two threads in the encoder gets an exception.  This
\* is so as long as a client logs in once per connection, as Client does: the
\* ERROR to a second CONNECT has no flush after it, and when it is in the encoder
\* the poster that then fails leaves its frame to nobody (ReactorConnectTwice.cfg).
QueuedHasWriter ==
    \A c \in Conns : key[c] = "valid" /\ authorized[c] /\ messagesQueue[c] > 0 =>
        \E w \in Workers : /\ worker[w].at = c
                           /\ \/ worker[w].pc \in {"test", "flush", "poll", "write"}
                              \/ worker[w].pc \in {"encode", "add"} /\ worker[w].what \in {"MESSAGE", "CONNECTED"}

\* A connection that should close does not stay open for ever: it has output,
\* with which it will be closed, or a thread that is about to add some.
ClosingHasOutput ==
    \A c \in Conns : key[c] = "valid" /\ shouldClose[c] /\ outData[c] = <<>> =>
        \E w \in Workers : worker[w].at = c /\ worker[w].pc \in {"encode", "add"}

\* The output of a connection is never forgotten: the two invariants above, with
\* the types, hold for every interleaving of the selector and the pool threads.
OutputInv == TypeOK /\ OutputHasInterest /\ ClosingHasOutput

\* The connection is closed with its RECEIPT: nothing of a post that runs in
\* another thread can be written after it.
ReceiptCloses ==
    [][\A c \in Conns : Len(outData'[c]) < Len(outData[c]) /\ Head(outData[c]) = "RECEIPT"
                        => key'[c] = "cancelled"]_vars

\* While the selector thread lives, all output of an open connection is written.
OutputWritten ==
    \A c \in Conns : (key[c] = "valid" /\ outData[c] # <<>>)
                     ~> (outData[c] = <<>> \/ key[c] = "cancelled" \/ selector.pc \in {"ended", "dead"})

\* stop, which waits inside the pool for the pool to terminate and holds the
\* engine's monitor meanwhile, ends the selector thread and empties the pool.
StopEnds ==
    ~shouldRun ~> (/\ selector.pc \in {"ended", "dead"}
                   /\ pool = <<>>
                   /\ \A w \in Workers : At(w, "idle"))

=============================================================================
