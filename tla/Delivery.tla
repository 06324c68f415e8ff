------------------------------ MODULE Delivery ------------------------------
(***************************************************************************)
(* Logging in, logging out and delivering messages, statement by statement.*)
(*                                                                         *)
(* TwitterEngine makes a CONNECT, a DISCONNECT and a User.send one step     *)
(* each.  Here they are the threads that they are in the thread-per-client *)
(* server: every connection's handler thread, and the one thread that      *)
(* holds the engine's monitor and posts.  They share the User objects of   *)
(* one login name and the handlers' queues.  Only User.login and           *)
(* User.flushMessages take the User's lock; logout, setProtocol and the    *)
(* handler's flushMessages take none.                                      *)
(***************************************************************************)
EXTENDS Naturals, Sequences, FiniteSets

CONSTANTS
    Conns,      \* connections, and the threads of their handlers
    Poster,     \* the thread in TwitterEngine.send
    Users,      \* User objects that may be made for the login name
    Msgs,       \* the messages posted to the user, in any order
    None,       \* null
    MaxFrames   \* bound: CONNECT frames of one connection

Threads == Conns \cup {Poster}

ASSUME DeliveryAssumption ==
    /\ Poster \notin Conns
    /\ None \notin Threads \cup Users \cup Msgs
    /\ {"CONNECTED", "RECEIPT"} \cap Msgs = {}
    /\ MaxFrames \in Nat

VARIABLES
    users,          \* TwitterEngine.users, for the one name: a User object or None
    made,           \* the User objects made so far
    protocol,       \* User.protocol
    messages,       \* User.messages
    lock,           \* the thread in the User's monitor
    currentUser,    \* StompProtocol.currentUser
    open,           \* the connection's socket is not closed
    messagesQueue,  \* ConnectionHandler.messagesQueue
    out,            \* what was written to the socket
    thread,         \* each thread's place in the code and its local variables
    frames,         \* CONNECT frames received so far
    posted          \* messages posted so far

engineVars == <<users, made>>
userVars == <<protocol, messages, lock>>
handlerVars == <<currentUser, open, messagesQueue, out>>
inputVars == <<frames, posted>>
vars == <<engineVars, userVars, handlerVars, inputVars, thread>>

\* "idle" is a handler that waits for a frame and a poster between posts.
Places == {"idle", "find", "create", "check", "reject", "login", "test", "loop", "use", "unlock",
           "authorize", "connected", "htest", "hloop", "hpoll", "hwrite", "logout", "drop", "receipt",
           "close", "ended"}

\* back: where to go on after the handler's flushMessages.
NoCall == [pc |-> "idle", user |-> None, msg |-> None, conn |-> None, back |-> "idle"]

\* Queues hold messages, sockets get frames, and a thread is at a place of the
\* code with local variables of the right kind; println may have got a null.
TypeOK ==
    /\ users \in Users \cup {None}
    /\ made \subseteq Users
    /\ protocol \in [Users -> Conns \cup {None}]
    /\ messages \in [Users -> Seq(Msgs)]
    /\ lock \in [Users -> Threads \cup {None}]
    /\ currentUser \in [Conns -> Users \cup {None}]
    /\ open \in [Conns -> BOOLEAN]
    /\ messagesQueue \in [Conns -> Seq(Msgs)]
    /\ out \in [Conns -> Seq(Msgs \cup {"CONNECTED", "RECEIPT", None})]
    /\ thread \in [Threads -> [pc : Places, user : Users \cup {None}, msg : Msgs \cup {None},
                               conn : Conns \cup {None}, back : {"idle", "loop"}]]
    /\ frames \in [Conns -> 0..MaxFrames]
    /\ posted \subseteq Msgs

Init ==
    /\ users = None
    /\ made = {}
    /\ protocol = [u \in Users |-> None]
    /\ messages = [u \in Users |-> <<>>]
    /\ lock = [u \in Users |-> None]
    /\ currentUser = [c \in Conns |-> None]
    /\ open = [c \in Conns |-> TRUE]
    /\ messagesQueue = [c \in Conns |-> <<>>]
    /\ out = [c \in Conns |-> <<>>]
    /\ thread = [t \in Threads |-> NoCall]
    /\ frames = [c \in Conns |-> 0]
    /\ posted = {}

At(t, p) == thread[t].pc = p
Goto(t, p) == thread' = [thread EXCEPT ![t].pc = p]

-----------------------------------------------------------------------------
(* TwitterEngine.connect and StompProtocol.connect, by the handler of c     *)

Connect(c) ==
    /\ At(c, "idle")
    /\ frames[c] < MaxFrames
    /\ frames' = [frames EXCEPT ![c] = @ + 1]
    /\ Goto(c, "find")
    /\ UNCHANGED <<engineVars, userVars, handlerVars, posted>>

\* users.containsKey
Find(c) ==
    /\ At(c, "find")
    /\ Goto(c, IF users = None THEN "create" ELSE "check")
    /\ UNCHANGED <<engineVars, userVars, handlerVars, inputVars>>

\* A new User, which is connected from the start, replaces what another thread
\* may have registered meanwhile.
Create(c, u) ==
    /\ At(c, "create")
    /\ u \notin made
    /\ made' = made \cup {u}
    /\ users' = u
    /\ protocol' = [protocol EXCEPT ![u] = c]
    /\ thread' = [thread EXCEPT ![c].pc = "authorize", ![c].user = u]
    /\ UNCHANGED <<messages, lock, handlerVars, inputVars>>

\* isConnected, outside the User's lock
Check(c) ==
    /\ At(c, "check")
    /\ Goto(c, IF protocol[users] # None THEN "reject" ELSE "login")
    /\ UNCHANGED <<engineVars, userVars, handlerVars, inputVars>>

\* "Already logged in": setProtocol without the lock, then an ERROR frame.
Reject(c) ==
    /\ At(c, "reject")
    /\ protocol' = [protocol EXCEPT ![users] = c]
    /\ thread' = [thread EXCEPT ![c] = NoCall]
    /\ UNCHANGED <<engineVars, messages, lock, handlerVars, inputVars>>

\* User.login with the right password, up to setProtocol
Login(c) ==
    /\ At(c, "login")
    /\ lock[users] = None
    /\ lock' = [lock EXCEPT ![users] = c]
    /\ protocol' = [protocol EXCEPT ![users] = c]
    /\ thread' = [thread EXCEPT ![c].pc = "test", ![c].user = users]
    /\ UNCHANGED <<engineVars, messages, handlerVars, inputVars>>

\* The wrong password: the lock is taken and given back, and an ERROR frame sent.
WrongPassword(c) ==
    /\ At(c, "login")
    /\ lock[users] = None
    /\ thread' = [thread EXCEPT ![c] = NoCall]
    /\ UNCHANGED <<engineVars, userVars, handlerVars, inputVars>>

Authorize(c) ==
    /\ At(c, "authorize")
    /\ currentUser' = [currentUser EXCEPT ![c] = thread[c].user]
    /\ Goto(c, "connected")
    /\ UNCHANGED <<engineVars, userVars, open, messagesQueue, out, inputVars>>

\* Mutated form: the user is written instead of the frame.
ConnectedWritesUser(c) ==
    /\ At(c, "connected")
    /\ out' = [out EXCEPT ![c] = Append(@, thread[c].user)]
    /\ thread' = [thread EXCEPT ![c] = [NoCall EXCEPT !.pc = "htest", !.conn = c]]
    /\ UNCHANGED <<engineVars, userVars, currentUser, open, messagesQueue, inputVars>>

\* Mutated form: the handler does not flush after CONNECTED.
ConnectedOnly(c) ==
    /\ At(c, "connected")
    /\ out' = [out EXCEPT ![c] = Append(@, "CONNECTED")]
    /\ thread' = [thread EXCEPT ![c] = NoCall]
    /\ UNCHANGED <<engineVars, userVars, currentUser, open, messagesQueue, inputVars>>

\* The handler writes CONNECTED and goes on to its flushMessages.
Connected(c) ==
    /\ At(c, "connected")
    /\ out' = [out EXCEPT ![c] = Append(@, "CONNECTED")]
    /\ thread' = [thread EXCEPT ![c] = [NoCall EXCEPT !.pc = "htest", !.conn = c]]
    /\ UNCHANGED <<engineVars, userVars, currentUser, open, messagesQueue, inputVars>>

-----------------------------------------------------------------------------
(* DISCONNECT, or the end of the input                                     *)

Disconnect(c) ==
    /\ At(c, "idle")
    /\ Goto(c, IF currentUser[c] # None THEN "logout" ELSE "receipt")
    /\ UNCHANGED <<engineVars, userVars, handlerVars, inputVars>>

\* User.logout, without the lock
Logout(c) ==
    /\ At(c, "logout")
    /\ protocol' = [protocol EXCEPT ![currentUser[c]] = None]
    /\ Goto(c, "drop")
    /\ UNCHANGED <<engineVars, messages, lock, handlerVars, inputVars>>

Drop(c) ==
    /\ At(c, "drop")
    /\ currentUser' = [currentUser EXCEPT ![c] = None]
    /\ Goto(c, "receipt")
    /\ UNCHANGED <<engineVars, userVars, open, messagesQueue, out, inputVars>>

Receipt(c) ==
    /\ At(c, "receipt")
    /\ out' = [out EXCEPT ![c] = Append(@, "RECEIPT")]
    /\ Goto(c, "close")
    /\ UNCHANGED <<engineVars, userVars, currentUser, open, messagesQueue, inputVars>>

Close(c) ==
    /\ At(c, "close")
    /\ open' = [open EXCEPT ![c] = FALSE]
    /\ Goto(c, "ended")
    /\ UNCHANGED <<engineVars, userVars, currentUser, messagesQueue, out, inputVars>>

-----------------------------------------------------------------------------
(* User.send, by the poster                                                *)

\* Topics hold User objects, so that one which was replaced in users may still
\* be sent messages.
Post(m, u) ==
    /\ At(Poster, "idle")
    /\ u \in made
    /\ m \notin posted
    /\ posted' = posted \cup {m}
    /\ messages' = [messages EXCEPT ![u] = Append(@, m)]
    /\ thread' = [thread EXCEPT ![Poster].pc = "login", ![Poster].user = u]
    /\ UNCHANGED <<engineVars, protocol, lock, handlerVars, frames>>

\* User.flushMessages begins: the poster takes the lock, which a login has.
EnterFlush ==
    /\ At(Poster, "login")
    /\ lock[thread[Poster].user] = None
    /\ lock' = [lock EXCEPT ![thread[Poster].user] = Poster]
    /\ Goto(Poster, "test")
    /\ UNCHANGED <<engineVars, protocol, messages, handlerVars, inputVars>>

-----------------------------------------------------------------------------
(* User.flushMessages, by the thread t that holds the User's lock          *)

Test(t) ==
    /\ At(t, "test")
    /\ Goto(t, IF protocol[thread[t].user] # None THEN "loop" ELSE "unlock")
    /\ UNCHANGED <<engineVars, userVars, handlerVars, inputVars>>

\* Mutated form: the message is looked at and stays in the queue.
LoopPeeks(t) ==
    LET ms == messages[thread[t].user] IN
    /\ At(t, "loop")
    /\ thread' = IF ms = <<>> THEN [thread EXCEPT ![t].pc = "unlock"]
                 ELSE [thread EXCEPT ![t].pc = "use", ![t].msg = Head(ms)]
    /\ UNCHANGED <<engineVars, userVars, handlerVars, inputVars>>

\* isEmpty and poll: nobody else takes from this queue meanwhile.
Loop(t) ==
    LET u == thread[t].user IN
    /\ At(t, "loop")
    /\ IF messages[u] = <<>>
       THEN Goto(t, "unlock") /\ UNCHANGED messages
       ELSE /\ thread' = [thread EXCEPT ![t].pc = "use", ![t].msg = Head(messages[u])]
            /\ messages' = [messages EXCEPT ![u] = Tail(@)]
    /\ UNCHANGED <<engineVars, protocol, lock, handlerVars, inputVars>>

\* this.protocol.sendMessage: the message enters the handler's queue.
Use(t) ==
    LET d == protocol[thread[t].user] IN
    /\ At(t, "use")
    /\ d # None
    /\ messagesQueue' = [messagesQueue EXCEPT ![d] = Append(@, thread[t].msg)]
    /\ thread' = [thread EXCEPT ![t].pc = "htest", ![t].msg = None, ![t].conn = d, ![t].back = "loop"]
    /\ UNCHANGED <<engineVars, userVars, currentUser, open, out, inputVars>>

\* Mutated form: the thread waits, with the lock, for the user to come back.
UseNullRetries(t) ==
    /\ At(t, "use")
    /\ protocol[thread[t].user] = None
    /\ UNCHANGED vars

\* A logout came in between: NullPointerException.  The monitor is given back,
\* the message is gone, and the frame or the post ends with an ERROR.
UseNull(t) ==
    /\ At(t, "use")
    /\ protocol[thread[t].user] = None
    /\ lock' = [lock EXCEPT ![thread[t].user] = None]
    /\ thread' = [thread EXCEPT ![t] = NoCall]
    /\ UNCHANGED <<engineVars, protocol, messages, handlerVars, inputVars>>

\* The end of login (connect then reads users again) or of send.
Unlock(t) ==
    /\ At(t, "unlock")
    /\ lock' = [lock EXCEPT ![thread[t].user] = None]
    /\ thread' = [thread EXCEPT ![t] = IF t = Poster THEN NoCall
                                       ELSE [NoCall EXCEPT !.pc = "authorize", !.user = users]]
    /\ UNCHANGED <<engineVars, protocol, messages, handlerVars, inputVars>>

-----------------------------------------------------------------------------
(* ConnectionHandler.flushMessages of thread[t].conn, by any thread t      *)

\* Back to User.flushMessages, or to the processing loop.
Return(t) == thread' = [thread EXCEPT ![t].pc = thread[t].back, ![t].conn = None, ![t].msg = None, ![t].back = "idle"]

HTest(t) ==
    LET d == thread[t].conn IN
    /\ At(t, "htest")
    /\ IF currentUser[d] # None /\ open[d] THEN Goto(t, "hloop") ELSE Return(t)
    /\ UNCHANGED <<engineVars, userVars, handlerVars, inputVars>>

HLoop(t) ==
    /\ At(t, "hloop")
    /\ IF messagesQueue[thread[t].conn] = <<>> THEN Return(t) ELSE Goto(t, "hpoll")
    /\ UNCHANGED <<engineVars, userVars, handlerVars, inputVars>>

\* poll gives null if another thread has emptied the queue.
HPoll(t) ==
    LET d == thread[t].conn IN
    /\ At(t, "hpoll")
    /\ IF messagesQueue[d] = <<>>
       THEN thread' = [thread EXCEPT ![t].pc = "hwrite", ![t].msg = None] /\ UNCHANGED messagesQueue
       ELSE /\ thread' = [thread EXCEPT ![t].pc = "hwrite", ![t].msg = Head(messagesQueue[d])]
            /\ messagesQueue' = [messagesQueue EXCEPT ![d] = Tail(@)]
    /\ UNCHANGED <<engineVars, userVars, currentUser, open, out, inputVars>>

\* println, which ignores that the socket may have been closed.
HWrite(t) ==
    LET d == thread[t].conn IN
    /\ At(t, "hwrite")
    /\ out' = IF open[d] THEN [out EXCEPT ![d] = Append(@, thread[t].msg)] ELSE out
    /\ thread' = [thread EXCEPT ![t].pc = "hloop", ![t].msg = None]
    /\ UNCHANGED <<engineVars, userVars, currentUser, open, messagesQueue, inputVars>>

-----------------------------------------------------------------------------

HandlerStep(c) ==
    \/ Find(c) \/ (\E u \in Users : Create(c, u)) \/ Check(c) \/ Reject(c) \/ Login(c) \/ WrongPassword(c)
    \/ Authorize(c) \/ Connected(c) \/ Logout(c) \/ Drop(c) \/ Receipt(c) \/ Close(c)

FlushStep(t) ==
    Test(t) \/ Loop(t) \/ Use(t) \/ UseNull(t) \/ Unlock(t) \/ HTest(t) \/ HLoop(t) \/ HPoll(t) \/ HWrite(t)

\* All connections have ended and the poster has nothing to do.
Terminated ==
    /\ \A c \in Conns : At(c, "ended")
    /\ At(Poster, "idle")
    /\ UNCHANGED vars

Next ==
    \/ \E c \in Conns : Connect(c) \/ Disconnect(c) \/ HandlerStep(c)
    \/ \E m \in Msgs, u \in Users : Post(m, u)
    \/ EnterFlush
    \/ \E t \in Threads : FlushStep(t)
    \/ Terminated

\* A thread that is inside a frame or a post keeps running.
Fairness ==
    /\ \A c \in Conns : WF_vars(HandlerStep(c) \/ FlushStep(c))
    /\ WF_vars(EnterFlush \/ FlushStep(Poster))

Spec == Init /\ [][Next]_vars /\ Fairness

-----------------------------------------------------------------------------
(* Properties                                                              *)

\* The places where the message m is: a user's queue, a handler's queue, in the
\* hands of a thread, or written.
Positions(m) ==
    (UNION {{<<u, "messages", i>> : i \in {j \in DOMAIN messages[u] : messages[u][j] = m}} : u \in Users})
    \cup (UNION {{<<c, "messagesQueue", i>> : i \in {j \in DOMAIN messagesQueue[c] : messagesQueue[c][j] = m}} : c \in Conns})
    \cup (UNION {{<<c, "out", i>> : i \in {j \in DOMAIN out[c] : out[c][j] = m}} : c \in Conns})
    \cup {<<t, "msg", 1>> : t \in {x \in Threads : thread[x].msg = m}}

\* No connection has begun to log its user out or to close.
NobodyLeft == \A c \in Conns : thread[c].pc \notin {"drop", "receipt", "close", "ended"}

\* Whatever the threads do to the two queues, a message is never in two places
\* or written twice, and as long as nobody logs out it is not lost either.
DeliveredOnce ==
    \A m \in posted : /\ Cardinality(Positions(m)) <= 1
                      /\ NobodyLeft => Positions(m) # {}

\* A thread is emptying, or is about to empty, the queue of c's handler.
Flushing(c) ==
    \/ At(c, "connected")
    \/ \E t \in Threads : thread[t].conn = c /\ thread[t].pc \in {"htest", "hloop", "hpoll", "hwrite"}

\* No wakeup is lost: if an open, logged-in handler has frames waiting, some
\* thread is on its way to write them, although the poster tests isAuthorized
\* and the handler's own thread sets it without a lock between them.
HeldHasWriter ==
    \A c \in Conns : open[c] /\ currentUser[c] # None /\ messagesQueue[c] # <<>> => Flushing(c)

\* Every frame and every post comes to an end, whichever exceptions occur: a
\* User's lock is always given back.
FrameCompletes == \A t \in Threads : ~At(t, "idle") ~> (At(t, "idle") \/ At(t, "ended"))

-----------------------------------------------------------------------------
(* What comments in the code say and the code does not do                  *)

\* "already logged in" (TwitterEngine.java): while a connection is logged in, no
\* other connection gets logged in under the same name.
OneSession == \A c, d \in Conns : currentUser[c] # None /\ currentUser[d] # None => c = d

\* "hold messages that is sent to the client after successful login, and before
\* sending CONNECTED frame" (ConnectionHandler.java): CONNECTED is written first.
ConnectedFirst ==
    \A c \in Conns : \A i \in DOMAIN out[c] :
        out[c][i] \in Msgs => \E j \in 1..(i - 1) : out[c][j] = "CONNECTED"

\* "Flush the queue and send the awaiting frame to the client"
\* (ConnectionHandler.java): what is written was waiting in the queue.
OnlyAwaitingFrames == \A c \in Conns : \A i \in DOMAIN out[c] : out[c][i] # None

=============================================================================
