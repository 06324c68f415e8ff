---------------------------- MODULE ThreadServer ----------------------------
(***************************************************************************)
(* Accepting and closing connections in the thread-per-client server: the  *)
(* accept loop, one handler thread per connection, and kill, which one of  *)
(* the handlers runs when its client sends the stop command.               *)
(*                                                                         *)
(* What frames do to users and topics is in TwitterEngine; here a frame is  *)
(* only told apart by the monitor that it takes and by how it ends.         *)
(***************************************************************************)
EXTENDS Naturals

CONSTANTS
    Conns,      \* the connections that clients may open
    None        \* nobody

ASSUME ThreadServerAssumption == None \notin Conns

VARIABLES
    listening,          \* serverSocket is open
    isRunning,          \* TwitterServer.isRunning
    acceptor,           \* the accept loop's place, and the connection in its hands
    activeConnections,  \* TwitterServer.activeConnections
    modified,           \* it was added to since kill made its iterator
    server,             \* the handler thread in a synchronized method of TwitterServer
    engine,             \* the handler thread in TwitterEngine.send, also synchronized
    socket,             \* a connection's socket
    shouldClose,        \* StompProtocol.shouldClose
    thread,             \* where each handler's thread is
    victim              \* the connection that kill's iterator returned

serverVars == <<listening, isRunning, acceptor>>
listVars == <<activeConnections, modified, victim>>
connVars == <<socket, shouldClose>>
vars == <<serverVars, listVars, server, engine, connVars, thread>>

\* The handler's places: reading holds the lock of its BufferedReader.
ThreadPlaces == {"none", "initialize", "reading", "frame", "send", "stop", "kill", "next", "close", "reader",
                 "drop", "after", "closing", "remove", "ended", "died"}

\* Threads are at known places, and the iterator's connection is there exactly
\* while kill is closing it.
TypeOK ==
    /\ listening \in BOOLEAN
    /\ isRunning \in BOOLEAN
    /\ acceptor \in [pc : {"accept", "add", "start", "ended"}, conn : Conns \cup {None}]
    /\ activeConnections \subseteq Conns
    /\ modified \in BOOLEAN
    /\ server \in Conns \cup {None}
    /\ engine \in Conns \cup {None}
    /\ socket \in [Conns -> {"none", "open", "closed"}]
    /\ shouldClose \in [Conns -> BOOLEAN]
    /\ thread \in [Conns -> ThreadPlaces]
    /\ victim \in Conns \cup {None}
    /\ victim # None <=> \E k \in Conns : thread[k] \in {"close", "reader", "drop"}

Init ==
    /\ listening = TRUE
    /\ isRunning = TRUE
    /\ acceptor = [pc |-> "accept", conn |-> None]
    /\ activeConnections = {}
    /\ modified = FALSE
    /\ server = None
    /\ engine = None
    /\ socket = [c \in Conns |-> "none"]
    /\ shouldClose = [c \in Conns |-> FALSE]
    /\ thread = [c \in Conns |-> "none"]
    /\ victim = None

At(c, p) == thread[c] = p
Goto(c, p) == thread' = [thread EXCEPT ![c] = p]

-----------------------------------------------------------------------------
(* TwitterServer.run                                                       *)

Accept(c) ==
    /\ acceptor.pc = "accept"
    /\ listening
    /\ socket[c] = "none"
    /\ socket' = [socket EXCEPT ![c] = "open"]
    /\ acceptor' = [pc |-> "add", conn |-> c]
    /\ UNCHANGED <<listening, isRunning, listVars, server, engine, shouldClose, thread>>

\* accept throws once the server's socket is closed; while isRunning is still
\* set, that is only logged.
AcceptFails ==
    /\ acceptor.pc = "accept"
    /\ ~listening
    /\ acceptor' = IF isRunning THEN acceptor ELSE [acceptor EXCEPT !.pc = "ended"]
    /\ UNCHANGED <<listening, isRunning, listVars, server, engine, connVars, thread>>

\* The list is a Vector: add needs neither monitor, and an iterator over the list
\* fails afterwards.
Add ==
    /\ acceptor.pc = "add"
    /\ activeConnections' = activeConnections \cup {acceptor.conn}
    /\ modified' = TRUE
    /\ acceptor' = [acceptor EXCEPT !.pc = "start"]
    /\ UNCHANGED <<listening, isRunning, victim, server, engine, connVars, thread>>

Start ==
    /\ acceptor.pc = "start"
    /\ Goto(acceptor.conn, "initialize")
    /\ acceptor' = [pc |-> "accept", conn |-> None]
    /\ UNCHANGED <<listening, isRunning, listVars, server, engine, connVars>>

-----------------------------------------------------------------------------
(* ConnectionHandler.run of c                                              *)

\* initialize fails on a socket that kill has closed: in and out stay null,
\* getFrame takes that for the end of the input, and writing the RECEIPT to a
\* null out ends the thread before close and remove.
Initialize(c) ==
    /\ At(c, "initialize")
    /\ Goto(c, IF socket[c] = "open" THEN "reading" ELSE "died")
    /\ shouldClose' = IF socket[c] = "open" THEN shouldClose ELSE [shouldClose EXCEPT ![c] = TRUE]
    /\ UNCHANGED <<serverVars, listVars, server, engine, socket>>

\* getFrame returns a frame of the client.
ReadFrame(c) ==
    /\ At(c, "reading")
    /\ socket[c] = "open"
    /\ Goto(c, "frame")
    /\ UNCHANGED <<serverVars, listVars, server, engine, connVars>>

\* getFrame meets the end of the input, or a socket that was closed, and makes
\* a DISCONNECT of it.
ReadEnds(c) ==
    /\ At(c, "reading")
    /\ shouldClose' = [shouldClose EXCEPT ![c] = TRUE]
    /\ Goto(c, "after")
    /\ UNCHANGED <<serverVars, listVars, server, engine, socket>>

\* On a closed socket that does not depend on the client.
ReadFails(c) == socket[c] = "closed" /\ ReadEnds(c)

\* A frame that takes no monitor, a post, a stop, or a DISCONNECT.
Handle(c, p) ==
    /\ At(c, "frame")
    /\ Goto(c, p)
    /\ UNCHANGED <<serverVars, listVars, server, engine, connVars>>

Disconnect(c) ==
    /\ At(c, "frame")
    /\ shouldClose' = [shouldClose EXCEPT ![c] = TRUE]
    /\ Goto(c, "after")
    /\ UNCHANGED <<serverVars, listVars, server, engine, socket>>

\* TwitterEngine.send of a tweet waits for the engine's monitor.
Send(c) ==
    /\ At(c, "send")
    /\ engine = None
    /\ Goto(c, "after")
    /\ UNCHANGED <<serverVars, listVars, server, engine, connVars>>

\* process: the loop ends when the protocol should close.
After(c) ==
    /\ At(c, "after")
    /\ Goto(c, IF shouldClose[c] THEN "closing" ELSE "reading")
    /\ UNCHANGED <<serverVars, listVars, server, engine, connVars>>

\* close by the handler itself.
Close(c) ==
    /\ At(c, "closing")
    /\ shouldClose' = [shouldClose EXCEPT ![c] = TRUE]
    /\ socket' = [socket EXCEPT ![c] = "closed"]
    /\ Goto(c, "remove")
    /\ UNCHANGED <<serverVars, listVars, server, engine>>

\* TwitterServer.remove waits for the server's monitor, which kill may hold.
Remove(c) ==
    /\ At(c, "remove")
    /\ server = None
    /\ activeConnections' = activeConnections \ {c}
    /\ Goto(c, "ended")
    /\ UNCHANGED <<serverVars, modified, victim, server, engine, connVars>>

-----------------------------------------------------------------------------
(* TwitterServer.kill, by the handler thread of k inside TwitterEngine.send *)

KillBegins(k) ==
    /\ At(k, "stop")
    /\ engine = None
    /\ server = None
    /\ engine' = k
    /\ server' = k
    /\ isRunning' = FALSE
    /\ Goto(k, "kill")
    /\ UNCHANGED <<listening, acceptor, listVars, connVars>>

\* serverSocket.close, and the iterator.
KillListener(k) ==
    /\ At(k, "kill")
    /\ listening' = FALSE
    /\ modified' = FALSE
    /\ Goto(k, "next")
    /\ UNCHANGED <<isRunning, acceptor, activeConnections, victim, server, engine, connVars>>

\* kill ends: both monitors are free again.
KillReturns(k) ==
    /\ engine' = None
    /\ server' = None
    /\ victim' = None
    /\ Goto(k, "after")

\* Mutated form: the connection is taken off the list before it is closed.
KillNext1(k) ==
    /\ At(k, "next")
    /\ IF activeConnections = {} \/ modified
       THEN KillReturns(k) /\ UNCHANGED activeConnections
       ELSE /\ victim' \in activeConnections
            /\ activeConnections' = activeConnections \ {victim'}
            /\ Goto(k, "close")
            /\ UNCHANGED <<server, engine>>
    /\ UNCHANGED <<serverVars, modified, connVars>>

\* hasNext and next: a ConcurrentModificationException, which becomes an ERROR
\* frame, if the accept loop has added a connection.
KillNext(k) ==
    /\ At(k, "next")
    /\ IF activeConnections = {} \/ modified
       THEN KillReturns(k)
       ELSE /\ victim' \in activeConnections
            /\ Goto(k, "close")
            /\ UNCHANGED <<server, engine>>
    /\ UNCHANGED <<serverVars, activeConnections, modified, connVars>>

\* Mutated form: the reader is closed before the socket.
KillCloses1(k) ==
    /\ At(k, "close")
    /\ ~At(victim, "reading")
    /\ shouldClose' = [shouldClose EXCEPT ![victim] = TRUE]
    /\ socket' = [socket EXCEPT ![victim] = "closed"]
    /\ Goto(k, "drop")
    /\ UNCHANGED <<serverVars, listVars, server, engine>>

\* Mutated form: a connection whose client has just left is not closed.
KillCloses2(k) ==
    /\ At(k, "close")
    /\ IF shouldClose[victim]
       THEN UNCHANGED connVars
       ELSE /\ shouldClose' = [shouldClose EXCEPT ![victim] = TRUE]
            /\ socket' = [socket EXCEPT ![victim] = "closed"]
    /\ Goto(k, "drop")
    /\ UNCHANGED <<serverVars, listVars, server, engine>>

\* closeConnection: close ends the protocol and closes the socket, if it is open.
KillCloses(k) ==
    /\ At(k, "close")
    /\ IF socket[victim] = "closed"
       THEN Goto(k, "drop") /\ UNCHANGED connVars
       ELSE /\ shouldClose' = [shouldClose EXCEPT ![victim] = TRUE]
            /\ socket' = [socket EXCEPT ![victim] = "closed"]
            /\ Goto(k, "reader")
    /\ UNCHANGED <<serverVars, listVars, server, engine>>

\* in.close waits for the lock that readLine holds.
KillReader(k) ==
    /\ At(k, "reader")
    /\ ~At(victim, "reading")
    /\ Goto(k, "drop")
    /\ UNCHANGED <<serverVars, listVars, server, engine, connVars>>

\* iterator.remove, which fails like next.
KillDrops(k) ==
    /\ At(k, "drop")
    /\ IF modified
       THEN KillReturns(k) /\ UNCHANGED activeConnections
       ELSE /\ activeConnections' = activeConnections \ {victim}
            /\ victim' = None
            /\ Goto(k, "next")
            /\ UNCHANGED <<server, engine>>
    /\ UNCHANGED <<serverVars, modified, connVars>>

-----------------------------------------------------------------------------

AcceptorStep == AcceptFails \/ Add \/ Start

KillStep(k) ==
    KillBegins(k) \/ KillListener(k) \/ KillNext(k) \/ KillCloses(k) \/ KillReader(k) \/ KillDrops(k)

\* What a handler does without its client.
HandlerStep(c) ==
    \/ Initialize(c) \/ ReadFails(c) \/ Send(c) \/ After(c) \/ Close(c) \/ Remove(c)
    \/ KillStep(c) \/ (\E p \in {"after", "send", "stop"} : Handle(c, p)) \/ Disconnect(c)

Next ==
    \/ AcceptorStep
    \/ \E c \in Conns : Accept(c) \/ ReadFrame(c) \/ ReadEnds(c) \/ HandlerStep(c)

\* The accept loop runs, and so does a handler that is not waiting for its client.
Fairness == WF_vars(AcceptorStep) /\ \A c \in Conns : WF_vars(HandlerStep(c))

Spec == Init /\ [][Next]_vars /\ Fairness

-----------------------------------------------------------------------------
(* Properties                                                              *)

\* Whoever closes it, and whatever exception ends kill, a connection leaves the
\* list only when its socket is closed: what is still open can be found by the
\* next stop command.
OpenIsRegistered ==
    \A c \in Conns : socket[c] = "open" => c \in activeConnections \/ acceptor = [pc |-> "add", conn |-> c]

\* A handler that has ended is no longer in the list, although the accept loop
\* adds it without the monitor that remove takes: the list does not grow with
\* every client that was ever served.
EndedIsRemoved == \A c \in Conns : At(c, "ended") => c \notin activeConnections

\* The list and the sockets stay in step, whatever accept, remove and kill do to
\* them at once.
RegistrationInv == TypeOK /\ OpenIsRegistered /\ EndedIsRemoved

\* When kill comes to its end without an exception, no connection is open but
\* the one that the accept loop has got and not yet registered.
KillClosesAll ==
    [][\A k \in Conns : At(k, "next") /\ thread'[k] = "after" /\ ~modified =>
        \A c \in Conns : socket[c] = "open" => acceptor = [pc |-> "add", conn |-> c]]_vars

\* kill ends, although it waits for readers that wait for their clients, and
\* holds the monitors that handlers need to leave; then the accept loop ends.
StopCompletes ==
    /\ \A k \in Conns : At(k, "kill") ~> (engine # k /\ server # k)
    /\ ~isRunning ~> acceptor.pc = "ended"

=============================================================================
