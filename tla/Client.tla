------------------------------- MODULE Client -------------------------------
(***************************************************************************)
(* The command-line client: the keyboard thread that runs commands, the    *)
(* listener thread of each login, and the map of subscriptions, the id     *)
(* counter and the connection that they share.  The server is as much of   *)
(* TwitterEngine as one user sees: its session and its subscriptions.      *)
(*                                                                         *)
(* The n-th login makes the n-th ConnectionHandler and starts the n-th     *)
(* listener.  Using a connection that was deleted is undefined behaviour:  *)
(* here the process crashes.  A login while another one is in use leaves   *)
(* two threads that read one pointer and one socket without a lock: the    *)
(* model ends there, and no property speaks of what follows.               *)
(***************************************************************************)
EXTENDS Integers, Sequences, FiniteSets

CONSTANTS
    Names,          \* the users that may be followed
    MaxLogins,      \* bound: login commands
    MaxCommands     \* bound: other commands

ASSUME ClientAssumption == MaxLogins \in Nat /\ MaxCommands \in Nat

Me == "me"
NoName == "none"
NoId == -1
ASSUME NamesAssumption == {Me, NoName} \cap Names = {}

Logins == 1..MaxLogins
\* The user's own subscription is counted once, however often it logs in.
Ids == 0..(MaxCommands + 1)

\* Frames in both directions: their type, subscription id and user.
Frame(type, id, name) == [type |-> type, id |-> id, name |-> name]
Plain(type) == Frame(type, NoId, NoName)
FrameTypes == {"CONNECT", "SUBSCRIBE", "UNSUBSCRIBE", "SEND", "DISCONNECT",
               "CONNECTED", "ERROR", "following", "unfollowing", "tweet", "RECEIPT", "EOF", "none"}
AnyFrame == [type : FrameTypes, id : Ids \cup {NoId}, name : Names \cup {Me, NoName}]

VARIABLES
    connected,          \* TwitterClient.connected
    connection,         \* the login whose ConnectionHandler it points to, 0 for null
    writer,             \* an HtmlWriter is open
    subscriptions,      \* the map from users to ids
    unique_identifier,
    listener,           \* each listener thread: place, connection it reads, frame in hand
    interrupted,        \* the listeners whose interruption was requested
    keyboard,           \* the keyboard thread's place, and the frame that it is sending
    process,            \* "running", "exited", "overlap", or the thread that crashed
    toServer, toClient, \* the frames on each connection
    session,            \* server: the login that has the user's session, 0 for none
    topics,             \* server: the user followed under each id
    logins, commands    \* what was typed so far

clientVars == <<connected, connection, writer>>
mapVars == <<subscriptions, unique_identifier>>
serverVars == <<session, topics>>
netVars == <<toServer, toClient>>
countVars == <<logins, commands>>
vars == <<clientVars, mapVars, listener, interrupted, keyboard, process, netVars, serverVars, countVars>>

\* Ids are those that the client can hand out, and threads are at known places.
TypeOK ==
    /\ connected \in BOOLEAN
    /\ connection \in 0..MaxLogins
    /\ writer \in BOOLEAN
    /\ subscriptions \in [Names \cup {Me} -> Ids \cup {NoId}]
    /\ unique_identifier \in Nat
    /\ listener \in [Logins -> [pc : {"none", "loop", "use", "read", "visit", "count", "done"},
                                on : 0..MaxLogins, frame : AnyFrame]]
    /\ interrupted \subseteq Logins
    /\ keyboard \in [pc : {"idle", "send"}, frame : AnyFrame]
    /\ process \in {"running", "exited", "overlap", "keyboard", "listener"}
    /\ toServer \in [Logins -> Seq(AnyFrame)]
    /\ toClient \in [Logins -> Seq(AnyFrame)]
    /\ session \in 0..MaxLogins
    /\ topics \in [Ids -> Names \cup {NoName}]
    /\ logins \in 0..MaxLogins
    /\ commands \in 0..MaxCommands

Init ==
    /\ connected = FALSE
    /\ connection = 0
    /\ writer = FALSE
    /\ subscriptions = [n \in Names \cup {Me} |-> NoId]
    /\ unique_identifier = 0
    /\ listener = [l \in Logins |-> [pc |-> "none", on |-> 0, frame |-> Plain("none")]]
    /\ interrupted = {}
    /\ keyboard = [pc |-> "idle", frame |-> Plain("none")]
    /\ process = "running"
    /\ toServer = [l \in Logins |-> <<>>]
    /\ toClient = [l \in Logins |-> <<>>]
    /\ session = 0
    /\ topics = [i \in Ids |-> NoName]
    /\ logins = 0
    /\ commands = 0

-----------------------------------------------------------------------------
(* TwitterClient                                                           *)

\* Mutated form: the connection itself is left open.
OnDisconnect2 ==
    /\ writer' = FALSE
    /\ interrupted' = IF connection # 0 THEN interrupted \cup {logins} ELSE interrupted
    /\ UNCHANGED <<connection, connected>>

\* onDisconnect and close_connection: subscriptions.empty() changes nothing.
OnDisconnect ==
    /\ writer' = FALSE
    /\ connection' = 0
    /\ connected' = IF connection # 0 THEN FALSE ELSE connected
    /\ interrupted' = IF connection # 0 THEN interrupted \cup {logins} ELSE interrupted

\* identifier
Identifier == unique_identifier + 1

\* getUserBySubscription
UserBySubscription(id) ==
    IF \E n \in DOMAIN subscriptions : subscriptions[n] = id
    THEN CHOOSE n \in DOMAIN subscriptions : subscriptions[n] = id ELSE NoName

-----------------------------------------------------------------------------
(* The keyboard thread                                                     *)

Idle == process = "running" /\ keyboard.pc = "idle"

\* sendFrame: the connection is used one step after connected is read.
SendFrame(f) ==
    keyboard' = IF connected' THEN [pc |-> "send", frame |-> f] ELSE keyboard

\* The connection of the last login is in use, or its listener may find it so.
InUse == connection # 0 /\ (connected \/ listener[logins].pc # "done")

\* login: a new connection and a new listener, whatever there was before, and
\* CONNECT if the server could be reached.
Login(reached) ==
    /\ Idle
    /\ logins < MaxLogins
    /\ ~InUse
    /\ logins' = logins + 1
    /\ connection' = logins + 1
    /\ connected' = reached
    /\ listener' = [listener EXCEPT ![logins + 1].pc = "loop"]
    /\ SendFrame(Plain("CONNECT"))
    /\ UNCHANGED <<writer, mapVars, interrupted, process, netVars, serverVars, commands>>

\* login does not ask whether there is a connection already.
LoginAgain ==
    /\ Idle
    /\ logins < MaxLogins
    /\ InUse
    /\ process' = "overlap"
    /\ UNCHANGED <<clientVars, mapVars, listener, interrupted, keyboard, netVars, serverVars, countVars>>

Command ==
    /\ Idle
    /\ commands < MaxCommands
    /\ commands' = commands + 1
    /\ UNCHANGED <<clientVars, mapVars, listener, interrupted, process, netVars, serverVars, logins>>

\* follow: not if the map has the user; the id is the one to be handed out next.
Follow(n) ==
    /\ Command
    /\ subscriptions[n] = NoId
    /\ SendFrame(Frame("SUBSCRIBE", Identifier, n))

Unfollow(n) ==
    /\ Command
    /\ connected
    /\ subscriptions[n] # NoId
    /\ SendFrame(Frame("UNSUBSCRIBE", subscriptions[n], NoName))

\* tweet; clients, stats and stop send a SEND, too.
Tweet == Command /\ connected /\ SendFrame(Plain("SEND"))

Logout == Command /\ connected /\ SendFrame(Plain("DISCONNECT"))

\* exit_client
Exit ==
    /\ Idle
    /\ OnDisconnect
    /\ process' = "exited"
    /\ UNCHANGED <<mapVars, listener, keyboard, netVars, serverVars, countVars>>

\* (*connection).sendLine: the listener may have deleted the connection.
Send ==
    /\ process = "running"
    /\ keyboard.pc = "send"
    /\ keyboard' = [pc |-> "idle", frame |-> Plain("none")]
    /\ IF connection = 0
       THEN process' = "keyboard" /\ UNCHANGED toServer
       ELSE /\ toServer' = [toServer EXCEPT ![connection] = Append(@, keyboard.frame)]
            /\ UNCHANGED process
    /\ UNCHANGED <<clientVars, mapVars, listener, interrupted, toClient, serverVars, countVars>>

-----------------------------------------------------------------------------
(* The listener thread of login l                                          *)

ListenerAt(l, p) == process = "running" /\ listener[l].pc = p
ListenerGoto(l, p) == listener' = [listener EXCEPT ![l].pc = p]

\* while (isConnected() && !interruption_requested())
Loop(l) ==
    /\ ListenerAt(l, "loop")
    /\ ListenerGoto(l, IF connected /\ l \notin interrupted THEN "use" ELSE "done")
    /\ UNCHANGED <<clientVars, mapVars, interrupted, keyboard, process, netVars, serverVars, countVars>>

\* connection->getFrameAscii begins
Use(l) ==
    /\ ListenerAt(l, "use")
    /\ IF connection = 0
       THEN process' = "listener" /\ UNCHANGED listener
       ELSE /\ listener' = [listener EXCEPT ![l].pc = "read", ![l].on = connection]
            /\ UNCHANGED process
    /\ UNCHANGED <<clientVars, mapVars, interrupted, keyboard, netVars, serverVars, countVars>>

\* A frame has arrived.
Read(l) ==
    LET c == listener[l].on IN
    /\ ListenerAt(l, "read")
    /\ toClient[c] # <<>>
    /\ Head(toClient[c]).type # "EOF"
    /\ toClient' = [toClient EXCEPT ![c] = Tail(@)]
    /\ listener' = [listener EXCEPT ![l].pc = "visit", ![l].on = 0, ![l].frame = Head(toClient[c])]
    /\ UNCHANGED <<clientVars, mapVars, interrupted, keyboard, process, toServer, serverVars, countVars>>

\* The server has closed the connection: onDisconnect and exit.
ReadEof(l) ==
    LET c == listener[l].on IN
    /\ ListenerAt(l, "read")
    /\ toClient[c] # <<>>
    /\ Head(toClient[c]).type = "EOF"
    /\ OnDisconnect
    /\ process' = "exited"
    /\ UNCHANGED <<mapVars, listener, keyboard, netVars, serverVars, countVars>>

Visiting(l, type) == ListenerAt(l, "visit") /\ listener[l].frame.type = type
Visited(l, p) == listener' = [listener EXCEPT ![l].pc = p, ![l].frame = Plain("none")]

\* Mutated form: the id is the counter's, not the answer's.
RegisterSubscription1(l, id, n) ==
    IF subscriptions[n] # NoId THEN Visited(l, "loop") /\ UNCHANGED subscriptions
    ELSE Visited(l, "count") /\ subscriptions' = [subscriptions EXCEPT ![n] = unique_identifier]

\* registerSubscription: a known user keeps its id; otherwise the counter is
\* advanced after the insertion.
RegisterSubscription(l, id, n) ==
    IF subscriptions[n] # NoId THEN Visited(l, "loop") /\ UNCHANGED subscriptions
    ELSE Visited(l, "count") /\ subscriptions' = [subscriptions EXCEPT ![n] = id]

\* CONNECTED: onConnect, where subscriptions.empty() changes nothing, and the
\* user's own subscription.
VisitConnected(l) ==
    /\ Visiting(l, "CONNECTED")
    /\ writer' = (writer \/ connected)
    /\ RegisterSubscription(l, 0, Me)
    /\ UNCHANGED <<connected, connection, unique_identifier, interrupted, keyboard, process, netVars,
                   serverVars, countVars>>

Count(l) ==
    /\ ListenerAt(l, "count")
    /\ unique_identifier' = unique_identifier + 1
    /\ ListenerGoto(l, "loop")
    /\ UNCHANGED <<clientVars, subscriptions, interrupted, keyboard, process, netVars, serverVars, countVars>>

VisitError(l) ==
    /\ Visiting(l, "ERROR")
    /\ Visited(l, "loop")
    /\ UNCHANGED <<clientVars, mapVars, interrupted, keyboard, process, netVars, serverVars, countVars>>

\* An answer to SUBSCRIBE or UNSUBSCRIBE: which of the two is guessed from the
\* map, where the id of a new subscription is not expected.
VisitAnswer(l) ==
    LET f == listener[l].frame
        n == UserBySubscription(f.id) IN
    /\ Visiting(l, "following") \/ Visiting(l, "unfollowing")
    /\ IF n = NoName THEN RegisterSubscription(l, f.id, f.name)
       ELSE Visited(l, "loop") /\ subscriptions' = [subscriptions EXCEPT ![n] = IF n = Me THEN @ ELSE NoId]
    /\ UNCHANGED <<clientVars, unique_identifier, interrupted, keyboard, process, netVars, serverVars, countVars>>

\* A tweet is written to the report: without a writer, that is undefined.
VisitTweet(l) ==
    /\ Visiting(l, "tweet")
    /\ Visited(l, "loop")
    /\ process' = IF writer THEN process ELSE "listener"
    /\ UNCHANGED <<clientVars, mapVars, interrupted, keyboard, netVars, serverVars, countVars>>

VisitReceipt(l) ==
    /\ Visiting(l, "RECEIPT")
    /\ OnDisconnect
    /\ Visited(l, "loop")
    /\ UNCHANGED <<mapVars, keyboard, process, netVars, serverVars, countVars>>

ListenerStep(l) ==
    \/ Loop(l) \/ Use(l) \/ Read(l) \/ ReadEof(l) \/ VisitConnected(l) \/ Count(l)
    \/ VisitError(l) \/ VisitAnswer(l) \/ VisitTweet(l) \/ VisitReceipt(l)

-----------------------------------------------------------------------------
(* The server, as TwitterEngine has it: the head of toServer[l] is handled. *)
(* What it does once the client's process is gone is of no interest here.   *)

\* The server has closed the connection: what the client still sends is not read.
Closed(l) == \E i \in DOMAIN toClient[l] : toClient[l][i].type = "EOF"

Serve(l, answers) ==
    /\ process = "running"
    /\ toServer[l] # <<>>
    /\ ~Closed(l)
    /\ toServer' = [toServer EXCEPT ![l] = Tail(@)]
    /\ toClient' = [toClient EXCEPT ![l] = @ \o answers]
    /\ UNCHANGED <<clientVars, mapVars, listener, interrupted, keyboard, process, countVars>>

Request(l) == IF toServer[l] = <<>> THEN Plain("none") ELSE Head(toServer[l])

\* A login resets the subscriptions.
ServeConnect(l) ==
    /\ Request(l).type = "CONNECT"
    /\ session = 0
    /\ session' = l
    /\ topics' = [i \in Ids |-> NoName]
    /\ Serve(l, <<Plain("CONNECTED")>>)

ServeSubscribe(l) ==
    LET f == Request(l) IN
    /\ f.type = "SUBSCRIBE"
    /\ session = l
    /\ f.id # 0 /\ topics[f.id] = NoName /\ \A i \in Ids : topics[i] # f.name
    /\ topics' = [topics EXCEPT ![f.id] = f.name]
    /\ Serve(l, <<Frame("following", f.id, f.name)>>)
    /\ UNCHANGED session

ServeUnsubscribe(l) ==
    LET f == Request(l) IN
    /\ f.type = "UNSUBSCRIBE"
    /\ session = l
    /\ topics[f.id] # NoName
    /\ topics' = [topics EXCEPT ![f.id] = NoName]
    /\ Serve(l, <<Frame("unfollowing", f.id, topics[f.id])>>)
    /\ UNCHANGED session

\* The user's own tweet comes back, under id 0.
ServeSend(l) ==
    /\ Request(l).type = "SEND"
    /\ session = l
    /\ Serve(l, <<Frame("tweet", 0, Me)>>)
    /\ UNCHANGED serverVars

\* RECEIPT, and the connection is closed; what comes after it is not read.
ServeDisconnect(l) ==
    /\ process = "running"
    /\ Request(l).type = "DISCONNECT"
    /\ ~Closed(l)
    /\ session' = IF session = l THEN 0 ELSE session
    /\ toServer' = [toServer EXCEPT ![l] = <<>>]
    /\ toClient' = [toClient EXCEPT ![l] = @ \o <<Plain("RECEIPT"), Plain("EOF")>>]
    /\ UNCHANGED <<clientVars, mapVars, listener, interrupted, keyboard, process, topics, countVars>>

\* Anything else that is asked without a session, twice or with a wrong password.
Refuse(l) ==
    LET f == Request(l) IN
    /\ \/ f.type = "CONNECT"
       \/ f.type \in {"SUBSCRIBE", "UNSUBSCRIBE", "SEND"} /\ session # l
       \/ f.type = "SUBSCRIBE" /\ (topics[f.id] # NoName \/ \E i \in Ids : topics[i] = f.name)
       \/ f.type = "UNSUBSCRIBE" /\ topics[f.id] = NoName
    /\ Serve(l, <<Plain("ERROR")>>)
    /\ UNCHANGED serverVars

\* Another client stops the server: kill logs the user out and closes the
\* connection in the middle of what is under way.
ServerStops(l) ==
    /\ process = "running"
    /\ session = l
    /\ session' = 0
    /\ toServer' = [toServer EXCEPT ![l] = <<>>]
    /\ toClient' = [toClient EXCEPT ![l] = Append(@, Plain("EOF"))]
    /\ UNCHANGED <<clientVars, mapVars, listener, interrupted, keyboard, process, topics, countVars>>

ServerStep(l) ==
    \/ ServeConnect(l) \/ ServeSubscribe(l) \/ ServeUnsubscribe(l) \/ ServeSend(l) \/ ServeDisconnect(l)
    \/ Refuse(l)

-----------------------------------------------------------------------------

Next ==
    \/ (\E reached \in BOOLEAN : Login(reached)) \/ LoginAgain \/ Tweet \/ Logout \/ Exit \/ Send
    \/ \E n \in Names : Follow(n) \/ Unfollow(n)
    \/ \E l \in Logins : ListenerStep(l) \/ ServerStep(l) \/ ServerStops(l)

\* The server answers, the listeners run, and a command that was begun ends.
Fairness == WF_vars(Send) /\ \A l \in Logins : WF_vars(ListenerStep(l)) /\ WF_vars(ServerStep(l))

Spec == Init /\ [][Next]_vars /\ Fairness

-----------------------------------------------------------------------------
(* Properties                                                              *)

\* Nothing is on its way between the client and the server.
Quiet ==
    /\ process = "running"
    /\ keyboard.pc = "idle"
    /\ \A l \in Logins : /\ l = session => toServer[l] = <<>> /\ toClient[l] = <<>>
                         /\ listener[l].pc \in {"none", "read", "done"}

\* The map is kept by the answers alone, and ids are handed out by one thread and
\* counted by another.  Still the client knows every subscription that the server
\* has, under the server's id; and in the first login it knows no others.
MapAgrees ==
    Quiet /\ session # 0 =>
        /\ \A i \in Ids : topics[i] # NoName => subscriptions[topics[i]] = i
        /\ logins = 1 => \A n \in Names : subscriptions[n] # NoId => topics[subscriptions[n]] = n

\* "If it does exist in our map, this must be a confirmation of unfollowing"
\* (FrameVisitor.cpp): the listener's guess is right, also when several commands
\* were typed before the first answer, and in later logins.
GuessIsRight ==
    \A l \in Logins : ListenerAt(l, "visit") =>
        LET f == listener[l].frame IN
        /\ f.type = "following" => UserBySubscription(f.id) = NoName
        /\ f.type = "unfollowing" => UserBySubscription(f.id) = f.name

\* The listener that handled the RECEIPT does not read the connection of the
\* next login, although connected may be set again before it looks; no listener
\* is left reading a connection that was deleted, or finds the report closed.
ListenerLeaves ==
    /\ process # "listener"
    /\ \A l \in Logins : ListenerAt(l, "read") => listener[l].on = l /\ connection = l

\* What keyboard, listener and server agree on at any time.
ClientInv == TypeOK /\ MapAgrees /\ GuessIsRight /\ ListenerLeaves

\* A logout that was sent ends the connection, or the process.
LogoutEnds ==
    \A l \in Logins : (\E i \in DOMAIN toServer[l] : toServer[l][i].type = "DISCONNECT")
                      ~> (connection # l \/ process # "running")

\* "reset subscription map on every connect just to make sure" (TwitterClient.cpp):
\* after onConnect the map holds no user of an earlier login.
ResetOnConnect == [][~writer /\ writer' => \A n \in Names : subscriptions'[n] = NoId]_vars

=============================================================================
