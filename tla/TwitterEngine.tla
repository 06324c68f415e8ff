---------------------------- MODULE TwitterEngine ----------------------------
(***************************************************************************)
(* The server's engine: TwitterEngine, User, Topic and ServerTopic, driven *)
(* by one StompProtocol per connection and by the handler thread that the  *)
(* thread-per-client server gives to each connection.                      *)
(*                                                                         *)
(* Atomicity.  A frame (CONNECT, SUBSCRIBE, UNSUBSCRIBE, DISCONNECT, and   *)
(* the checks of SEND) is one step.  Posting is not: TwitterEngine.send    *)
(* holds the engine's monitor while it walks through topics and their      *)
(* subscribers, and only other SENDs wait for that monitor, so every       *)
(* User.send it makes is a step of its own and the other connections'      *)
(* frames come in between.                                                 *)
(***************************************************************************)
EXTENDS Naturals, Sequences

CONSTANTS
    Names,        \* login names
    Passwords,    \* passcodes
    Conns,        \* connections (a ConnectionHandler with its StompProtocol)
    SubIds,       \* subscription ids that clients choose
    ServerTopic,  \* the ServerTopic object
    None,         \* null
    MaxQueue,     \* bound: no new post while a queue is this long
    MaxMentions   \* bound: mentions in one tweet

SELF_ID == "0"
SERVER_TOPIC_NAME == "server"

ASSUME EngineAssumption ==
    /\ SELF_ID \in SubIds
    /\ ServerTopic \notin Names
    /\ None \notin Names \cup Passwords \cup Conns \cup SubIds \cup {ServerTopic, SERVER_TOPIC_NAME}
    /\ MaxQueue \in Nat
    /\ MaxMentions \in Nat

\* Topic objects: one per user, named after the user, and the server's.
Topics == Names \cup {ServerTopic}
TopicNames == Names \cup {SERVER_TOPIC_NAME}
TopicName(t) == IF t = ServerTopic THEN SERVER_TOPIC_NAME ELSE t

Message == [topic : TopicNames, sub : SubIds \cup {None}]
MentionLists == UNION {[1..k -> TopicNames] : k \in 0..MaxMentions}

VARIABLES
    \* TwitterEngine and the objects it holds
    password,          \* User.password; None: no such user in TwitterEngine.users
    protocol,          \* User.protocol; None: the user is disconnected
    messages,          \* User.messages
    subscribedTopics,  \* User.subscribedTopics, subscription id -> topic
    topics,            \* TwitterEngine.topics, name -> topic
    subscribers,       \* Topic.subscribers, topic -> user -> subscription id
    post,              \* the TwitterEngine.send in progress, by the monitor's owner
    running,           \* TwitterServer.isRunning
    \* one of each per connection
    currentUser,       \* StompProtocol.currentUser
    status,            \* "open"; "closing": killed, its thread not yet ended; "closed"
    messagesQueue,     \* ConnectionHandler.messagesQueue
    \* observation
    reply,             \* the response frame of the last step
    copies             \* history: how often the post in progress was handed to each user

userVars == <<password, protocol, messages, subscribedTopics>>
topicVars == <<topics, subscribers>>
connVars == <<currentUser, status, messagesQueue>>
vars == <<userVars, topicVars, post, running, connVars, reply, copies>>

NoPost == [phase |-> "idle", by |-> None, topic |-> ServerTopic, own |-> TRUE, todo |-> {},
           dirty |-> FALSE, delivered |-> {}, mentions |-> <<>>]

Posts == [phase : {"idle", "iterate", "between"}, by : Conns \cup {None}, topic : Topics,
          own : BOOLEAN, todo : SUBSET Names, dirty : BOOLEAN, delivered : SUBSET Names,
          mentions : Seq(TopicNames)]

\* Every piece of the engine's and the handlers' state keeps its shape.  In
\* particular a message names a topic and a subscription id, never an object.
TypeOK ==
    /\ password \in [Names -> Passwords \cup {None}]
    /\ protocol \in [Names -> Conns \cup {None}]
    /\ messages \in [Names -> Seq(Message)]
    /\ subscribedTopics \in [Names -> [SubIds -> Topics \cup {None}]]
    /\ topics \in [TopicNames -> Topics \cup {None}]
    /\ subscribers \in [Topics -> [Names -> SubIds \cup {None}]]
    /\ post \in Posts
    /\ running \in BOOLEAN
    /\ currentUser \in [Conns -> Names \cup {None}]
    /\ status \in [Conns -> {"open", "closing", "closed"}]
    /\ messagesQueue \in [Conns -> Seq(Message)]
    /\ reply \in {"none", "CONNECTED", "ERROR", "MESSAGE", "RECEIPT"}
    /\ copies \in [Names -> Nat]

Init ==
    /\ password = [n \in Names |-> None]
    /\ protocol = [n \in Names |-> None]
    /\ messages = [n \in Names |-> <<>>]
    /\ subscribedTopics = [n \in Names |-> [i \in SubIds |-> None]]
    /\ topics = [n \in TopicNames |-> IF n = SERVER_TOPIC_NAME THEN ServerTopic ELSE None]
    /\ subscribers = [t \in Topics |-> [n \in Names |-> None]]
    /\ post = NoPost
    /\ running = TRUE
    /\ currentUser = [c \in Conns |-> None]
    /\ status = [c \in Conns |-> "closed"]
    /\ messagesQueue = [c \in Conns |-> <<>>]
    /\ reply = "none"
    /\ copies = [n \in Names |-> 0]

-----------------------------------------------------------------------------
(* Connections                                                             *)

isConnected(n) == protocol[n] # None
isAuthorized(c) == currentUser[c] # None

\* The thread of c is in its processing loop and not inside a post.  A thread
\* whose socket was closed by stop may still have one frame in hand.
Reading(c) == status[c] # "closed" /\ post.by # c

\* The end of a turn of the processing loop: the thread leaves the loop if its
\* protocol was told to close meanwhile, and does not log the user out.
FrameDone(c) == status' = [status EXCEPT ![c] = IF @ = "closing" THEN "closed" ELSE @]

\* Mutated form: the handler never writes what it holds.
HeldAlways(c, authorized, ms) == messagesQueue[c] \o ms

\* What c's handler holds after it was given the frames ms: it writes what it
\* holds if its protocol is authorized and its socket open.
Held(c, authorized, ms) ==
    IF authorized /\ status[c] = "open" THEN <<>> ELSE messagesQueue[c] \o ms

\* The accept loop makes a handler with a fresh protocol and starts its thread.
\* A closed handler's slot is taken again only when no User refers to it.
Accept(c) ==
    /\ running
    /\ status[c] = "closed"
    /\ \A n \in Names : protocol[n] # c
    /\ status' = [status EXCEPT ![c] = "open"]
    /\ currentUser' = [currentUser EXCEPT ![c] = None]
    /\ messagesQueue' = [messagesQueue EXCEPT ![c] = <<>>]
    /\ reply' = "none"
    /\ UNCHANGED <<userVars, topicVars, post, running, copies>>

\* A frame that does not parse, or any frame but CONNECT and DISCONNECT from a
\* client that has not logged in.
Refuse(c) ==
    /\ Reading(c)
    /\ reply' = "ERROR"
    /\ FrameDone(c)
    /\ UNCHANGED <<userVars, topicVars, post, running, currentUser, messagesQueue, copies>>

\* DISCONNECT, or the frame the tokenizer makes up at end of input and on an
\* I/O error.  The thread answers, leaves its loop and closes the socket.
Disconnect(c) ==
    /\ status[c] \in {"open", "closing"}
    /\ post.by # c
    /\ protocol' = IF isAuthorized(c) THEN [protocol EXCEPT ![currentUser[c]] = None] ELSE protocol
    /\ currentUser' = [currentUser EXCEPT ![c] = None]
    /\ status' = [status EXCEPT ![c] = "closed"]
    /\ reply' = "RECEIPT"
    /\ UNCHANGED <<password, messages, subscribedTopics, messagesQueue, topicVars, post, running, copies>>

-----------------------------------------------------------------------------
(* Topics and subscriptions                                                *)

SubscribersOf(t) == {n \in Names : subscribers[t][n] # None}

\* A HashMap iterator is invalidated when a key is added or removed under it.
Disturbs(ts) == [post EXCEPT !.dirty = @ \/ (post.phase = "iterate" /\ post.topic \in ts)]

addSubscriber(t, n, id) == [subscribers EXCEPT ![t][n] = id]
removeSubscriber(t, n) == [subscribers EXCEPT ![t][n] = None]

SubscribeError(c, id, name) ==
    /\ \/ name = currentUser[c]
       \/ topics[name] = None
       \/ subscribedTopics[currentUser[c]][id] # None
    /\ reply' = "ERROR"
    /\ FrameDone(c)
    /\ UNCHANGED <<userVars, topicVars, post, running, currentUser, messagesQueue, copies>>

\* User.subscribeTo and Topic.addSubscriber.
subscribeTo(c, id, name) ==
    LET n == currentUser[c]
        t == topics[name]
    IN  /\ name # n
        /\ t # None
        /\ subscribedTopics[n][id] = None
        /\ subscribedTopics' = [subscribedTopics EXCEPT ![n][id] = t]
        /\ subscribers' = addSubscriber(t, n, id)
        /\ post' = Disturbs(IF subscribers[t][n] = None THEN {t} ELSE {})
        /\ reply' = "MESSAGE"
        /\ FrameDone(c)
        /\ UNCHANGED <<password, protocol, messages, topics, running, currentUser, messagesQueue, copies>>

Subscribe(c, id, name) ==
    /\ Reading(c)
    /\ isAuthorized(c)
    /\ SubscribeError(c, id, name) \/ subscribeTo(c, id, name)

\* Mutated form: no check that the topic is the user's own.
IsOwnTopicNever(n, t) == FALSE

IsOwnTopic(n, t) == TopicName(t) = n

UnsubscribeError(c, id) ==
    LET n == currentUser[c]
        t == subscribedTopics[n][id]
    IN  /\ t = None \/ IsOwnTopic(n, t)
        /\ reply' = "ERROR"
        /\ FrameDone(c)
        /\ UNCHANGED <<userVars, topicVars, post, running, currentUser, messagesQueue, copies>>

\* User.unsubscribe and Topic.removeSubscriber, which removes the user whatever
\* id the topic has on record.
unsubscribe(c, id) ==
    LET n == currentUser[c]
        t == subscribedTopics[n][id]
    IN  /\ t # None
        /\ ~IsOwnTopic(n, t)
        /\ subscribedTopics' = [subscribedTopics EXCEPT ![n][id] = None]
        /\ subscribers' = removeSubscriber(t, n)
        /\ post' = Disturbs(IF subscribers[t][n] # None THEN {t} ELSE {})
        /\ reply' = "MESSAGE"
        /\ FrameDone(c)
        /\ UNCHANGED <<password, protocol, messages, topics, running, currentUser, messagesQueue, copies>>

Unsubscribe(c, id) ==
    /\ Reading(c)
    /\ isAuthorized(c)
    /\ UnsubscribeError(c, id) \/ unsubscribe(c, id)

-----------------------------------------------------------------------------
(* Login                                                                   *)

\* Topic.setTopicUser: a new topic has its user as a subscriber, and a new user
\* has its own topic, both under SELF_ID.
OnlySubscriber(n) == [m \in Names |-> IF m = n THEN SELF_ID ELSE None]
OnlyOwnTopic(n) == [i \in SubIds |-> IF i = SELF_ID THEN n ELSE None]

\* A name nobody has used: a new User, its Topic (which replaces whatever
\* topic the name had), and the user's subscription to it.  The handler then
\* writes CONNECTED and everything its queue holds.
ConnectNew(c, n, p) ==
    /\ password[n] = None
    /\ password' = [password EXCEPT ![n] = p]
    /\ protocol' = [protocol EXCEPT ![n] = c]
    /\ topics' = [topics EXCEPT ![n] = n]
    /\ subscribers' = [subscribers EXCEPT ![n] = OnlySubscriber(n)]
    /\ subscribedTopics' = [subscribedTopics EXCEPT ![n] = OnlyOwnTopic(n)]
    /\ currentUser' = [currentUser EXCEPT ![c] = n]
    /\ messagesQueue' = [messagesQueue EXCEPT ![c] = Held(c, TRUE, <<>>)]
    /\ reply' = "CONNECTED"
    /\ FrameDone(c)
    /\ UNCHANGED <<messages, post, running, copies>>

\* Mutated form: answers "already logged in" with the user.
ConnectRejectedAccepts(c, n, p) ==
    /\ password[n] # None
    /\ isConnected(n)
    /\ protocol' = [protocol EXCEPT ![n] = c]
    /\ currentUser' = [currentUser EXCEPT ![c] = n]
    /\ reply' = "CONNECTED"
    /\ FrameDone(c)
    /\ UNCHANGED <<password, messages, subscribedTopics, topicVars, post, running, messagesQueue, copies>>

\* Mutated form: clears the protocol instead of replacing it.
ConnectRejectedLogsOut(c, n, p) ==
    /\ password[n] # None
    /\ isConnected(n)
    /\ protocol' = [protocol EXCEPT ![n] = None]
    /\ reply' = "ERROR"
    /\ FrameDone(c)
    /\ UNCHANGED <<password, messages, subscribedTopics, topicVars, post, running, currentUser, messagesQueue, copies>>

\* The user is connected: refused, but the user's protocol is replaced.
ConnectRejected(c, n, p) ==
    /\ password[n] # None
    /\ isConnected(n)
    /\ protocol' = [protocol EXCEPT ![n] = c]
    /\ reply' = "ERROR"
    /\ FrameDone(c)
    /\ UNCHANGED <<password, messages, subscribedTopics, topicVars, post, running, currentUser, messagesQueue, copies>>

\* Mutated form: forgets the subscriptions before it looks at the password.
WrongPasswordResets(c, n, p) ==
    /\ password[n] # None
    /\ ~isConnected(n)
    /\ password[n] # p
    /\ subscribedTopics' = [subscribedTopics EXCEPT ![n] = [i \in SubIds |-> IF i = SELF_ID THEN @[i] ELSE None]]
    /\ reply' = "ERROR"
    /\ FrameDone(c)
    /\ UNCHANGED <<password, protocol, messages, topicVars, post, running, currentUser, messagesQueue, copies>>

WrongPassword(c, n, p) ==
    /\ password[n] # None
    /\ ~isConnected(n)
    /\ password[n] # p
    /\ reply' = "ERROR"
    /\ FrameDone(c)
    /\ UNCHANGED <<userVars, topicVars, post, running, currentUser, messagesQueue, copies>>

\* Mutated form: the reset clears the user's side only.
ResetTopicsNone(n) == {}

\* The topics User.resetSubscriptionsInfo takes the user off.
ResetTopics(n) == {subscribedTopics[n][i] : i \in SubIds \ {SELF_ID}} \ {None}

\* User.login: flush the messages that waited, then forget the subscriptions.
\* The handler writes CONNECTED first and the flushed messages after it.
login(c, n, p) ==
    /\ password[n] = p
    /\ ~isConnected(n)
    /\ protocol' = [protocol EXCEPT ![n] = c]
    /\ messages' = [messages EXCEPT ![n] = <<>>]
    /\ subscribedTopics' = [subscribedTopics EXCEPT ![n] = [i \in SubIds |-> IF i = SELF_ID THEN @[i] ELSE None]]
    /\ subscribers' = [t \in Topics |->
            IF t \in ResetTopics(n) THEN [subscribers[t] EXCEPT ![n] = None] ELSE subscribers[t]]
    /\ post' = Disturbs({t \in ResetTopics(n) : subscribers[t][n] # None})
    /\ currentUser' = [currentUser EXCEPT ![c] = n]
    /\ messagesQueue' = [messagesQueue EXCEPT ![c] = Held(c, TRUE, messages[n])]
    /\ reply' = "CONNECTED"
    /\ FrameDone(c)
    /\ UNCHANGED <<password, topics, running, copies>>

Connect(c, n, p) ==
    /\ Reading(c)
    /\ \/ ConnectNew(c, n, p)
       \/ ConnectRejected(c, n, p)
       \/ WrongPassword(c, n, p)
       \/ login(c, n, p)

-----------------------------------------------------------------------------
(* Posting                                                                 *)

\* The engine's monitor is free, and the bound on the queues lets a post in.
CanPost(c) ==
    /\ Reading(c)
    /\ isAuthorized(c)
    /\ post.phase = "idle"
    /\ \A n \in Names : Len(messages[n]) < MaxQueue
    /\ \A d \in Conns : Len(messagesQueue[d]) < MaxQueue

\* Topic.send begins to walk through the topic's subscribers.
StartTopic(c, t, own, delivered, mentions) ==
    [phase |-> "iterate", by |-> c, topic |-> t, own |-> own, todo |-> SubscribersOf(t),
     dirty |-> FALSE, delivered |-> delivered, mentions |-> mentions]

\* A user may post on its own topic only, and the topic must exist.
PostError(c, name) ==
    /\ Reading(c)
    /\ isAuthorized(c)
    /\ post.phase = "idle"
    /\ topics[name] = None \/ (name # SERVER_TOPIC_NAME /\ name # currentUser[c])
    /\ reply' = "ERROR"
    /\ FrameDone(c)
    /\ UNCHANGED <<userVars, topicVars, post, running, currentUser, messagesQueue, copies>>

Tweet(c, mentions) ==
    LET n == currentUser[c] IN
    /\ CanPost(c)
    /\ topics[n] # None
    /\ n # SERVER_TOPIC_NAME
    /\ post' = StartTopic(c, topics[n], TRUE, {}, mentions)
    /\ reply' = "none"
    /\ UNCHANGED <<userVars, topicVars, running, connVars, copies>>

\* "clients", "clients online", "stats" and any unknown command: the result is
\* posted on the ServerTopic object.
ServerReport(c) ==
    /\ CanPost(c)
    /\ topics[SERVER_TOPIC_NAME] # None
    /\ post' = StartTopic(c, ServerTopic, TRUE, {}, <<>>)
    /\ reply' = "none"
    /\ UNCHANGED <<userVars, topicVars, running, connVars, copies>>

\* Mutated form: the other connections are not closed.
KilledAlone(c) == [status EXCEPT ![c] = "closed"]

\* TwitterServer.kill closes every connection; the thread that ran the command
\* finds its protocol closed and ends.
Killed(c) == [d \in Conns |-> IF d = c \/ status[d] = "closed" THEN "closed" ELSE "closing"]

\* "stop": log everybody out and have the listener close every connection.
ServerStop(c) ==
    /\ Reading(c)
    /\ isAuthorized(c)
    /\ post.phase = "idle"
    /\ topics[SERVER_TOPIC_NAME] # None
    /\ protocol' = [n \in Names |-> None]
    /\ running' = FALSE
    /\ status' = Killed(c)
    /\ reply' = "none"
    /\ UNCHANGED <<password, messages, subscribedTopics, topicVars, post, currentUser, messagesQueue, copies>>

\* Mutated form: no flush after the message is queued.
userSendAlwaysQueues(n, m) ==
    /\ messages' = [messages EXCEPT ![n] = Append(@, m)]
    /\ UNCHANGED messagesQueue

\* User.send: queue the message and, if the user is connected, flush the queue
\* through the protocol to its handler.
userSend(n, m) ==
    LET c == protocol[n] IN
    IF isConnected(n)
    THEN /\ messages' = [messages EXCEPT ![n] = <<>>]
         /\ messagesQueue' = [messagesQueue EXCEPT ![c] = Held(c, isAuthorized(c), Append(messages[n], m))]
    ELSE /\ messages' = [messages EXCEPT ![n] = Append(@, m)]
         /\ UNCHANGED messagesQueue

\* Mutated form: the message carries the topic instead of its name.
NewMessageOfObject(n) == [topic |-> post.topic, sub |-> subscribers[post.topic][n]]

\* The message for n.  The id is read when n is visited: null if n has been
\* removed since the iterator found it.
NewMessage(n) == [topic |-> TopicName(post.topic), sub |-> subscribers[post.topic][n]]

\* Mutated forms: nobody is left out; offline users are left out.
ExceptNobody(n) == FALSE
ExceptOffline(n) == ~isConnected(n) \/ (~post.own /\ n \in post.delivered)

\* A relay leaves out the users whom the author's own topic served.
Except(n) == ~post.own /\ n \in post.delivered

\* One turn of the loop in Topic.send.
Visit(n) ==
    /\ post.phase = "iterate"
    /\ n \in post.todo
    /\ post' = [post EXCEPT !.todo = @ \ {n},
                            !.delivered = IF post.own /\ ~Except(n) THEN @ \cup {n} ELSE @]
    /\ IF Except(n)
       THEN UNCHANGED <<messages, messagesQueue, copies>>
       ELSE /\ userSend(n, NewMessage(n))
            /\ copies' = [copies EXCEPT ![n] = @ + 1]
    /\ reply' = "none"
    /\ UNCHANGED <<password, protocol, subscribedTopics, topicVars, running, currentUser, status>>

\* The iterator notices that the map changed under it: the exception ends the
\* post half-way, and the poster gets an ERROR.
IteratorFails ==
    /\ post.phase = "iterate"
    /\ post.dirty
    /\ post.todo # {}
    /\ post' = NoPost
    /\ copies' = [n \in Names |-> 0]
    /\ reply' = "ERROR"
    /\ FrameDone(post.by)
    /\ UNCHANGED <<userVars, topicVars, running, currentUser, messagesQueue>>

TopicDone ==
    /\ post.phase = "iterate"
    /\ post.todo = {}
    /\ post' = [post EXCEPT !.phase = "between", !.own = FALSE, !.dirty = FALSE]
    /\ reply' = "none"
    /\ UNCHANGED <<userVars, topicVars, running, connVars, copies>>

\* Mutated form: an unknown mention is looked up again and again.
NextMentionStuck ==
    LET name == Head(post.mentions) IN
    /\ post.phase = "between"
    /\ post.mentions # <<>>
    /\ post' = IF topics[name] = None THEN post
               ELSE StartTopic(post.by, topics[name], FALSE, post.delivered, Tail(post.mentions))
    /\ reply' = "none"
    /\ UNCHANGED <<userVars, topicVars, running, connVars, copies>>

\* A mention of a known topic is relayed to that topic's subscribers.
NextMention ==
    LET name == Head(post.mentions) IN
    /\ post.phase = "between"
    /\ post.mentions # <<>>
    /\ post' = IF topics[name] = None THEN [post EXCEPT !.mentions = Tail(@)]
               ELSE StartTopic(post.by, topics[name], FALSE, post.delivered, Tail(post.mentions))
    /\ reply' = "none"
    /\ UNCHANGED <<userVars, topicVars, running, connVars, copies>>

PostDone ==
    /\ post.phase = "between"
    /\ post.mentions = <<>>
    /\ post' = NoPost
    /\ copies' = [n \in Names |-> 0]
    /\ reply' = "none"
    /\ FrameDone(post.by)
    /\ UNCHANGED <<userVars, topicVars, running, currentUser, messagesQueue>>

PostStep == (\E n \in Names : Visit(n)) \/ IteratorFails \/ TopicDone \/ NextMention \/ PostDone

-----------------------------------------------------------------------------

\* Stopped: the listener and all threads have ended.
Terminated ==
    /\ ~running
    /\ \A c \in Conns : status[c] = "closed"
    /\ UNCHANGED vars

Next ==
    \/ \E c \in Conns :
        \/ Accept(c)
        \/ Refuse(c)
        \/ \E n \in Names, p \in Passwords : Connect(c, n, p)
        \/ \E id \in SubIds, name \in TopicNames : Subscribe(c, id, name)
        \/ \E id \in SubIds : Unsubscribe(c, id)
        \/ \E name \in TopicNames : PostError(c, name)
        \/ \E mentions \in MentionLists : Tweet(c, mentions)
        \/ ServerReport(c)
        \/ ServerStop(c)
        \/ Disconnect(c)
    \/ PostStep
    \/ Terminated

\* The thread that posts keeps running, and a thread whose socket was closed
\* under it gets its I/O error; nothing makes a client send a frame.
Fairness ==
    /\ WF_vars(PostStep)
    /\ \A c \in Conns : WF_vars(status[c] = "closing" /\ Disconnect(c))

Spec == Init /\ [][Next]_vars /\ Fairness

-----------------------------------------------------------------------------
(* Properties                                                              *)

\* A topic sends to a user only under a subscription id that the user itself
\* holds for that topic: the two maps that SUBSCRIBE, UNSUBSCRIBE and the reset
\* at login write in turn never disagree in this direction.
SubscriberHoldsId ==
    \A t \in Topics, n \in Names :
        subscribers[t][n] # None => subscribedTopics[n][subscribers[t][n]] = t

\* Every user follows itself for ever under id 0, and under no other id, so
\* neither UNSUBSCRIBE nor the reset at login can take a user off its own topic.
SelfFollow ==
    \A n \in Names :
        /\ password[n] # None => subscribers[n][n] = SELF_ID /\ subscribedTopics[n][SELF_ID] = n
        /\ \A i \in SubIds \ {SELF_ID} : subscribedTopics[n][i] # n

\* No two connections are logged in as the same user, although a refused login
\* replaces the user's protocol and a connection may log in more than once.
\* (A login that was under way when the server was stopped may break this.)
SingleSession ==
    running => \A c, d \in Conns : isAuthorized(c) /\ currentUser[c] = currentUser[d] => c = d

\* While the server runs, the user of a logged-in connection is connected:
\* whatever other connections try, they cannot log it out.
AuthorizedConnected ==
    running => \A c \in Conns : isAuthorized(c) => isConnected(currentUser[c])

\* A message waits in User.messages only while the user is disconnected: every
\* User.send and every login empties the queue of a connected user.
QueuedOnlyOffline == \A n \in Names : messages[n] # <<>> => ~isConnected(n)

\* A handler holds messages back only while its protocol is not logged in: what
\* was queued before CONNECTED is written right after it.
HeldOnlyUnauthorized ==
    \A c \in Conns : messagesQueue[c] # <<>> => ~isAuthorized(c) \/ status[c] # "open"

\* What waits for an offline user still matches the user's subscriptions when
\* the user comes back: nobody can change them meanwhile.
OfflineMatchesSubscriptions ==
    running => \A n \in Names : \A k \in DOMAIN messages[n] :
        LET m == messages[n][k] IN
        m.sub # None => /\ subscribedTopics[n][m.sub] # None
                        /\ TopicName(subscribedTopics[n][m.sub]) = m.topic

\* While a tweet goes through its author's own topic and nobody disturbs the
\* walk, the users served and the users still to serve are the topic's
\* subscribers: none is left out, offline ones included.
WalkCoversSubscribers ==
    post.phase = "iterate" /\ post.own /\ ~post.dirty
    => post.delivered \cup post.todo = SubscribersOf(post.topic)

\* A subscriber of the author gets the tweet exactly once, however many
\* mentions of topics the subscriber also follows relay it again.
SubscriberGetsOneCopy == \A n \in post.delivered : copies[n] = 1

SubscriptionsChange(n) ==
    \/ subscribedTopics'[n] # subscribedTopics[n]
    \/ \E t \in Topics : subscribers'[t][n] # subscribers[t][n]

\* A user's subscriptions are changed only by the connection that is, or by
\* this very step becomes, logged in as that user.
OnlyOwnerChangesSubscriptions ==
    [][\A n \in Names : SubscriptionsChange(n) => \E c \in Conns : currentUser'[c] = n]_vars

\* A post always comes to an end and gives the engine's monitor back.
PostCompletes == (post.phase # "idle") ~> (post.phase = "idle")

\* After stop, every connection ends up closed.
StopClosesAll == ~running ~> (\A c \in Conns : status[c] = "closed")

-----------------------------------------------------------------------------
(* What comments in the code say and the code does not do                  *)

\* "User's protocol, used for sending messages to the client" (User.java): what
\* is sent to a user goes to the connection that is logged in as the user.
MessagesReachSession ==
    \A c \in Conns : status[c] = "open" /\ isAuthorized(c) => protocol[currentUser[c]] = c

\* "if user has not already subscribe to the given topic" (TwitterEngine.java):
\* a user has at most one subscription to a topic.
OneSubscriptionPerTopic ==
    \A n \in Names : \A i, j \in SubIds :
        subscribedTopics[n][i] # None /\ subscribedTopics[n][i] = subscribedTopics[n][j] => i = j

\* "ignore the users that the message already delivered to" (TwitterEngine.java):
\* a tweet is handed to a user at most once, through whatever topics it goes.
AtMostOnce == \A n \in Names : copies[n] <= 1

=============================================================================
