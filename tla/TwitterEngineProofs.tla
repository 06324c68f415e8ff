------------------------- MODULE TwitterEngineProofs -------------------------
(***************************************************************************)
(* Proofs about TwitterEngine, for every set of names, passwords,          *)
(* connections and subscription ids and for all bounds.                    *)
(***************************************************************************)
EXTENDS TwitterEngine, TLAPS

-----------------------------------------------------------------------------
(* Type correctness                                                        *)

\* The empty queue is a sequence of messages.
LEMMA EmptyMessages == <<>> \in Seq(Message)
OBVIOUS

\* What a handler holds is a sequence of messages.
LEMMA HeldType ==
    ASSUME TypeOK, NEW c \in Conns, NEW b \in BOOLEAN, NEW ms \in Seq(Message)
    PROVE  Held(c, b, ms) \in Seq(Message)
BY EmptyMessages DEF TypeOK, Held

\* Flagging an iterator as disturbed leaves a well-formed post.
LEMMA DisturbsType ==
    ASSUME TypeOK, NEW ts
    PROVE  Disturbs(ts) \in Posts
BY DEF TypeOK, Disturbs, Posts

\* Beginning to walk through a topic gives a well-formed post.
LEMMA StartTopicType ==
    ASSUME NEW c \in Conns \cup {None}, NEW t \in Topics, NEW own \in BOOLEAN,
           NEW delivered \in SUBSET Names, NEW mentions \in Seq(TopicNames)
    PROVE  StartTopic(c, t, own, delivered, mentions) \in Posts
BY DEF StartTopic, Posts, SubscribersOf

\* The value of post between posts is well-formed.
LEMMA NoPostType == NoPost \in Posts
BY DEF NoPost, Posts, Topics

\* Handing a message to a user keeps both queues well-formed.
LEMMA UserSendType ==
    ASSUME TypeOK, NEW n \in Names, NEW m \in Message, userSend(n, m)
    PROVE  /\ messages' \in [Names -> Seq(Message)]
           /\ messagesQueue' \in [Conns -> Seq(Message)]
<1>1. Append(messages[n], m) \in Seq(Message)
  <2>1. messages[n] \in Seq(Message) BY DEF TypeOK
  <2> QED BY <2>1
<1>2. CASE isConnected(n)
  <2>1. protocol[n] \in Conns BY <1>2 DEF TypeOK, isConnected
  <2> DEFINE h == Held(protocol[n], isAuthorized(protocol[n]), Append(messages[n], m))
  <2>2. h \in Seq(Message) BY <1>1, <2>1, HeldType DEF isAuthorized
  <2>3. /\ messages' = [messages EXCEPT ![n] = <<>>]
        /\ messagesQueue' = [messagesQueue EXCEPT ![protocol[n]] = h]
    BY <1>2 DEF userSend
  <2> HIDE DEF h
  <2> QED BY <2>2, <2>3, EmptyMessages DEF TypeOK
<1>3. CASE ~isConnected(n)
  <2>1. messages' = [messages EXCEPT ![n] = Append(messages[n], m)] /\ messagesQueue' = messagesQueue
    BY <1>3 DEF userSend
  <2> QED BY <1>1, <2>1 DEF TypeOK
<1> QED BY <1>2, <1>3

\* The mentions of a tweet are a sequence of topic names.
LEMMA MentionListsType == MentionLists \subseteq Seq(TopicNames)
<1> SUFFICES ASSUME NEW k \in 0..MaxMentions, NEW f \in [1..k -> TopicNames]
             PROVE  f \in Seq(TopicNames)
  BY DEF MentionLists
<1> k \in Nat BY EngineAssumption
<1> QED OBVIOUS

\* Every step of the engine and its handlers keeps TypeOK.
LEMMA TypeStep == TypeOK /\ [Next]_vars => TypeOK'
<1> SUFFICES ASSUME TypeOK, [Next]_vars PROVE TypeOK' OBVIOUS
<1> USE EngineAssumption
<1>1. ASSUME NEW c \in Conns, Accept(c) PROVE TypeOK'
  BY <1>1 DEF TypeOK, Accept, userVars, topicVars
<1>2. ASSUME NEW c \in Conns, Refuse(c) PROVE TypeOK'
  BY <1>2 DEF TypeOK, Refuse, FrameDone, userVars, topicVars
<1>3. ASSUME NEW c \in Conns, NEW n \in Names, NEW p \in Passwords, Connect(c, n, p) PROVE TypeOK'
  <2>1. CASE ConnectNew(c, n, p)
    <3>1. Held(c, TRUE, <<>>) \in Seq(Message) BY HeldType, EmptyMessages
    <3>2. messagesQueue' \in [Conns -> Seq(Message)]
      BY <2>1, <3>1 DEF TypeOK, ConnectNew
    <3>3. /\ topics' \in [TopicNames -> Topics \cup {None}]
          /\ subscribers' \in [Topics -> [Names -> SubIds \cup {None}]]
          /\ subscribedTopics' \in [Names -> [SubIds -> Topics \cup {None}]]
      BY <2>1 DEF TypeOK, ConnectNew, OnlySubscriber, OnlyOwnTopic, Topics, TopicNames
    <3> QED BY <2>1, <3>2, <3>3 DEF TypeOK, ConnectNew, FrameDone
  <2>2. CASE ConnectRejected(c, n, p)
    BY <2>2 DEF TypeOK, ConnectRejected, FrameDone, topicVars
  <2>3. CASE WrongPassword(c, n, p)
    BY <2>3 DEF TypeOK, WrongPassword, FrameDone, userVars, topicVars
  <2>4. CASE login(c, n, p)
    <3>1. Held(c, TRUE, messages[n]) \in Seq(Message) BY HeldType DEF TypeOK
    <3>2. messagesQueue' \in [Conns -> Seq(Message)] /\ messages' \in [Names -> Seq(Message)]
      BY <2>4, <3>1, EmptyMessages DEF TypeOK, login
    <3>3. post' \in Posts BY <2>4, DisturbsType DEF login
    <3>4. subscribers' \in [Topics -> [Names -> SubIds \cup {None}]]
      BY <2>4 DEF TypeOK, login
    <3>5. subscribedTopics' \in [Names -> [SubIds -> Topics \cup {None}]]
      BY <2>4 DEF TypeOK, login
    <3> QED BY <2>4, <3>2, <3>3, <3>4, <3>5 DEF TypeOK, login, FrameDone
  <2> QED BY <1>3, <2>1, <2>2, <2>3, <2>4 DEF Connect
<1>4. ASSUME NEW c \in Conns, NEW id \in SubIds, NEW name \in TopicNames, Subscribe(c, id, name)
      PROVE TypeOK'
  <2>1. CASE SubscribeError(c, id, name)
    BY <2>1 DEF TypeOK, SubscribeError, FrameDone, userVars, topicVars
  <2>2. CASE subscribeTo(c, id, name)
    <3>1. post' \in Posts BY <2>2, DisturbsType DEF subscribeTo
    <3>2. currentUser[c] \in Names /\ topics[name] \in Topics
      BY <1>4, <2>2 DEF TypeOK, Subscribe, subscribeTo, isAuthorized
    <3> QED BY <2>2, <3>1, <3>2 DEF TypeOK, subscribeTo, addSubscriber, FrameDone
  <2> QED BY <1>4, <2>1, <2>2 DEF Subscribe
<1>5. ASSUME NEW c \in Conns, NEW id \in SubIds, Unsubscribe(c, id) PROVE TypeOK'
  <2>1. CASE UnsubscribeError(c, id)
    BY <2>1 DEF TypeOK, UnsubscribeError, FrameDone, userVars, topicVars
  <2>2. CASE unsubscribe(c, id)
    <3>1. post' \in Posts BY <2>2, DisturbsType DEF unsubscribe
    <3>2. currentUser[c] \in Names BY <1>5 DEF TypeOK, Unsubscribe, isAuthorized
    <3> QED BY <2>2, <3>1, <3>2 DEF TypeOK, unsubscribe, removeSubscriber, FrameDone
  <2> QED BY <1>5, <2>1, <2>2 DEF Unsubscribe
<1>6. ASSUME NEW c \in Conns, NEW name \in TopicNames, PostError(c, name) PROVE TypeOK'
  BY <1>6 DEF TypeOK, PostError, FrameDone, userVars, topicVars
<1>7. ASSUME NEW c \in Conns, NEW mentions \in MentionLists, Tweet(c, mentions) PROVE TypeOK'
  <2>1. topics[currentUser[c]] \in Topics
    BY <1>7 DEF TypeOK, Tweet, CanPost, isAuthorized, TopicNames
  <2>2. post' \in Posts
    BY <1>7, <2>1, StartTopicType, MentionListsType DEF Tweet
  <2> QED BY <1>7, <2>2 DEF TypeOK, Tweet, userVars, topicVars, connVars
<1>8. ASSUME NEW c \in Conns, ServerReport(c) PROVE TypeOK'
  <2>1. post' \in Posts
    <3>1. ServerTopic \in Topics /\ <<>> \in Seq(TopicNames) BY DEF Topics
    <3> QED BY <1>8, <3>1, StartTopicType DEF ServerReport
  <2> QED BY <1>8, <2>1 DEF TypeOK, ServerReport, userVars, topicVars, connVars
<1>9. ASSUME NEW c \in Conns, ServerStop(c) PROVE TypeOK'
  BY <1>9 DEF TypeOK, ServerStop, Killed, topicVars
<1>10. ASSUME NEW c \in Conns, Disconnect(c) PROVE TypeOK'
  BY <1>10 DEF TypeOK, Disconnect, isAuthorized, topicVars
<1>11. ASSUME NEW n \in Names, Visit(n) PROVE TypeOK'
  <2> DEFINE m == NewMessage(n)
  <2>1. m \in Message
    BY DEF NewMessage, TypeOK, Posts, Message, TopicName, TopicNames, Topics
  <2>2. post' \in Posts BY <1>11 DEF TypeOK, Visit, Posts
  <2>3. /\ messages' \in [Names -> Seq(Message)]
        /\ messagesQueue' \in [Conns -> Seq(Message)]
        /\ copies' \in [Names -> Nat]
    <3>1. CASE ~post.own /\ n \in post.delivered
      BY <1>11, <3>1 DEF TypeOK, Visit, Except
    <3>2. CASE ~(~post.own /\ n \in post.delivered)
      <4>1. userSend(n, m) /\ copies' = [copies EXCEPT ![n] = @ + 1]
        BY <1>11, <3>2 DEF Visit, Except
      <4> HIDE DEF m
      <4> QED BY <4>1, <2>1, UserSendType DEF TypeOK
    <3> QED BY <3>1, <3>2
  <2> QED BY <1>11, <2>2, <2>3 DEF TypeOK, Visit, topicVars
<1>12. ASSUME IteratorFails PROVE TypeOK'
  BY <1>12, NoPostType DEF TypeOK, IteratorFails, FrameDone, userVars, topicVars
<1>13. ASSUME TopicDone PROVE TypeOK'
  BY <1>13 DEF TypeOK, TopicDone, Posts, userVars, topicVars, connVars
<1>14. ASSUME NextMention PROVE TypeOK'
  <2>1. post' \in Posts
    <3>1. /\ post.by \in Conns \cup {None} /\ post.delivered \in SUBSET Names
          /\ post.mentions \in Seq(TopicNames) /\ post.mentions # <<>>
      BY <1>14 DEF TypeOK, Posts, NextMention
    <3>2. Head(post.mentions) \in TopicNames /\ Tail(post.mentions) \in Seq(TopicNames)
      BY <3>1
    <3>3. CASE topics[Head(post.mentions)] = None
      BY <1>14, <3>2, <3>3 DEF TypeOK, Posts, NextMention
    <3>4. CASE topics[Head(post.mentions)] # None
      BY <1>14, <3>1, <3>2, <3>4, StartTopicType DEF TypeOK, NextMention
    <3> QED BY <3>3, <3>4
  <2> QED BY <1>14, <2>1 DEF TypeOK, NextMention, userVars, topicVars, connVars
<1>15. ASSUME PostDone PROVE TypeOK'
  BY <1>15, NoPostType DEF TypeOK, PostDone, FrameDone, userVars, topicVars
<1>16. CASE UNCHANGED vars
  BY <1>16 DEF TypeOK, vars, userVars, topicVars, connVars
<1> QED
  BY <1>1, <1>2, <1>3, <1>4, <1>5, <1>6, <1>7, <1>8, <1>9, <1>10, <1>11, <1>12, <1>13,
     <1>14, <1>15, <1>16 DEF Next, PostStep, Terminated

\* The engine's state keeps its shape in every behaviour of the server.
THEOREM TypeCorrect == Spec => []TypeOK
<1>1. Init => TypeOK
  BY EngineAssumption, NoPostType DEF Init, TypeOK, TopicNames, Topics
<1> QED BY <1>1, TypeStep, PTL DEF Spec

-----------------------------------------------------------------------------
(* The two maps of subscriptions                                           *)

\* A name that nobody has registered has no subscriptions, no subscribers and
\* no session.
UnregisteredUnused ==
    \A n \in Names : password[n] = None =>
        /\ \A i \in SubIds : subscribedTopics[n][i] = None
        /\ \A t \in Topics : subscribers[t][n] = None
        /\ \A m \in Names : subscribers[n][m] = None
        /\ \A c \in Conns : currentUser[c] # n
        /\ \A x \in TopicNames : topics[x] # n
        /\ post.topic # n

\* TwitterEngine.topics files every topic under the topic's own name.
TopicsUnderTheirName ==
    \A x \in TopicNames : topics[x] # None => TopicName(topics[x]) = x

SubscriptionInv ==
    /\ TypeOK
    /\ UnregisteredUnused
    /\ TopicsUnderTheirName
    /\ SubscriberHoldsId
    /\ SelfFollow

\* No topic is null, and a user's topic has the user's name.
LEMMA TopicFacts ==
    /\ None \notin Topics
    /\ \A n \in Names : n \in Topics /\ n \in TopicNames /\ TopicName(n) = n
    /\ \A t \in Topics : TopicName(t) \in TopicNames
BY EngineAssumption DEF Topics, TopicNames, TopicName

\* A new user starts with the one subscription to its own, new topic.
LEMMA ConnectNewSubscriptions ==
    ASSUME SubscriptionInv, TypeOK', NEW c \in Conns, NEW n \in Names, NEW p \in Passwords,
           ConnectNew(c, n, p)
    PROVE  SubscriptionInv'
<1> USE EngineAssumption, TopicFacts
<1>0. /\ password[n] = None
      /\ password' = [password EXCEPT ![n] = p]
      /\ topics' = [topics EXCEPT ![n] = n]
      /\ subscribers' = [subscribers EXCEPT ![n] = [m \in Names |-> IF m = n THEN SELF_ID ELSE None]]
      /\ subscribedTopics' = [subscribedTopics EXCEPT ![n] = [i \in SubIds |-> IF i = SELF_ID THEN n ELSE None]]
      /\ currentUser' = [currentUser EXCEPT ![c] = n]
      /\ post' = post
  BY DEF ConnectNew, OnlySubscriber, OnlyOwnTopic
<1>1. UnregisteredUnused'
  BY <1>0 DEF SubscriptionInv, UnregisteredUnused, TypeOK
<1>2. TopicsUnderTheirName'
  BY <1>0 DEF SubscriptionInv, TopicsUnderTheirName, TypeOK, TopicName
<1>3. SubscriberHoldsId'
  <2> SUFFICES ASSUME NEW t \in Topics, NEW m \in Names, subscribers'[t][m] # None
               PROVE  subscribedTopics'[m][subscribers'[t][m]] = t
    BY DEF SubscriberHoldsId
  <2>1. CASE t = n
    BY <1>0, <2>1 DEF TypeOK, SubscriptionInv
  <2>2. CASE t # n
    <3>1. subscribers'[t][m] = subscribers[t][m] BY <1>0, <2>2 DEF SubscriptionInv, TypeOK
    <3>2. m # n BY <1>0, <3>1 DEF SubscriptionInv, UnregisteredUnused
    <3> QED BY <1>0, <3>1, <3>2 DEF SubscriptionInv, SubscriberHoldsId, TypeOK
  <2> QED BY <2>1, <2>2
<1>4. SelfFollow'
  <2> SUFFICES ASSUME NEW m \in Names
               PROVE  /\ password'[m] # None => subscribers'[m][m] = SELF_ID /\ subscribedTopics'[m][SELF_ID] = m
                      /\ \A i \in SubIds \ {SELF_ID} : subscribedTopics'[m][i] # m
    BY DEF SelfFollow
  <2>1. CASE m = n BY <1>0, <2>1 DEF SubscriptionInv, TypeOK
  <2>2. CASE m # n BY <1>0, <2>2 DEF SubscriptionInv, SelfFollow, TypeOK
  <2> QED BY <2>1, <2>2
<1> QED BY <1>1, <1>2, <1>3, <1>4 DEF SubscriptionInv

\* The reset at login takes the user off exactly the topics whose ids it drops.
LEMMA LoginSubscriptions ==
    ASSUME SubscriptionInv, TypeOK', NEW c \in Conns, NEW n \in Names, NEW p \in Passwords,
           login(c, n, p)
    PROVE  SubscriptionInv'
<1> USE EngineAssumption, TopicFacts
<1> DEFINE R == ResetTopics(n)
<1>0. /\ password[n] # None /\ password' = password /\ topics' = topics
      /\ subscribedTopics' = [subscribedTopics EXCEPT ![n] = [i \in SubIds |-> IF i = SELF_ID THEN subscribedTopics[n][i] ELSE None]]
      /\ subscribers' = [t \in Topics |-> IF t \in R THEN [subscribers[t] EXCEPT ![n] = None] ELSE subscribers[t]]
      /\ currentUser' = [currentUser EXCEPT ![c] = n]
      /\ post'.topic = post.topic
  BY DEF login, Disturbs, SubscriptionInv, TypeOK, Posts
<1>1. \A t \in Topics, m \in Names :
        subscribers'[t][m] = IF t \in R /\ m = n THEN None ELSE subscribers[t][m]
  BY <1>0 DEF SubscriptionInv, TypeOK
<1>2. \A m \in Names, i \in SubIds :
        subscribedTopics'[m][i] = IF m = n /\ i # SELF_ID THEN None ELSE subscribedTopics[m][i]
  BY <1>0 DEF SubscriptionInv, TypeOK
<1>3. \A i \in SubIds \ {SELF_ID} : subscribedTopics[n][i] # None => subscribedTopics[n][i] \in R
  BY DEF ResetTopics
<1>4. n \notin R
  BY DEF ResetTopics, SubscriptionInv, SelfFollow
<1> HIDE DEF R
<1>5. UnregisteredUnused'
  BY <1>0, <1>1, <1>2 DEF SubscriptionInv, UnregisteredUnused, TypeOK
<1>6. TopicsUnderTheirName'
  BY <1>0 DEF SubscriptionInv, TopicsUnderTheirName
<1>7. SubscriberHoldsId'
  <2> SUFFICES ASSUME NEW t \in Topics, NEW m \in Names, subscribers'[t][m] # None
               PROVE  subscribedTopics'[m][subscribers'[t][m]] = t
    BY DEF SubscriberHoldsId
  <2>1. subscribers'[t][m] = subscribers[t][m] BY <1>1
  <2>2. subscribers[t][m] \in SubIds BY <2>1 DEF SubscriptionInv, TypeOK
  <2>3. subscribedTopics[m][subscribers[t][m]] = t
    BY <2>1 DEF SubscriptionInv, SubscriberHoldsId
  <2>4. m # n \/ subscribers[t][m] = SELF_ID BY <1>1, <1>3, <2>2, <2>3
  <2> QED BY <1>2, <2>1, <2>2, <2>3, <2>4
<1>8. SelfFollow'
  BY <1>0, <1>1, <1>2, <1>4 DEF SubscriptionInv, SelfFollow
<1> QED BY <1>5, <1>6, <1>7, <1>8 DEF SubscriptionInv

\* SUBSCRIBE writes the same id on both sides.
LEMMA SubscribeSubscriptions ==
    ASSUME SubscriptionInv, TypeOK', NEW c \in Conns, NEW id \in SubIds, NEW name \in TopicNames,
           isAuthorized(c), subscribeTo(c, id, name)
    PROVE  SubscriptionInv'
<1> USE EngineAssumption, TopicFacts
<1> DEFINE n == currentUser[c]
           t == topics[name]
<1>0. /\ name # n /\ t # None /\ subscribedTopics[n][id] = None
      /\ subscribedTopics' = [subscribedTopics EXCEPT ![n][id] = t]
      /\ subscribers' = [subscribers EXCEPT ![t][n] = id]
      /\ password' = password /\ topics' = topics /\ currentUser' = currentUser
      /\ post'.topic = post.topic
  BY DEF subscribeTo, addSubscriber, Disturbs, SubscriptionInv, TypeOK, Posts
<1>1. n \in Names /\ t \in Topics
  BY <1>0 DEF isAuthorized, SubscriptionInv, TypeOK
<1>2. password[n] # None /\ (t \in Names => password[t] # None)
  BY <1>1 DEF SubscriptionInv, UnregisteredUnused
<1>3. id # SELF_ID
  BY <1>0, <1>1, <1>2 DEF SubscriptionInv, SelfFollow
<1>4. t # n
  BY <1>0, <1>1 DEF SubscriptionInv, TopicsUnderTheirName
<1>5. \A u \in Topics, m \in Names :
        subscribers'[u][m] = IF u = t /\ m = n THEN id ELSE subscribers[u][m]
  BY <1>0, <1>1 DEF SubscriptionInv, TypeOK
<1>6. \A m \in Names, i \in SubIds :
        subscribedTopics'[m][i] = IF m = n /\ i = id THEN t ELSE subscribedTopics[m][i]
  BY <1>0, <1>1 DEF SubscriptionInv, TypeOK
<1> HIDE DEF n, t
<1>7. UnregisteredUnused'
  BY <1>0, <1>1, <1>2, <1>5, <1>6 DEF SubscriptionInv, UnregisteredUnused
<1>8. TopicsUnderTheirName'
  BY <1>0 DEF SubscriptionInv, TopicsUnderTheirName
<1>9. SubscriberHoldsId'
  <2> SUFFICES ASSUME NEW u \in Topics, NEW m \in Names, subscribers'[u][m] # None
               PROVE  subscribedTopics'[m][subscribers'[u][m]] = u
    BY DEF SubscriberHoldsId
  <2>1. CASE u = t /\ m = n BY <1>1, <1>5, <1>6, <2>1
  <2>2. CASE ~(u = t /\ m = n)
    <3>1. subscribers'[u][m] = subscribers[u][m] BY <1>5, <2>2
    <3>2. subscribers[u][m] \in SubIds BY <3>1 DEF SubscriptionInv, TypeOK
    <3>3. subscribedTopics[m][subscribers[u][m]] = u
      BY <3>1 DEF SubscriptionInv, SubscriberHoldsId
    <3> QED BY <1>0, <1>6, <3>1, <3>2, <3>3
  <2> QED BY <2>1, <2>2
<1>10. SelfFollow'
  BY <1>0, <1>3, <1>4, <1>5, <1>6 DEF SubscriptionInv, SelfFollow
<1> QED BY <1>7, <1>8, <1>9, <1>10 DEF SubscriptionInv

\* UNSUBSCRIBE removes the user from the topic together with the id, and
\* cannot concern the user's own topic.
LEMMA UnsubscribeSubscriptions ==
    ASSUME SubscriptionInv, TypeOK', NEW c \in Conns, NEW id \in SubIds,
           isAuthorized(c), unsubscribe(c, id)
    PROVE  SubscriptionInv'
<1> USE EngineAssumption, TopicFacts
<1> DEFINE n == currentUser[c]
           t == subscribedTopics[n][id]
<1>0. /\ t # None /\ TopicName(t) # n
      /\ subscribedTopics' = [subscribedTopics EXCEPT ![n][id] = None]
      /\ subscribers' = [subscribers EXCEPT ![t][n] = None]
      /\ password' = password /\ topics' = topics /\ currentUser' = currentUser
      /\ post'.topic = post.topic
  BY DEF unsubscribe, removeSubscriber, IsOwnTopic, Disturbs, SubscriptionInv, TypeOK, Posts
<1>1. n \in Names /\ t \in Topics
  BY <1>0 DEF isAuthorized, SubscriptionInv, TypeOK
<1>2. password[n] # None
  BY <1>1 DEF SubscriptionInv, UnregisteredUnused
<1>3. id # SELF_ID /\ t # n
  BY <1>0, <1>1, <1>2 DEF SubscriptionInv, SelfFollow
<1>4. t = subscribedTopics[n][id] OBVIOUS
<1>5. \A u \in Topics, m \in Names :
        subscribers'[u][m] = IF u = t /\ m = n THEN None ELSE subscribers[u][m]
  BY <1>0, <1>1 DEF SubscriptionInv, TypeOK
<1>6. \A m \in Names, i \in SubIds :
        subscribedTopics'[m][i] = IF m = n /\ i = id THEN None ELSE subscribedTopics[m][i]
  BY <1>0, <1>1 DEF SubscriptionInv, TypeOK
<1> HIDE DEF n, t
<1>7. UnregisteredUnused'
  BY <1>0, <1>1, <1>5, <1>6 DEF SubscriptionInv, UnregisteredUnused
<1>8. TopicsUnderTheirName'
  BY <1>0 DEF SubscriptionInv, TopicsUnderTheirName
<1>9. SubscriberHoldsId'
  <2> SUFFICES ASSUME NEW u \in Topics, NEW m \in Names, subscribers'[u][m] # None
               PROVE  subscribedTopics'[m][subscribers'[u][m]] = u
    BY DEF SubscriberHoldsId
  <2>1. ~(u = t /\ m = n) /\ subscribers'[u][m] = subscribers[u][m] BY <1>5
  <2>2. subscribers[u][m] \in SubIds BY <2>1 DEF SubscriptionInv, TypeOK
  <2>3. subscribedTopics[m][subscribers[u][m]] = u
    BY <2>1 DEF SubscriptionInv, SubscriberHoldsId
  <2> QED BY <1>4, <1>6, <2>1, <2>2, <2>3
<1>10. SelfFollow'
  BY <1>0, <1>3, <1>5, <1>6 DEF SubscriptionInv, SelfFollow
<1> QED BY <1>7, <1>8, <1>9, <1>10 DEF SubscriptionInv

\* A step that leaves users, subscriptions and topics alone and logs nobody in
\* keeps the invariant, if the topic being posted on exists.
LEMMA FrameSubscriptions ==
    ASSUME SubscriptionInv, TypeOK',
           UNCHANGED <<password, subscribedTopics, topicVars>>,
           \A c \in Conns : currentUser'[c] = currentUser[c] \/ currentUser'[c] = None,
           post'.topic = post.topic \/ post'.topic = ServerTopic
                \/ \E x \in TopicNames : post'.topic = topics[x]
    PROVE  SubscriptionInv'
<1> USE EngineAssumption
<1>1. UnregisteredUnused'
  BY DEF SubscriptionInv, UnregisteredUnused, topicVars
<1>2. TopicsUnderTheirName' /\ SubscriberHoldsId' /\ SelfFollow'
  BY DEF SubscriptionInv, TopicsUnderTheirName, SubscriberHoldsId, SelfFollow, topicVars
<1> QED BY <1>1, <1>2 DEF SubscriptionInv

\* Every step keeps the invariant about subscriptions.
LEMMA SubscriptionStep == SubscriptionInv /\ [Next]_vars => SubscriptionInv'
<1> SUFFICES ASSUME SubscriptionInv, [Next]_vars PROVE SubscriptionInv' OBVIOUS
<1>0. TypeOK /\ TypeOK' BY TypeStep DEF SubscriptionInv
<1> USE FrameSubscriptions, <1>0
<1>1. ASSUME NEW c \in Conns, Accept(c) PROVE SubscriptionInv'
  BY <1>1 DEF Accept, userVars, TypeOK
<1>2. ASSUME NEW c \in Conns, Refuse(c) PROVE SubscriptionInv'
  BY <1>2 DEF Refuse, userVars
<1>3. ASSUME NEW c \in Conns, NEW n \in Names, NEW p \in Passwords, Connect(c, n, p)
      PROVE SubscriptionInv'
  <2>1. CASE ConnectNew(c, n, p) BY <2>1, ConnectNewSubscriptions
  <2>2. CASE ConnectRejected(c, n, p) BY <2>2 DEF ConnectRejected
  <2>3. CASE WrongPassword(c, n, p) BY <2>3 DEF WrongPassword, userVars
  <2>4. CASE login(c, n, p) BY <2>4, LoginSubscriptions
  <2> QED BY <1>3, <2>1, <2>2, <2>3, <2>4 DEF Connect
<1>4. ASSUME NEW c \in Conns, NEW id \in SubIds, NEW name \in TopicNames, Subscribe(c, id, name)
      PROVE SubscriptionInv'
  <2>1. CASE SubscribeError(c, id, name) BY <2>1 DEF SubscribeError, userVars
  <2>2. CASE subscribeTo(c, id, name) BY <1>4, <2>2, SubscribeSubscriptions DEF Subscribe
  <2> QED BY <1>4, <2>1, <2>2 DEF Subscribe
<1>5. ASSUME NEW c \in Conns, NEW id \in SubIds, Unsubscribe(c, id) PROVE SubscriptionInv'
  <2>1. CASE UnsubscribeError(c, id) BY <2>1 DEF UnsubscribeError, userVars
  <2>2. CASE unsubscribe(c, id) BY <1>5, <2>2, UnsubscribeSubscriptions DEF Unsubscribe
  <2> QED BY <1>5, <2>1, <2>2 DEF Unsubscribe
<1>6. ASSUME NEW c \in Conns, NEW name \in TopicNames, PostError(c, name) PROVE SubscriptionInv'
  BY <1>6 DEF PostError, userVars
<1>7. ASSUME NEW c \in Conns, NEW mentions \in MentionLists, Tweet(c, mentions)
      PROVE SubscriptionInv'
  <2>1. currentUser[c] \in TopicNames BY <1>7 DEF Tweet, CanPost, isAuthorized, TypeOK, TopicNames
  <2> QED BY <1>7, <2>1 DEF Tweet, StartTopic, userVars, connVars
<1>8. ASSUME NEW c \in Conns, ServerReport(c) PROVE SubscriptionInv'
  BY <1>8 DEF ServerReport, StartTopic, userVars, connVars
<1>9. ASSUME NEW c \in Conns, ServerStop(c) PROVE SubscriptionInv'
  BY <1>9 DEF ServerStop
<1>10. ASSUME NEW c \in Conns, Disconnect(c) PROVE SubscriptionInv'
  BY <1>10 DEF Disconnect, TypeOK
<1>11. ASSUME NEW n \in Names, Visit(n) PROVE SubscriptionInv'
  <2>1. post'.topic = post.topic BY <1>11 DEF Visit, TypeOK, Posts
  <2> QED BY <1>11, <2>1 DEF Visit
<1>12. ASSUME IteratorFails PROVE SubscriptionInv'
  BY <1>12 DEF IteratorFails, NoPost, userVars
<1>13. ASSUME TopicDone PROVE SubscriptionInv'
  <2>1. post'.topic = post.topic BY <1>13 DEF TopicDone, TypeOK, Posts
  <2> QED BY <1>13, <2>1 DEF TopicDone, userVars, connVars
<1>14. ASSUME NextMention PROVE SubscriptionInv'
  <2>1. Head(post.mentions) \in TopicNames BY <1>14 DEF NextMention, TypeOK, Posts
  <2>2. post'.topic = post.topic \/ post'.topic = topics[Head(post.mentions)]
    BY <1>14 DEF NextMention, StartTopic, TypeOK, Posts
  <2> QED BY <1>14, <2>1, <2>2 DEF NextMention, userVars, connVars
<1>15. ASSUME PostDone PROVE SubscriptionInv'
  BY <1>15 DEF PostDone, NoPost, userVars
<1>16. CASE UNCHANGED vars
  BY <1>16 DEF vars, userVars, connVars
<1> QED
  BY <1>1, <1>2, <1>3, <1>4, <1>5, <1>6, <1>7, <1>8, <1>9, <1>10, <1>11, <1>12, <1>13,
     <1>14, <1>15, <1>16 DEF Next, PostStep, Terminated

\* The invariant about subscriptions holds in every behaviour.
LEMMA SubscriptionInvariant == Spec => []SubscriptionInv
<1>1. Init => SubscriptionInv
  <2> SUFFICES ASSUME Init PROVE SubscriptionInv OBVIOUS
  <2>1. TypeOK BY EngineAssumption, NoPostType DEF Init, TypeOK, TopicNames, Topics
  <2>2. UnregisteredUnused
    BY EngineAssumption, TopicFacts DEF Init, UnregisteredUnused, NoPost
  <2>3. TopicsUnderTheirName
    BY EngineAssumption DEF Init, TopicsUnderTheirName, TopicName, TopicNames
  <2>4. SubscriberHoldsId BY DEF Init, SubscriberHoldsId
  <2>5. SelfFollow BY EngineAssumption DEF Init, SelfFollow
  <2> QED BY <2>1, <2>2, <2>3, <2>4, <2>5 DEF SubscriptionInv
<1> QED BY <1>1, SubscriptionStep, PTL DEF Spec

\* A topic sends to a user only under an id that the user holds for that topic,
\* in every behaviour of the server.
THEOREM SubscribersHoldIds == Spec => []SubscriberHoldsId
<1>1. SubscriptionInv => SubscriberHoldsId BY DEF SubscriptionInv
<1> QED BY <1>1, SubscriptionInvariant, PTL

\* Nobody is ever taken off its own topic, in every behaviour of the server.
THEOREM SelfFollowHolds == Spec => []SelfFollow
<1>1. SubscriptionInv => SelfFollow BY DEF SubscriptionInv
<1> QED BY <1>1, SubscriptionInvariant, PTL

-----------------------------------------------------------------------------
(* Sessions                                                                *)

SessionInv ==
    /\ SubscriptionInv
    /\ SingleSession
    /\ AuthorizedConnected

\* A step that leaves sessions alone, or only logs users out with the server
\* stopped, keeps SingleSession and AuthorizedConnected.
LEMMA FrameSession ==
    ASSUME SessionInv, running' => running,
           \/ ~running'
           \/ /\ \A c \in Conns : currentUser'[c] = currentUser[c] \/ currentUser'[c] = None
              /\ \A n \in Names : protocol'[n] = None => protocol[n] = None
    PROVE  SingleSession' /\ AuthorizedConnected'
<1>1. SingleSession'
  BY DEF SessionInv, SingleSession, isAuthorized
<1>2. AuthorizedConnected'
  BY DEF SessionInv, SubscriptionInv, TypeOK, AuthorizedConnected, isAuthorized, isConnected
<1> QED BY <1>1, <1>2

\* A login gives its connection a user that no other connection is logged in as.
LEMMA LoginSession ==
    ASSUME SessionInv, NEW c \in Conns, NEW n \in Names,
           running' = running,
           protocol' = [protocol EXCEPT ![n] = c],
           currentUser' = [currentUser EXCEPT ![c] = n],
           password[n] = None \/ ~isConnected(n)
    PROVE  SingleSession' /\ AuthorizedConnected'
<1> SUFFICES ASSUME running PROVE SingleSession' /\ AuthorizedConnected'
  BY DEF SingleSession, AuthorizedConnected
<1> USE EngineAssumption
<1>0. TypeOK /\ UnregisteredUnused BY DEF SessionInv, SubscriptionInv
<1>1. \A d \in Conns : currentUser[d] # n
  BY DEF SessionInv, SubscriptionInv, UnregisteredUnused, AuthorizedConnected, isAuthorized
<1>2. SingleSession'
  BY <1>0, <1>1 DEF SessionInv, SingleSession, isAuthorized, TypeOK
<1>3. AuthorizedConnected'
  BY <1>0, <1>1 DEF SessionInv, AuthorizedConnected, isAuthorized, isConnected, TypeOK
<1> QED BY <1>2, <1>3

\* Every step keeps the invariant about sessions.
LEMMA SessionStep == SessionInv /\ [Next]_vars => SessionInv'
<1> SUFFICES ASSUME SessionInv, [Next]_vars PROVE SessionInv' OBVIOUS
<1>0. SubscriptionInv' /\ TypeOK BY SubscriptionStep DEF SessionInv, SubscriptionInv
<1> SUFFICES SingleSession' /\ AuthorizedConnected' BY <1>0 DEF SessionInv
<1> USE FrameSession, EngineAssumption
<1>1. ASSUME NEW c \in Conns, Accept(c) PROVE SingleSession' /\ AuthorizedConnected'
  BY <1>0, <1>1 DEF Accept, userVars, TypeOK
<1>2. ASSUME NEW c \in Conns, NEW n \in Names, NEW p \in Passwords, Connect(c, n, p)
      PROVE SingleSession' /\ AuthorizedConnected'
  <2>1. CASE ConnectNew(c, n, p) BY <2>1, LoginSession DEF ConnectNew
  <2>2. CASE ConnectRejected(c, n, p)
    <3>1. \A m \in Names : protocol'[m] = None => protocol[m] = None
      BY <1>0, <2>2 DEF ConnectRejected, TypeOK
    <3> QED BY <2>2, <3>1 DEF ConnectRejected
  <2>3. CASE WrongPassword(c, n, p) BY <2>3 DEF WrongPassword, userVars
  <2>4. CASE login(c, n, p) BY <2>4, LoginSession DEF login
  <2> QED BY <1>2, <2>1, <2>2, <2>3, <2>4 DEF Connect
<1>3. ASSUME NEW c \in Conns, NEW id \in SubIds, NEW name \in TopicNames, Subscribe(c, id, name)
      PROVE SingleSession' /\ AuthorizedConnected'
  BY <1>3 DEF Subscribe, SubscribeError, subscribeTo, userVars
<1>4. ASSUME NEW c \in Conns, NEW id \in SubIds, Unsubscribe(c, id)
      PROVE SingleSession' /\ AuthorizedConnected'
  BY <1>4 DEF Unsubscribe, UnsubscribeError, unsubscribe, userVars
<1>5. ASSUME NEW c \in Conns, ServerStop(c) PROVE SingleSession' /\ AuthorizedConnected'
  BY <1>5 DEF ServerStop
<1>6. ASSUME NEW c \in Conns, Disconnect(c) PROVE SingleSession' /\ AuthorizedConnected'
  <2>1. SingleSession'
    BY <1>0, <1>6 DEF Disconnect, SessionInv, SingleSession, isAuthorized, TypeOK
  <2>2. AuthorizedConnected'
    BY <1>0, <1>6 DEF Disconnect, SessionInv, SingleSession, AuthorizedConnected,
                      isAuthorized, isConnected, TypeOK
  <2> QED BY <2>1, <2>2
<1>7. ASSUME NEW n \in Names, Visit(n) PROVE SingleSession' /\ AuthorizedConnected'
  BY <1>7 DEF Visit
<1>8. CASE UNCHANGED <<protocol, currentUser, running>>
  BY <1>8
<1>9. ASSUME NEW c \in Conns, NEW mentions \in MentionLists,
             Refuse(c) \/ Tweet(c, mentions) \/ ServerReport(c)
      PROVE UNCHANGED <<protocol, currentUser, running>>
  BY <1>9 DEF Refuse, Tweet, ServerReport, userVars, connVars
<1>10. ASSUME NEW c \in Conns, NEW name \in TopicNames, PostError(c, name)
       PROVE UNCHANGED <<protocol, currentUser, running>>
  BY <1>10 DEF PostError, userVars
<1>11. ASSUME IteratorFails \/ TopicDone \/ NextMention \/ PostDone
       PROVE UNCHANGED <<protocol, currentUser, running>>
  BY <1>11 DEF IteratorFails, TopicDone, NextMention, PostDone, userVars, connVars
<1>12. ASSUME UNCHANGED vars PROVE UNCHANGED <<protocol, currentUser, running>>
  BY <1>12 DEF vars, userVars, connVars
<1>13. MentionLists # {}
  <2>1. 0 \in 0..MaxMentions OBVIOUS
  <2>2. [i \in 1..0 |-> SERVER_TOPIC_NAME] \in MentionLists
    BY <2>1 DEF MentionLists, TopicNames
  <2> QED BY <2>2
<1> QED
  BY <1>1, <1>2, <1>3, <1>4, <1>5, <1>6, <1>7, <1>8, <1>9, <1>10, <1>11, <1>12, <1>13
  DEF Next, PostStep, Terminated

\* The invariant about sessions holds in every behaviour.
LEMMA SessionInvariant == Spec => []SessionInv
<1>1. Init => SingleSession /\ AuthorizedConnected
  BY DEF Init, SingleSession, AuthorizedConnected, isAuthorized
<1>2. SubscriptionInv /\ SingleSession /\ AuthorizedConnected => SessionInv BY DEF SessionInv
<1> QED BY <1>1, <1>2, SubscriptionInvariant, SessionStep, PTL DEF Spec

\* While the server runs no two connections are logged in as one user.
THEOREM SingleSessionHolds == Spec => []SingleSession
<1>1. SessionInv => SingleSession BY DEF SessionInv
<1> QED BY <1>1, SessionInvariant, PTL

\* While the server runs nobody can log out the user of another connection.
THEOREM AuthorizedConnectedHolds == Spec => []AuthorizedConnected
<1>1. SessionInv => AuthorizedConnected BY DEF SessionInv
<1> QED BY <1>1, SessionInvariant, PTL

-----------------------------------------------------------------------------
(* Queues                                                                  *)

\* Nothing is sent to a name before it is registered.
UnregisteredGetsNothing ==
    \A n \in Names : password[n] = None => messages[n] = <<>> /\ n \notin post.todo

QueueInv ==
    /\ SessionInv
    /\ UnregisteredGetsNothing
    /\ QueuedOnlyOffline
    /\ HeldOnlyUnauthorized
    /\ OfflineMatchesSubscriptions

\* A message that waits for n matches n's subscriptions.
Matches(n, m) ==
    m.sub # None => /\ subscribedTopics[n][m.sub] # None
                    /\ TopicName(subscribedTopics[n][m.sub]) = m.topic

\* A step that delivers nothing, opens no connection, connects no user that has
\* messages waiting and changes subscriptions of users with an empty queue only
\* keeps the invariant about queues.
LEMMA FrameQueues ==
    ASSUME QueueInv,
           UNCHANGED <<messages, messagesQueue>>,
           running' => running,
           \A n \in Names : messages[n] # <<>> /\ protocol[n] = None => protocol'[n] = None,
           running => \A n \in Names : messages[n] # <<>> => subscribedTopics'[n] = subscribedTopics[n],
           \A c \in Conns : status'[c] = "open" => status[c] = "open" /\ currentUser'[c] = currentUser[c]
    PROVE  QueuedOnlyOffline' /\ HeldOnlyUnauthorized' /\ OfflineMatchesSubscriptions'
<1>1. QueuedOnlyOffline'
  BY DEF QueueInv, QueuedOnlyOffline, isConnected
<1>2. HeldOnlyUnauthorized'
  BY DEF QueueInv, HeldOnlyUnauthorized, isAuthorized
<1>3. OfflineMatchesSubscriptions'
  <2> SUFFICES ASSUME running', NEW n \in Names, NEW k \in DOMAIN messages[n] PROVE Matches(n, messages[n][k])'
    BY DEF OfflineMatchesSubscriptions, Matches
  <2>1. messages[n] # <<>> OBVIOUS
  <2>2. Matches(n, messages[n][k]) BY DEF QueueInv, OfflineMatchesSubscriptions, Matches
  <2> QED BY <2>1, <2>2 DEF Matches
<1> QED BY <1>1, <1>2, <1>3

\* While the server runs, nothing waits for the user of a logged-in connection.
LEMMA NothingWaits ==
    ASSUME QueueInv, running, NEW c \in Conns, isAuthorized(c)
    PROVE  currentUser[c] \in Names /\ messages[currentUser[c]] = <<>>
<1>1. currentUser[c] \in Names BY DEF QueueInv, SessionInv, SubscriptionInv, TypeOK, isAuthorized
<1>2. isConnected(currentUser[c]) BY DEF QueueInv, SessionInv, AuthorizedConnected
<1> QED BY <1>1, <1>2 DEF QueueInv, QueuedOnlyOffline

\* User.send leaves a message waiting only if the user is offline, and the
\* message it leaves matches the user's subscriptions.
LEMMA VisitQueues ==
    ASSUME QueueInv, NEW n \in Names, Visit(n)
    PROVE  QueuedOnlyOffline' /\ HeldOnlyUnauthorized' /\ OfflineMatchesSubscriptions'
<1> DEFINE m == NewMessage(n)
<1>0. /\ TypeOK
      /\ UNCHANGED <<protocol, subscribedTopics, running, currentUser, status>>
  BY DEF QueueInv, SessionInv, SubscriptionInv, Visit
<1>1. CASE ~post.own /\ n \in post.delivered
  BY <1>0, <1>1, FrameQueues DEF Visit, Except
<1>2. CASE ~(~post.own /\ n \in post.delivered)
  <2>0. userSend(n, m) BY <1>2 DEF Visit, Except
  <2>1. Matches(n, m)
    <3>1. post.topic \in Topics BY <1>0 DEF TypeOK, Posts
    <3> QED BY <3>1, TopicFacts DEF NewMessage, QueueInv, SessionInv, SubscriptionInv, SubscriberHoldsId, Matches
  <2> HIDE DEF m
  <2>2. CASE isConnected(n)
    <3>0. protocol[n] \in Conns BY <1>0, <2>2 DEF TypeOK, isConnected
    <3>1. messages' = [messages EXCEPT ![n] = <<>>] BY <2>0, <2>2 DEF userSend
    <3>2. QueuedOnlyOffline'
      BY <1>0, <3>1 DEF QueueInv, QueuedOnlyOffline, isConnected, TypeOK
    <3>3. HeldOnlyUnauthorized'
      BY <1>0, <2>0, <2>2, <3>0 DEF userSend, Held, QueueInv, HeldOnlyUnauthorized, isAuthorized, TypeOK
    <3>4. OfflineMatchesSubscriptions'
      <4> SUFFICES ASSUME running', NEW u \in Names, NEW k \in DOMAIN messages'[u] PROVE Matches(u, messages[u][k])'
        BY DEF OfflineMatchesSubscriptions, Matches
      <4>1. u # n /\ messages'[u] = messages[u] BY <1>0, <3>1 DEF TypeOK
      <4>2. Matches(u, messages[u][k])
        BY <1>0, <4>1 DEF QueueInv, OfflineMatchesSubscriptions, Matches
      <4> QED BY <1>0, <4>1, <4>2 DEF Matches
    <3> QED BY <3>2, <3>3, <3>4
  <2>3. CASE ~isConnected(n)
    <3>1. messages' = [messages EXCEPT ![n] = Append(messages[n], m)] /\ messagesQueue' = messagesQueue
      BY <2>0, <2>3 DEF userSend
    <3>2. QueuedOnlyOffline'
      BY <1>0, <2>3, <3>1 DEF QueueInv, QueuedOnlyOffline, isConnected, TypeOK
    <3>3. HeldOnlyUnauthorized'
      BY <1>0, <3>1 DEF QueueInv, HeldOnlyUnauthorized, isAuthorized
    <3>4. OfflineMatchesSubscriptions'
      <4> SUFFICES ASSUME running', NEW u \in Names, NEW k \in DOMAIN messages'[u] PROVE Matches(u, messages[u][k])'
        BY DEF OfflineMatchesSubscriptions, Matches
      <4>1. ASSUME k \in DOMAIN messages[u], messages'[u][k] = messages[u][k] PROVE Matches(u, messages[u][k])'
        BY <1>0, <4>1 DEF QueueInv, OfflineMatchesSubscriptions, Matches
      <4>2. CASE u # n
        BY <1>0, <3>1, <4>1, <4>2 DEF TypeOK
      <4>3. CASE u = n
        <5>1. messages[n] \in Seq(Message) /\ messages'[u] = Append(messages[n], m)
          BY <1>0, <3>1, <4>3 DEF TypeOK
        <5>2. k \in 1..(Len(messages[n]) + 1) BY <5>1
        <5>3. CASE k = Len(messages[n]) + 1
          <6>1. messages'[u][k] = m BY <5>1, <5>3
          <6> QED BY <1>0, <2>1, <4>3, <6>1 DEF Matches
        <5>4. CASE k # Len(messages[n]) + 1
          <6>1. k \in DOMAIN messages[n] /\ messages'[u][k] = messages[n][k] BY <5>1, <5>2, <5>4
          <6> QED BY <4>1, <4>3, <6>1
        <5> QED BY <5>3, <5>4
      <4> QED BY <4>2, <4>3
    <3> QED BY <3>2, <3>3, <3>4
  <2> QED BY <2>2, <2>3
<1> QED BY <1>1, <1>2

\* A login empties both queues on the way to the client.
LEMMA LoginQueues ==
    ASSUME QueueInv, NEW c \in Conns, NEW n \in Names, NEW p \in Passwords,
           ConnectNew(c, n, p) \/ login(c, n, p)
    PROVE  QueuedOnlyOffline' /\ HeldOnlyUnauthorized' /\ OfflineMatchesSubscriptions'
<1> USE EngineAssumption
<1>0. /\ TypeOK /\ running' = running
      /\ protocol' = [protocol EXCEPT ![n] = c]
      /\ currentUser' = [currentUser EXCEPT ![c] = n]
      /\ status' = [status EXCEPT ![c] = IF @ = "closing" THEN "closed" ELSE @]
  BY DEF QueueInv, SessionInv, SubscriptionInv, ConnectNew, login, FrameDone
<1>1. \A m \in Names : m # n => messages'[m] = messages[m] /\ subscribedTopics'[m] = subscribedTopics[m]
  BY <1>0 DEF ConnectNew, login, TypeOK
<1>2. messages'[n] = <<>>
  BY <1>0 DEF ConnectNew, login, TypeOK, QueueInv, UnregisteredGetsNothing
<1>3. HeldOnlyUnauthorized'
  BY <1>0 DEF QueueInv, HeldOnlyUnauthorized, ConnectNew, login, Held, isAuthorized, TypeOK
<1>4. OfflineMatchesSubscriptions'
  <2> SUFFICES ASSUME running', NEW u \in Names, NEW k \in DOMAIN messages'[u] PROVE Matches(u, messages[u][k])'
    BY DEF OfflineMatchesSubscriptions, Matches
  <2>1. u # n BY <1>2
  <2>2. Matches(u, messages[u][k])
    BY <1>0, <1>1, <2>1 DEF QueueInv, OfflineMatchesSubscriptions, Matches
  <2> QED BY <1>1, <2>1, <2>2 DEF Matches
<1>5. QueuedOnlyOffline'
  BY <1>0, <1>1, <1>2 DEF QueueInv, QueuedOnlyOffline, isConnected, TypeOK
<1> QED BY <1>3, <1>4, <1>5

\* Only subscribers of the topic are visited, so nothing goes to a name that
\* nobody has registered.
LEMMA UnregisteredStep ==
    ASSUME QueueInv, SubscriptionInv', [Next]_vars
    PROVE  UnregisteredGetsNothing'
<1> USE EngineAssumption
<1>0. TypeOK /\ UnregisteredUnused BY DEF QueueInv, SessionInv, SubscriptionInv
<1>1. \A n \in Names : password'[n] = None => password[n] = None
  <2>1. ASSUME NEW c \in Conns, NEW u \in Names, NEW p \in Passwords, Connect(c, u, p)
        PROVE \A n \in Names : password'[n] = None => password[n] = None
    BY <1>0, <2>1 DEF Connect, ConnectNew, ConnectRejected, WrongPassword, login, userVars, TypeOK
  <2>2. CASE password' = password BY <2>2
  <2>3. ASSUME NEW n \in Names, Visit(n) PROVE password' = password BY <2>3 DEF Visit
  <2> QED BY <2>1, <2>2, <2>3
     DEF Next, Accept, Refuse, Subscribe, SubscribeError, subscribeTo, Unsubscribe, UnsubscribeError,
         unsubscribe, PostError, Tweet, ServerReport, ServerStop, Disconnect, PostStep, IteratorFails,
         TopicDone, NextMention, PostDone, Terminated, vars, userVars
<1>2. ASSUME NEW n \in Names, password[n] = None PROVE n \notin post'.todo
  <2>1. \A t \in Topics : n \notin SubscribersOf(t)
    BY <1>0, <1>2 DEF UnregisteredUnused, SubscribersOf
  <2>2. n \notin post.todo BY <1>2 DEF QueueInv, UnregisteredGetsNothing
  <2>3. ASSUME NEW ts PROVE Disturbs(ts).todo = post.todo
    BY <1>0 DEF Disturbs, TypeOK, Posts
  <2>4. ASSUME NEW c \in Conns, NEW mentions, Tweet(c, mentions) PROVE n \notin post'.todo
    <3>1. topics[currentUser[c]] \in Topics
      BY <1>0, <2>4 DEF Tweet, CanPost, isAuthorized, TypeOK, TopicNames
    <3> QED BY <2>1, <2>4, <3>1 DEF Tweet, StartTopic
  <2>5. ASSUME NEW c \in Conns, ServerReport(c) PROVE n \notin post'.todo
    BY <2>1, <2>5, TopicFacts DEF ServerReport, StartTopic, Topics
  <2>6. ASSUME NextMention PROVE n \notin post'.todo
    <3>1. Head(post.mentions) \in TopicNames BY <1>0, <2>6 DEF NextMention, TypeOK, Posts
    <3>2. CASE topics[Head(post.mentions)] = None
      BY <1>0, <2>2, <2>6, <3>2 DEF NextMention, TypeOK, Posts
    <3>3. CASE topics[Head(post.mentions)] # None
      <4>1. topics[Head(post.mentions)] \in Topics BY <1>0, <3>1, <3>3 DEF TypeOK
      <4> QED BY <2>1, <2>6, <3>3, <4>1 DEF NextMention, StartTopic
    <3> QED BY <3>2, <3>3
  <2>7. ASSUME NEW u \in Names, Visit(u) PROVE n \notin post'.todo
    BY <1>0, <2>2, <2>7 DEF Visit, TypeOK, Posts
  <2>8. ASSUME TopicDone PROVE n \notin post'.todo
    BY <1>0, <2>2, <2>8 DEF TopicDone, TypeOK, Posts
  <2>9. ASSUME IteratorFails \/ PostDone PROVE n \notin post'.todo
    BY <2>9 DEF IteratorFails, PostDone, NoPost
  <2>10. ASSUME NEW c \in Conns, NEW u \in Names, NEW p \in Passwords, Connect(c, u, p)
         PROVE n \notin post'.todo
    BY <2>2, <2>3, <2>10 DEF Connect, ConnectNew, ConnectRejected, WrongPassword, login
  <2>11. ASSUME NEW c \in Conns, NEW id \in SubIds, NEW name \in TopicNames,
                Subscribe(c, id, name) \/ Unsubscribe(c, id) PROVE n \notin post'.todo
    BY <2>2, <2>3, <2>11 DEF Subscribe, SubscribeError, subscribeTo, Unsubscribe,
                              UnsubscribeError, unsubscribe
  <2>12. CASE post' = post BY <2>2, <2>12
  <2>13. SERVER_TOPIC_NAME \in TopicNames BY DEF TopicNames
  <2> QED BY <2>4, <2>5, <2>6, <2>7, <2>8, <2>9, <2>10, <2>11, <2>12, <2>13
     DEF Next, Accept, Refuse, PostError, ServerStop, Disconnect, PostStep, Terminated, vars
<1>3. ASSUME NEW n \in Names, password[n] = None, password'[n] = None PROVE messages'[n] = <<>>
  <2>1. messages[n] = <<>> /\ n \notin post.todo BY <1>3 DEF QueueInv, UnregisteredGetsNothing
  <2>2. ASSUME NEW u \in Names, Visit(u) PROVE messages'[n] = <<>>
    <3>1. u # n BY <2>1, <2>2 DEF Visit
    <3> QED BY <1>0, <2>1, <2>2, <3>1 DEF Visit, userSend, TypeOK
  <2>3. ASSUME NEW c \in Conns, NEW u \in Names, NEW p \in Passwords, Connect(c, u, p)
        PROVE messages'[n] = <<>>
    BY <1>0, <2>1, <2>3 DEF Connect, ConnectNew, ConnectRejected, WrongPassword, login, userVars, TypeOK
  <2>4. CASE messages' = messages BY <2>1, <2>4
  <2> QED BY <2>2, <2>3, <2>4
     DEF Next, Accept, Refuse, Subscribe, SubscribeError, subscribeTo, Unsubscribe, UnsubscribeError,
         unsubscribe, PostError, Tweet, ServerReport, ServerStop, Disconnect, PostStep, IteratorFails,
         TopicDone, NextMention, PostDone, Terminated, vars, userVars
<1> QED BY <1>1, <1>2, <1>3 DEF UnregisteredGetsNothing

\* Every step keeps the invariant about queues.
LEMMA QueueStep == QueueInv /\ [Next]_vars => QueueInv'
<1> SUFFICES ASSUME QueueInv, [Next]_vars PROVE QueueInv' OBVIOUS
<1>0. SessionInv' /\ UnregisteredGetsNothing' /\ TypeOK
  BY SessionStep, UnregisteredStep DEF QueueInv, SessionInv, SubscriptionInv
<1> SUFFICES QueuedOnlyOffline' /\ HeldOnlyUnauthorized' /\ OfflineMatchesSubscriptions'
  BY <1>0 DEF QueueInv
<1> DEFINE Goal == QueuedOnlyOffline' /\ HeldOnlyUnauthorized' /\ OfflineMatchesSubscriptions'
<1>1. ASSUME NEW c \in Conns, Accept(c) PROVE Goal
  <2>1. messages' = messages /\ protocol' = protocol /\ subscribedTopics' = subscribedTopics /\ running' = running
    BY <1>1 DEF Accept, userVars
  <2>2. QueuedOnlyOffline' /\ OfflineMatchesSubscriptions'
    BY <2>1 DEF QueueInv, QueuedOnlyOffline, OfflineMatchesSubscriptions, isConnected
  <2>3. HeldOnlyUnauthorized'
    BY <1>0, <1>1 DEF Accept, QueueInv, HeldOnlyUnauthorized, isAuthorized, TypeOK
  <2> QED BY <2>2, <2>3
<1>2. ASSUME NEW c \in Conns, Refuse(c) PROVE Goal
  BY <1>0, <1>2, FrameQueues DEF Refuse, FrameDone, userVars, TypeOK
<1>3. ASSUME NEW c \in Conns, NEW n \in Names, NEW p \in Passwords, Connect(c, n, p) PROVE Goal
  <2>1. CASE ConnectNew(c, n, p) \/ login(c, n, p) BY <2>1, LoginQueues
  <2>2. CASE ConnectRejected(c, n, p)
    BY <1>0, <2>2, FrameQueues DEF ConnectRejected, FrameDone, isConnected, TypeOK
  <2>3. CASE WrongPassword(c, n, p)
    BY <1>0, <2>3, FrameQueues DEF WrongPassword, FrameDone, userVars, TypeOK
  <2> QED BY <1>3, <2>1, <2>2, <2>3 DEF Connect
<1>4. ASSUME NEW c \in Conns, NEW id \in SubIds, NEW name \in TopicNames, Subscribe(c, id, name)
      PROVE Goal
  <2>1. CASE SubscribeError(c, id, name)
    BY <1>0, <2>1, FrameQueues DEF SubscribeError, FrameDone, userVars, TypeOK
  <2>2. CASE subscribeTo(c, id, name)
    <3>1. \A n \in Names : n # currentUser[c] => subscribedTopics'[n] = subscribedTopics[n]
      BY <1>0, <2>2 DEF subscribeTo, TypeOK
    <3>2. running => \A n \in Names : messages[n] # <<>> => subscribedTopics'[n] = subscribedTopics[n]
      BY <1>4, <3>1, NothingWaits DEF Subscribe
    <3> QED BY <1>0, <2>2, <3>2, FrameQueues DEF subscribeTo, FrameDone, TypeOK
  <2> QED BY <1>4, <2>1, <2>2 DEF Subscribe
<1>5. ASSUME NEW c \in Conns, NEW id \in SubIds, Unsubscribe(c, id) PROVE Goal
  <2>1. CASE UnsubscribeError(c, id)
    BY <1>0, <2>1, FrameQueues DEF UnsubscribeError, FrameDone, userVars, TypeOK
  <2>2. CASE unsubscribe(c, id)
    <3>1. \A n \in Names : n # currentUser[c] => subscribedTopics'[n] = subscribedTopics[n]
      BY <1>0, <2>2 DEF unsubscribe, TypeOK
    <3>2. running => \A n \in Names : messages[n] # <<>> => subscribedTopics'[n] = subscribedTopics[n]
      BY <1>5, <3>1, NothingWaits DEF Unsubscribe
    <3> QED BY <1>0, <2>2, <3>2, FrameQueues DEF unsubscribe, FrameDone, TypeOK
  <2> QED BY <1>5, <2>1, <2>2 DEF Unsubscribe
<1>6. ASSUME NEW c \in Conns, NEW name \in TopicNames, PostError(c, name) PROVE Goal
  BY <1>0, <1>6, FrameQueues DEF PostError, FrameDone, userVars, TypeOK
<1>7. ASSUME NEW c \in Conns, NEW mentions \in MentionLists, Tweet(c, mentions) PROVE Goal
  BY <1>7, FrameQueues DEF Tweet, userVars, connVars
<1>8. ASSUME NEW c \in Conns, ServerReport(c) PROVE Goal
  BY <1>8, FrameQueues DEF ServerReport, userVars, connVars
<1>9. ASSUME NEW c \in Conns, ServerStop(c) PROVE Goal
  BY <1>0, <1>9, FrameQueues DEF ServerStop, Killed, TypeOK
<1>10. ASSUME NEW c \in Conns, Disconnect(c) PROVE Goal
  BY <1>0, <1>10, FrameQueues DEF Disconnect, TypeOK
<1>11. ASSUME NEW n \in Names, Visit(n) PROVE Goal
  BY <1>11, VisitQueues
<1>12. ASSUME IteratorFails PROVE Goal
  BY <1>0, <1>12, FrameQueues DEF IteratorFails, FrameDone, userVars, TypeOK
<1>13. ASSUME TopicDone PROVE Goal
  BY <1>13, FrameQueues DEF TopicDone, userVars, connVars
<1>14. ASSUME NextMention PROVE Goal
  BY <1>14, FrameQueues DEF NextMention, userVars, connVars
<1>15. ASSUME PostDone PROVE Goal
  BY <1>0, <1>15, FrameQueues DEF PostDone, FrameDone, userVars, TypeOK
<1>16. CASE UNCHANGED vars
  BY <1>16, FrameQueues DEF vars, userVars, connVars
<1> QED
  BY <1>1, <1>2, <1>3, <1>4, <1>5, <1>6, <1>7, <1>8, <1>9, <1>10, <1>11, <1>12, <1>13,
     <1>14, <1>15, <1>16 DEF Next, PostStep, Terminated

\* The invariant about queues holds in every behaviour.
LEMMA QueueInvariant == Spec => []QueueInv
<1>1. Init => UnregisteredGetsNothing /\ QueuedOnlyOffline /\ HeldOnlyUnauthorized /\ OfflineMatchesSubscriptions
  BY DEF Init, NoPost, UnregisteredGetsNothing, QueuedOnlyOffline, HeldOnlyUnauthorized, OfflineMatchesSubscriptions
<1>2. SessionInv /\ UnregisteredGetsNothing /\ QueuedOnlyOffline /\ HeldOnlyUnauthorized
        /\ OfflineMatchesSubscriptions => QueueInv
  BY DEF QueueInv
<1> QED BY <1>1, <1>2, SessionInvariant, QueueStep, PTL DEF Spec

\* Messages wait in a user's queue only while the user is offline.
THEOREM QueuedOnlyOfflineHolds == Spec => []QueuedOnlyOffline
<1>1. QueueInv => QueuedOnlyOffline BY DEF QueueInv
<1> QED BY <1>1, QueueInvariant, PTL

\* No open, logged-in connection holds messages back.
THEOREM HeldOnlyUnauthorizedHolds == Spec => []HeldOnlyUnauthorized
<1>1. QueueInv => HeldOnlyUnauthorized BY DEF QueueInv
<1> QED BY <1>1, QueueInvariant, PTL

\* What waits for an offline user matches the user's subscriptions.
THEOREM OfflineMatchesHolds == Spec => []OfflineMatchesSubscriptions
<1>1. QueueInv => OfflineMatchesSubscriptions BY DEF QueueInv
<1> QED BY <1>1, QueueInvariant, PTL

-----------------------------------------------------------------------------
(* Posts: the walk of TwitterEngine.send through topics and subscribers,   *)
(* which other connections' frames interleave with, and who may change a   *)
(* user's subscriptions                                                    *)

\* Between posts nothing is left over of the last one; during the walk through
\* the author's own topic the users served have one copy and the others none.
CopiesCounted ==
    /\ post.phase = "idle" => post.delivered = {} /\ \A n \in Names : copies[n] = 0
    /\ post.phase = "iterate" /\ post.own =>
        /\ post.todo \cap post.delivered = {}
        /\ \A n \in Names : n \notin post.delivered => copies[n] = 0

PostInv ==
    /\ SubscriptionInv
    /\ CopiesCounted
    /\ SubscriberGetsOneCopy
    /\ WalkCoversSubscribers

\* A step that only flags the iterator, if it changes the topic being walked
\* through, keeps the invariant about posts.
LEMMA FramePost ==
    ASSUME PostInv, NEW ts,
           post' = Disturbs(ts), copies' = copies,
           post.topic \in ts \/ SubscribersOf(post.topic)' = SubscribersOf(post.topic)
    PROVE  CopiesCounted' /\ SubscriberGetsOneCopy' /\ WalkCoversSubscribers'
<1>0. TypeOK BY DEF PostInv, SubscriptionInv
<1>1. /\ post'.phase = post.phase /\ post'.own = post.own /\ post'.topic = post.topic
      /\ post'.todo = post.todo /\ post'.delivered = post.delivered
      /\ post'.dirty = (post.dirty \/ (post.phase = "iterate" /\ post.topic \in ts))
  BY <1>0 DEF Disturbs, TypeOK, Posts
<1>2. CopiesCounted' BY <1>1 DEF PostInv, CopiesCounted
<1>3. SubscriberGetsOneCopy' BY <1>1 DEF PostInv, SubscriberGetsOneCopy
<1>4. WalkCoversSubscribers'
  <2> SUFFICES ASSUME (post.phase = "iterate" /\ post.own /\ ~post.dirty)'
               PROVE  (post.delivered \cup post.todo = SubscribersOf(post.topic))'
    BY DEF WalkCoversSubscribers
  <2>1. post.phase = "iterate" /\ post.own /\ ~post.dirty /\ post.topic \notin ts BY <1>1
  <2>2. SubscribersOf(post.topic)' = SubscribersOf(post.topic) BY <2>1
  <2>3. post.delivered \cup post.todo = SubscribersOf(post.topic)
    BY <2>1 DEF PostInv, WalkCoversSubscribers
  <2> QED BY <1>1, <2>2, <2>3
<1> QED BY <1>2, <1>3, <1>4

\* The same for a step that has nothing to do with the post.
LEMMA StillPost ==
    ASSUME PostInv, post' = post, copies' = copies, SubscribersOf(post.topic)' = SubscribersOf(post.topic)
    PROVE  CopiesCounted' /\ SubscriberGetsOneCopy' /\ WalkCoversSubscribers'
<1>1. Disturbs({}) = post
  BY DEF Disturbs, PostInv, SubscriptionInv, TypeOK, Posts
<1> QED BY <1>1, FramePost

\* A post starts from no copies and walks through all of the topic's subscribers.
LEMMA StartPost ==
    ASSUME PostInv, NEW c, NEW t \in Topics, NEW mentions, post.phase = "idle", copies' = copies,
           subscribers' = subscribers, post' = StartTopic(c, t, TRUE, {}, mentions)
    PROVE  CopiesCounted' /\ SubscriberGetsOneCopy' /\ WalkCoversSubscribers'
BY DEF PostInv, CopiesCounted, SubscriberGetsOneCopy, WalkCoversSubscribers, StartTopic, SubscribersOf

\* Visiting a subscriber moves it from the users to serve to those served; a
\* relay passes over the ones that the author's own topic served.
LEMMA VisitPost ==
    ASSUME PostInv, NEW n \in Names, Visit(n)
    PROVE  CopiesCounted' /\ SubscriberGetsOneCopy' /\ WalkCoversSubscribers'
<1>0. /\ TypeOK /\ post.phase = "iterate" /\ n \in post.todo /\ subscribers' = subscribers
      /\ post.delivered \in SUBSET Names /\ post.todo \in SUBSET Names
  BY DEF PostInv, SubscriptionInv, Visit, topicVars, TypeOK, Posts
<1>1. /\ post'.phase = "iterate" /\ post'.own = post.own /\ post'.topic = post.topic
      /\ post'.dirty = post.dirty /\ post'.todo = post.todo \ {n}
      /\ post'.delivered = IF post.own THEN post.delivered \cup {n} ELSE post.delivered
  BY <1>0 DEF Visit, Except, TypeOK, Posts
<1>2. copies \in [Names -> Nat] BY <1>0 DEF TypeOK
<1>3. CASE post.own
  <2>1. copies' = [copies EXCEPT ![n] = @ + 1] BY <1>3 DEF Visit, Except
  <2>2. copies[n] = 0 /\ n \notin post.delivered
    BY <1>0, <1>3 DEF PostInv, CopiesCounted
  <2>3. CopiesCounted'
    BY <1>0, <1>1, <1>2, <1>3, <2>1 DEF PostInv, CopiesCounted
  <2>4. SubscriberGetsOneCopy'
    BY <1>0, <1>1, <1>2, <1>3, <2>1, <2>2 DEF PostInv, SubscriberGetsOneCopy
  <2>5. WalkCoversSubscribers'
    BY <1>0, <1>1, <1>3 DEF PostInv, WalkCoversSubscribers, SubscribersOf
  <2> QED BY <2>3, <2>4, <2>5
<1>4. CASE ~post.own
  <2>1. \A m \in post.delivered : copies'[m] = copies[m]
    BY <1>0, <1>2, <1>4 DEF Visit, Except
  <2>2. CopiesCounted' /\ WalkCoversSubscribers' BY <1>1, <1>4 DEF CopiesCounted, WalkCoversSubscribers
  <2>3. SubscriberGetsOneCopy'
    BY <1>1, <1>4, <2>1 DEF PostInv, SubscriberGetsOneCopy
  <2> QED BY <2>2, <2>3
<1> QED BY <1>0, <1>3, <1>4 DEF TypeOK, Posts

\* SUBSCRIBE, UNSUBSCRIBE and login flag the walk they disturb; a new user's
\* topic is not one that is being walked through.
LEMMA ChangePost ==
    ASSUME PostInv, NEW c \in Conns,
           \/ \E n \in Names, p \in Passwords : Connect(c, n, p)
           \/ \E id \in SubIds, name \in TopicNames : Subscribe(c, id, name)
           \/ \E id \in SubIds : Unsubscribe(c, id)
    PROVE  CopiesCounted' /\ SubscriberGetsOneCopy' /\ WalkCoversSubscribers'
<1> USE EngineAssumption
<1>0. TypeOK /\ post.topic \in Topics BY DEF PostInv, SubscriptionInv, TypeOK, Posts
<1> DEFINE Goal == CopiesCounted' /\ SubscriberGetsOneCopy' /\ WalkCoversSubscribers'
<1>1. ASSUME NEW n \in Names, NEW p \in Passwords, Connect(c, n, p) PROVE Goal
  <2>1. CASE ConnectNew(c, n, p)
    <3>1. post.topic # n BY <2>1 DEF ConnectNew, PostInv, SubscriptionInv, UnregisteredUnused
    <3>2. subscribers'[post.topic] = subscribers[post.topic]
      BY <1>0, <2>1, <3>1 DEF ConnectNew, TypeOK
    <3>3. post' = post /\ copies' = copies BY <2>1 DEF ConnectNew
    <3> QED BY <3>2, <3>3, StillPost DEF SubscribersOf
  <2>2. CASE ConnectRejected(c, n, p) \/ WrongPassword(c, n, p)
    <3>1. post' = post /\ copies' = copies /\ subscribers' = subscribers
      BY <2>2 DEF ConnectRejected, WrongPassword, topicVars
    <3> QED BY <3>1, StillPost DEF SubscribersOf
  <2>3. CASE login(c, n, p)
    <3> DEFINE ts == {t \in ResetTopics(n) : subscribers[t][n] # None}
    <3>1. post' = Disturbs(ts) /\ copies' = copies BY <2>3 DEF login
    <3>2. subscribers'[post.topic] = IF post.topic \in ResetTopics(n)
                THEN [subscribers[post.topic] EXCEPT ![n] = None] ELSE subscribers[post.topic]
      BY <1>0, <2>3 DEF login
    <3>3. post.topic \in ts \/ SubscribersOf(post.topic)' = SubscribersOf(post.topic)
      BY <1>0, <3>1, <3>2 DEF SubscribersOf, TypeOK, Disturbs, Posts
    <3> HIDE DEF ts
    <3> QED BY <3>1, <3>3, FramePost
  <2> QED BY <1>1, <2>1, <2>2, <2>3 DEF Connect
<1>2. ASSUME NEW id \in SubIds, NEW name \in TopicNames, Subscribe(c, id, name) PROVE Goal
  <2>1. CASE SubscribeError(c, id, name)
    <3>1. post' = post /\ copies' = copies /\ subscribers' = subscribers
      BY <2>1 DEF SubscribeError, topicVars
    <3> QED BY <3>1, StillPost DEF SubscribersOf
  <2>2. CASE subscribeTo(c, id, name)
    <3> DEFINE n == currentUser[c]
               t == topics[name]
               ts == IF subscribers[t][n] = None THEN {t} ELSE {}
    <3>1. /\ post' = Disturbs(ts) /\ copies' = copies
          /\ subscribers' = [subscribers EXCEPT ![t][n] = id]
      BY <2>2 DEF subscribeTo, addSubscriber
    <3>2. n \in Names /\ t \in Topics
      BY <1>0, <1>2, <2>2 DEF Subscribe, subscribeTo, isAuthorized, TypeOK
    <3>3. ts = {t} \/ subscribers[t][n] # None OBVIOUS
    <3> HIDE DEF n, t, ts
    <3>4. \A m \in Names : subscribers'[post.topic][m] =
                IF post.topic = t /\ m = n THEN id ELSE subscribers[post.topic][m]
      BY <1>0, <3>1, <3>2 DEF TypeOK
    <3>5. post'.topic = post.topic BY <1>0, <3>1 DEF Disturbs, TypeOK, Posts
    <3>6. post.topic \in ts \/ SubscribersOf(post.topic)' = SubscribersOf(post.topic)
      BY <3>3, <3>4, <3>5 DEF SubscribersOf
    <3> QED BY <3>1, <3>6, FramePost
  <2> QED BY <1>2, <2>1, <2>2 DEF Subscribe
<1>3. ASSUME NEW id \in SubIds, Unsubscribe(c, id) PROVE Goal
  <2>1. CASE UnsubscribeError(c, id)
    <3>1. post' = post /\ copies' = copies /\ subscribers' = subscribers
      BY <2>1 DEF UnsubscribeError, topicVars
    <3> QED BY <3>1, StillPost DEF SubscribersOf
  <2>2. CASE unsubscribe(c, id)
    <3> DEFINE n == currentUser[c]
               t == subscribedTopics[n][id]
               ts == IF subscribers[t][n] # None THEN {t} ELSE {}
    <3>1. /\ post' = Disturbs(ts) /\ copies' = copies
          /\ subscribers' = [subscribers EXCEPT ![t][n] = None]
      BY <2>2 DEF unsubscribe, removeSubscriber
    <3>2. n \in Names /\ t \in Topics
      BY <1>0, <1>3, <2>2 DEF Unsubscribe, unsubscribe, isAuthorized, TypeOK
    <3>3. ts = {t} \/ subscribers[t][n] = None OBVIOUS
    <3> HIDE DEF n, t, ts
    <3>4. \A m \in Names : subscribers'[post.topic][m] =
                IF post.topic = t /\ m = n THEN None ELSE subscribers[post.topic][m]
      BY <1>0, <3>1, <3>2 DEF TypeOK
    <3>5. post'.topic = post.topic BY <1>0, <3>1 DEF Disturbs, TypeOK, Posts
    <3>6. post.topic \in ts \/ SubscribersOf(post.topic)' = SubscribersOf(post.topic)
      BY <3>3, <3>4, <3>5 DEF SubscribersOf
    <3> QED BY <3>1, <3>6, FramePost
  <2> QED BY <1>3, <2>1, <2>2 DEF Unsubscribe
<1> QED BY <1>1, <1>2, <1>3

\* Every step keeps the invariant about posts.
LEMMA PostInvStep == PostInv /\ [Next]_vars => PostInv'
<1> SUFFICES ASSUME PostInv, [Next]_vars PROVE PostInv' OBVIOUS
<1>0. SubscriptionInv' /\ TypeOK BY SubscriptionStep DEF PostInv, SubscriptionInv
<1> DEFINE Goal == CopiesCounted' /\ SubscriberGetsOneCopy' /\ WalkCoversSubscribers'
<1> SUFFICES Goal BY <1>0 DEF PostInv
<1>1. CASE \E c \in Conns :
             \/ \E n \in Names, p \in Passwords : Connect(c, n, p)
             \/ \E id \in SubIds, name \in TopicNames : Subscribe(c, id, name)
             \/ \E id \in SubIds : Unsubscribe(c, id)
  BY <1>1, ChangePost
<1>2. ASSUME NEW c \in Conns, NEW mentions \in MentionLists, Tweet(c, mentions) PROVE Goal
  <2>1. topics[currentUser[c]] \in Topics
    BY <1>0, <1>2 DEF Tweet, CanPost, isAuthorized, TypeOK, TopicNames
  <2> QED BY <1>2, <2>1, StartPost DEF Tweet, CanPost, topicVars
<1>3. ASSUME NEW c \in Conns, ServerReport(c) PROVE Goal
  <2>1. ServerTopic \in Topics BY DEF Topics
  <2> QED BY <1>3, <2>1, StartPost DEF ServerReport, CanPost, topicVars
<1>4. ASSUME NEW n \in Names, Visit(n) PROVE Goal
  BY <1>4, VisitPost
<1>5. ASSUME IteratorFails \/ PostDone PROVE Goal
  BY <1>5 DEF IteratorFails, PostDone, NoPost, CopiesCounted, SubscriberGetsOneCopy, WalkCoversSubscribers
<1>6. ASSUME TopicDone PROVE Goal
  <2>1. post'.phase = "between" /\ post'.delivered = post.delivered /\ copies' = copies
    BY <1>0, <1>6 DEF TopicDone, TypeOK, Posts
  <2> QED BY <2>1 DEF PostInv, CopiesCounted, SubscriberGetsOneCopy, WalkCoversSubscribers
<1>7. ASSUME NextMention PROVE Goal
  <2>1. /\ post'.phase = "between" \/ (post'.phase = "iterate" /\ ~post'.own)
        /\ post'.delivered = post.delivered /\ copies' = copies
    BY <1>0, <1>7 DEF NextMention, StartTopic, TypeOK, Posts
  <2> QED BY <2>1 DEF PostInv, CopiesCounted, SubscriberGetsOneCopy, WalkCoversSubscribers
<1>8. CASE UNCHANGED <<post, copies, subscribers>>
  BY <1>8, StillPost DEF SubscribersOf
<1> QED
  BY <1>1, <1>2, <1>3, <1>4, <1>5, <1>6, <1>7, <1>8
  DEF Next, PostStep, Terminated, Accept, Refuse, PostError, ServerStop, Disconnect, vars, topicVars

\* The invariant about posts holds in every behaviour.
LEMMA PostInvariant == Spec => []PostInv
<1>1. Init => CopiesCounted /\ SubscriberGetsOneCopy /\ WalkCoversSubscribers
  BY DEF Init, NoPost, CopiesCounted, SubscriberGetsOneCopy, WalkCoversSubscribers
<1>2. SubscriptionInv /\ CopiesCounted /\ SubscriberGetsOneCopy /\ WalkCoversSubscribers => PostInv
  BY DEF PostInv
<1> QED BY <1>1, <1>2, SubscriptionInvariant, PostInvStep, PTL DEF Spec

\* Every subscriber whom the author's topic serves gets exactly one copy,
\* whatever the mentions and whatever the other connections do meanwhile.
THEOREM OneCopyHolds == Spec => []SubscriberGetsOneCopy
<1>1. PostInv => SubscriberGetsOneCopy BY DEF PostInv
<1> QED BY <1>1, PostInvariant, PTL

\* An undisturbed walk through the author's topic leaves no subscriber out.
THEOREM WalkCoversHolds == Spec => []WalkCoversSubscribers
<1>1. PostInv => WalkCoversSubscribers BY DEF PostInv
<1> QED BY <1>1, PostInvariant, PTL

-----------------------------------------------------------------------------
(* Who changes subscriptions                                               *)

OwnerStep == \A n \in Names : SubscriptionsChange(n) => \E c \in Conns : currentUser'[c] = n

\* A step that changes a user's subscriptions is taken by a connection that is
\* logged in as the user after it.
LEMMA OwnerStepHolds == SubscriptionInv /\ [Next]_vars => OwnerStep
<1> SUFFICES ASSUME SubscriptionInv, [Next]_vars PROVE OwnerStep OBVIOUS
<1> USE EngineAssumption
<1>0. TypeOK BY DEF SubscriptionInv
<1>1. ASSUME NEW c \in Conns, NEW u \in Names, NEW p \in Passwords, Connect(c, u, p) PROVE OwnerStep
  <2> SUFFICES ASSUME NEW n \in Names, n # u PROVE ~SubscriptionsChange(n) \/ \E d \in Conns : currentUser'[d] = n
    <3>1. SubscriptionsChange(u) => currentUser'[c] = u
      BY <1>0, <1>1 DEF Connect, ConnectNew, ConnectRejected, WrongPassword, login,
                        SubscriptionsChange, userVars, topicVars, TypeOK
    <3> QED BY <3>1 DEF OwnerStep
  <2>1. CASE ConnectNew(c, u, p)
    BY <1>0, <2>1 DEF ConnectNew, OnlySubscriber, SubscriptionsChange, SubscriptionInv, UnregisteredUnused, TypeOK
  <2>2. CASE ConnectRejected(c, u, p) \/ WrongPassword(c, u, p)
    BY <2>2 DEF ConnectRejected, WrongPassword, SubscriptionsChange, userVars, topicVars
  <2>3. CASE login(c, u, p)
    BY <1>0, <2>3 DEF login, SubscriptionsChange, TypeOK
  <2> QED BY <1>1, <2>1, <2>2, <2>3 DEF Connect
<1>2. ASSUME NEW c \in Conns, NEW id \in SubIds, NEW name \in TopicNames, Subscribe(c, id, name)
      PROVE OwnerStep
  <2>1. currentUser' = currentUser /\ currentUser[c] \in Names
    BY <1>0, <1>2 DEF Subscribe, SubscribeError, subscribeTo, isAuthorized, TypeOK
  <2>2. \A n \in Names : n # currentUser[c] => ~SubscriptionsChange(n)
    BY <1>0, <1>2, <2>1 DEF Subscribe, SubscribeError, subscribeTo, addSubscriber, SubscriptionsChange, userVars, topicVars, TypeOK
  <2> QED BY <2>1, <2>2 DEF OwnerStep
<1>3. ASSUME NEW c \in Conns, NEW id \in SubIds, Unsubscribe(c, id) PROVE OwnerStep
  <2>1. currentUser' = currentUser /\ currentUser[c] \in Names
    BY <1>0, <1>3 DEF Unsubscribe, UnsubscribeError, unsubscribe, isAuthorized, TypeOK
  <2>2. \A n \in Names : n # currentUser[c] => ~SubscriptionsChange(n)
    BY <1>0, <1>3, <2>1 DEF Unsubscribe, UnsubscribeError, unsubscribe, removeSubscriber, SubscriptionsChange, userVars, topicVars, TypeOK
  <2> QED BY <2>1, <2>2 DEF OwnerStep
<1>4. CASE UNCHANGED <<subscribedTopics, subscribers>>
  BY <1>4 DEF OwnerStep, SubscriptionsChange
<1>5. ASSUME NEW n \in Names, Visit(n) PROVE UNCHANGED <<subscribedTopics, subscribers>>
  BY <1>5 DEF Visit, topicVars
<1> QED
  BY <1>1, <1>2, <1>3, <1>4, <1>5
  DEF Next, PostStep, Terminated, Accept, Refuse, PostError, Tweet, ServerReport, ServerStop, Disconnect,
      IteratorFails, TopicDone, NextMention, PostDone, vars, userVars, topicVars

\* Only its own connection ever changes a user's subscriptions.
THEOREM OnlyOwnerHolds == Spec => OnlyOwnerChangesSubscriptions
<1>1. SubscriptionInv /\ [Next]_vars => [OwnerStep]_vars BY OwnerStepHolds
<1>2. [][OwnerStep]_vars <=> OnlyOwnerChangesSubscriptions
  BY DEF OwnerStep, OnlyOwnerChangesSubscriptions
<1> QED BY <1>1, <1>2, SubscriptionInvariant, PTL DEF Spec

=============================================================================
