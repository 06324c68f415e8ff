---------------------------- MODULE ClientProofs ----------------------------
(***************************************************************************)
(* Client for any set of names and any number of logins and commands: the  *)
(* client's map agrees with the server's subscriptions, the listener's     *)
(* guess about an answer is right, and no listener reads a connection that *)
(* is not its own.                                                         *)
(***************************************************************************)
EXTENDS Client, FiniteSetTheorems, SequenceTheorems, TLAPS

-----------------------------------------------------------------------------
(* The inductive invariant                                                 *)

Running == process = "running"
KeyboardSends(type) == keyboard.pc = "send" /\ keyboard.frame.type = type
Has(frames, type) == \E i \in DOMAIN frames : frames[i].type = type

\* There is one connection in use at most, that of the last login; a session and
\* a frame that is being sent belong to it.
ConnectionInv ==
    /\ connection \in {0, logins}
    /\ connected => connection # 0
    /\ session \in {0, logins}
    /\ session # 0 => connected
    /\ keyboard.pc = "send" => connected \/ connection = 0

\* The listeners of earlier logins have nothing to do but to see that they were
\* interrupted.
ListenersInv ==
    \A l \in Logins :
        /\ l > logins <=> listener[l].pc = "none"
        /\ listener[l].pc \in {"use", "read", "visit", "count"} => l = logins /\ connected
        /\ listener[l].pc = "read" => listener[l].on = l
        /\ listener[l].pc = "loop" => l \in interrupted \/ (l = logins /\ connection # 0)

\* What is asked on a connection that is not in use any more is never answered,
\* and a RECEIPT comes with the end of the connection.
NetInv ==
    \A l \in Logins :
        /\ l > logins => toClient[l] = <<>>
        /\ ~(l = logins /\ connected) => toServer[l] = <<>> \/ Has(toClient[l], "EOF")
        /\ Has(toClient[l], "EOF") => session # l
        /\ Has(toClient[l], "RECEIPT") => Has(toClient[l], "EOF")
        /\ listener[l].pc = "visit" /\ listener[l].frame.type = "RECEIPT" => Has(toClient[l], "EOF")

\* CONNECT is the first frame on a connection, and there is only one.
Others == {f \in AnyFrame : f.type # "CONNECT"}
LoggingIn == KeyboardSends("CONNECT") \/ Has(toServer[logins], "CONNECT")
LoginInv ==
    connected =>
        /\ toServer[logins] # <<>> => Tail(toServer[logins]) \in Seq(Others)
        /\ KeyboardSends("CONNECT") => toServer[logins] = <<>>
        /\ LoggingIn => session = 0

\* Subscriptions are asked for and ended by id.
Requests == {f \in AnyFrame : f.type \in {"SUBSCRIBE", "UNSUBSCRIBE"} => f.id \in Ids}
RequestInv ==
    /\ \A l \in Logins : toServer[l] \in Seq(Requests)
    /\ keyboard.frame \in Requests

\* The counter is ahead of the map, except between registerSubscription's two
\* statements.
Counting == \E l \in Logins : listener[l].pc = "count"
MapInv ==
    /\ subscriptions[Me] \in {NoId, 0}
    /\ \A n \in Names : subscriptions[n] <= unique_identifier + 1
    /\ ~Counting => \A n \in Names : subscriptions[n] <= unique_identifier
    /\ logins = 0 => \A n \in Names : subscriptions[n] = NoId

\* The counter is advanced by the user's own subscription and by commands that
\* were answered.
Wants(f) == f.type \in {"SUBSCRIBE", "following"}
Wanted(frames) == Cardinality({i \in DOMAIN frames : Wants(frames[i])})
One(b) == IF b THEN 1 ELSE 0
Expected ==
    Wanted(toServer[logins]) + Wanted(toClient[logins])
      + One(keyboard.pc = "send" /\ Wants(keyboard.frame))
      + One(listener[logins].pc = "visit" /\ Wants(listener[logins].frame))
      + One(listener[logins].pc = "count")
CountInv ==
    unique_identifier + One(subscriptions[Me] = NoId) + (IF connected THEN Expected ELSE 0) <= commands + 1

\* What a client knows of its login: who it follows under each id, and whether
\* it was told that it is connected.
View == [topics : [Ids -> Names \cup {NoName}], open : BOOLEAN]
Nobody == [i \in Ids |-> NoName]

\* What frame f makes of the view v, if it is a frame that the server may send
\* to a client that has this view.
Learns(v, f, w) ==
    /\ f.type = "following" =>
         /\ f.id \in Ids /\ f.name \in Names
         /\ v.topics[f.id] = NoName /\ \A i \in Ids : v.topics[i] # f.name
         /\ w = [v EXCEPT !.topics = [@ EXCEPT ![f.id] = f.name]]
    /\ f.type = "unfollowing" =>
         /\ f.id \in Ids /\ f.name \in Names
         /\ v.topics[f.id] = f.name
         /\ w = [v EXCEPT !.topics = [@ EXCEPT ![f.id] = NoName]]
    /\ f.type = "CONNECTED" => w = [v EXCEPT !.open = TRUE]
    /\ f.type = "tweet" => v.open
    /\ f.type \notin {"following", "unfollowing", "CONNECTED"} => w = v

\* These frames take a client from view u to view w, through views in W.
Leads(W, u, frames, w) ==
    \E V \in [0..Len(frames) -> W] :
        /\ V[0] = u /\ V[Len(frames)] = w
        /\ \A k \in 1..Len(frames) : Learns(V[k - 1], frames[k], V[k])

\* What an earlier login left in the map: users whose ids are lower than all that
\* are handed out in this one.
Fresh(stale, id, n) ==
    id \in 1..(unique_identifier + 1) /\ n \notin stale /\ \A m \in stale : subscriptions[m] < id
FreshViews(stale) ==
    {v \in View : \A i \in Ids : v.topics[i] # NoName => Fresh(stale, i, v.topics[i])}
FreshFrames(stale) ==
    {f \in AnyFrame : f.type = "SUBSCRIBE" => f.name \in Names /\ Fresh(stale, f.id, f.name)}

\* The map is a view and what an earlier login left.
Knows(stale, now) ==
    /\ now.open => writer
    /\ \A n \in Names \ stale : subscriptions[n] # NoId => now.topics[subscriptions[n]] = n
    /\ \A i \in Ids : now.topics[i] # NoName => subscriptions[now.topics[i]] = i
    /\ \A m \in stale : subscriptions[m] \in 0..unique_identifier
    /\ logins = 1 => stale = {}

\* The frame that the listener has at hand and those on the wire lead from what
\* the client knows to what the server has.
Agree(stale, now, next, last) ==
    /\ Knows(stale, now)
    /\ IF listener[logins].pc = "visit" THEN Learns(now, listener[logins].frame, next) ELSE next = now
    /\ Leads(FreshViews(stale), next, toClient[logins], last)
    /\ session # 0 => last.topics = topics /\ last.open
    /\ LoggingIn => last.topics = Nobody
    /\ toServer[logins] \in Seq(FreshFrames(stale))
    /\ keyboard.pc = "send" => keyboard.frame \in FreshFrames(stale)
AgreeInv ==
    connected => \E stale \in SUBSET Names :
                   \E now, next, last \in FreshViews(stale) : Agree(stale, now, next, last)

RunInv ==
    /\ ConnectionInv /\ ListenersInv /\ NetInv /\ LoginInv /\ RequestInv
    /\ MapInv /\ CountInv /\ AgreeInv

IInv == TypeOK /\ process # "listener" /\ (Running => RunInv)

-----------------------------------------------------------------------------
(* Sequences of frames                                                     *)

LEMMA AppendFrames ==
    ASSUME NEW s \in Seq(AnyFrame), NEW f \in AnyFrame
    PROVE  /\ Append(s, f) \in Seq(AnyFrame) /\ Append(s, f) # <<>>
           /\ Len(Append(s, f)) = Len(s) + 1 /\ Len(s) \in Nat
           /\ DOMAIN Append(s, f) = DOMAIN s \cup {Len(s) + 1} /\ DOMAIN s = 1..Len(s)
           /\ \A i \in DOMAIN s : Append(s, f)[i] = s[i]
           /\ Append(s, f)[Len(s) + 1] = f
           /\ s \o <<f>> = Append(s, f)
OBVIOUS

LEMMA TailFrames ==
    ASSUME NEW s \in Seq(AnyFrame), s # <<>>
    PROVE  /\ Head(s) \in AnyFrame /\ Head(s) = s[1] /\ Tail(s) \in Seq(AnyFrame)
           /\ Len(Tail(s)) = Len(s) - 1 /\ Len(s) \in Nat \ {0}
           /\ DOMAIN s = 1..Len(s) /\ DOMAIN Tail(s) = 1..(Len(s) - 1)
           /\ \A i \in 1..(Len(s) - 1) : Tail(s)[i] = s[i + 1]
OBVIOUS

\* What kinds of frames there are.
LEMMA HasEmpty == ASSUME NEW type PROVE ~Has(<<>>, type)
BY DEF Has

LEMMA HasAppend ==
    ASSUME NEW s \in Seq(AnyFrame), NEW f \in AnyFrame, NEW type
    PROVE  Has(Append(s, f), type) <=> Has(s, type) \/ f.type = type
BY AppendFrames DEF Has

LEMMA HasTail ==
    ASSUME NEW s \in Seq(AnyFrame), s # <<>>, NEW type
    PROVE  Has(s, type) <=> Head(s).type = type \/ Has(Tail(s), type)
<1>1. ASSUME Has(s, type) PROVE Head(s).type = type \/ Has(Tail(s), type)
  <2>1. PICK i \in 1..Len(s) : s[i].type = type
    BY <1>1, TailFrames DEF Has
  <2>2. CASE i = 1
    BY <2>1, <2>2, TailFrames
  <2>3. CASE i # 1
    <3>1. i - 1 \in DOMAIN Tail(s) /\ Tail(s)[i - 1] = s[i]
      BY <2>1, <2>3, TailFrames
    <3> QED BY <2>1, <3>1 DEF Has
  <2> QED BY <2>2, <2>3
<1>2. ASSUME Head(s).type = type PROVE Has(s, type)
  BY <1>2, TailFrames DEF Has
<1>3. ASSUME Has(Tail(s), type) PROVE Has(s, type)
  <2>1. PICK i \in 1..(Len(s) - 1) : s[i + 1].type = type
    BY <1>3, TailFrames DEF Has
  <2>2. i + 1 \in DOMAIN s
    BY <2>1, TailFrames
  <2> QED BY <2>1, <2>2 DEF Has
<1> QED BY <1>1, <1>2, <1>3

LEMMA HasOthers ==
    ASSUME NEW s \in Seq(AnyFrame)
    PROVE  s \in Seq(Others) <=> ~Has(s, "CONNECT")
<1>1. ASSUME s \in Seq(Others) PROVE ~Has(s, "CONNECT")
  BY <1>1 DEF Has, Others
<1>2. ASSUME ~Has(s, "CONNECT") PROVE s \in Seq(Others)
  <2>1. Len(s) \in Nat /\ s \in [1..Len(s) -> AnyFrame] /\ DOMAIN s = 1..Len(s)
    OBVIOUS
  <2>2. \A i \in 1..Len(s) : s[i] \in Others
    BY <1>2, <2>1 DEF Has, Others
  <2>3. s \in [1..Len(s) -> Others]
    BY <2>1, <2>2
  <2> QED BY <2>1, <2>3, SeqDef
<1> QED BY <1>1, <1>2

\* How many new subscriptions they bring.
LEMMA WantedEmpty == Wanted(<<>>) = 0
<1>1. {i \in DOMAIN <<>> : Wants(<<>>[i])} = {}
  OBVIOUS
<1> QED BY <1>1, FS_EmptySet DEF Wanted

LEMMA WantedFinite ==
    ASSUME NEW s \in Seq(AnyFrame)
    PROVE  IsFiniteSet({i \in DOMAIN s : Wants(s[i])}) /\ Wanted(s) \in Nat
<1>1. Len(s) \in Nat /\ DOMAIN s = 1..Len(s)
  OBVIOUS
<1>2. IsFiniteSet(1..Len(s))
  BY <1>1, FS_Interval
<1>3. {i \in DOMAIN s : Wants(s[i])} \subseteq 1..Len(s)
  BY <1>1
<1>4. IsFiniteSet({i \in DOMAIN s : Wants(s[i])})
  BY <1>2, <1>3, FS_Subset
<1> QED BY <1>4, FS_CardinalityType DEF Wanted

LEMMA WantedAppend ==
    ASSUME NEW s \in Seq(AnyFrame), NEW f \in AnyFrame
    PROVE  Wanted(Append(s, f)) = Wanted(s) + One(Wants(f))
<1> DEFINE S == {i \in DOMAIN s : Wants(s[i])}
           T == {i \in DOMAIN Append(s, f) : Wants(Append(s, f)[i])}
<1>1. IsFiniteSet(S) /\ Cardinality(S) = Wanted(s) /\ Cardinality(T) = Wanted(Append(s, f)) /\ Wanted(s) \in Nat
  BY WantedFinite DEF Wanted
<1>2. Len(s) + 1 \notin S
  BY AppendFrames
<1>3. CASE Wants(f)
  <2>1. T = S \cup {Len(s) + 1}
    BY <1>3, AppendFrames
  <2>2. Cardinality(S \cup {Len(s) + 1}) = Cardinality(S) + 1
    BY <1>1, <1>2, FS_AddElement
  <2> QED BY <1>1, <1>3, <2>1, <2>2 DEF One
<1>4. CASE ~Wants(f)
  <2>1. T = S
    BY <1>4, AppendFrames
  <2> HIDE DEF S, T
  <2> QED BY <1>1, <1>4, <2>1 DEF One
<1> QED BY <1>3, <1>4

LEMMA WantedTail ==
    ASSUME NEW s \in Seq(AnyFrame), s # <<>>
    PROVE  Wanted(s) = Wanted(Tail(s)) + One(Wants(Head(s)))
<1> DEFINE S == {i \in DOMAIN s : Wants(s[i])}
           T == {i \in DOMAIN Tail(s) : Wants(Tail(s)[i])}
           R == {i \in S : i # 1}
           g == [i \in T |-> i + 1]
<1>1. IsFiniteSet(S) /\ IsFiniteSet(T) /\ Cardinality(S) = Wanted(s) /\ Cardinality(T) = Wanted(Tail(s))
      /\ Wanted(Tail(s)) \in Nat
  BY WantedFinite, TailFrames DEF Wanted
<1>2. g \in Bijection(T, R)
  <2>1. \A i \in T : i + 1 \in R
    BY TailFrames
  <2>2. \A i, j \in T : i + 1 = j + 1 => i = j
    BY TailFrames
  <2>3. \A j \in R : \E i \in T : i + 1 = j
    <3> SUFFICES ASSUME NEW j \in R PROVE \E i \in T : i + 1 = j
      OBVIOUS
    <3>1. j - 1 \in 1..(Len(s) - 1) /\ (j - 1) + 1 = j /\ Wants(s[j])
      BY TailFrames
    <3>2. j - 1 \in T
      BY <3>1, TailFrames
    <3> QED BY <3>1, <3>2
  <2>4. g \in Injection(T, R)
    BY <2>1, <2>2 DEF Injection, IsInjective
  <2>5. g \in Surjection(T, R)
    BY <2>1, <2>3 DEF Surjection
  <2> QED BY <2>4, <2>5 DEF Bijection
<1>3. Cardinality(R) = Cardinality(T) /\ IsFiniteSet(R)
  <2> HIDE DEF T, R, g
  <2>1. ExistsBijection(T, R)
    BY <1>2 DEF ExistsBijection
  <2> QED BY <1>1, <2>1, FS_Bijection
<1>4. CASE Wants(Head(s))
  <2>1. S = R \cup {1} /\ 1 \notin R
    BY <1>4, TailFrames
  <2>2. Cardinality(R \cup {1}) = Cardinality(R) + 1
    BY <1>3, <2>1, FS_AddElement
  <2> QED BY <1>1, <1>3, <1>4, <2>1, <2>2 DEF One
<1>5. CASE ~Wants(Head(s))
  <2>1. S = R
    BY <1>5, TailFrames
  <2> HIDE DEF S, T, R
  <2> QED BY <1>1, <1>3, <1>5, <2>1 DEF One
<1> QED BY <1>4, <1>5

-----------------------------------------------------------------------------
(* Sequences of views                                                      *)

LEMMA LeadsEmpty ==
    ASSUME NEW W, NEW v \in W
    PROVE  Leads(W, v, <<>>, v)
<1> DEFINE V == [k \in 0..0 |-> v]
<1>1. V \in [0..Len(<<>>) -> W] /\ V[0] = v /\ V[Len(<<>>)] = v /\ 1..Len(<<>>) = {}
  OBVIOUS
<1> QED BY <1>1 DEF Leads

LEMMA LeadsAppend ==
    ASSUME NEW W, NEW s \in Seq(AnyFrame), NEW f \in AnyFrame, NEW u, NEW v, NEW w \in W,
           Leads(W, u, s, v), Learns(v, f, w)
    PROVE  Leads(W, u, Append(s, f), w)
<1>1. PICK V \in [0..Len(s) -> W] :
        /\ V[0] = u /\ V[Len(s)] = v
        /\ \A k \in 1..Len(s) : Learns(V[k - 1], s[k], V[k])
  BY DEF Leads
<1> DEFINE n == Len(s)
           U == [k \in 0..(n + 1) |-> IF k = n + 1 THEN w ELSE V[k]]
<1>2. n \in Nat /\ Len(Append(s, f)) = n + 1 /\ Append(s, f)[n + 1] = f
      /\ \A k \in 1..n : Append(s, f)[k] = s[k]
  BY AppendFrames
<1>3. U \in [0..(n + 1) -> W] /\ U[0] = u /\ U[n + 1] = w /\ U[n] = v
      /\ \A k \in 0..n : U[k] = V[k]
  BY <1>1, <1>2
<1>4. ASSUME NEW k \in 1..(n + 1) PROVE Learns(U[k - 1], Append(s, f)[k], U[k])
  <2>1. CASE k = n + 1
    <3>1. k - 1 = n
      BY <1>2, <2>1
    <3> HIDE DEF U
    <3> QED BY <1>2, <1>3, <2>1, <3>1
  <2>2. CASE k # n + 1
    <3>1. k \in 1..n /\ k - 1 \in 0..n /\ k \in 0..n
      BY <1>2, <2>2
    <3> HIDE DEF U
    <3> QED BY <1>1, <1>2, <1>3, <3>1
  <2> QED BY <2>1, <2>2
<1> HIDE DEF U, n
<1> QED BY <1>2, <1>3, <1>4 DEF Leads

LEMMA LeadsTail ==
    ASSUME NEW W, NEW s \in Seq(AnyFrame), s # <<>>, NEW u, NEW w, Leads(W, u, s, w)
    PROVE  \E v \in W : Learns(u, Head(s), v) /\ Leads(W, v, Tail(s), w)
<1>1. PICK V \in [0..Len(s) -> W] :
        /\ V[0] = u /\ V[Len(s)] = w
        /\ \A k \in 1..Len(s) : Learns(V[k - 1], s[k], V[k])
  BY DEF Leads
<1> DEFINE n == Len(s) - 1
           U == [k \in 0..n |-> V[k + 1]]
<1>2. n \in Nat /\ Len(Tail(s)) = n /\ Len(s) = n + 1 /\ Head(s) = s[1] /\ \A k \in 1..n : Tail(s)[k] = s[k + 1]
  BY TailFrames
<1>3. U \in [0..n -> W] /\ U[0] = V[1] /\ U[n] = w /\ V[1] \in W
  BY <1>1, <1>2
<1>4. \A k \in 0..n : U[k] = V[k + 1]
  OBVIOUS
<1>5. ASSUME NEW k \in 1..n PROVE Learns(U[k - 1], Tail(s)[k], U[k])
  <2>1. k + 1 \in 1..Len(s) /\ (k + 1) - 1 = k /\ k - 1 \in 0..n /\ (k - 1) + 1 = k /\ k \in 0..n
    BY <1>2
  <2>2. Learns(V[k], s[k + 1], V[k + 1])
    <3>1. Learns(V[(k + 1) - 1], s[k + 1], V[k + 1])
      BY <1>1, <2>1
    <3> QED BY <2>1, <3>1
  <2> HIDE DEF U
  <2> QED BY <1>2, <1>4, <2>1, <2>2
<1>6. Learns(u, Head(s), V[1])
  <2>1. 1 \in 1..Len(s) /\ 1 - 1 = 0
    BY <1>2
  <2>2. Learns(V[1 - 1], s[1], V[1])
    BY <1>1, <2>1
  <2> QED BY <1>1, <1>2, <2>1, <2>2
<1> HIDE DEF U, n
<1>7. Leads(W, V[1], Tail(s), w)
  BY <1>2, <1>3, <1>5 DEF Leads
<1> QED BY <1>3, <1>6, <1>7

LEMMA LeadsMonotonic ==
    ASSUME NEW W, NEW X, W \subseteq X, NEW s, NEW u, NEW w, Leads(W, u, s, w)
    PROVE  Leads(X, u, s, w)
<1>1. \A n : [0..n -> W] \subseteq [0..n -> X]
  OBVIOUS
<1> QED BY <1>1 DEF Leads

LEMMA LeadsIn ==
    ASSUME NEW W, NEW s \in Seq(AnyFrame), NEW u, NEW w, Leads(W, u, s, w)
    PROVE  u \in W /\ w \in W
<1>1. Len(s) \in Nat
  OBVIOUS
<1> QED BY <1>1 DEF Leads

\* Frames that are no answers and no tweets lead nowhere.
LEMMA LearnsNothing ==
    ASSUME NEW v, NEW f, f.type \notin {"following", "unfollowing", "CONNECTED", "tweet"}
    PROVE  Learns(v, f, v)
BY DEF Learns

LEMMA LeadsNowhere ==
    ASSUME NEW W, NEW u, NEW w, Leads(W, u, <<>>, w)
    PROVE  u = w
<1>1. Len(<<>>) = 0
  OBVIOUS
<1> QED BY <1>1 DEF Leads

-----------------------------------------------------------------------------
(* What the invariant says, and where it begins                            *)

\* In a login, the last one, its connection is in use.
LEMMA InLogin ==
    ASSUME TypeOK, ConnectionInv, connected
    PROVE  logins \in Logins /\ connection = logins /\ logins # 0
BY ClientAssumption DEF TypeOK, ConnectionInv, Logins

\* Who has the id of a new subscription, and of one that ends.
LEMMA Guess ==
    ASSUME TypeOK, MapInv, NEW stale \in SUBSET Names, NEW now \in FreshViews(stale), Knows(stale, now),
           NEW id \in Ids, NEW n \in Names, Fresh(stale, id, n)
    PROVE  /\ now.topics[id] = NoName => UserBySubscription(id) = NoName
           /\ now.topics[id] = n => UserBySubscription(id) = n
           /\ (\A i \in Ids : now.topics[i] # n) => subscriptions[n] = NoId
<1>1. id \in Nat /\ id # 0 /\ id # NoId /\ Me \notin Names /\ NoName \notin Names
  BY NamesAssumption DEF Fresh, NoId
<1>2. DOMAIN subscriptions = Names \cup {Me} /\ \A m \in Names \cup {Me} : subscriptions[m] \in Ids \cup {NoId}
  BY DEF TypeOK
<1>3. \A m \in stale : subscriptions[m] # id
  <2>1. \A m \in stale : subscriptions[m] < id /\ subscriptions[m] \in Int
    BY DEF Fresh, Knows
  <2> QED BY <1>1, <2>1
<1>4. subscriptions[Me] # id
  BY <1>1 DEF MapInv, NoId
<1>5. ASSUME NEW m \in DOMAIN subscriptions, subscriptions[m] = id PROVE now.topics[id] = m /\ m \in Names
  BY <1>1, <1>2, <1>3, <1>4, <1>5 DEF Knows
<1>6. ASSUME now.topics[id] = NoName PROVE UserBySubscription(id) = NoName
  BY <1>1, <1>5, <1>6 DEF UserBySubscription
<1>7. ASSUME now.topics[id] = n PROVE UserBySubscription(id) = n
  <2>1. subscriptions[n] = id /\ n \in DOMAIN subscriptions
    BY <1>1, <1>2, <1>7 DEF Knows
  <2>2. \A m \in DOMAIN subscriptions : subscriptions[m] = id => m = n
    BY <1>5, <1>7
  <2> QED BY <2>1, <2>2 DEF UserBySubscription
<1>8. ASSUME \A i \in Ids : now.topics[i] # n PROVE subscriptions[n] = NoId
  <2>1. n \in Names \ stale
    BY DEF Fresh
  <2>2. subscriptions[n] \in Ids \cup {NoId}
    BY <1>2
  <2> QED BY <1>8, <2>1, <2>2 DEF Knows
<1> QED BY <1>6, <1>7, <1>8

\* An answer at hand is one to what the client knows.
LEMMA HandAnswer ==
    ASSUME NEW stale \in SUBSET Names, NEW now \in FreshViews(stale), NEW next \in FreshViews(stale), NEW f,
           Learns(now, f, next), f.type \in {"following", "unfollowing"}
    PROVE  f.id \in Ids /\ f.name \in Names /\ Fresh(stale, f.id, f.name)
<1>0. NoName \notin Names
  BY NamesAssumption
<1>1. CASE f.type = "following"
  <2>1. /\ f.id \in Ids /\ f.name \in Names
        /\ next = [now EXCEPT !.topics = [@ EXCEPT ![f.id] = f.name]] /\ now \in View
    BY <1>1 DEF Learns, FreshViews
  <2>2. next.topics[f.id] = f.name
    BY <2>1 DEF View
  <2> QED BY <1>0, <2>1, <2>2 DEF FreshViews
<1>2. CASE f.type = "unfollowing"
  <2>1. f.id \in Ids /\ f.name \in Names /\ now.topics[f.id] = f.name
    BY <1>2 DEF Learns
  <2> QED BY <1>0, <2>1 DEF FreshViews
<1> QED BY <1>1, <1>2

LEMMA InvImplies == IInv => ClientInv
<1> SUFFICES ASSUME IInv PROVE ClientInv
  OBVIOUS
<1>0. TypeOK /\ process # "listener"
  BY DEF IInv
<1>1. ASSUME Running PROVE RunInv
  BY <1>1 DEF IInv
<1>2. MapAgrees
  <2> SUFFICES ASSUME Quiet, session # 0
               PROVE  /\ \A i \in Ids : topics[i] # NoName => subscriptions[topics[i]] = i
                      /\ logins = 1 => \A n \in Names : subscriptions[n] # NoId => topics[subscriptions[n]] = n
    BY DEF MapAgrees
  <2>1. RunInv
    BY <1>1 DEF Quiet, Running
  <2>2. connected /\ session = logins /\ logins \in Logins
    BY <1>0, <2>1, InLogin DEF RunInv, ConnectionInv
  <2>3. toClient[logins] = <<>> /\ listener[logins].pc # "visit"
    BY <2>2 DEF Quiet
  <2>4. PICK stale \in SUBSET Names : \E now, next, last \in FreshViews(stale) : Agree(stale, now, next, last)
    BY <2>1, <2>2 DEF RunInv, AgreeInv
  <2>5. PICK now \in FreshViews(stale), next \in FreshViews(stale), last \in FreshViews(stale) :
          Agree(stale, now, next, last)
    BY <2>4
  <2>6. now.topics = topics
    <3>1. next = now /\ Leads(FreshViews(stale), next, <<>>, last) /\ last.topics = topics
      BY <2>2, <2>3, <2>5 DEF Agree
    <3> QED BY <3>1, LeadsNowhere
  <2> QED BY <2>5, <2>6 DEF Agree, Knows
<1>3. GuessIsRight
  <2> SUFFICES ASSUME NEW l \in Logins, ListenerAt(l, "visit"), NEW f, f = listener[l].frame
               PROVE  /\ f.type = "following" => UserBySubscription(f.id) = NoName
                      /\ f.type = "unfollowing" => UserBySubscription(f.id) = f.name
    BY DEF GuessIsRight
  <2>1. RunInv
    BY <1>1 DEF ListenerAt, Running
  <2>2. connected /\ l = logins /\ listener[l].pc = "visit"
    BY <2>1 DEF RunInv, ListenersInv, ListenerAt
  <2>3. PICK stale \in SUBSET Names : \E now, next, last \in FreshViews(stale) : Agree(stale, now, next, last)
    BY <2>1, <2>2 DEF RunInv, AgreeInv
  <2>4. PICK now \in FreshViews(stale), next \in FreshViews(stale), last \in FreshViews(stale) :
          Agree(stale, now, next, last)
    BY <2>3
  <2>5. Knows(stale, now) /\ Learns(now, f, next) /\ MapInv
    BY <2>1, <2>2, <2>4 DEF Agree, RunInv
  <2>6. ASSUME f.type \in {"following", "unfollowing"}
        PROVE  f.id \in Ids /\ f.name \in Names /\ Fresh(stale, f.id, f.name)
    BY <2>5, <2>6, HandAnswer
  <2>7. f.type = "following" => now.topics[f.id] = NoName
    BY <2>5 DEF Learns
  <2>8. f.type = "unfollowing" => now.topics[f.id] = f.name
    BY <2>5 DEF Learns
  <2> QED BY <1>0, <2>5, <2>6, <2>7, <2>8, Guess
<1>4. ListenerLeaves
  <2> SUFFICES ASSUME NEW l \in Logins, ListenerAt(l, "read") PROVE listener[l].on = l /\ connection = l
    BY <1>0 DEF ListenerLeaves
  <2>1. RunInv
    BY <1>1 DEF ListenerAt, Running
  <2> QED BY <1>0, <2>1, InLogin DEF RunInv, ListenersInv, ListenerAt
<1> QED BY <1>0, <1>2, <1>3, <1>4 DEF ClientInv

\* A client that has just been started.
LEMMA InitInv == Init => IInv
<1> SUFFICES ASSUME Init PROVE IInv
  OBVIOUS
<1>0. MaxLogins \in Nat /\ MaxCommands \in Nat /\ NoName \notin Names /\ Me \notin Names /\ Me # NoName
  BY ClientAssumption, NamesAssumption DEF Me, NoName
<1>1. TypeOK
  <2>1. Plain("none") \in AnyFrame
    BY DEF AnyFrame, Plain, Frame, FrameTypes
  <2>2. 0 \in 0..MaxLogins /\ 0 \in 0..MaxCommands
    BY <1>0
  <2>3. listener \in [Logins -> [pc : {"none", "loop", "use", "read", "visit", "count", "done"},
                                on : 0..MaxLogins, frame : AnyFrame]]
    BY <2>1, <2>2 DEF Init
  <2>4. toServer \in [Logins -> Seq(AnyFrame)] /\ toClient \in [Logins -> Seq(AnyFrame)]
    BY DEF Init
  <2>5. keyboard \in [pc : {"idle", "send"}, frame : AnyFrame]
    BY <2>1 DEF Init
  <2>6. /\ subscriptions \in [Names \cup {Me} -> Ids \cup {NoId}]
        /\ topics \in [Ids -> Names \cup {NoName}]
    BY DEF Init
  <2> QED BY <2>2, <2>3, <2>4, <2>5, <2>6 DEF Init, TypeOK
<1>2. ConnectionInv /\ ListenersInv /\ LoginInv
  BY <1>0 DEF Init, ConnectionInv, ListenersInv, LoginInv, Logins
<1>3. NetInv
  BY <1>0, HasEmpty DEF Init, NetInv, Logins
<1>4. RequestInv
  BY DEF Init, RequestInv, Requests, AnyFrame, Plain, Frame, FrameTypes
<1>5. MapInv /\ CountInv /\ AgreeInv
  BY <1>0 DEF Init, MapInv, CountInv, AgreeInv, Counting, One, NoId
<1> QED BY <1>1, <1>2, <1>3, <1>4, <1>5 DEF Init, IInv, RunInv

-----------------------------------------------------------------------------
(* Commands                                                                *)

Kept == TypeOK' /\ process' # "listener" /\ (Running' => RunInv')

\* What is in the way while a login goes on.
LEMMA Numbers ==
    ASSUME TypeOK, ConnectionInv
    PROVE  /\ unique_identifier \in Nat /\ commands \in Nat /\ MaxCommands \in Nat /\ commands <= MaxCommands
           /\ connected => /\ logins \in Logins
                           /\ Wanted(toServer[logins]) \in Nat /\ Wanted(toClient[logins]) \in Nat
                           /\ toServer[logins] \in Seq(AnyFrame) /\ toClient[logins] \in Seq(AnyFrame)
           /\ \A b : One(b) \in {0, 1}
<1>1. unique_identifier \in Nat /\ commands \in Nat /\ MaxCommands \in Nat /\ commands <= MaxCommands
  BY ClientAssumption DEF TypeOK
<1>2. ASSUME connected
      PROVE  /\ logins \in Logins
             /\ Wanted(toServer[logins]) \in Nat /\ Wanted(toClient[logins]) \in Nat
             /\ toServer[logins] \in Seq(AnyFrame) /\ toClient[logins] \in Seq(AnyFrame)
  <2>1. logins \in Logins /\ toServer[logins] \in Seq(AnyFrame) /\ toClient[logins] \in Seq(AnyFrame)
    BY <1>2, InLogin DEF TypeOK
  <2> QED BY <2>1, WantedFinite
<1> QED BY <1>1, <1>2 DEF One

\* As ids are handed out, they are within the bound.
LEMMA CounterBound ==
    ASSUME TypeOK, ConnectionInv, CountInv
    PROVE  unique_identifier <= commands + 1
<1>1. CASE connected
  <2>1. Expected \in Nat
    BY <1>1, Numbers DEF Expected
  <2> QED BY <1>1, <2>1, Numbers DEF CountInv
<1>2. CASE ~connected
  BY <1>2, Numbers DEF CountInv
<1> QED BY <1>1, <1>2

\* Ids that are fresh stay so while the counter goes up.
LEMMA FreshStays ==
    ASSUME NEW stale, unique_identifier \in Nat, unique_identifier' \in Nat, unique_identifier' >= unique_identifier,
           \A m \in stale : subscriptions'[m] = subscriptions[m]
    PROVE  FreshViews(stale) \subseteq FreshViews(stale)' /\ FreshFrames(stale) \subseteq FreshFrames(stale)'
<1>0. 1..(unique_identifier + 1) \subseteq 1..(unique_identifier' + 1)
  <2>1. \A i, j \in Nat : j >= i => 1..(i + 1) \subseteq 1..(j + 1)
    OBVIOUS
  <2> QED BY <2>1
<1>1. ASSUME NEW id, NEW n, Fresh(stale, id, n) PROVE Fresh(stale, id, n)'
  BY <1>0, <1>1 DEF Fresh
<1> QED BY <1>1 DEF FreshViews, FreshFrames

\* A command that is not login or exit.
LEMMA CommandKeeps ==
    ASSUME IInv, Command, NEW f \in Requests, SendFrame(f), f.type \notin {"CONNECT", "following"},
           f.type = "SUBSCRIBE" => f.name \in Names /\ f.id = Identifier /\ subscriptions[f.name] = NoId
    PROVE  Kept
<1>0. TypeOK /\ Running /\ RunInv /\ commands' = commands + 1 /\ commands < MaxCommands /\ keyboard.pc = "idle"
      /\ connected' = connected
      /\ keyboard' = IF connected THEN [pc |-> "send", frame |-> f] ELSE keyboard
  BY DEF IInv, Command, Idle, Running, SendFrame, clientVars
<1> USE <1>0
<1>1. UNCHANGED <<clientVars, mapVars, listener, interrupted, process, netVars, serverVars, logins>>
  BY DEF Command
<1>2. f \in AnyFrame
  BY DEF Requests
<1>3. TypeOK'
  BY <1>1, <1>2, ClientAssumption DEF TypeOK, clientVars, mapVars, netVars, serverVars
<1>4. ConnectionInv'
  BY <1>1 DEF RunInv, ConnectionInv, clientVars, serverVars
<1>5. ListenersInv' /\ NetInv'
  BY <1>1 DEF RunInv, ListenersInv, NetInv, Has, clientVars, netVars, serverVars
<1>6. ASSUME connected PROVE ~KeyboardSends("CONNECT")' /\ (LoggingIn' <=> LoggingIn)
  BY <1>1, <1>6 DEF KeyboardSends, LoggingIn, Has, netVars
<1>7. LoginInv'
  BY <1>1, <1>6 DEF RunInv, LoginInv, clientVars, netVars, serverVars
<1>8. RequestInv'
  BY <1>1 DEF RunInv, RequestInv, netVars
<1>9. MapInv'
  BY <1>1 DEF RunInv, MapInv, Counting, mapVars
<1>10. CountInv'
  <2>1. CASE connected
    <3>1. Expected' = Expected + One(Wants(f))
      <4>1. Expected' = Wanted(toServer[logins]) + Wanted(toClient[logins]) + One(Wants(f))
                          + One(listener[logins].pc = "visit" /\ Wants(listener[logins].frame))
                          + One(listener[logins].pc = "count")
        <5>1. keyboard'.pc = "send" /\ keyboard'.frame = f
          BY <2>1
        <5>2. One(keyboard'.pc = "send" /\ Wants(keyboard'.frame)) = One(Wants(f))
          BY <5>1 DEF One
        <5> QED BY <1>1, <5>2 DEF Expected, netVars
      <4>2. One(keyboard.pc = "send" /\ Wants(keyboard.frame)) = 0
        BY DEF One
      <4> QED BY <2>1, <4>1, <4>2, Numbers DEF Expected, RunInv
    <3>2. Expected \in Nat
      BY <2>1, Numbers DEF Expected, RunInv
    <3>3. unique_identifier + One(subscriptions[Me] = NoId) + Expected <= commands + 1
      BY <2>1 DEF RunInv, CountInv
    <3>4. unique_identifier + One(subscriptions[Me] = NoId) + Expected' <= commands + 2
      BY <3>1, <3>2, <3>3, Numbers DEF RunInv
    <3> QED BY <1>1, <2>1, <3>4, Numbers DEF CountInv, mapVars, RunInv
  <2>2. CASE ~connected
    BY <1>1, <2>2, Numbers DEF RunInv, CountInv, mapVars
  <2> QED BY <2>1, <2>2
<1>11. AgreeInv'
  <2> SUFFICES ASSUME connected' PROVE (\E stale \in SUBSET Names :
                 \E now, next, last \in FreshViews(stale) : Agree(stale, now, next, last))'
    BY DEF AgreeInv
  <2>1. PICK stale \in SUBSET Names : \E now, next, last \in FreshViews(stale) : Agree(stale, now, next, last)
    BY DEF RunInv, AgreeInv
  <2>2. PICK now \in FreshViews(stale), next \in FreshViews(stale), last \in FreshViews(stale) :
          Agree(stale, now, next, last)
    BY <2>1
  <2>3. FreshViews(stale)' = FreshViews(stale) /\ FreshFrames(stale)' = FreshFrames(stale)
    BY <1>1 DEF FreshViews, FreshFrames, Fresh, mapVars
  <2>4. Knows(stale, now)'
    BY <1>1, <2>2 DEF Agree, Knows, mapVars, clientVars
  <2>5. f \in FreshFrames(stale)
    <3> SUFFICES ASSUME f.type = "SUBSCRIBE" PROVE f.name \in Names /\ Fresh(stale, f.id, f.name)
      BY <1>2 DEF FreshFrames
    <3>1. \A m \in stale : subscriptions[m] \in 0..unique_identifier
      BY <2>2 DEF Agree, Knows
    <3>2. f.name \notin stale
      BY <3>1 DEF NoId
    <3> QED BY <3>1, <3>2 DEF Fresh, Identifier, TypeOK
  <2>6. Agree(stale, now, next, last)'
    BY <1>1, <1>6, <2>2, <2>3, <2>4, <2>5 DEF Agree, netVars, serverVars
  <2> QED BY <2>2, <2>3, <2>6
<1> QED BY <1>1, <1>3, <1>4, <1>5, <1>7, <1>8, <1>9, <1>10, <1>11 DEF Kept, RunInv, Running, IInv

LEMMA FollowKeeps == ASSUME IInv, NEW n \in Names, Follow(n) PROVE Kept
<1>1. TypeOK /\ Running /\ RunInv
  BY DEF IInv, Follow, Command, Idle, Running
<1>2. Identifier \in Ids
  BY <1>1, CounterBound, Numbers DEF RunInv, Identifier, Ids, Follow, Command
<1>3. Frame("SUBSCRIBE", Identifier, n) \in Requests
  BY <1>2 DEF Requests, AnyFrame, Frame, FrameTypes
<1>4. Command /\ SendFrame(Frame("SUBSCRIBE", Identifier, n)) /\ subscriptions[n] = NoId
  BY DEF Follow
<1> HIDE DEF Identifier
<1> QED BY <1>3, <1>4, CommandKeeps DEF Frame

LEMMA UnfollowKeeps == ASSUME IInv, NEW n \in Names, Unfollow(n) PROVE Kept
<1>1. TypeOK
  BY DEF IInv
<1>2. subscriptions[n] \in Ids
  BY <1>1 DEF TypeOK, Unfollow
<1>3. Frame("UNSUBSCRIBE", subscriptions[n], NoName) \in Requests
  BY <1>2 DEF Requests, AnyFrame, Frame, FrameTypes
<1>4. Command /\ SendFrame(Frame("UNSUBSCRIBE", subscriptions[n], NoName))
  BY DEF Unfollow
<1> QED BY <1>3, <1>4, CommandKeeps DEF Frame

\* The frames without an id or a name.
LEMMA PlainRequest ==
    ASSUME NEW type \in FrameTypes \ {"SUBSCRIBE", "UNSUBSCRIBE"}
    PROVE  Plain(type) \in Requests /\ Plain(type).type = type
BY DEF Requests, AnyFrame, Plain, Frame, FrameTypes

LEMMA TweetKeeps == ASSUME IInv, Tweet PROVE Kept
<1>1. "SEND" \in FrameTypes \ {"SUBSCRIBE", "UNSUBSCRIBE"}
  BY DEF FrameTypes
<1> QED BY <1>1, PlainRequest, CommandKeeps DEF Tweet

LEMMA LogoutKeeps == ASSUME IInv, Logout PROVE Kept
<1>1. "DISCONNECT" \in FrameTypes \ {"SUBSCRIBE", "UNSUBSCRIBE"}
  BY DEF FrameTypes
<1> QED BY <1>1, PlainRequest, CommandKeeps DEF Logout

\* When the process has ended or the model does, nothing is promised but types.
LEMMA DisconnectType ==
    ASSUME TypeOK, ConnectionInv, OnDisconnect
    PROVE  /\ connected' \in BOOLEAN /\ connection' \in 0..MaxLogins /\ writer' \in BOOLEAN
           /\ interrupted' \subseteq Logins
<1>1. connection # 0 => logins \in Logins
  BY ClientAssumption DEF TypeOK, Logins, ConnectionInv
<1>2. 0 \in 0..MaxLogins
  BY ClientAssumption
<1>3. interrupted' \subseteq Logins
  BY <1>1 DEF OnDisconnect, TypeOK
<1>4. connected' \in BOOLEAN
  BY DEF OnDisconnect, TypeOK
<1> QED BY <1>2, <1>3, <1>4 DEF OnDisconnect

LEMMA ExitKeeps == ASSUME IInv, Exit PROVE Kept
<1>1. process' = "exited" /\ TypeOK /\ ConnectionInv /\ OnDisconnect
  BY DEF Exit, IInv, Idle, Running, RunInv
<1>2. TypeOK'
  BY <1>1, DisconnectType DEF Exit, TypeOK, mapVars, netVars, serverVars, countVars
<1> QED BY <1>1, <1>2 DEF Kept, Running

LEMMA LoginAgainKeeps == ASSUME IInv, LoginAgain PROVE Kept
BY DEF LoginAgain, IInv, Kept, Running, TypeOK, clientVars, mapVars, netVars, serverVars, countVars

-----------------------------------------------------------------------------
(* The server                                                              *)

\* The connection on which a frame is handled is in use, and once it is handled
\* nobody is logging in.
LEMMA Served ==
    ASSUME IInv, NEW l \in Logins, Running, toServer[l] # <<>>, ~Closed(l)
    PROVE  /\ TypeOK /\ RunInv /\ l = logins /\ connected
           /\ toServer[l] \in Seq(AnyFrame) /\ toClient[l] \in Seq(AnyFrame)
           /\ ~Has(toClient[l], "EOF")
           /\ Head(toServer[l]) \in Requests /\ Tail(toServer[l]) \in Seq(Requests)
           /\ Tail(toServer[l]) \in Seq(Others) /\ ~Has(Tail(toServer[l]), "CONNECT")
           /\ ~KeyboardSends("CONNECT")
<1>1. TypeOK /\ RunInv
  BY DEF IInv
<1>2. toServer[l] \in Seq(AnyFrame) /\ toClient[l] \in Seq(AnyFrame) /\ ~Has(toClient[l], "EOF")
  BY <1>1 DEF TypeOK, Closed, Has
<1>3. l = logins /\ connected
  BY <1>1, <1>2 DEF RunInv, NetInv
<1>4. toServer[l] \in Seq(Requests)
  BY <1>1 DEF RunInv, RequestInv
<1>5. Head(toServer[l]) \in Requests /\ Tail(toServer[l]) \in Seq(Requests)
  BY <1>4
<1>6. Tail(toServer[l]) \in Seq(Others) /\ ~KeyboardSends("CONNECT")
  BY <1>1, <1>3 DEF RunInv, LoginInv
<1>7. Tail(toServer[l]) \in Seq(AnyFrame)
  BY <1>2
<1> QED BY <1>1, <1>2, <1>3, <1>5, <1>6, <1>7, HasOthers

\* A frame is answered with one frame that the client learns from.
LEMMA ServeKeeps ==
    ASSUME IInv, NEW l \in Logins, NEW a \in AnyFrame, Serve(l, <<a>>),
           a.type \notin {"RECEIPT", "EOF"}, Wants(a) => Wants(Head(toServer[l])),
           topics' \in [Ids -> Names \cup {NoName}], session' \in {session, l},
           ASSUME NEW stale \in SUBSET Names, NEW last \in FreshViews(stale), Head(toServer[l]) \in FreshFrames(stale),
                  session # 0 => last.topics = topics /\ last.open,
                  Head(toServer[l]).type = "CONNECT" => last.topics = Nobody
           PROVE  \E w \in FreshViews(stale) :
                    Learns(last, a, w) /\ (session' # 0 => w.topics = topics' /\ w.open)
    PROVE  Kept
<1> DEFINE s == toServer[l]
           c == toClient[l]
<1>0. /\ TypeOK /\ RunInv /\ l = logins /\ connected /\ Running
      /\ s \in Seq(AnyFrame) /\ s # <<>> /\ c \in Seq(AnyFrame) /\ ~Has(c, "EOF")
      /\ Head(s) \in Requests /\ Tail(s) \in Seq(Requests)
      /\ Tail(s) \in Seq(Others) /\ ~Has(Tail(s), "CONNECT") /\ ~KeyboardSends("CONNECT")
  BY Served DEF Serve, Running
<1>1. UNCHANGED <<clientVars, mapVars, listener, interrupted, keyboard, process, countVars>>
  BY DEF Serve
<1>2. /\ toServer' = [toServer EXCEPT ![l] = Tail(s)]
      /\ toClient' = [toClient EXCEPT ![l] = Append(c, a)]
  BY <1>0, AppendFrames DEF Serve
<1>3. /\ toServer'[l] = Tail(s) /\ toClient'[l] = Append(c, a)
      /\ \A m \in Logins : m # l => toServer'[m] = toServer[m] /\ toClient'[m] = toClient[m]
  BY <1>0, <1>2 DEF TypeOK
<1>4. Tail(s) \in Seq(AnyFrame) /\ Append(c, a) \in Seq(AnyFrame)
      /\ \A type : Has(Append(c, a), type) <=> Has(c, type) \/ a.type = type
  BY <1>0, TailFrames, AppendFrames, HasAppend
<1> HIDE DEF s, c
<1>5. TypeOK'
  BY <1>0, <1>1, <1>2, <1>4 DEF TypeOK, clientVars, mapVars, countVars
<1>6. ConnectionInv'
  BY <1>0, <1>1 DEF RunInv, ConnectionInv, clientVars, countVars
<1>7. ListenersInv'
  BY <1>0, <1>1 DEF RunInv, ListenersInv, clientVars, countVars
<1>8. NetInv'
  <2> SUFFICES ASSUME NEW m \in Logins
               PROVE  /\ m > logins => toClient'[m] = <<>>
                      /\ ~(m = logins /\ connected) => toServer'[m] = <<>> \/ Has(toClient'[m], "EOF")
                      /\ Has(toClient'[m], "EOF") => session' # m
                      /\ Has(toClient'[m], "RECEIPT") => Has(toClient'[m], "EOF")
                      /\ listener[m].pc = "visit" /\ listener[m].frame.type = "RECEIPT" => Has(toClient'[m], "EOF")
    BY <1>1 DEF NetInv, Has, clientVars, countVars
  <2>1. /\ m > logins => toClient[m] = <<>>
        /\ ~(m = logins /\ connected) => toServer[m] = <<>> \/ Has(toClient[m], "EOF")
        /\ Has(toClient[m], "EOF") => session # m
        /\ Has(toClient[m], "RECEIPT") => Has(toClient[m], "EOF")
        /\ listener[m].pc = "visit" /\ listener[m].frame.type = "RECEIPT" => Has(toClient[m], "EOF")
    BY <1>0 DEF RunInv, NetInv
  <2>2. CASE m = l
    <3>1. ~(m > logins)
      BY <1>0, <2>2 DEF Logins
    <3>2. ~Has(c, "RECEIPT")
      BY <1>0, <2>1, <2>2 DEF c
    <3> QED BY <1>0, <1>3, <1>4, <2>1, <2>2, <3>1, <3>2 DEF c
  <2>3. CASE m # l
    BY <1>3, <2>1, <2>3
  <2> QED BY <2>2, <2>3
<1>9. LoginInv' /\ ~LoggingIn'
  <2>1. ~LoggingIn'
    BY <1>0, <1>1, <1>3 DEF LoggingIn, KeyboardSends, Has, countVars
  <2>2. Tail(s) # <<>> => Tail(Tail(s)) \in Seq(Others)
    BY <1>0
  <2> QED BY <1>0, <1>1, <1>3, <2>1, <2>2 DEF LoginInv, LoggingIn, countVars
<1>10. RequestInv'
  BY <1>0, <1>1, <1>3 DEF RunInv, RequestInv
<1>11. MapInv'
  BY <1>0, <1>1 DEF RunInv, MapInv, Counting, mapVars, countVars
<1>12. CountInv'
  <2>1. Wanted(toServer[logins]) = Wanted(toServer'[logins]) + One(Wants(Head(s)))
    BY <1>0, <1>3, WantedTail DEF s
  <2>2. Wanted(toClient'[logins]) = Wanted(toClient[logins]) + One(Wants(a))
    BY <1>0, <1>3, WantedAppend DEF c
  <2>3. One(Wants(a)) <= One(Wants(Head(s))) /\ One(Wants(a)) \in Nat /\ One(Wants(Head(s))) \in Nat
    BY DEF One, s
  <2>4. Wanted(toServer'[logins]) \in Nat /\ Wanted(toServer[logins]) \in Nat /\ Wanted(toClient[logins]) \in Nat
    BY <1>0, <1>3, <1>4, Numbers, WantedFinite DEF RunInv
  <2>5. Wanted(toServer'[logins]) + Wanted(toClient'[logins]) <= Wanted(toServer[logins]) + Wanted(toClient[logins])
        /\ Wanted(toClient'[logins]) \in Nat
    BY <2>1, <2>2, <2>3, <2>4
  <2> DEFINE rest == One(keyboard.pc = "send" /\ Wants(keyboard.frame))
                       + One(listener[logins].pc = "visit" /\ Wants(listener[logins].frame))
                       + One(listener[logins].pc = "count")
  <2>6. rest \in Nat
    BY DEF One
  <2>7. Expected = Wanted(toServer[logins]) + Wanted(toClient[logins]) + rest
    BY <2>4 DEF Expected, One
  <2>8. Expected' = Wanted(toServer'[logins]) + Wanted(toClient'[logins]) + rest
    BY <1>1, <2>4, <2>5 DEF Expected, One, countVars
  <2> HIDE DEF rest
  <2>9. Expected' <= Expected /\ Expected \in Nat /\ Expected' \in Nat
    BY <2>4, <2>5, <2>6, <2>7, <2>8
  <2>10. unique_identifier + One(subscriptions[Me] = NoId) + Expected <= commands + 1
    BY <1>0 DEF RunInv, CountInv
  <2>11. unique_identifier + One(subscriptions[Me] = NoId) + Expected' <= commands + 1
    BY <1>0, <2>9, <2>10, Numbers DEF RunInv
  <2> QED BY <1>0, <1>1, <2>11 DEF CountInv, mapVars, countVars, clientVars
<1>13. AgreeInv'
  <2>1. PICK stale \in SUBSET Names : \E now, next, last \in FreshViews(stale) : Agree(stale, now, next, last)
    BY <1>0 DEF RunInv, AgreeInv
  <2>2. PICK now \in FreshViews(stale), next \in FreshViews(stale), last \in FreshViews(stale) :
          Agree(stale, now, next, last)
    BY <2>1
  <2>3. Head(s) \in FreshFrames(stale) /\ Tail(s) \in Seq(FreshFrames(stale))
    <3>1. s \in Seq(FreshFrames(stale))
      BY <1>0, <2>2 DEF Agree, s
    <3> QED BY <1>0, <3>1
  <2>4. Head(s).type = "CONNECT" => last.topics = Nobody
    <3>1. Head(s).type = "CONNECT" => LoggingIn
      BY <1>0, HasTail DEF LoggingIn, s
    <3> QED BY <2>2, <3>1 DEF Agree
  <2>5. PICK w \in FreshViews(stale) : Learns(last, a, w) /\ (session' # 0 => w.topics = topics' /\ w.open)
    BY <2>2, <2>3, <2>4 DEF Agree, s
  <2>6. Leads(FreshViews(stale), next, Append(c, a), w)
    BY <1>0, <2>2, <2>5, LeadsAppend DEF Agree, c
  <2>7. FreshViews(stale)' = FreshViews(stale) /\ FreshFrames(stale)' = FreshFrames(stale)
    BY <1>1 DEF FreshViews, FreshFrames, Fresh, mapVars
  <2>8. Knows(stale, now)'
    BY <1>1, <2>2 DEF Agree, Knows, mapVars, clientVars, countVars
  <2>9. Agree(stale, now, next, w)'
    BY <1>0, <1>1, <1>3, <1>9, <2>2, <2>3, <2>5, <2>6, <2>7, <2>8 DEF Agree, countVars
  <2> QED BY <2>7, <2>9 DEF AgreeInv
<1> QED BY <1>0, <1>1, <1>5, <1>6, <1>7, <1>8, <1>9, <1>10, <1>11, <1>12, <1>13 DEF Kept, RunInv, Running

\* A view in which one user is followed or not under an id.
LEMMA FreshView ==
    ASSUME NEW stale, NEW last \in FreshViews(stale), NEW id \in Ids, NEW n \in Names \cup {NoName},
           n # NoName => Fresh(stale, id, n)
    PROVE  /\ [last EXCEPT !.topics = [@ EXCEPT ![id] = n]] \in FreshViews(stale)
           /\ [last EXCEPT !.topics = [@ EXCEPT ![id] = n]].topics = [last.topics EXCEPT ![id] = n]
           /\ [last EXCEPT !.topics = [@ EXCEPT ![id] = n]].open = last.open
<1> DEFINE w == [last EXCEPT !.topics = [@ EXCEPT ![id] = n]]
<1>1. last \in View /\ \A i \in Ids : last.topics[i] # NoName => Fresh(stale, i, last.topics[i])
  BY DEF FreshViews
<1>2. w \in View /\ w.topics = [last.topics EXCEPT ![id] = n] /\ w.open = last.open
  BY <1>1 DEF View
<1>3. \A i \in Ids : w.topics[i] = IF i = id THEN n ELSE last.topics[i]
  BY <1>1, <1>2 DEF View
<1>4. \A i \in Ids : w.topics[i] # NoName => Fresh(stale, i, w.topics[i])
  BY <1>1, <1>3
<1> HIDE DEF w
<1> QED BY <1>2, <1>4 DEF FreshViews, w

LEMMA ServeConnectKeeps == ASSUME IInv, NEW l \in Logins, ServeConnect(l) PROVE Kept
<1> DEFINE a == Plain("CONNECTED")
<1>1. a \in AnyFrame /\ a.type = "CONNECTED"
  BY PlainRequest DEF Requests, FrameTypes
<1>2. Head(toServer[l]).type = "CONNECT" /\ Serve(l, <<a>>) /\ session' = l /\ topics' = Nobody
  BY DEF ServeConnect, Request, Serve, Nobody
<1>3. ASSUME NEW stale \in SUBSET Names, NEW last \in FreshViews(stale), last.topics = Nobody
      PROVE  \E w \in FreshViews(stale) : Learns(last, a, w) /\ w.topics = topics' /\ w.open
  <2> DEFINE w == [last EXCEPT !.open = TRUE]
  <2>1. last \in View
    BY DEF FreshViews
  <2>2. w \in View /\ w.topics = Nobody /\ w.open
    BY <1>3, <2>1 DEF View
  <2>3. w \in FreshViews(stale)
    BY <2>2 DEF FreshViews, Nobody
  <2>4. Learns(last, a, w)
    BY <1>1 DEF Learns
  <2> QED BY <1>2, <2>2, <2>3, <2>4
<1>4. topics' \in [Ids -> Names \cup {NoName}]
  BY <1>2 DEF Nobody
<1>5. a.type \notin {"RECEIPT", "EOF"} /\ ~Wants(a)
  BY <1>1 DEF Wants
<1> HIDE DEF a
<1> QED BY <1>1, <1>2, <1>3, <1>4, <1>5, ServeKeeps

LEMMA ServeSubscribeKeeps == ASSUME IInv, NEW l \in Logins, ServeSubscribe(l) PROVE Kept
<1> DEFINE f == Head(toServer[l])
           a == Frame("following", f.id, f.name)
<1>0. Running /\ toServer[l] # <<>> /\ ~Closed(l)
  BY DEF ServeSubscribe, Serve, Running
<1>1. /\ f.type = "SUBSCRIBE" /\ session = l /\ session' = session
      /\ topics[f.id] = NoName /\ \A i \in Ids : topics[i] # f.name
      /\ topics' = [topics EXCEPT ![f.id] = f.name]
      /\ Serve(l, <<a>>)
  BY <1>0 DEF ServeSubscribe, Request
<1>2. f \in AnyFrame /\ TypeOK /\ session # 0
  <2>1. f \in Requests /\ TypeOK
    BY <1>0, Served
  <2> HIDE DEF f
  <2> QED BY <1>1, <2>1 DEF Requests, Logins
<1>3. PICK stale \in SUBSET Names : f \in FreshFrames(stale)
  <2>1. RunInv /\ connected /\ l = logins /\ toServer[l] \in Seq(AnyFrame)
    BY <1>0, Served
  <2>2. PICK stale \in SUBSET Names : \E now, next, last \in FreshViews(stale) : Agree(stale, now, next, last)
    BY <2>1 DEF RunInv, AgreeInv
  <2>3. toServer[l] \in Seq(FreshFrames(stale))
    BY <2>1, <2>2 DEF Agree
  <2> QED BY <1>0, <2>3
<1>4. f.name \in Names /\ f.id \in Ids
  <2>1. f.name \in Names
    BY <1>1, <1>3 DEF FreshFrames
  <2>2. f \in Requests
    BY <1>0, Served
  <2> QED BY <1>1, <2>1, <2>2 DEF Requests
<1>5. a.type = "following" /\ a.id = f.id /\ a.name = f.name /\ a \in AnyFrame
  BY <1>4 DEF Frame, AnyFrame, FrameTypes
<1> HIDE DEF f, a
<1>6. ASSUME NEW st \in SUBSET Names, NEW last \in FreshViews(st), f \in FreshFrames(st), last.topics = topics, last.open
      PROVE  \E w \in FreshViews(st) : Learns(last, a, w) /\ w.topics = topics' /\ w.open
  <2> DEFINE w == [last EXCEPT !.topics = [@ EXCEPT ![f.id] = f.name]]
  <2>1. Fresh(st, f.id, f.name)
    BY <1>1, <1>6 DEF FreshFrames
  <2>2. w \in FreshViews(st) /\ w.topics = [last.topics EXCEPT ![f.id] = f.name] /\ w.open = last.open
    BY <1>4, <2>1, FreshView
  <2>3. Learns(last, a, w)
    BY <1>1, <1>4, <1>5, <1>6 DEF Learns
  <2> HIDE DEF w
  <2> QED BY <1>1, <1>6, <2>2, <2>3
<1>7. topics' \in [Ids -> Names \cup {NoName}]
  BY <1>1, <1>2, <1>4 DEF TypeOK
<1>8. a.type \notin {"RECEIPT", "EOF"} /\ Wants(f)
  BY <1>1, <1>5 DEF Wants
<1> QED BY <1>1, <1>2, <1>5, <1>6, <1>7, <1>8, ServeKeeps DEF f

LEMMA ServeUnsubscribeKeeps == ASSUME IInv, NEW l \in Logins, ServeUnsubscribe(l) PROVE Kept
<1> DEFINE f == Head(toServer[l])
           n == topics[f.id]
           a == Frame("unfollowing", f.id, n)
<1>0. Running /\ toServer[l] # <<>> /\ ~Closed(l)
  BY DEF ServeUnsubscribe, Serve, Running
<1>1. /\ f.type = "UNSUBSCRIBE" /\ session = l /\ session' = session
      /\ n # NoName
      /\ topics' = [topics EXCEPT ![f.id] = NoName]
      /\ Serve(l, <<a>>)
  BY <1>0 DEF ServeUnsubscribe, Request
<1>2. TypeOK /\ session # 0 /\ f \in Requests
  BY <1>0, <1>1, Served DEF Logins
<1>4. f.id \in Ids /\ n \in Names
  BY <1>1, <1>2 DEF Requests, TypeOK
<1>5. a.type = "unfollowing" /\ a.id = f.id /\ a.name = n /\ a \in AnyFrame
  BY <1>4 DEF Frame, AnyFrame, FrameTypes
<1> HIDE DEF f, a, n
<1>6. ASSUME NEW st \in SUBSET Names, NEW last \in FreshViews(st), last.topics = topics, last.open
      PROVE  \E w \in FreshViews(st) : Learns(last, a, w) /\ w.topics = topics' /\ w.open
  <2> DEFINE w == [last EXCEPT !.topics = [@ EXCEPT ![f.id] = NoName]]
  <2>2. w \in FreshViews(st) /\ w.topics = [last.topics EXCEPT ![f.id] = NoName] /\ w.open = last.open
    BY <1>4, FreshView
  <2>3. Learns(last, a, w)
    BY <1>4, <1>5, <1>6 DEF Learns, n
  <2> HIDE DEF w
  <2> QED BY <1>1, <1>6, <2>2, <2>3
<1>7. topics' \in [Ids -> Names \cup {NoName}]
  BY <1>1, <1>2, <1>4 DEF TypeOK
<1>8. a.type \notin {"RECEIPT", "EOF"} /\ ~Wants(a)
  BY <1>5 DEF Wants
<1> QED BY <1>1, <1>2, <1>5, <1>6, <1>7, <1>8, ServeKeeps DEF f

LEMMA ServeSendKeeps == ASSUME IInv, NEW l \in Logins, ServeSend(l) PROVE Kept
<1> DEFINE a == Frame("tweet", 0, Me)
<1>1. Serve(l, <<a>>) /\ session = l /\ session' = session /\ topics' = topics /\ session # 0
  BY DEF ServeSend, serverVars, Logins
<1>2. a \in AnyFrame /\ a.type = "tweet"
  BY ClientAssumption DEF Frame, AnyFrame, FrameTypes, Ids
<1>3. topics' \in [Ids -> Names \cup {NoName}]
  BY <1>1 DEF IInv, TypeOK
<1>4. a.type \notin {"RECEIPT", "EOF"} /\ ~Wants(a)
  BY <1>2 DEF Wants
<1>5. ASSUME NEW st, NEW last \in FreshViews(st), last.open PROVE Learns(last, a, last)
  BY <1>2, <1>5 DEF Learns
<1> HIDE DEF a
<1> QED BY <1>1, <1>2, <1>3, <1>4, <1>5, ServeKeeps

LEMMA RefuseKeeps == ASSUME IInv, NEW l \in Logins, Refuse(l) PROVE Kept
<1> DEFINE a == Plain("ERROR")
<1>1. Serve(l, <<a>>) /\ session' = session /\ topics' = topics
  BY DEF Refuse, serverVars
<1>2. a \in AnyFrame /\ a.type = "ERROR"
  BY PlainRequest DEF Requests, FrameTypes
<1>3. topics' \in [Ids -> Names \cup {NoName}]
  BY <1>1 DEF IInv, TypeOK
<1>4. a.type \notin {"RECEIPT", "EOF"} /\ ~Wants(a)
  BY <1>2 DEF Wants
<1>5. \A last : Learns(last, a, last)
  BY <1>2, LearnsNothing
<1> HIDE DEF a
<1> QED BY <1>1, <1>2, <1>3, <1>4, <1>5, ServeKeeps

\* The server closes the connection in use: d is what the client still reads.
LEMMA CloseKeeps ==
    ASSUME IInv, Running, connected, NEW l \in Logins, l = logins, NEW d \in Seq(AnyFrame),
           Has(d, "EOF"), Wanted(d) = Wanted(toClient[l]),
           \A W, u, w : Leads(W, u, toClient[l], w) /\ w \in W => Leads(W, u, d, w),
           session' = 0,
           toServer' = [toServer EXCEPT ![l] = <<>>],
           toClient' = [toClient EXCEPT ![l] = d],
           UNCHANGED <<clientVars, mapVars, listener, interrupted, keyboard, process, topics, countVars>>
    PROVE  Kept
<1>0. TypeOK /\ RunInv
  BY DEF IInv
<1>1. /\ toServer'[l] = <<>> /\ toClient'[l] = d
      /\ \A m \in Logins : m # l => toServer'[m] = toServer[m] /\ toClient'[m] = toClient[m]
  BY <1>0 DEF TypeOK
<1>2. TypeOK'
  <2>1. session' \in 0..MaxLogins
    BY ClientAssumption
  <2>2. toServer' \in [Logins -> Seq(AnyFrame)] /\ toClient' \in [Logins -> Seq(AnyFrame)]
    BY <1>0 DEF TypeOK
  <2> QED BY <1>0, <2>1, <2>2 DEF TypeOK, clientVars, mapVars, countVars
<1>3. ConnectionInv' /\ ListenersInv'
  BY <1>0 DEF RunInv, ConnectionInv, ListenersInv, clientVars, countVars
<1>4. NetInv'
  <2> SUFFICES ASSUME NEW m \in Logins
               PROVE  /\ m > logins => toClient'[m] = <<>>
                      /\ ~(m = logins /\ connected) => toServer'[m] = <<>> \/ Has(toClient'[m], "EOF")
                      /\ Has(toClient'[m], "EOF") => session' # m
                      /\ Has(toClient'[m], "RECEIPT") => Has(toClient'[m], "EOF")
                      /\ listener[m].pc = "visit" /\ listener[m].frame.type = "RECEIPT" => Has(toClient'[m], "EOF")
    BY DEF NetInv, Has, clientVars, countVars
  <2>1. CASE m = l
    BY <1>1, <2>1 DEF Logins
  <2>2. CASE m # l
    <3>1. /\ m > logins => toClient[m] = <<>>
          /\ ~(m = logins /\ connected) => toServer[m] = <<>> \/ Has(toClient[m], "EOF")
          /\ Has(toClient[m], "RECEIPT") => Has(toClient[m], "EOF")
          /\ listener[m].pc = "visit" /\ listener[m].frame.type = "RECEIPT" => Has(toClient[m], "EOF")
      BY <1>0 DEF RunInv, NetInv
    <3> QED BY <1>1, <2>2, <3>1 DEF Logins
  <2> QED BY <2>1, <2>2
<1>5. LoginInv'
  BY <1>0, <1>1 DEF RunInv, LoginInv, clientVars, countVars
<1>6. RequestInv' /\ MapInv'
  BY <1>0, <1>1 DEF RunInv, RequestInv, MapInv, Counting, mapVars, countVars
<1>7. CountInv'
  <2>1. Wanted(toServer'[logins]) = 0 /\ Wanted(toClient'[logins]) = Wanted(toClient[logins])
    BY <1>1, WantedEmpty
  <2>2. Wanted(toServer[logins]) \in Nat /\ Wanted(toClient[logins]) \in Nat
    BY <1>0, Numbers DEF RunInv
  <2> DEFINE rest == One(keyboard.pc = "send" /\ Wants(keyboard.frame))
                       + One(listener[logins].pc = "visit" /\ Wants(listener[logins].frame))
                       + One(listener[logins].pc = "count")
  <2>3. rest \in Nat
    BY DEF One
  <2>4. Expected = Wanted(toServer[logins]) + Wanted(toClient[logins]) + rest
    BY <2>2 DEF Expected, One
  <2>5. Expected' = Wanted(toClient[logins]) + rest
    BY <2>1, <2>2 DEF Expected, One, countVars
  <2> HIDE DEF rest
  <2>6. Expected' <= Expected /\ Expected \in Nat /\ Expected' \in Nat
    BY <2>2, <2>3, <2>4, <2>5
  <2>7. unique_identifier + One(subscriptions[Me] = NoId) + Expected <= commands + 1
    BY <1>0 DEF RunInv, CountInv
  <2>8. unique_identifier + One(subscriptions[Me] = NoId) + Expected' <= commands + 1
    BY <1>0, <2>6, <2>7, Numbers DEF RunInv
  <2> QED BY <2>8 DEF CountInv, mapVars, countVars, clientVars
<1>8. AgreeInv'
  <2>1. PICK stale \in SUBSET Names : \E now, next, last \in FreshViews(stale) : Agree(stale, now, next, last)
    BY <1>0 DEF RunInv, AgreeInv
  <2>2. PICK now \in FreshViews(stale), next \in FreshViews(stale), last \in FreshViews(stale) :
          Agree(stale, now, next, last)
    BY <2>1
  <2>3. FreshViews(stale)' = FreshViews(stale) /\ FreshFrames(stale)' = FreshFrames(stale)
    BY DEF FreshViews, FreshFrames, Fresh, mapVars
  <2>4. Knows(stale, now)'
    BY <2>2 DEF Agree, Knows, mapVars, clientVars, countVars
  <2>5. Leads(FreshViews(stale), next, d, last)
    BY <2>2 DEF Agree
  <2>6. LoggingIn' => LoggingIn
    BY <1>1 DEF LoggingIn, KeyboardSends, Has, countVars
  <2>7. Agree(stale, now, next, last)'
    BY <1>1, <2>2, <2>3, <2>4, <2>5, <2>6 DEF Agree, countVars
  <2> QED BY <2>3, <2>7 DEF AgreeInv
<1> QED BY <1>0, <1>2, <1>3, <1>4, <1>5, <1>6, <1>7, <1>8 DEF IInv, Kept, RunInv, Running

\* A frame that says nothing may end what the client reads.
LEMMA LeadsNothing ==
    ASSUME NEW s \in Seq(AnyFrame), NEW f \in AnyFrame, f.type \in {"RECEIPT", "EOF"}
    PROVE  /\ Append(s, f) \in Seq(AnyFrame) /\ Wanted(Append(s, f)) = Wanted(s)
           /\ \A W, u, w : Leads(W, u, s, w) /\ w \in W => Leads(W, u, Append(s, f), w)
<1>1. One(Wants(f)) = 0
  BY DEF One, Wants
<1>2. Append(s, f) \in Seq(AnyFrame) /\ Wanted(Append(s, f)) = Wanted(s)
  <2>1. Wanted(Append(s, f)) = Wanted(s) + One(Wants(f))
    BY WantedAppend
  <2>2. Wanted(s) \in Nat
    BY WantedFinite
  <2> QED BY <1>1, <2>1, <2>2, AppendFrames
<1>3. ASSUME NEW W, NEW u, NEW w \in W, Leads(W, u, s, w) PROVE Leads(W, u, Append(s, f), w)
  <2>1. Learns(w, f, w)
    BY LearnsNothing
  <2> QED BY <1>3, <2>1, LeadsAppend
<1> QED BY <1>2, <1>3

LEMMA ServeDisconnectKeeps == ASSUME IInv, NEW l \in Logins, ServeDisconnect(l) PROVE Kept
<1> DEFINE r == Plain("RECEIPT")
           e == Plain("EOF")
           c == toClient[l]
           d == Append(Append(c, r), e)
<1>0. Head(toServer[l]).type = "DISCONNECT" /\ toServer[l] # <<>> /\ Running /\ ~Closed(l)
  <2>1. Plain("none").type # "DISCONNECT"
    BY DEF Plain, Frame
  <2> QED BY <2>1 DEF ServeDisconnect, Request, Running
<1>1. connected /\ l = logins /\ c \in Seq(AnyFrame) /\ RunInv
  BY <1>0, Served
<1>2. r \in AnyFrame /\ r.type = "RECEIPT" /\ e \in AnyFrame /\ e.type = "EOF"
  BY PlainRequest DEF Requests, FrameTypes
<1> HIDE DEF r, e
<1>3. Append(c, r) \in Seq(AnyFrame) /\ d = c \o <<r, e>>
  BY <1>1, <1>2
<1>4. d \in Seq(AnyFrame) /\ Wanted(d) = Wanted(c) /\ \A W, u, w : Leads(W, u, c, w) /\ w \in W => Leads(W, u, d, w)
  BY <1>1, <1>2, <1>3, LeadsNothing
<1>5. Has(d, "EOF")
  BY <1>2, <1>3, HasAppend
<1>6. session' = 0
  BY <1>1 DEF ServeDisconnect, RunInv, ConnectionInv
<1>7. toClient' = [toClient EXCEPT ![l] = d]
  BY <1>3 DEF ServeDisconnect, r, e
<1> HIDE DEF c, d
<1> QED BY <1>0, <1>1, <1>4, <1>5, <1>6, <1>7, CloseKeeps DEF ServeDisconnect, c

LEMMA ServerStopsKeeps == ASSUME IInv, NEW l \in Logins, ServerStops(l) PROVE Kept
<1> DEFINE e == Plain("EOF")
           c == toClient[l]
           d == Append(c, e)
<1>0. Running /\ TypeOK /\ RunInv /\ session = l /\ l # 0
  BY DEF ServerStops, Running, IInv, Logins
<1>1. connected /\ l = logins /\ c \in Seq(AnyFrame)
  BY <1>0 DEF RunInv, ConnectionInv, TypeOK
<1>2. e \in AnyFrame /\ e.type = "EOF"
  BY PlainRequest DEF Requests, FrameTypes
<1>3. d \in Seq(AnyFrame) /\ Wanted(d) = Wanted(c) /\ \A W, u, w : Leads(W, u, c, w) /\ w \in W => Leads(W, u, d, w)
  BY <1>1, <1>2, LeadsNothing
<1>4. Has(d, "EOF")
  BY <1>1, <1>2, HasAppend
<1>5. toClient' = [toClient EXCEPT ![l] = d]
  BY DEF ServerStops
<1> HIDE DEF c, d, e
<1> QED BY <1>0, <1>1, <1>3, <1>4, <1>5, CloseKeeps DEF ServerStops, c

-----------------------------------------------------------------------------
(* Login, and frames that are sent                                         *)

LEMMA LoginKeeps == ASSUME IInv, NEW reached \in BOOLEAN, Login(reached) PROVE Kept
<1> DEFINE k == logins + 1
           a == Plain("CONNECT")
<1>0. TypeOK /\ Running /\ RunInv /\ keyboard.pc = "idle" /\ k \in Logins /\ logins \in Nat /\ k # 0
  <2>1. TypeOK /\ Running /\ RunInv /\ keyboard.pc = "idle" /\ logins < MaxLogins
    BY DEF Login, Idle, IInv, Running
  <2> QED BY <2>1, ClientAssumption DEF TypeOK, Logins
<1>1. /\ logins' = k /\ connection' = k /\ connected' = reached
      /\ keyboard' = (IF reached THEN [pc |-> "send", frame |-> a] ELSE keyboard)
      /\ UNCHANGED <<writer, mapVars, interrupted, process, netVars, serverVars, commands>>
  BY DEF Login, SendFrame
<1>2. /\ \A l \in Logins : l # k => listener'[l] = listener[l]
      /\ listener'[k].pc = "loop"
      /\ listener' \in [Logins -> [pc : {"none", "loop", "use", "read", "visit", "count", "done"},
                                on : 0..MaxLogins, frame : AnyFrame]]
  BY <1>0 DEF Login, TypeOK
<1>3. ~connected /\ session = 0 /\ (connection # 0 => listener[logins].pc = "done")
  BY <1>0 DEF Login, InUse, RunInv, ConnectionInv
<1>4. a \in Requests /\ a.type = "CONNECT" /\ a \in AnyFrame
  BY PlainRequest DEF Requests, FrameTypes
<1>5. toServer[k] = <<>> /\ toClient[k] = <<>>
  <2>1. toClient[k] = <<>>
    BY <1>0 DEF RunInv, NetInv
  <2> QED BY <1>0, <1>3, <2>1, HasEmpty DEF RunInv, NetInv
<1>6. \A l \in Logins : listener[l].pc \notin {"use", "read", "visit", "count"}
  BY <1>0, <1>3 DEF RunInv, ListenersInv
<1> HIDE DEF k, a
<1>7. TypeOK'
  <2>1. logins' \in 0..MaxLogins /\ connection' \in 0..MaxLogins
    BY <1>0, <1>1 DEF Logins
  <2>2. keyboard' \in [pc : {"idle", "send"}, frame : AnyFrame]
    BY <1>0, <1>1, <1>4 DEF TypeOK
  <2> QED BY <1>0, <1>1, <1>2, <2>1, <2>2 DEF TypeOK, mapVars, netVars, serverVars
<1>8. ConnectionInv'
  BY <1>0, <1>1, <1>3 DEF ConnectionInv, serverVars
<1>9. ListenersInv'
  <2> SUFFICES ASSUME NEW l \in Logins
               PROVE  /\ l > k <=> listener'[l].pc = "none"
                      /\ listener'[l].pc \in {"use", "read", "visit", "count"} => l = k /\ reached
                      /\ listener'[l].pc = "read" => listener'[l].on = l
                      /\ listener'[l].pc = "loop" => l \in interrupted \/ (l = k /\ k # 0)
    BY <1>1 DEF ListenersInv
  <2>1. CASE l = k
    BY <1>2, <2>1 DEF Logins
  <2>2. CASE l # k
    <3>1. l > logins <=> listener[l].pc = "none"
      BY <1>0 DEF RunInv, ListenersInv
    <3>2. l > logins <=> l > k
      BY <1>0, <2>2 DEF k, Logins
    <3>3. listener[l].pc = "loop" => l \in interrupted
      BY <1>0, <1>3 DEF RunInv, ListenersInv
    <3> QED BY <1>2, <1>6, <2>2, <3>1, <3>2, <3>3
  <2> QED BY <2>1, <2>2
<1>10. NetInv'
  <2> SUFFICES ASSUME NEW l \in Logins
               PROVE  /\ l > k => toClient[l] = <<>>
                      /\ toServer[l] = <<>> \/ Has(toClient[l], "EOF")
                      /\ Has(toClient[l], "EOF") => session # l
                      /\ Has(toClient[l], "RECEIPT") => Has(toClient[l], "EOF")
                      /\ listener'[l].pc # "visit"
    BY <1>1 DEF NetInv, Has, netVars, serverVars
  <2>1. l > k => l > logins
    BY <1>0 DEF k, Logins
  <2>2. listener'[l].pc # "visit"
    BY <1>2, <1>6
  <2> QED BY <1>0, <1>3, <2>1, <2>2 DEF RunInv, NetInv
<1>11. LoginInv'
  BY <1>1, <1>3, <1>5 DEF LoginInv, netVars, serverVars
<1>12. RequestInv'
  BY <1>0, <1>1, <1>4 DEF RunInv, RequestInv, netVars
<1>13. MapInv'
  <2>1. ~Counting
    BY <1>6 DEF Counting
  <2> QED BY <1>0, <1>1, <2>1 DEF RunInv, MapInv, mapVars
<1>14. CountInv'
  <2>1. unique_identifier + One(subscriptions[Me] = NoId) <= commands + 1
    BY <1>0, <1>3, Numbers DEF RunInv, CountInv
  <2>2. ASSUME reached PROVE Expected' = 0
    <3>1. Wanted(toServer'[k]) = 0 /\ Wanted(toClient'[k]) = 0
      BY <1>1, <1>5, WantedEmpty DEF netVars
    <3>2. One(keyboard'.pc = "send" /\ Wants(keyboard'.frame)) = 0
      BY <1>1, <1>4, <2>2 DEF One, Wants
    <3>3. One(listener'[k].pc = "visit" /\ Wants(listener'[k].frame)) = 0 /\ One(listener'[k].pc = "count") = 0
      BY <1>2 DEF One
    <3> QED BY <1>1, <3>1, <3>2, <3>3 DEF Expected
  <2>3. unique_identifier + One(subscriptions[Me] = NoId) + (IF reached THEN Expected' ELSE 0) <= commands + 1
    BY <1>0, <2>1, <2>2, Numbers DEF RunInv
  <2> QED BY <1>1, <2>3 DEF CountInv, mapVars
<1>15. AgreeInv'
  <2> DEFINE now == [topics |-> Nobody, open |-> FALSE]
  <2>0. PICK stale \in SUBSET Names : stale = {m \in Names : subscriptions[m] # NoId}
    OBVIOUS
  <2>1. /\ now \in FreshViews(stale)' /\ now.topics = Nobody /\ ~now.open
        /\ \A i \in Ids : now.topics[i] = NoName
    BY DEF FreshViews, View, Nobody
  <2>2. Knows(stale, now)'
    <3>1. \A m \in stale : subscriptions[m] \in 0..unique_identifier
      <4>1. ~Counting
        BY <1>6 DEF Counting
      <4> SUFFICES ASSUME NEW m \in Names, subscriptions[m] # NoId PROVE subscriptions[m] \in 0..unique_identifier
        BY <2>0
      <4>2. subscriptions[m] \in Ids /\ unique_identifier \in Nat
        BY <1>0 DEF TypeOK
      <4>3. subscriptions[m] <= unique_identifier
        BY <1>0, <4>1 DEF RunInv, MapInv
      <4> QED BY <4>2, <4>3 DEF Ids
    <3>2. k = 1 => stale = {}
      <4>1. k = 1 => logins = 0
        BY <1>0 DEF k
      <4> QED BY <1>0, <2>0, <4>1 DEF RunInv, MapInv
    <3>3. \A n \in Names \ stale : subscriptions[n] = NoId
      BY <2>0
    <3> HIDE DEF now
    <3>4. subscriptions' = subscriptions /\ unique_identifier' = unique_identifier /\ logins' = k
      BY <1>1 DEF mapVars
    <3> QED BY <2>1, <3>1, <3>2, <3>3, <3>4 DEF Knows
  <2>3. Leads(FreshViews(stale)', now, <<>>, now)
    BY <2>1, LeadsEmpty
  <2>4. a \in FreshFrames(stale)'
    BY <1>4 DEF FreshFrames
  <2> HIDE DEF now
  <2>6. ASSUME reached PROVE Agree(stale, now, now, now)'
    BY <1>1, <1>2, <1>3, <1>5, <2>1, <2>2, <2>3, <2>4, <2>6 DEF Agree, netVars, serverVars
  <2> QED BY <1>1, <2>1, <2>6 DEF AgreeInv
<1> QED BY <1>0, <1>1, <1>7, <1>8, <1>9, <1>10, <1>11, <1>12, <1>13, <1>14, <1>15 DEF IInv, Kept, RunInv, Running

LEMMA TailAppend ==
    ASSUME NEW s \in Seq(AnyFrame), s # <<>>, NEW f \in AnyFrame
    PROVE  Tail(Append(s, f)) = Append(Tail(s), f)
OBVIOUS

LEMMA SendKeeps == ASSUME IInv, Send PROVE Kept
<1> DEFINE f == keyboard.frame
           none == Plain("none")
           s == toServer[logins]
<1>0. TypeOK /\ Running /\ RunInv /\ keyboard.pc = "send" /\ f \in AnyFrame /\ f \in Requests
  BY DEF Send, IInv, Running, RunInv, RequestInv, TypeOK
<1>1. none \in Requests /\ none \in AnyFrame
  BY PlainRequest DEF Requests, FrameTypes
<1>2. keyboard' = [pc |-> "idle", frame |-> none]
  BY DEF Send
<1>3. UNCHANGED <<clientVars, mapVars, listener, interrupted, toClient, serverVars, countVars>>
  BY DEF Send
<1>4. CASE connection = 0
  <2>1. process' = "keyboard" /\ UNCHANGED toServer
    BY <1>4 DEF Send
  <2>2. TypeOK'
    BY <1>0, <1>1, <1>2, <1>3, <2>1 DEF TypeOK, clientVars, mapVars, serverVars, countVars
  <2> QED BY <2>1, <2>2 DEF Kept, Running
<1>5. CASE connection # 0
  <2>0. connected /\ connection = logins /\ logins \in Logins
    BY <1>0, <1>5, InLogin DEF RunInv, ConnectionInv
  <2>1. process' = process /\ toServer' = [toServer EXCEPT ![logins] = Append(s, f)]
    BY <1>5, <2>0 DEF Send
  <2>2. /\ s \in Seq(AnyFrame) /\ s \in Seq(Requests)
        /\ Append(s, f) \in Seq(AnyFrame) /\ Append(s, f) \in Seq(Requests) /\ Append(s, f) # <<>>
    <3>1. s \in Seq(AnyFrame) /\ s \in Seq(Requests)
      BY <1>0, <2>0 DEF TypeOK, RunInv, RequestInv
    <3> HIDE DEF s, f
    <3> QED BY <1>0, <3>1
  <2>3. toServer'[logins] = Append(s, f) /\ \A m \in Logins : m # logins => toServer'[m] = toServer[m]
    BY <1>0, <2>0, <2>1 DEF TypeOK
  <2>4. /\ KeyboardSends("CONNECT") <=> f.type = "CONNECT"
        /\ ~KeyboardSends("CONNECT")'
        /\ LoggingIn' <=> LoggingIn
    <3>1. Has(Append(s, f), "CONNECT") <=> Has(s, "CONNECT") \/ f.type = "CONNECT"
      BY <1>0, <2>2, HasAppend
    <3>2. (KeyboardSends("CONNECT") <=> f.type = "CONNECT") /\ ~KeyboardSends("CONNECT")'
      BY <1>0, <1>2 DEF KeyboardSends
    <3>3. LoggingIn' <=> Has(Append(s, f), "CONNECT")
      BY <1>3, <2>3, <3>2 DEF LoggingIn, Has, countVars
    <3> QED BY <3>1, <3>2, <3>3 DEF LoggingIn
  <2> HIDE DEF f, s, none
  <2>5. TypeOK'
    BY <1>0, <1>1, <1>2, <1>3, <2>1, <2>2 DEF TypeOK, clientVars, mapVars, serverVars, countVars
  <2>6. ConnectionInv' /\ ListenersInv'
    BY <1>0, <1>2, <1>3 DEF RunInv, ConnectionInv, ListenersInv, clientVars, serverVars, countVars
  <2>7. NetInv'
    <3> SUFFICES ASSUME NEW l \in Logins
                 PROVE  /\ l > logins => toClient[l] = <<>>
                        /\ ~(l = logins /\ connected) => toServer'[l] = <<>> \/ Has(toClient[l], "EOF")
                        /\ Has(toClient[l], "EOF") => session # l
                        /\ Has(toClient[l], "RECEIPT") => Has(toClient[l], "EOF")
                        /\ listener[l].pc = "visit" /\ listener[l].frame.type = "RECEIPT" => Has(toClient[l], "EOF")
      BY <1>3 DEF NetInv, Has, clientVars, serverVars, countVars
    <3> QED BY <1>0, <2>0, <2>3 DEF RunInv, NetInv
  <2>8. LoginInv'
    <3>1. Tail(Append(s, f)) \in Seq(Others)
      <4>1. CASE s = <<>>
        BY <1>0, <4>1
      <4>2. CASE s # <<>>
        <5>1. Tail(s) \in Seq(Others) /\ f.type # "CONNECT"
          BY <1>0, <2>0, <2>4, <4>2 DEF RunInv, LoginInv, s
        <5>2. f \in Others
          BY <1>0, <5>1 DEF Others
        <5> QED BY <1>0, <2>2, <4>2, <5>1, <5>2, TailAppend
      <4> QED BY <4>1, <4>2
    <3> QED BY <1>0, <1>3, <2>0, <2>3, <2>4, <3>1 DEF RunInv, LoginInv, countVars, serverVars
  <2>9. RequestInv'
    BY <1>0, <1>1, <1>2, <2>2, <2>3 DEF RunInv, RequestInv
  <2>10. MapInv'
    BY <1>0, <1>3 DEF RunInv, MapInv, Counting, mapVars, countVars
  <2>11. CountInv'
    <3>1. Wanted(toServer'[logins]) = Wanted(toServer[logins]) + One(Wants(f))
      BY <1>0, <2>2, <2>3, WantedAppend DEF s
    <3>2. One(keyboard.pc = "send" /\ Wants(keyboard.frame)) = One(Wants(f)) /\ One(Wants(f)) \in Nat
      BY <1>0 DEF One, f
    <3>3. One(keyboard'.pc = "send" /\ Wants(keyboard'.frame)) = 0
      BY <1>2 DEF One
    <3> DEFINE rest == One(listener[logins].pc = "visit" /\ Wants(listener[logins].frame))
                         + One(listener[logins].pc = "count")
    <3>4. rest \in Nat /\ Wanted(toServer[logins]) \in Nat /\ Wanted(toClient[logins]) \in Nat
      BY <1>0, <2>0, Numbers DEF One, RunInv
    <3>5. Expected = Wanted(toServer[logins]) + Wanted(toClient[logins]) + One(Wants(f)) + rest
      BY <3>2, <3>4 DEF Expected, One
    <3>6. Expected' = Wanted(toServer'[logins]) + Wanted(toClient[logins]) + 0 + rest
      BY <1>3, <3>1, <3>2, <3>3, <3>4 DEF Expected, One, countVars
    <3> HIDE DEF rest
    <3>7. Expected' = Expected
      BY <3>1, <3>2, <3>4, <3>5, <3>6
    <3> QED BY <1>0, <1>3, <3>7 DEF RunInv, CountInv, mapVars, countVars, clientVars
  <2>12. AgreeInv'
    <3>1. PICK stale \in SUBSET Names : \E now, next, last \in FreshViews(stale) : Agree(stale, now, next, last)
      BY <1>0, <2>0 DEF RunInv, AgreeInv
    <3>2. PICK now \in FreshViews(stale), next \in FreshViews(stale), last \in FreshViews(stale) :
            Agree(stale, now, next, last)
      BY <3>1
    <3>3. FreshViews(stale)' = FreshViews(stale) /\ FreshFrames(stale)' = FreshFrames(stale)
      BY <1>3 DEF FreshViews, FreshFrames, Fresh, mapVars
    <3>4. Knows(stale, now)'
      BY <1>3, <3>2 DEF Agree, Knows, mapVars, clientVars, countVars
    <3>5. Append(s, f) \in Seq(FreshFrames(stale))
      <4>1. s \in Seq(FreshFrames(stale)) /\ f \in FreshFrames(stale)
        BY <1>0, <3>2 DEF Agree, s, f
      <4> QED BY <4>1
    <3>6. keyboard'.pc # "send"
      BY <1>2
    <3>7. Agree(stale, now, next, last)'
      BY <1>3, <2>3, <2>4, <3>2, <3>3, <3>4, <3>5, <3>6 DEF Agree, serverVars, countVars
    <3> QED BY <3>3, <3>7 DEF AgreeInv
  <2> QED BY <1>0, <2>1, <2>5, <2>6, <2>7, <2>8, <2>9, <2>10, <2>11, <2>12 DEF IInv, Kept, RunInv, Running
<1> QED BY <1>4, <1>5

-----------------------------------------------------------------------------
(* The listener                                                            *)

\* A listener that goes on without a frame at hand.
LEMMA MoveKeeps ==
    ASSUME IInv, Running, NEW l \in Logins, listener[l].pc \in {"loop", "use"},
           TypeOK', ListenersInv', listener'[l].pc \in {"use", "read", "done"},
           \A m \in Logins : m # l => listener'[m] = listener[m],
           UNCHANGED <<clientVars, mapVars, interrupted, keyboard, process, netVars, serverVars, countVars>>
    PROVE  Kept
<1>0. TypeOK /\ RunInv
  BY DEF IInv
<1>1. ConnectionInv' /\ LoginInv' /\ RequestInv'
  BY <1>0 DEF RunInv, ConnectionInv, LoginInv, LoggingIn, KeyboardSends, Has, RequestInv,
              clientVars, netVars, serverVars, countVars
<1>2. \A m \in Logins : /\ listener'[m].pc = "visit" <=> listener[m].pc = "visit"
                        /\ listener'[m].pc = "count" <=> listener[m].pc = "count"
                        /\ listener'[m].pc = "visit" => listener'[m].frame = listener[m].frame
  OBVIOUS
<1>3. NetInv'
  BY <1>0, <1>2 DEF RunInv, NetInv, Has, clientVars, netVars, serverVars, countVars
<1>4. MapInv'
  BY <1>0, <1>2 DEF RunInv, MapInv, Counting, mapVars, countVars
<1>5. ASSUME connected
      PROVE  /\ logins \in Logins
             /\ listener'[logins].pc = "visit" <=> listener[logins].pc = "visit"
             /\ listener'[logins].pc = "count" <=> listener[logins].pc = "count"
             /\ listener'[logins].pc = "visit" => listener'[logins].frame = listener[logins].frame
  BY <1>0, <1>2, <1>5, InLogin DEF RunInv
<1>6. CountInv'
  <2>1. ASSUME connected PROVE Expected' = Expected
    <3>1. One(listener'[logins].pc = "visit" /\ Wants(listener'[logins].frame))
            = One(listener[logins].pc = "visit" /\ Wants(listener[logins].frame))
      BY <1>5, <2>1 DEF One
    <3>2. One(listener'[logins].pc = "count") = One(listener[logins].pc = "count")
      BY <1>5, <2>1 DEF One
    <3> QED BY <3>1, <3>2 DEF Expected, netVars, countVars
  <2> QED BY <1>0, <2>1 DEF RunInv, CountInv, mapVars, countVars, clientVars
<1>7. AgreeInv'
  <2> SUFFICES ASSUME connected PROVE (\E stale \in SUBSET Names :
                 \E now, next, last \in FreshViews(stale) : Agree(stale, now, next, last))'
    BY DEF AgreeInv, clientVars
  <2>1. PICK stale \in SUBSET Names : \E now, next, last \in FreshViews(stale) : Agree(stale, now, next, last)
    BY <1>0 DEF RunInv, AgreeInv
  <2>2. PICK now \in FreshViews(stale), next \in FreshViews(stale), last \in FreshViews(stale) :
          Agree(stale, now, next, last)
    BY <2>1
  <2>3. FreshViews(stale)' = FreshViews(stale) /\ FreshFrames(stale)' = FreshFrames(stale)
    BY DEF FreshViews, FreshFrames, Fresh, mapVars
  <2>4. Knows(stale, now)'
    BY <2>2 DEF Agree, Knows, mapVars, clientVars, countVars
  <2>5. LoggingIn' <=> LoggingIn
    BY DEF LoggingIn, KeyboardSends, Has, netVars, countVars
  <2>6. IF listener'[logins].pc = "visit" THEN Learns(now, listener'[logins].frame, next) ELSE next = now
    BY <1>5, <2>2 DEF Agree
  <2>7. Agree(stale, now, next, last)'
    BY <2>2, <2>3, <2>4, <2>5, <2>6 DEF Agree, netVars, serverVars, countVars
  <2> QED BY <2>3, <2>7
<1> QED BY <1>0, <1>1, <1>3, <1>4, <1>6, <1>7 DEF IInv, Kept, RunInv, Running

\* What a step does to its listener and to no other.
Places == {"none", "loop", "use", "read", "visit", "count", "done"}
Threads == [pc : Places, on : 0..MaxLogins, frame : AnyFrame]

LEMMA ThreadGoes ==
    ASSUME NEW x \in Threads
    PROVE  /\ \A p \in Places : [x EXCEPT !.pc = p] \in Threads /\ [x EXCEPT !.pc = p].pc = p
           /\ \A o \in 0..MaxLogins : /\ [x EXCEPT !.on = o] \in Threads /\ [x EXCEPT !.on = o].on = o
                                     /\ [x EXCEPT !.on = o].pc = x.pc
           /\ \A f \in AnyFrame : /\ [x EXCEPT !.frame = f] \in Threads /\ [x EXCEPT !.frame = f].frame = f
                                  /\ [x EXCEPT !.frame = f].pc = x.pc /\ [x EXCEPT !.frame = f].on = x.on
BY DEF Threads

LEMMA ListenerMoves ==
    ASSUME TypeOK, NEW l \in Logins, NEW x \in Threads, listener' = [listener EXCEPT ![l] = x]
    PROVE  /\ listener'[l] = x
           /\ \A m \in Logins : m # l => listener'[m] = listener[m]
           /\ listener' \in [Logins -> Threads]
<1>1. listener \in [Logins -> Threads]
  BY DEF TypeOK, Threads, Places
<1> QED BY <1>1

\* Only the last listener can be at work.
LEMMA LoopKeeps == ASSUME IInv, NEW l \in Logins, Loop(l) PROVE Kept
<1> DEFINE p == IF connected /\ l \notin interrupted THEN "use" ELSE "done"
<1>0. TypeOK /\ RunInv /\ Running /\ listener[l].pc = "loop"
  BY DEF Loop, ListenerAt, IInv, Running
<1>1. UNCHANGED <<clientVars, mapVars, interrupted, keyboard, process, netVars, serverVars, countVars>>
  BY DEF Loop
<1>2. /\ listener'[l].pc = p
      /\ \A m \in Logins : m # l => listener'[m] = listener[m]
      /\ listener' \in [Logins -> [pc : {"none", "loop", "use", "read", "visit", "count", "done"},
                                on : 0..MaxLogins, frame : AnyFrame]]
  BY <1>0 DEF Loop, ListenerGoto, TypeOK
<1>3. TypeOK'
  BY <1>0, <1>1, <1>2 DEF TypeOK, clientVars, mapVars, netVars, serverVars, countVars
<1>4. ListenersInv'
  <2> SUFFICES ASSUME NEW m \in Logins
               PROVE  /\ m > logins <=> listener'[m].pc = "none"
                      /\ listener'[m].pc \in {"use", "read", "visit", "count"} => m = logins /\ connected
                      /\ listener'[m].pc = "read" => listener'[m].on = m
                      /\ listener'[m].pc = "loop" => m \in interrupted \/ (m = logins /\ connection # 0)
    BY <1>1 DEF ListenersInv, clientVars, countVars
  <2>1. /\ m > logins <=> listener[m].pc = "none"
        /\ listener[m].pc \in {"use", "read", "visit", "count"} => m = logins /\ connected
        /\ listener[m].pc = "read" => listener[m].on = m
        /\ listener[m].pc = "loop" => m \in interrupted \/ (m = logins /\ connection # 0)
    BY <1>0 DEF RunInv, ListenersInv
  <2>2. CASE m = l
    BY <1>0, <1>2, <2>1, <2>2
  <2>3. CASE m # l
    BY <1>2, <2>1, <2>3
  <2> QED BY <2>2, <2>3
<1>5. p \in {"use", "read", "done"}
  OBVIOUS
<1> HIDE DEF p
<1> QED BY <1>0, <1>1, <1>2, <1>3, <1>4, <1>5, MoveKeeps

LEMMA UseKeeps == ASSUME IInv, NEW l \in Logins, Use(l) PROVE Kept
<1>0. TypeOK /\ RunInv /\ Running /\ listener[l].pc = "use"
  BY DEF Use, ListenerAt, IInv, Running
<1>1. connected /\ l = logins /\ connection = l
  BY <1>0, InLogin DEF RunInv, ListenersInv
<1>2. /\ UNCHANGED <<clientVars, mapVars, interrupted, keyboard, process, netVars, serverVars, countVars>>
      /\ listener' = [listener EXCEPT ![l].pc = "read", ![l].on = connection]
  BY <1>1 DEF Use, Logins
<1>3. /\ listener'[l].pc = "read" /\ listener'[l].on = l
      /\ \A m \in Logins : m # l => listener'[m] = listener[m]
      /\ listener' \in [Logins -> [pc : {"none", "loop", "use", "read", "visit", "count", "done"},
                                on : 0..MaxLogins, frame : AnyFrame]]
  <2>1. listener \in [Logins -> Threads] /\ connection \in 0..MaxLogins /\ listener[l] \in Threads
    BY <1>0 DEF TypeOK, Threads, Places
  <2> DEFINE x1 == [listener[l] EXCEPT !.pc = "read"]
             x2 == [x1 EXCEPT !.on = connection]
  <2>2. x1 \in Threads /\ x1.pc = "read"
    BY <2>1, ThreadGoes DEF Places
  <2>3. listener' = [listener EXCEPT ![l] = x2]
    BY <1>2, <2>1
  <2> HIDE DEF x1
  <2>4. x2 \in Threads /\ x2.pc = "read" /\ x2.on = connection
    BY <2>1, <2>2, ThreadGoes
  <2> HIDE DEF x2
  <2>5. /\ listener'[l] = x2 /\ \A m \in Logins : m # l => listener'[m] = listener[m]
        /\ listener' \in [Logins -> Threads]
    BY <1>0, <2>3, <2>4, ListenerMoves
  <2> QED BY <1>1, <2>4, <2>5 DEF Threads, Places
<1>4. TypeOK'
  BY <1>0, <1>2, <1>3 DEF TypeOK, clientVars, mapVars, netVars, serverVars, countVars
<1>5. ListenersInv'
  <2> SUFFICES ASSUME NEW m \in Logins
               PROVE  /\ m > logins <=> listener'[m].pc = "none"
                      /\ listener'[m].pc \in {"use", "read", "visit", "count"} => m = logins /\ connected
                      /\ listener'[m].pc = "read" => listener'[m].on = m
                      /\ listener'[m].pc = "loop" => m \in interrupted \/ (m = logins /\ connection # 0)
    BY <1>2 DEF ListenersInv, clientVars, countVars
  <2>1. /\ m > logins <=> listener[m].pc = "none"
        /\ listener[m].pc \in {"use", "read", "visit", "count"} => m = logins /\ connected
        /\ listener[m].pc = "read" => listener[m].on = m
        /\ listener[m].pc = "loop" => m \in interrupted \/ (m = logins /\ connection # 0)
    BY <1>0 DEF RunInv, ListenersInv
  <2>2. CASE m = l
    BY <1>0, <1>1, <1>3, <2>1, <2>2
  <2>3. CASE m # l
    BY <1>3, <2>1, <2>3
  <2> QED BY <2>2, <2>3
<1> QED BY <1>0, <1>2, <1>3, <1>4, <1>5, MoveKeeps

LEMMA ReadKeeps == ASSUME IInv, NEW l \in Logins, Read(l) PROVE Kept
<1> DEFINE s == toClient[l]
           h == Head(s)
<1>0. /\ TypeOK /\ RunInv /\ Running /\ listener[l].pc = "read"
      /\ connected /\ l = logins /\ listener[l].on = l
  BY DEF Read, ListenerAt, IInv, Running, RunInv, ListenersInv
<1>1. /\ UNCHANGED <<clientVars, mapVars, interrupted, keyboard, process, toServer, serverVars, countVars>>
      /\ toClient' = [toClient EXCEPT ![l] = Tail(s)]
      /\ listener' = [listener EXCEPT ![l].pc = "visit", ![l].on = 0, ![l].frame = h]
      /\ s # <<>> /\ h.type # "EOF"
  BY <1>0 DEF Read
<1>2. s \in Seq(AnyFrame) /\ h \in AnyFrame /\ Tail(s) \in Seq(AnyFrame)
      /\ \A type : Has(s, type) <=> h.type = type \/ Has(Tail(s), type)
  <2>1. s \in Seq(AnyFrame)
    BY <1>0 DEF TypeOK
  <2> QED BY <1>1, <2>1, TailFrames, HasTail
<1>3. /\ listener'[l].pc = "visit" /\ listener'[l].frame = h
      /\ \A m \in Logins : m # l => listener'[m] = listener[m] /\ toClient'[m] = toClient[m]
      /\ toClient'[l] = Tail(s)
      /\ toClient' \in [Logins -> Seq(AnyFrame)]
      /\ listener' \in [Logins -> [pc : {"none", "loop", "use", "read", "visit", "count", "done"},
                                on : 0..MaxLogins, frame : AnyFrame]]
  <2>1. 0 \in 0..MaxLogins /\ "visit" \in Places
    BY ClientAssumption DEF Places
  <2> HIDE DEF h, s
  <2>2. /\ listener'[l].pc = "visit" /\ listener'[l].frame = h
        /\ \A m \in Logins : m # l => listener'[m] = listener[m]
        /\ listener' \in [Logins -> Threads]
    <3>1. h \in AnyFrame /\ listener[l] \in Threads
      BY <1>0, <1>2 DEF TypeOK, Threads, Places
    <3> DEFINE x1 == [listener[l] EXCEPT !.pc = "visit"]
               x2 == [x1 EXCEPT !.on = 0]
               x3 == [x2 EXCEPT !.frame = h]
    <3>2. x1 \in Threads /\ x1.pc = "visit"
      BY <2>1, <3>1, ThreadGoes
    <3>3. listener' = [listener EXCEPT ![l] = x3]
      BY <1>0, <1>1 DEF TypeOK
    <3> HIDE DEF x1
    <3>4. x2 \in Threads /\ x2.pc = "visit"
      BY <2>1, <3>2, ThreadGoes
    <3> HIDE DEF x2
    <3>5. x3 \in Threads /\ x3.pc = "visit" /\ x3.frame = h
      BY <3>1, <3>4, ThreadGoes
    <3> HIDE DEF x3
    <3> QED BY <1>0, <3>3, <3>5, ListenerMoves
  <2>3. /\ toClient'[l] = Tail(s) /\ \A m \in Logins : m # l => toClient'[m] = toClient[m]
        /\ toClient' \in [Logins -> Seq(AnyFrame)]
    BY <1>0, <1>1, <1>2 DEF TypeOK
  <2> QED BY <2>2, <2>3 DEF Threads, Places
<1> HIDE DEF h, s
<1>4. TypeOK'
  BY <1>0, <1>1, <1>3 DEF TypeOK, clientVars, mapVars, serverVars, countVars
<1>5. ConnectionInv' /\ LoginInv' /\ RequestInv'
  BY <1>0, <1>1 DEF RunInv, ConnectionInv, LoginInv, LoggingIn, KeyboardSends, Has, RequestInv,
                    clientVars, serverVars, countVars
<1>6. ListenersInv' /\ NetInv'
  <2> SUFFICES ASSUME NEW m \in Logins
               PROVE  /\ m > logins <=> listener'[m].pc = "none"
                      /\ listener'[m].pc \in {"use", "read", "visit", "count"} => m = logins /\ connected
                      /\ listener'[m].pc = "read" => listener'[m].on = m
                      /\ listener'[m].pc = "loop" => m \in interrupted \/ (m = logins /\ connection # 0)
                      /\ m > logins => toClient'[m] = <<>>
                      /\ ~(m = logins /\ connected) => toServer[m] = <<>> \/ Has(toClient'[m], "EOF")
                      /\ Has(toClient'[m], "EOF") => session # m
                      /\ Has(toClient'[m], "RECEIPT") => Has(toClient'[m], "EOF")
                      /\ listener'[m].pc = "visit" /\ listener'[m].frame.type = "RECEIPT" => Has(toClient'[m], "EOF")
    BY <1>1 DEF ListenersInv, NetInv, Has, clientVars, serverVars, countVars
  <2>1. /\ m > logins <=> listener[m].pc = "none"
        /\ listener[m].pc \in {"use", "read", "visit", "count"} => m = logins /\ connected
        /\ listener[m].pc = "read" => listener[m].on = m
        /\ listener[m].pc = "loop" => m \in interrupted \/ (m = logins /\ connection # 0)
    BY <1>0 DEF RunInv, ListenersInv
  <2>2. /\ m > logins => toClient[m] = <<>>
        /\ ~(m = logins /\ connected) => toServer[m] = <<>> \/ Has(toClient[m], "EOF")
        /\ Has(toClient[m], "EOF") => session # m
        /\ Has(toClient[m], "RECEIPT") => Has(toClient[m], "EOF")
        /\ listener[m].pc = "visit" /\ listener[m].frame.type = "RECEIPT" => Has(toClient[m], "EOF")
    BY <1>0 DEF RunInv, NetInv
  <2>3. CASE m = l
    BY <1>0, <1>1, <1>2, <1>3, <2>1, <2>2, <2>3 DEF s
  <2>4. CASE m # l
    BY <1>3, <2>1, <2>2, <2>4
  <2> QED BY <2>3, <2>4
<1>7. MapInv'
  <2>1. Counting' <=> Counting
    BY <1>0, <1>3 DEF Counting
  <2> QED BY <1>0, <1>1, <2>1 DEF RunInv, MapInv, mapVars, countVars
<1>8. CountInv'
  <2>1. Wanted(toClient[logins]) = Wanted(toClient'[logins]) + One(Wants(h))
    BY <1>0, <1>1, <1>2, <1>3, WantedTail DEF s, h
  <2>2. One(listener'[logins].pc = "visit" /\ Wants(listener'[logins].frame)) = One(Wants(h)) /\ One(Wants(h)) \in Nat
    BY <1>0, <1>3 DEF One
  <2>3. /\ One(listener[logins].pc = "visit" /\ Wants(listener[logins].frame)) = 0
        /\ One(listener[logins].pc = "count") = 0 /\ One(listener'[logins].pc = "count") = 0
    BY <1>0, <1>3 DEF One
  <2> DEFINE rest == One(keyboard.pc = "send" /\ Wants(keyboard.frame))
  <2>4. rest \in Nat /\ Wanted(toServer[logins]) \in Nat /\ Wanted(toClient[logins]) \in Nat
        /\ Wanted(toClient'[logins]) \in Nat
    BY <1>0, <1>2, <1>3, Numbers, WantedFinite DEF One, RunInv
  <2>5. Expected = Wanted(toServer[logins]) + Wanted(toClient[logins]) + rest + 0 + 0
    BY <2>3 DEF Expected
  <2>6. Expected' = Wanted(toServer[logins]) + Wanted(toClient'[logins]) + rest + One(Wants(h)) + 0
    BY <1>1, <2>2, <2>3 DEF Expected, countVars
  <2> HIDE DEF rest
  <2>7. Expected' = Expected
    BY <2>1, <2>2, <2>4, <2>5, <2>6
  <2> QED BY <1>0, <1>1, <2>7 DEF RunInv, CountInv, mapVars, countVars, clientVars
<1>9. AgreeInv'
  <2>1. PICK stale \in SUBSET Names : \E now, next, last \in FreshViews(stale) : Agree(stale, now, next, last)
    BY <1>0 DEF RunInv, AgreeInv
  <2>2. PICK now \in FreshViews(stale), next \in FreshViews(stale), last \in FreshViews(stale) :
          Agree(stale, now, next, last)
    BY <2>1
  <2>3. FreshViews(stale)' = FreshViews(stale) /\ FreshFrames(stale)' = FreshFrames(stale)
    BY <1>1 DEF FreshViews, FreshFrames, Fresh, mapVars
  <2>4. Knows(stale, now)'
    BY <1>1, <2>2 DEF Agree, Knows, mapVars, clientVars, countVars
  <2>5. LoggingIn' <=> LoggingIn
    BY <1>1 DEF LoggingIn, KeyboardSends, Has, countVars
  <2>6. PICK v \in FreshViews(stale) : Learns(now, h, v) /\ Leads(FreshViews(stale), v, Tail(s), last)
    <3>1. Leads(FreshViews(stale), now, s, last)
      BY <1>0, <2>2 DEF Agree, s
    <3> QED BY <1>1, <1>2, <3>1, LeadsTail DEF h
  <2>7. Agree(stale, now, v, last)'
    BY <1>0, <1>1, <1>3, <2>2, <2>3, <2>4, <2>5, <2>6 DEF Agree, serverVars, countVars
  <2> QED BY <2>3, <2>7 DEF AgreeInv
<1> QED BY <1>0, <1>1, <1>4, <1>5, <1>6, <1>7, <1>8, <1>9 DEF IInv, Kept, RunInv, Running

LEMMA ReadEofKeeps == ASSUME IInv, NEW l \in Logins, ReadEof(l) PROVE Kept
<1>1. process' = "exited" /\ TypeOK /\ ConnectionInv /\ OnDisconnect
  BY DEF ReadEof, ListenerAt, IInv, Running, RunInv
<1>2. TypeOK'
  BY <1>1, DisconnectType DEF ReadEof, TypeOK, mapVars, netVars, serverVars, countVars
<1> QED BY <1>1, <1>2 DEF Kept, Running

\* A listener that has handled its frame, or has counted a new user.
LEMMA ListenerVisited ==
    ASSUME TypeOK, NEW l \in Logins, NEW p \in Places, Visited(l, p)
    PROVE  /\ listener'[l].pc = p
           /\ \A m \in Logins : m # l => listener'[m] = listener[m]
           /\ listener' \in [Logins -> Threads]
<1> DEFINE none == Plain("none")
           x1 == [listener[l] EXCEPT !.pc = p]
           x2 == [x1 EXCEPT !.frame = none]
<1>1. none \in AnyFrame
  BY PlainRequest DEF Requests, FrameTypes
<1>2. listener' = [listener EXCEPT ![l] = x2]
  BY DEF Visited, TypeOK
<1> HIDE DEF none
<1>3. listener[l] \in Threads
  BY DEF TypeOK, Threads, Places
<1>4. x1 \in Threads /\ x1.pc = p
  BY <1>3, ThreadGoes
<1> HIDE DEF x1
<1>5. x2 \in Threads /\ x2.pc = p
  BY <1>1, <1>4, ThreadGoes
<1> HIDE DEF x2
<1> QED BY <1>2, <1>5, ListenerMoves

\* At most one listener has a frame at hand, and none is counting meanwhile.
LEMMA AtHand ==
    ASSUME IInv, Running, NEW l \in Logins, listener[l].pc \in {"visit", "count"}
    PROVE  /\ TypeOK /\ RunInv /\ l = logins /\ connected /\ connection = l
           /\ \A m \in Logins : m # l => listener[m].pc \notin {"use", "read", "visit", "count"}
           /\ listener[l].pc = "visit" => ~Counting
<1>1. TypeOK /\ RunInv
  BY DEF IInv
<1>2. l = logins /\ connected
      /\ \A m \in Logins : m # l => listener[m].pc \notin {"use", "read", "visit", "count"}
  BY <1>1 DEF RunInv, ListenersInv
<1>3. listener[l].pc = "visit" => ~Counting
  BY <1>2 DEF Counting
<1> QED BY <1>1, <1>2, <1>3, InLogin DEF RunInv

\* A frame is handled, and the client learns what the server meant.
LEMMA VisitKeeps ==
    ASSUME IInv, Running, NEW l \in Logins, listener[l].pc = "visit", NEW p \in {"loop", "count"}, Visited(l, p),
           UNCHANGED <<connected, connection, unique_identifier, interrupted, keyboard, process, netVars,
                       serverVars, countVars>>,
           writer' \in BOOLEAN,
           subscriptions' \in [Names \cup {Me} -> Ids \cup {NoId}],
           subscriptions'[Me] \in {NoId, 0},
           \A n \in Names : subscriptions'[n] <= unique_identifier + 1,
           p = "loop" => \A n \in Names : subscriptions'[n] <= unique_identifier,
           One(subscriptions'[Me] = NoId) + One(p = "count")
             <= One(subscriptions[Me] = NoId) + One(Wants(listener[l].frame)),
           ASSUME NEW stale \in SUBSET Names, NEW now \in FreshViews(stale), NEW next \in FreshViews(stale),
                  Knows(stale, now), Learns(now, listener[l].frame, next)
           PROVE  Knows(stale, next)' /\ \A m \in stale : subscriptions'[m] = subscriptions[m]
    PROVE  Kept
<1>0. /\ TypeOK /\ RunInv /\ l = logins /\ connected /\ connection = l
      /\ \A m \in Logins : m # l => listener[m].pc \notin {"use", "read", "visit", "count"}
  BY AtHand
<1>1. /\ listener'[l].pc = p
      /\ \A m \in Logins : m # l => listener'[m] = listener[m]
      /\ listener' \in [Logins -> Threads]
  BY <1>0, ListenerVisited DEF Places
<1>2. TypeOK'
  BY <1>0, <1>1 DEF TypeOK, Threads, Places, netVars, serverVars, countVars
<1>3. ConnectionInv' /\ LoginInv' /\ RequestInv'
  BY <1>0 DEF RunInv, ConnectionInv, LoginInv, LoggingIn, KeyboardSends, Has, RequestInv,
              netVars, serverVars, countVars
<1>4. ListenersInv' /\ NetInv'
  <2> SUFFICES ASSUME NEW m \in Logins
               PROVE  /\ m > logins <=> listener'[m].pc = "none"
                      /\ listener'[m].pc \in {"use", "read", "visit", "count"} => m = logins /\ connected
                      /\ listener'[m].pc = "read" => listener'[m].on = m
                      /\ listener'[m].pc = "loop" => m \in interrupted \/ (m = logins /\ connection # 0)
                      /\ m > logins => toClient[m] = <<>>
                      /\ ~(m = logins /\ connected) => toServer[m] = <<>> \/ Has(toClient[m], "EOF")
                      /\ Has(toClient[m], "EOF") => session # m
                      /\ Has(toClient[m], "RECEIPT") => Has(toClient[m], "EOF")
                      /\ listener'[m].pc # "visit"
    BY DEF ListenersInv, NetInv, Has, netVars, serverVars, countVars
  <2>1. /\ m > logins <=> listener[m].pc = "none"
        /\ listener[m].pc = "loop" => m \in interrupted \/ (m = logins /\ connection # 0)
    BY <1>0 DEF RunInv, ListenersInv
  <2>2. /\ m > logins => toClient[m] = <<>>
        /\ ~(m = logins /\ connected) => toServer[m] = <<>> \/ Has(toClient[m], "EOF")
        /\ Has(toClient[m], "EOF") => session # m
        /\ Has(toClient[m], "RECEIPT") => Has(toClient[m], "EOF")
    BY <1>0 DEF RunInv, NetInv
  <2>3. CASE m = l
    BY <1>0, <1>1, <2>1, <2>2, <2>3 DEF Logins
  <2>4. CASE m # l
    BY <1>0, <1>1, <2>1, <2>2, <2>4
  <2> QED BY <2>3, <2>4
<1>5. MapInv'
  <2>1. Counting' <=> p = "count"
    BY <1>0, <1>1 DEF Counting
  <2>2. logins' # 0
    BY <1>0 DEF countVars, Logins
  <2> QED BY <2>1, <2>2 DEF MapInv
<1>6. CountInv'
  <2> DEFINE rest == Wanted(toServer[logins]) + Wanted(toClient[logins])
                       + One(keyboard.pc = "send" /\ Wants(keyboard.frame))
  <2>1. rest \in Nat
    BY <1>0, Numbers DEF One, RunInv
  <2>2. One(listener[logins].pc = "visit" /\ Wants(listener[logins].frame)) = One(Wants(listener[l].frame))
        /\ One(listener[logins].pc = "count") = 0
    BY <1>0 DEF One
  <2>3. One(listener'[logins].pc = "visit" /\ Wants(listener'[logins].frame)) = 0
        /\ One(listener'[logins].pc = "count") = One(p = "count")
    BY <1>0, <1>1 DEF One
  <2>4. Expected = rest + One(Wants(listener[l].frame)) + 0
    BY <2>2 DEF Expected
  <2>5. Expected' = rest + 0 + One(p = "count")
    BY <2>3 DEF Expected, netVars, countVars
  <2> HIDE DEF rest
  <2>6. /\ One(p = "count") \in Nat /\ One(Wants(listener[l].frame)) \in Nat
        /\ One(subscriptions[Me] = NoId) \in Nat /\ One(subscriptions'[Me] = NoId) \in Nat
    BY DEF One
  <2>7. unique_identifier + One(subscriptions[Me] = NoId) + Expected <= commands + 1
    BY <1>0 DEF RunInv, CountInv
  <2>8. unique_identifier + One(subscriptions'[Me] = NoId) + Expected' <= commands + 1
    <3> DEFINE a == One(p = "count")
               b == One(Wants(listener[l].frame))
               c == One(subscriptions[Me] = NoId)
               d == One(subscriptions'[Me] = NoId)
    <3>1. a \in Nat /\ b \in Nat /\ c \in Nat /\ d \in Nat /\ d + a <= c + b
      BY <2>6
    <3>2. unique_identifier \in Nat /\ commands \in Nat
      BY <1>0, Numbers DEF RunInv
    <3> HIDE DEF a, b, c, d
    <3>3. unique_identifier + c + (rest + b + 0) <= commands + 1
      BY <2>4, <2>7 DEF b, c
    <3>4. unique_identifier + d + (rest + 0 + a) <= commands + 1
      BY <2>1, <3>1, <3>2, <3>3
    <3> QED BY <2>5, <3>4 DEF a, d
  <2> QED BY <1>0, <2>8 DEF CountInv, countVars
<1>7. AgreeInv'
  <2>1. PICK stale \in SUBSET Names : \E now, next, last \in FreshViews(stale) : Agree(stale, now, next, last)
    BY <1>0 DEF RunInv, AgreeInv
  <2>2. PICK now \in FreshViews(stale), next \in FreshViews(stale), last \in FreshViews(stale) :
          Agree(stale, now, next, last)
    BY <2>1
  <2>3. Knows(stale, now) /\ Learns(now, listener[l].frame, next)
    BY <1>0, <2>2 DEF Agree
  <2>4. Knows(stale, next)' /\ \A m \in stale : subscriptions'[m] = subscriptions[m]
    BY <2>3
  <2>5. \A id, n : Fresh(stale, id, n)' <=> Fresh(stale, id, n)
    BY <2>4 DEF Fresh
  <2>6. FreshViews(stale)' = FreshViews(stale) /\ FreshFrames(stale)' = FreshFrames(stale)
    BY <2>5 DEF FreshViews, FreshFrames
  <2>7. LoggingIn' <=> LoggingIn
    BY DEF LoggingIn, KeyboardSends, Has, netVars, countVars
  <2>8. listener'[logins].pc # "visit"
    BY <1>0, <1>1
  <2>9. Agree(stale, next, next, last)'
    BY <2>2, <2>4, <2>6, <2>7, <2>8 DEF Agree, netVars, serverVars, countVars
  <2> QED BY <2>6, <2>9 DEF AgreeInv
<1> QED BY <1>0, <1>2, <1>3, <1>4, <1>5, <1>6, <1>7 DEF IInv, Kept, RunInv, Running

\* What is known of the map while a frame is at hand.
LEMMA MapBounds ==
    ASSUME IInv, Running, NEW l \in Logins, listener[l].pc = "visit"
    PROVE  /\ subscriptions \in [Names \cup {Me} -> Ids \cup {NoId}] /\ subscriptions[Me] \in {NoId, 0}
           /\ unique_identifier \in Nat /\ \A n \in Names : subscriptions[n] \in Int
           /\ \A n \in Names : subscriptions[n] <= unique_identifier /\ subscriptions[n] <= unique_identifier + 1
<1>1. TypeOK /\ MapInv /\ ~Counting
  BY AtHand DEF RunInv
<1>2. subscriptions \in [Names \cup {Me} -> Ids \cup {NoId}] /\ unique_identifier \in Nat
  BY <1>1 DEF TypeOK
<1>3. \A n \in Names : subscriptions[n] \in Int
  BY <1>2, ClientAssumption DEF Ids, NoId
<1>4. \A n \in Names : subscriptions[n] <= unique_identifier
  BY <1>1 DEF MapInv
<1>5. \A n \in Names : subscriptions[n] <= unique_identifier + 1
  <2>1. \A i \in Int, j \in Nat : i <= j => i <= j + 1
    OBVIOUS
  <2> QED BY <1>2, <1>3, <1>4, <2>1
<1> QED BY <1>1, <1>2, <1>3, <1>4, <1>5 DEF MapInv

LEMMA VisitConnectedKeeps == ASSUME IInv, NEW l \in Logins, VisitConnected(l) PROVE Kept
<1> DEFINE f == listener[l].frame
<1>0. /\ Running /\ listener[l].pc = "visit" /\ f.type = "CONNECTED"
      /\ writer' = (writer \/ connected)
      /\ UNCHANGED <<connected, connection, unique_identifier, interrupted, keyboard, process, netVars,
                     serverVars, countVars>>
  BY DEF VisitConnected, Visiting, ListenerAt, Running
<1>1. TypeOK /\ connected /\ Me \notin Names
  BY <1>0, AtHand, NamesAssumption
<1>2. writer' = TRUE
  BY <1>0, <1>1
<1>3. PICK p \in {"loop", "count"} :
        /\ Visited(l, p)
        /\ p = "loop" => subscriptions' = subscriptions /\ subscriptions[Me] # NoId
        /\ p = "count" => subscriptions' = [subscriptions EXCEPT ![Me] = 0] /\ subscriptions[Me] = NoId
  BY DEF VisitConnected, RegisterSubscription
<1>4. /\ subscriptions \in [Names \cup {Me} -> Ids \cup {NoId}] /\ subscriptions[Me] \in {NoId, 0}
      /\ \A n \in Names : subscriptions[n] <= unique_identifier /\ subscriptions[n] <= unique_identifier + 1
  BY <1>0, MapBounds
<1>5. /\ subscriptions' \in [Names \cup {Me} -> Ids \cup {NoId}] /\ subscriptions'[Me] = 0
      /\ \A n \in Names : subscriptions'[n] = subscriptions[n]
  <2>1. 0 \in Ids
    BY ClientAssumption DEF Ids
  <2>2. CASE p = "loop"
    BY <1>3, <1>4, <2>2
  <2>3. CASE p = "count"
    BY <1>1, <1>3, <1>4, <2>1, <2>3
  <2> QED BY <2>2, <2>3
<1>6. One(subscriptions'[Me] = NoId) + One(p = "count") <= One(subscriptions[Me] = NoId) + One(Wants(f))
  BY <1>3, <1>5 DEF One, NoId
<1> HIDE DEF f
<1>7. ASSUME NEW stale \in SUBSET Names, NEW now \in FreshViews(stale), NEW next \in FreshViews(stale),
             Knows(stale, now), Learns(now, f, next)
      PROVE  Knows(stale, next)' /\ \A m \in stale : subscriptions'[m] = subscriptions[m]
  <2>1. now \in View /\ next = [now EXCEPT !.open = TRUE]
    BY <1>0, <1>7 DEF FreshViews, Learns, f
  <2>2. next.topics = now.topics
    BY <2>1 DEF View
  <2>3. now.topics \in [Ids -> Names \cup {NoName}]
    BY <2>1 DEF View
  <2>4. unique_identifier' = unique_identifier /\ logins' = logins
    BY <1>0 DEF countVars
  <2>5. \A i \in Ids : now.topics[i] # NoName => subscriptions'[now.topics[i]] = i
    BY <1>5, <1>7, <2>3 DEF Knows
  <2> QED BY <1>2, <1>5, <1>7, <2>2, <2>4, <2>5 DEF Knows
<1> QED BY <1>0, <1>2, <1>3, <1>4, <1>5, <1>6, <1>7, VisitKeeps DEF f

\* A frame after which the client knows what it knew.
LEMMA VisitNothing ==
    ASSUME IInv, Running, NEW l \in Logins, listener[l].pc = "visit", Visited(l, "loop"),
           listener[l].frame.type \in {"ERROR", "tweet"},
           UNCHANGED <<clientVars, mapVars, interrupted, keyboard, process, netVars, serverVars, countVars>>
    PROVE  Kept
<1> DEFINE f == listener[l].frame
<1>1. TypeOK
  BY AtHand
<1>2. /\ subscriptions \in [Names \cup {Me} -> Ids \cup {NoId}] /\ subscriptions[Me] \in {NoId, 0}
      /\ \A n \in Names : subscriptions[n] <= unique_identifier /\ subscriptions[n] <= unique_identifier + 1
  BY MapBounds
<1>3. UNCHANGED <<connected, connection, unique_identifier, interrupted, keyboard, process, netVars,
                  serverVars, countVars>> /\ subscriptions' = subscriptions /\ writer' = writer /\ writer \in BOOLEAN
  BY <1>1 DEF clientVars, mapVars, TypeOK
<1>4. One(subscriptions'[Me] = NoId) + One("loop" = "count") <= One(subscriptions[Me] = NoId) + One(Wants(f))
  BY <1>3 DEF One
<1>5. ASSUME NEW stale, NEW now, NEW next, Knows(stale, now), Learns(now, f, next)
      PROVE  Knows(stale, next)'
  <2>1. next = now
    BY <1>5 DEF Learns
  <2> QED BY <1>3, <1>5, <2>1 DEF Knows, countVars
<1> HIDE DEF f
<1> QED BY <1>2, <1>3, <1>4, <1>5, VisitKeeps DEF f

LEMMA VisitErrorKeeps == ASSUME IInv, NEW l \in Logins, VisitError(l) PROVE Kept
BY VisitNothing DEF VisitError, Visiting, ListenerAt, Running

\* A tweet follows CONNECTED, with which the report was opened.
LEMMA VisitTweetKeeps == ASSUME IInv, NEW l \in Logins, VisitTweet(l) PROVE Kept
<1>1. /\ Running /\ listener[l].pc = "visit" /\ listener[l].frame.type = "tweet" /\ Visited(l, "loop")
      /\ process' = (IF writer THEN process ELSE "listener")
      /\ UNCHANGED <<clientVars, mapVars, interrupted, keyboard, netVars, serverVars, countVars>>
  BY DEF VisitTweet, Visiting, ListenerAt, Running
<1>2. RunInv /\ l = logins /\ connected
  BY <1>1, AtHand
<1>3. PICK stale \in SUBSET Names : \E now, next, last \in FreshViews(stale) : Agree(stale, now, next, last)
  BY <1>2 DEF RunInv, AgreeInv
<1>4. PICK now \in FreshViews(stale), next \in FreshViews(stale), last \in FreshViews(stale) :
        Agree(stale, now, next, last)
  BY <1>3
<1>5. writer
  BY <1>1, <1>2, <1>4 DEF Agree, Knows, Learns
<1> QED BY <1>1, <1>5, VisitNothing

LEMMA VisitAnswerKeeps == ASSUME IInv, NEW l \in Logins, VisitAnswer(l) PROVE Kept
<1> DEFINE f == listener[l].frame
<1>0. /\ Running /\ listener[l].pc = "visit" /\ f.type \in {"following", "unfollowing"}
      /\ UNCHANGED <<connected, connection, writer, unique_identifier, interrupted, keyboard, process, netVars,
                     serverVars, countVars>>
      /\ IF UserBySubscription(f.id) = NoName THEN RegisterSubscription(l, f.id, f.name)
         ELSE /\ Visited(l, "loop")
              /\ subscriptions' = [subscriptions EXCEPT ![UserBySubscription(f.id)] =
                                     IF UserBySubscription(f.id) = Me THEN @ ELSE NoId]
  BY DEF VisitAnswer, Visiting, ListenerAt, Running, clientVars
<1>1. TypeOK /\ RunInv /\ l = logins /\ connected /\ MapInv /\ Me \notin Names /\ NoName \notin Names
  BY <1>0, AtHand, NamesAssumption DEF RunInv
<1>2. PICK stale \in SUBSET Names : \E now, next, last \in FreshViews(stale) : Agree(stale, now, next, last)
  BY <1>1 DEF RunInv, AgreeInv
<1>3. PICK now \in FreshViews(stale), next \in FreshViews(stale), last \in FreshViews(stale) :
        Agree(stale, now, next, last)
  BY <1>2
<1>4. Knows(stale, now) /\ Learns(now, f, next)
  BY <1>0, <1>1, <1>3 DEF Agree
<1>5. f.id \in Ids /\ f.name \in Names /\ Fresh(stale, f.id, f.name)
  BY <1>0, <1>4, HandAnswer
<1>6. /\ subscriptions \in [Names \cup {Me} -> Ids \cup {NoId}] /\ subscriptions[Me] \in {NoId, 0}
      /\ unique_identifier \in Nat
      /\ \A n \in Names : subscriptions[n] <= unique_identifier /\ subscriptions[n] <= unique_identifier + 1
  BY <1>0, MapBounds
<1>7. writer \in BOOLEAN /\ logins' = logins /\ unique_identifier' = unique_identifier /\ writer' = writer
  BY <1>0, <1>1 DEF TypeOK, countVars
<1>8. f.id # NoId /\ f.id <= unique_identifier + 1
  BY <1>5, <1>6 DEF Fresh, NoId
<1>11. /\ Running /\ listener[l].pc = "visit"
       /\ UNCHANGED <<connected, connection, unique_identifier, interrupted, keyboard, process, netVars,
                      serverVars, countVars>>
  BY <1>0
<1> HIDE DEF f
<1>9. CASE f.type = "following"
  <2>1. now.topics[f.id] = NoName /\ \A i \in Ids : now.topics[i] # f.name
    BY <1>4, <1>9 DEF Learns
  <2>2. UserBySubscription(f.id) = NoName /\ subscriptions[f.name] = NoId
    BY <1>1, <1>4, <1>5, <2>1, Guess
  <2>3. Visited(l, "count") /\ subscriptions' = [subscriptions EXCEPT ![f.name] = f.id]
    BY <1>0, <2>2 DEF RegisterSubscription, f
  <2>4. /\ subscriptions' \in [Names \cup {Me} -> Ids \cup {NoId}] /\ subscriptions'[Me] = subscriptions[Me]
        /\ subscriptions'[f.name] = f.id /\ \A n \in Names : n # f.name => subscriptions'[n] = subscriptions[n]
    BY <1>1, <1>5, <1>6, <2>3
  <2>5. \A n \in Names : subscriptions'[n] <= unique_identifier + 1
    BY <1>6, <1>8, <2>4
  <2>6. One(subscriptions'[Me] = NoId) + One("count" = "count") <= One(subscriptions[Me] = NoId) + One(Wants(f))
    BY <1>9, <2>4 DEF One, Wants
  <2>7. ASSUME NEW st \in SUBSET Names, NEW u \in FreshViews(st), NEW v \in FreshViews(st),
               Knows(st, u), Learns(u, f, v)
        PROVE  Knows(st, v)' /\ \A m \in st : subscriptions'[m] = subscriptions[m]
    <3>1. /\ u \in View /\ v = [u EXCEPT !.topics = [@ EXCEPT ![f.id] = f.name]]
          /\ u.topics[f.id] = NoName /\ \A i \in Ids : u.topics[i] # f.name
      BY <1>9, <2>7 DEF FreshViews, Learns
    <3>2. f.name \notin st
      <4>1. Fresh(st, f.id, f.name)
        BY <1>9, <2>7, HandAnswer
      <4> QED BY <4>1 DEF Fresh
    <3>3. v.open = u.open /\ u.topics \in [Ids -> Names \cup {NoName}]
          /\ v.topics[f.id] = f.name /\ \A i \in Ids : i # f.id => v.topics[i] = u.topics[i]
      BY <1>5, <3>1 DEF View
    <3>4. ASSUME NEW n \in Names \ st, subscriptions'[n] # NoId PROVE v.topics[subscriptions'[n]] = n
      <4>1. CASE n = f.name
        BY <2>4, <3>3, <4>1
      <4>2. CASE n # f.name
        <5>1. subscriptions'[n] = subscriptions[n] /\ subscriptions[n] \in Ids
          BY <1>6, <2>4, <3>4, <4>2
        <5>2. u.topics[subscriptions[n]] = n
          BY <2>7, <3>4, <5>1 DEF Knows
        <5>3. subscriptions[n] # f.id
          BY <1>1, <3>1, <5>2
        <5> QED BY <3>3, <5>1, <5>2, <5>3
      <4> QED BY <4>1, <4>2
    <3>5. ASSUME NEW i \in Ids, v.topics[i] # NoName PROVE subscriptions'[v.topics[i]] = i
      <4>1. CASE i = f.id
        BY <2>4, <3>3, <4>1
      <4>2. CASE i # f.id
        <5>1. v.topics[i] = u.topics[i] /\ u.topics[i] \in Names /\ u.topics[i] # f.name
          BY <3>1, <3>3, <3>5, <4>2
        <5>2. subscriptions[u.topics[i]] = i
          BY <2>7, <3>5, <5>1 DEF Knows
        <5> QED BY <2>4, <5>1, <5>2
      <4> QED BY <4>1, <4>2
    <3>6. \A m \in st : subscriptions'[m] = subscriptions[m]
      BY <2>4, <3>2
    <3> QED BY <1>7, <2>7, <3>3, <3>4, <3>5, <3>6 DEF Knows
  <2>8. subscriptions'[Me] \in {NoId, 0}
    BY <1>6, <2>4
  <2>9. PICK p \in {"loop", "count"} : p = "count"
    OBVIOUS
  <2>10. One(subscriptions'[Me] = NoId) + One(p = "count") <= One(subscriptions[Me] = NoId) + One(Wants(f))
    BY <2>6, <2>9
  <2>11. Visited(l, p) /\ p # "loop" /\ writer' \in BOOLEAN
    BY <1>7, <2>3, <2>9
  <2> QED BY <1>11, <2>4, <2>5, <2>7, <2>8, <2>10, <2>11, VisitKeeps DEF f
<1>10. CASE f.type = "unfollowing"
  <2>1. now.topics[f.id] = f.name
    BY <1>4, <1>10 DEF Learns
  <2>2. UserBySubscription(f.id) = f.name
    BY <1>1, <1>4, <1>5, <2>1, Guess
  <2>3. Visited(l, "loop") /\ subscriptions' = [subscriptions EXCEPT ![f.name] = NoId]
    BY <1>0, <1>1, <1>5, <2>2 DEF f
  <2>4. /\ subscriptions' \in [Names \cup {Me} -> Ids \cup {NoId}] /\ subscriptions'[Me] = subscriptions[Me]
        /\ subscriptions'[f.name] = NoId /\ \A n \in Names : n # f.name => subscriptions'[n] = subscriptions[n]
    BY <1>1, <1>5, <1>6, <2>3
  <2>5. \A n \in Names : subscriptions'[n] <= unique_identifier /\ subscriptions'[n] <= unique_identifier + 1
    BY <1>6, <2>4 DEF NoId
  <2>6. One(subscriptions'[Me] = NoId) + One("loop" = "count") <= One(subscriptions[Me] = NoId) + One(Wants(f))
    BY <2>4 DEF One
  <2>7. ASSUME NEW st \in SUBSET Names, NEW u \in FreshViews(st), NEW v \in FreshViews(st),
               Knows(st, u), Learns(u, f, v)
        PROVE  Knows(st, v)' /\ \A m \in st : subscriptions'[m] = subscriptions[m]
    <3>1. /\ u \in View /\ v = [u EXCEPT !.topics = [@ EXCEPT ![f.id] = NoName]]
          /\ u.topics[f.id] = f.name
      BY <1>10, <2>7 DEF FreshViews, Learns
    <3>2. f.name \notin st
      <4>1. Fresh(st, f.id, f.name)
        BY <1>10, <2>7, HandAnswer
      <4> QED BY <4>1 DEF Fresh
    <3>3. v.open = u.open /\ u.topics \in [Ids -> Names \cup {NoName}]
          /\ v.topics[f.id] = NoName /\ \A i \in Ids : i # f.id => v.topics[i] = u.topics[i]
      BY <1>5, <3>1 DEF View
    <3>4. ASSUME NEW n \in Names \ st, subscriptions'[n] # NoId PROVE v.topics[subscriptions'[n]] = n
      <4>1. n # f.name /\ subscriptions'[n] = subscriptions[n] /\ subscriptions[n] \in Ids
        BY <1>6, <2>4, <3>4
      <4>2. u.topics[subscriptions[n]] = n
        BY <2>7, <3>4, <4>1 DEF Knows
      <4>3. subscriptions[n] # f.id
        BY <3>1, <4>1, <4>2
      <4> QED BY <3>3, <4>1, <4>2, <4>3
    <3>5. ASSUME NEW i \in Ids, v.topics[i] # NoName PROVE subscriptions'[v.topics[i]] = i
      <4>1. i # f.id /\ v.topics[i] = u.topics[i] /\ u.topics[i] \in Names
        BY <3>3, <3>5
      <4>2. subscriptions[u.topics[i]] = i
        BY <2>7, <3>5, <4>1 DEF Knows
      <4>3. subscriptions[f.name] = f.id
        BY <1>1, <1>5, <2>7, <3>1 DEF Knows
      <4> QED BY <2>4, <4>1, <4>2, <4>3
    <3>6. \A m \in st : subscriptions'[m] = subscriptions[m]
      BY <2>4, <3>2
    <3> QED BY <1>7, <2>7, <3>3, <3>4, <3>5, <3>6 DEF Knows
  <2>8. subscriptions'[Me] \in {NoId, 0}
    BY <1>6, <2>4
  <2>9. PICK p \in {"loop", "count"} : p = "loop"
    OBVIOUS
  <2>10. One(subscriptions'[Me] = NoId) + One(p = "count") <= One(subscriptions[Me] = NoId) + One(Wants(f))
    BY <2>6, <2>9
  <2>11. Visited(l, p) /\ writer' \in BOOLEAN
    BY <1>7, <2>3, <2>9
  <2> QED BY <1>11, <2>4, <2>5, <2>7, <2>8, <2>10, <2>11, VisitKeeps DEF f
<1> QED BY <1>0, <1>9, <1>10 DEF f

\* With the RECEIPT the connection is deleted, and this listener will see that it
\* was interrupted.
LEMMA VisitReceiptKeeps == ASSUME IInv, NEW l \in Logins, VisitReceipt(l) PROVE Kept
<1>0. /\ Running /\ listener[l].pc = "visit" /\ listener[l].frame.type = "RECEIPT"
      /\ OnDisconnect /\ Visited(l, "loop")
      /\ UNCHANGED <<mapVars, keyboard, process, netVars, serverVars, countVars>>
  BY DEF VisitReceipt, Visiting, ListenerAt, Running
<1>1. /\ TypeOK /\ RunInv /\ l = logins /\ connected /\ connection = l /\ ~Counting
      /\ \A m \in Logins : m # l => listener[m].pc \notin {"use", "read", "visit", "count"}
  BY <1>0, AtHand
<1>2. connection # 0
  BY <1>1 DEF Logins
<1>3. writer' = FALSE /\ connection' = 0 /\ connected' = FALSE /\ interrupted' = interrupted \cup {logins}
  BY <1>0, <1>2 DEF OnDisconnect
<1>4. /\ listener'[l].pc = "loop"
      /\ \A m \in Logins : m # l => listener'[m] = listener[m]
      /\ listener' \in [Logins -> Threads]
  BY <1>0, <1>1, ListenerVisited DEF Places
<1>5. Has(toClient[l], "EOF") /\ session = 0
  BY <1>0, <1>1 DEF RunInv, NetInv, ConnectionInv
<1>6. TypeOK'
  BY <1>0, <1>1, <1>4, DisconnectType DEF TypeOK, RunInv, Threads, Places, mapVars, netVars, serverVars, countVars
<1>7. ConnectionInv' /\ LoginInv' /\ RequestInv' /\ AgreeInv'
  BY <1>0, <1>1, <1>3, <1>5 DEF RunInv, ConnectionInv, LoginInv, RequestInv, AgreeInv, netVars, serverVars
<1>8. ListenersInv' /\ NetInv'
  <2> SUFFICES ASSUME NEW m \in Logins
               PROVE  /\ m > logins <=> listener'[m].pc = "none"
                      /\ listener'[m].pc \notin {"use", "read", "visit", "count"}
                      /\ listener'[m].pc = "loop" => m \in interrupted \cup {logins}
                      /\ m > logins => toClient[m] = <<>>
                      /\ toServer[m] = <<>> \/ Has(toClient[m], "EOF")
                      /\ Has(toClient[m], "EOF") => session # m
                      /\ Has(toClient[m], "RECEIPT") => Has(toClient[m], "EOF")
    BY <1>0, <1>3 DEF ListenersInv, NetInv, Has, netVars, serverVars, countVars
  <2>1. /\ m > logins <=> listener[m].pc = "none"
        /\ listener[m].pc = "loop" => m \in interrupted \/ (m = logins /\ connection # 0)
    BY <1>1 DEF RunInv, ListenersInv
  <2>2. /\ m > logins => toClient[m] = <<>>
        /\ ~(m = logins /\ connected) => toServer[m] = <<>> \/ Has(toClient[m], "EOF")
        /\ Has(toClient[m], "EOF") => session # m
        /\ Has(toClient[m], "RECEIPT") => Has(toClient[m], "EOF")
    BY <1>1 DEF RunInv, NetInv
  <2>3. CASE m = l
    BY <1>0, <1>1, <1>4, <1>5, <2>1, <2>2, <2>3 DEF Logins
  <2>4. CASE m # l
    BY <1>1, <1>4, <2>1, <2>2, <2>4
  <2> QED BY <2>3, <2>4
<1>9. MapInv'
  BY <1>0, <1>1 DEF RunInv, MapInv, mapVars, countVars
<1>10. CountInv'
  <2>1. Expected \in Nat
    BY <1>1, Numbers DEF Expected, RunInv
  <2>2. unique_identifier + One(subscriptions[Me] = NoId) + Expected <= commands + 1
    BY <1>1 DEF RunInv, CountInv
  <2>3. unique_identifier + One(subscriptions[Me] = NoId) + 0 <= commands + 1
    BY <1>1, <2>1, <2>2, Numbers DEF RunInv
  <2> QED BY <1>0, <1>3, <2>3 DEF CountInv, mapVars, countVars
<1> QED BY <1>0, <1>1, <1>6, <1>7, <1>8, <1>9, <1>10 DEF IInv, Kept, RunInv, Running

\* The second of registerSubscription's statements: the counter is ahead again.
LEMMA CountKeeps == ASSUME IInv, NEW l \in Logins, Count(l) PROVE Kept
<1>0. /\ Running /\ listener[l].pc = "count"
      /\ unique_identifier' = unique_identifier + 1
      /\ listener' = [listener EXCEPT ![l].pc = "loop"]
      /\ UNCHANGED <<clientVars, subscriptions, interrupted, keyboard, process, netVars, serverVars, countVars>>
  BY DEF Count, ListenerAt, ListenerGoto, Running
<1>1. /\ TypeOK /\ RunInv /\ l = logins /\ connected /\ connection = l /\ unique_identifier \in Nat
      /\ \A m \in Logins : m # l => listener[m].pc \notin {"use", "read", "visit", "count"}
  BY <1>0, AtHand DEF TypeOK
<1>2. /\ listener'[l].pc = "loop"
      /\ \A m \in Logins : m # l => listener'[m] = listener[m]
      /\ listener' \in [Logins -> Threads]
  BY <1>0, <1>1 DEF TypeOK, Threads, Places
<1>3. TypeOK'
  BY <1>0, <1>1, <1>2 DEF TypeOK, Threads, Places, clientVars, netVars, serverVars, countVars
<1>4. ConnectionInv' /\ LoginInv' /\ RequestInv'
  BY <1>0, <1>1 DEF RunInv, ConnectionInv, LoginInv, LoggingIn, KeyboardSends, Has, RequestInv,
                    clientVars, netVars, serverVars, countVars
<1>5. ListenersInv'
  <2> SUFFICES ASSUME NEW m \in Logins
               PROVE  /\ m > logins <=> listener'[m].pc = "none"
                      /\ listener'[m].pc \notin {"use", "read", "visit", "count"}
                      /\ listener'[m].pc = "loop" => m \in interrupted \/ (m = logins /\ connection # 0)
    BY <1>0 DEF ListenersInv, clientVars, countVars
  <2>1. /\ m > logins <=> listener[m].pc = "none"
        /\ listener[m].pc = "loop" => m \in interrupted \/ (m = logins /\ connection # 0)
    BY <1>1 DEF RunInv, ListenersInv
  <2>2. CASE m = l
    BY <1>0, <1>1, <1>2, <2>1, <2>2 DEF Logins
  <2>3. CASE m # l
    BY <1>1, <1>2, <2>1, <2>3
  <2> QED BY <2>2, <2>3
<1>6. NetInv'
  <2>1. \A m \in Logins : listener'[m].pc # "visit"
    BY <1>1, <1>2
  <2> QED BY <1>0, <1>1, <2>1 DEF RunInv, NetInv, Has, clientVars, netVars, serverVars, countVars
<1>7. MapInv'
  <2>1. subscriptions[Me] \in {NoId, 0} /\ \A n \in Names : subscriptions[n] <= unique_identifier + 1
    BY <1>1 DEF RunInv, MapInv
  <2>2. \A n \in Names : subscriptions[n] <= (unique_identifier + 1) + 1
    <3>1. \A n \in Names : subscriptions[n] \in Int
      BY <1>1, ClientAssumption DEF TypeOK, Ids, NoId
    <3>2. \A i \in Int, j \in Nat : i <= j + 1 => i <= (j + 1) + 1
      OBVIOUS
    <3> QED BY <1>1, <2>1, <3>1, <3>2
  <2>3. logins' # 0
    BY <1>0, <1>1 DEF countVars, Logins
  <2> QED BY <1>0, <2>1, <2>2, <2>3 DEF MapInv
<1>8. CountInv'
  <2> DEFINE rest == Wanted(toServer[logins]) + Wanted(toClient[logins])
                       + One(keyboard.pc = "send" /\ Wants(keyboard.frame))
             c == One(subscriptions[Me] = NoId)
  <2>1. rest \in Nat /\ c \in Nat /\ commands \in Nat
    BY <1>1, Numbers DEF One, RunInv
  <2>2. /\ One(listener[logins].pc = "visit" /\ Wants(listener[logins].frame)) = 0
        /\ One(listener[logins].pc = "count") = 1
    BY <1>0, <1>1 DEF One
  <2>3. /\ One(listener'[logins].pc = "visit" /\ Wants(listener'[logins].frame)) = 0
        /\ One(listener'[logins].pc = "count") = 0
    BY <1>1, <1>2 DEF One
  <2>4. Expected = rest + 0 + 1
    BY <2>2 DEF Expected
  <2>5. Expected' = rest + 0 + 0
    BY <1>0, <2>3 DEF Expected, netVars, countVars
  <2>6. unique_identifier + c + Expected <= commands + 1
    BY <1>1 DEF RunInv, CountInv
  <2> HIDE DEF rest, c
  <2>7. (unique_identifier + 1) + c + (rest + 0 + 0) <= commands + 1
    BY <1>1, <2>1, <2>4, <2>6
  <2>8. (unique_identifier + 1) + c + Expected' <= commands + 1
    BY <2>5, <2>7
  <2> QED BY <1>0, <1>1, <2>8 DEF CountInv, clientVars, countVars, c
<1>9. AgreeInv'
  <2>1. PICK stale \in SUBSET Names : \E now, next, last \in FreshViews(stale) : Agree(stale, now, next, last)
    BY <1>1 DEF RunInv, AgreeInv
  <2>2. PICK now \in FreshViews(stale), next \in FreshViews(stale), last \in FreshViews(stale) :
          Agree(stale, now, next, last)
    BY <2>1
  <2>3. FreshViews(stale) \subseteq FreshViews(stale)' /\ FreshFrames(stale) \subseteq FreshFrames(stale)'
    <3>1. unique_identifier' \in Nat /\ unique_identifier' >= unique_identifier
      <4>1. \A i \in Nat : i + 1 \in Nat /\ i + 1 >= i
        OBVIOUS
      <4> QED BY <1>0, <1>1, <4>1
    <3> QED BY <1>0, <1>1, <3>1, FreshStays
  <2>4. Knows(stale, now)'
    <3>1. \A m \in stale : subscriptions[m] \in 0..(unique_identifier + 1)
      <4>1. \A i \in Nat : 0..i \subseteq 0..(i + 1)
        OBVIOUS
      <4> QED BY <1>1, <2>2, <4>1 DEF Agree, Knows
    <3> QED BY <1>0, <2>2, <3>1 DEF Agree, Knows, clientVars, countVars
  <2>5. next = now /\ Leads(FreshViews(stale)', next, toClient[logins], last)
    BY <1>0, <1>1, <2>2, <2>3, LeadsMonotonic DEF Agree
  <2>6. toServer[logins] \in Seq(FreshFrames(stale)') /\ (keyboard.pc = "send" => keyboard.frame \in FreshFrames(stale)')
    <3>1. \A S, T, s : S \subseteq T /\ s \in Seq(S) => s \in Seq(T)
      OBVIOUS
    <3> QED BY <2>2, <2>3, <3>1 DEF Agree
  <2>7. LoggingIn' <=> LoggingIn
    BY <1>0 DEF LoggingIn, KeyboardSends, Has, netVars, countVars
  <2>8. Agree(stale, now, next, last)'
    BY <1>0, <1>1, <1>2, <2>2, <2>4, <2>5, <2>6, <2>7 DEF Agree, netVars, serverVars, countVars
  <2> QED BY <2>3, <2>8 DEF AgreeInv
<1> QED BY <1>0, <1>1, <1>3, <1>4, <1>5, <1>6, <1>7, <1>8, <1>9 DEF IInv, Kept, RunInv, Running

-----------------------------------------------------------------------------
(* The theorem                                                             *)

LEMMA StutterKeeps == ASSUME IInv, UNCHANGED vars PROVE Kept
<1>1. UNCHANGED <<clientVars, mapVars, listener, interrupted, keyboard, process, netVars, serverVars, countVars>>
  BY DEF vars
<1>2. TypeOK' /\ (ConnectionInv' <=> ConnectionInv) /\ (ListenersInv' <=> ListenersInv)
  BY <1>1 DEF IInv, TypeOK, ConnectionInv, ListenersInv, clientVars, mapVars, netVars, serverVars, countVars
<1>3. (NetInv' <=> NetInv) /\ (LoginInv' <=> LoginInv) /\ (RequestInv' <=> RequestInv) /\ (LoggingIn' <=> LoggingIn)
  BY <1>1 DEF NetInv, LoginInv, RequestInv, LoggingIn, KeyboardSends, Has, clientVars, netVars, serverVars, countVars
<1>4. MapInv' <=> MapInv
  BY <1>1 DEF MapInv, Counting, mapVars, countVars
<1>5. CountInv' <=> CountInv
  BY <1>1 DEF CountInv, Expected, clientVars, mapVars, netVars, countVars
<1>6. ASSUME NEW stale PROVE FreshViews(stale)' = FreshViews(stale) /\ FreshFrames(stale)' = FreshFrames(stale)
  BY <1>1 DEF FreshViews, FreshFrames, Fresh, mapVars
<1>7. ASSUME NEW stale, NEW now PROVE Knows(stale, now)' <=> Knows(stale, now)
  BY <1>1 DEF Knows, clientVars, mapVars, countVars
<1>8. ASSUME NEW stale, NEW now, NEW next, NEW last, Agree(stale, now, next, last)
      PROVE  Agree(stale, now, next, last)'
  BY <1>1, <1>3, <1>6, <1>7, <1>8 DEF Agree, netVars, serverVars, countVars
<1>9. AgreeInv => AgreeInv'
  BY <1>1, <1>6, <1>8 DEF AgreeInv, clientVars
<1> QED BY <1>1, <1>2, <1>3, <1>4, <1>5, <1>9 DEF IInv, Kept, RunInv, Running

LEMMA StepInv == IInv /\ [Next]_vars => IInv'
<1> SUFFICES ASSUME IInv, [Next]_vars PROVE Kept
  BY DEF IInv, Kept
<1>1. CASE UNCHANGED vars
  BY <1>1, StutterKeeps
<1>2. ASSUME NEW reached \in BOOLEAN, Login(reached) PROVE Kept
  BY <1>2, LoginKeeps
<1>3. ASSUME NEW n \in Names, Follow(n) \/ Unfollow(n) PROVE Kept
  BY <1>3, FollowKeeps, UnfollowKeeps
<1>4. CASE LoginAgain \/ Tweet \/ Logout \/ Exit \/ Send
  BY <1>4, LoginAgainKeeps, TweetKeeps, LogoutKeeps, ExitKeeps, SendKeeps
<1>5. ASSUME NEW l \in Logins, ListenerStep(l) PROVE Kept
  BY <1>5, LoopKeeps, UseKeeps, ReadKeeps, ReadEofKeeps, VisitConnectedKeeps, CountKeeps, VisitErrorKeeps,
     VisitAnswerKeeps, VisitTweetKeeps, VisitReceiptKeeps DEF ListenerStep
<1>6. ASSUME NEW l \in Logins, ServerStep(l) PROVE Kept
  BY <1>6, ServeConnectKeeps, ServeSubscribeKeeps, ServeUnsubscribeKeeps, ServeSendKeeps, ServeDisconnectKeeps,
     RefuseKeeps DEF ServerStep
<1>7. ASSUME NEW l \in Logins, ServerStops(l) PROVE Kept
  BY <1>7, ServerStopsKeeps
<1> QED BY <1>1, <1>2, <1>3, <1>4, <1>5, <1>6, <1>7 DEF Next

\* The client and the server agree on the subscriptions whenever nothing is on its
\* way between them, the listener guesses right which command an answer answers,
\* and no listener is left reading a connection that is not its own: however many
\* users there are, and however often the user logs in.
THEOREM ClientInvHolds == Spec => []ClientInv
<1>1. Spec => []IInv
  BY InitInv, StepInv, PTL DEF Spec
<1> QED BY <1>1, InvImplies, PTL

=============================================================================
