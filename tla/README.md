# TwitterClientServer in TLA+

A verification development for the repository: a Twitter-like service over a
STOMP-like protocol, with one engine, two servers that drive it (a thread per
client, and a reactor) and a C++ command-line client.

## 1. Inventory

| Part | State | Operations | Talks to |
|---|---|---|---|
| `TwitterEngine` (singleton) | `users`, `topics`, `serverTopic`, `listener`, statistics | `connect`, `subscribe`, `unsubscribe`, `send` (the only `synchronized` one), `processServerMessage` (`clients`, `clients online`, `stats`, `stop`), the 5-second statistics timer | `User`, `Topic`, the server as `AsyncServerListener` |
| `User` | `password`, `protocol` (null = disconnected), `messages`, `subscribedTopics` | `login`, `logout`, `send`, `flushMessages`, `subscribeTo`, `unsubscribe`, `resetSubscriptionsInfo` | its protocol; `Topic` |
| `Topic`, `ServerTopic` | `subscribers` (a plain `HashMap`), `topicUser`, counters | `addSubscriber`, `removeSubscriber`, `send` | `User.send` |
| `StompProtocol` (one per connection) | `currentUser`, `shouldClose` | `processMessage`: CONNECT, DISCONNECT, SUBSCRIBE, UNSUBSCRIBE, SEND; `sendMessage` | engine; connection |
| `StompFrame` and its subclasses | command, headers, body | `parse`, `validate`, `toString` | |
| Thread server: `TwitterServer`, `ConnectionHandler`, `StompFrameTokenizer` | `activeConnections`, `isRunning`; socket, `messagesQueue` | accept loop, `remove`, `kill`; `process`, `send`, `flushMessages`, `close`; `getFrame` | protocol |
| Reactor: `TwitterReactor`, `ConnectionAcceptor`, `ConnectionHandler`, `ProtocolTask`, tokenizer | selector keys and interest, thread pool, `outData`, character buffer | `run`, `stopReactor`; `accept`; `read`, `write`, `send`; `run`; `addBytes`, `nextMessage` | protocol |
| Client: `TwitterClient`, `ConnectionHandler`, commands, `FrameVisitor` | connection, subscription map, next id, HTML writer | keyboard loop and commands; listener thread and visitors | the server |
| Client HTML report | a file | formatting | the page's scripts |
| Scripts of the report page (`assets/js`) | slides, timers, animations | callbacks of the browser | the page |

What is hard here: every thread of the thread server and every pool thread of
the reactor calls the engine directly; only posting is synchronized. A client
chooses its subscription ids. A login is refused only after it has touched the
user. A message may be delivered through two queues (`User.messages` for an
offline user, `ConnectionHandler.messagesQueue` before CONNECTED), each with
its own test of "can I write now". `stop` runs in the thread of one client and
closes the others. The hazards are listed, each at its line, in
`PROJECT.json`; the few without a property say why.

The scripts under `assets/js` are jQuery plugins of the page template that the
client's HTML report uses; they were copied into the repository, not written for
it. The page starts one slider, `jquery.cslider.js`, on its latest tweets, and
loads two more, RefineSlide (with the template's `custom_refine_slider.js`) and
FlexSlider. A page runs one callback at a time; what is hard is the order in
which images, clicks, timeouts and ends of animations come.

What makes each part correct:

- engine and users: one session per user; the user of a session is connected
  and its messages reach that session; nothing waits for a connected user;
- topics: the user's map and the topic's map of subscriptions agree; everyone
  follows itself; a tweet reaches every subscriber once; a post always ends;
- handlers: messages are written after CONNECTED, in order, none forgotten;
- servers: `stop` ends every connection; pending output is written before a
  connection closes; output that is waiting has somebody to write it;
- client: its subscription map agrees with the server's;
- sliders: one slide is shown, a request during a move changes nothing, every
  move ends, and the slideshow goes on.

## 2. Plan

| # | Module | Contents | Status |
|---|---|---|---|
| 1 | `TwitterEngine` | engine, users, topics, protocol; thread server a frame at a time; posting one subscriber at a time | done |
| 2 | `TwitterEngineProofs` | type correctness and every safety property of 1 | done |
| 3 | `Delivery`, `DeliveryProofs` | login, logout, `User.flushMessages` and the handler's `flushMessages` statement by statement, by several threads; all its invariants proved | done |
| 4 | `ThreadServer`, `ConnectionProofs` | accept loop, handler threads, `remove`, `kill`; all its safety properties proved | done |
| 5 | `Reactor`, `ReactorProofs` | selector thread, pool threads, `outData`, interest set, closing, `stopReactor`; all its safety properties proved | done |
| 6 | `Tokenizer`, `ConnectionProofs` | bytes to characters to frames, by pool tasks and the selector thread; `StreamInv` proved for frames without wide characters | done |
| 7 | `Client`, `ClientProofs` | keyboard thread, listener thread, subscription map and ids against the server's answers; `ClientInv` proved | done |
| 8 | `Carousel` | abstract specification of a slider | done |
| 9 | `CSlider`, `RefineSlide`, `FlexSlider`, and `...Proofs` of each | the three sliders, each shown to implement `Carousel`; invariants and the safety of the refinement proved | done |

## 3. The module TwitterEngine

Variables keep the names of the fields. `password[n] = None` stands for "no such
user"; `protocol[n]` is the connection whose `StompProtocol` the user holds;
`subscribers` and `subscribedTopics` are the two maps of subscriptions. Topics
are objects, so that a user's topic and the `ServerTopic` object can stand under
the same name `"server"`. `post` is the call of `TwitterEngine.send` in progress:
the topic being walked through, the users still to visit, the list `delivered`
of the author's own subscribers, the mentions left, and `dirty`, set when
another thread adds or removes a key of the `HashMap` under the iterator.
`reply` and `copies` only observe: the answer of the last frame, and how often
the post in progress was handed to each user.

| Action | Code |
|---|---|
| `Accept` | accept loop, new handler and protocol |
| `Connect` = `ConnectNew`, `ConnectRejected`, `WrongPassword`, `login` | `StompProtocol.connect`, `TwitterEngine.connect`, `User.login`, then CONNECTED and the handler's `flushMessages` |
| `Subscribe`, `Unsubscribe` (with their errors) | `StompProtocol`, `TwitterEngine`, `User`, `Topic` |
| `Tweet`, `ServerReport`, `PostError` | the checks of `send` and the start of `Topic.send` |
| `Visit`, `IteratorFails`, `TopicDone`, `NextMention`, `PostDone` | the steps of a post under the engine's monitor |
| `ServerStop` | `stop`: everybody logged out, `TwitterServer.kill` |
| `Disconnect` | DISCONNECT, end of input, I/O error |
| `Refuse` | frames that do not parse, or come before login |

After `stop` a thread is `"closing"`: its socket is closed under it. It may
still finish one frame that it had already read (or a SEND that waited for the
monitor) and then leaves its loop without a logout, or gets its I/O error, which
the tokenizer turns into DISCONNECT.

Abstractions. A frame other than SEND is one step; the races inside `connect`,
`login` and the two `flushMessages` are for `Delivery`. A message is its topic and
subscription id; the text is left out, and the mentions are a list of names. The
statistics counters are left out. When the iterator has been disturbed, the post
may go on (the other thread's write not seen yet, or no element left) or fail with
`ConcurrentModificationException`; a user that is added meanwhile is not visited.
A closed handler's slot is reused only when no user refers to it, so that a
connection in the model never stands for two handlers at once.

## 4. The module Delivery

`TwitterEngine` takes a frame other than SEND as one step, and its theorems hold
under that assumption: `connect`, `login`, `logout` and the two `flushMessages` run
to their end before another thread interferes. The thread server does not
guarantee it, so `Delivery` models exactly these calls one statement at a time,
for one login name: every connection's handler thread, and a poster, the thread
of another client, which holds the engine's monitor and calls `User.send`. Threads
share `users`, the `User` objects made for the name (a race may make two), their
`protocol`, `messages` and monitor (`lock`), and the handlers' `currentUser`,
`messagesQueue` and socket. `thread[t]` is a thread's place in the code with its
local variables.

| Actions | Code |
|---|---|
| `Connect`, `Find`, `Create`, `Check`, `Reject`, `Login`, `WrongPassword` | `TwitterEngine.connect`, the first half of `User.login` |
| `Authorize`, `Connected` | `StompProtocol.connect`; CONNECTED, then the handler's flush |
| `Disconnect`, `Logout`, `Drop`, `Receipt`, `Close` | DISCONNECT or the end of the input |
| `Post`, `EnterFlush`, `Test`, `Loop`, `Use`, `UseNull`, `Unlock` | `User.send`, `User.flushMessages`, the exception when a logout cleared `protocol` |
| `HTest`, `HLoop`, `HPoll`, `HWrite` | `ConnectionHandler.flushMessages`, by any thread |

What it shows of the theorems' assumption: `SingleSession` does not survive two
CONNECTs at once (`connect_race`); and a refused login that sets the protocol just
after the session logged out leaves the user connected with messages waiting,
so `QueuedOnlyOffline` does not survive either. What does survive is stated as
`DeliveredOnce` and `HeldHasWriter`.

Steps of two threads are interleaved as if memory were sequentially consistent.
`protocol` and `currentUser` are plain fields, but each write and the read that
races with it are separated by a monitor or an atomic counter of the queues,
which are full barriers on the usual JVMs. Registering the new topic is not in
this module, and the resets at login change none of its variables.

## 5. The module ThreadServer

`TwitterEngine` takes `kill` as one step. `ThreadServer` takes it apart: the accept
loop, `remove` and `kill` around the list `activeConnections` (a `Vector`), with the
monitor of the server (`server`) and the one of the engine (`engine`), and every
handler thread at its place in `run`, `process` and `close`.

| Actions | Code |
|---|---|
| `Accept`, `Add`, `Start`, `AcceptFails` | the loop of `TwitterServer.run` |
| `Initialize`, `ReadFrame`, `ReadEnds`, `ReadFails`, `Handle`, `Disconnect`, `Send`, `After`, `Close`, `Remove` | `ConnectionHandler.run`, `getFrame`, `process`, `close` |
| `KillBegins`, `KillListener`, `KillNext`, `KillCloses`, `KillReader`, `KillDrops`, `KillReturns` | `kill` and `closeConnection`, in the thread of the client that sent `stop` |

`modified` is the iterator's `modCount` test: an `add` or a `remove` of another thread
makes the next step of `kill` throw `ConcurrentModificationException`. That is a
behaviour of the code: a client that connects while `stop` runs either makes it
throw, or is left open after it. The properties say what holds nevertheless:
the list and the sockets stay in step (`RegistrationInv`), a `kill` that does not
throw has closed everything but the connection that is being accepted
(`KillClosesAll`), and it ends (`StopCompletes`). Another behaviour: a handler whose
socket was closed before its thread ran `initialize` ends with a
`NullPointerException` on `out`, and is then neither closed nor removed by its own
thread.

## 6. The module Reactor

Per connection: the frames still to come (`wire`), the selection key and its
interest set, `outData`, `messagesQueue`, `authorized`, `shouldClose`; one selector
thread; the pool with its queue of tasks; the engine's monitor. A pool thread's
record is its place in the code with its local variables.

| Actions | Code |
|---|---|
| `Select`, `Accept`, `Read`, `ReadNothing`, `ReadEof`, `Eof`, `EofLogout`, `SelWrite`, `SelectorDies`, `SelectorEnds` | `TwitterReactor.run`, `ConnectionAcceptor.accept`, `ConnectionHandler.read` and `write` |
| `TakeTask`, `LockTask`, `NextMessage`, `Process` (`Authorize`, `Throw`, `Logout`, `EnterSend`, `EnterStop`), `Answer` | `ProtocolTask.run`, `StompProtocol.processMessage` |
| `Post`, `Test`, `Flush`, `Poll`, `Encode`, `Add`, `WorkerWrite`, `FlushDone`, `PostDone` | `ConnectionHandler.send`, `flushMessages`, `addOutData`, `write` |
| `AwaitTimesOut` | `stopReactor` |

Abstractions: the selector serves one operation of one key per round; a client's
frames are on the wire from the start and arrive in any portions; every
connection has a name of its own, so `User.messages` is left to `Delivery`; a
partial write by the selector is taken only where it changes the interest set.

What the model reaches and no comment speaks against: the selector thread ends
with an exception it does not catch (`SelectorDies`: the user is null when the end
of input races DISCONNECT, the key is cancelled, a task is rejected after
`shutdown`); a RECEIPT is never written when other output was pending, because
`write` closes the connection after one buffer; the end of input that overtakes a
CONNECT leaves the session on; two threads in the shared encoder make one of
them throw. The liveness properties name the selector's end as one way out.

## 7. The module Tokenizer

The bytes of the client's stream, each tagged with its frame and place: on the
wire, in `buffers`, in `stringBuf`, and handed out. The selector thread adds what
it read and queues a task; pool threads run tasks under the task's monitor and
call `hasMessage` and `nextMessage`. A character has one byte, or two for the
frames in `Wide`; `Decode` drops an incomplete character at the end of a buffer, as
the decoder does. For one-byte characters the stream stays whole
(`NothingLost`), `nextMessage` finds what `hasMessage` promised (`NextIsThere`), and
every frame that was read is handed out (`AllHandedOut`). With a two-byte
character, `SplitCharacter.cfg` finds a stream that loses a byte.

## 8. The module Client

The keyboard thread (commands), one listener thread per login, the connection
object, the subscription map and the counter of ids, and the server as far as it
answers this client: FIFO frames in both directions. `keyboard` and `listener[l]`
are places in the code with local variables; every access of the map is a step
under its mutex, and `Count` is the unsynchronized increment.

| Actions | Code |
|---|---|
| `Login`, `LoginAgain`, `Follow`, `Unfollow`, `Tweet`, `Logout`, `Exit`, `Send` | the commands, `serverAt`, `sendFrame` |
| `Loop`, `Use`, `Read`, `ReadEof`, `Visit...`, `Count`, `Visited` | `listener`, `FrameVisitor`, `registerSubscription`, `onConnect`, `onDisconnect` |
| `Serve...`, `Refuse` | `StompProtocol.processMessage`, one frame at a time |
| `ServerStops` | another client's `stop`: the connection is closed in the middle of things, the listener reads the end and exits |

The same user name is used at every login, and a login while a connection is in
use ends the model (`process = "overlap"`): it overwrites the connection under the
first listener, two listeners then share one connection and the rest is
undefined behaviour. A send through a connection that the listener has deleted
ends the process (`process = "keyboard"`); the model reaches it when a command is
typed while the RECEIPT is handled. A tweet before CONNECTED finds no writer.
After a second login the map still holds the users of the first (`relogin`):
`follow` is then refused by the client itself, and `unfollow` is answered by ERROR.
That is why `MapAgrees` promises equality of the two maps in the first login only,
and in later ones that the client knows every subscription the server has.

## 9. The sliders

`Carousel` is the abstract specification: one slide shown, a replacement begins
only when none is under way, ends with the slide asked for, and does end. Each
slider implements it (`ImplementsCarousel`): in `CSlider` and `RefineSlide` the whole
specification with its fairness; in `FlexSlider` the safety part, because on a
touch screen with CSS transitions a first tap on an end slide can start a move
that changes nothing and whose end never comes (`AnimationEnds` says so for the
other devices).

- `CSlider` (`jquery.cslider.js`): no slide to three, with CSS animations or with
  jQuery's fallback. Without tweets `prev` computes index -1, and in the fallback
  the slider then waits for ever for the animation of no slide; both are harmless,
  there is nothing to show. `InView` is what the style sheet makes of the classes
  and positions the script sets.
- `RefineSlide` (`jquery.refineslide.js`, `custom_refine_slider.js`): loading of the
  images with repeated events, the two timeouts until `setup`, requests by arrows,
  keys, thumbnails and the menu of transitions, the browser's abilities and the
  fallbacks, the end of transitions, auto play and hovering. The browser fires
  the 40 ms timeout of a transition before its end, 800 ms later. Worth knowing: the
  end of a transition sets the slideshow's timeout again although the pointer is
  over the slider, against the comment "Pause if hovered"; and a `setup` after the
  first transitions marks the thumbnail of `startSlide`.
- `FlexSlider` (`jquery.flexslider.js`): fade, slide and CSS transitions, loop with
  clones, arrows and keys in both directions, slideshow, hovering, the pause
  button, dots, touch, all as options of the initial state. Worth knowing:
  `initDelay`, or a script that calls `play`, loses an interval that is never
  cleared (`OneInterval` excludes them by name); `atEnd` is wrong when the slider
  starts on its last slide without a loop (`StopsAtLast` likewise).

## 10. Runs

Bounds: `MaxQueue` keeps a new post from starting while any queue has that many
messages; one message is enough, because every property about queues is about a
queue being empty or about one message in it, and a post can still add several
messages. `MaxMentions` bounds the mentions of one tweet, `MaxFrames` the CONNECTs of
one connection, `MaxLogins` and `MaxCommands` what is typed at the client, `MaxLost`
the timeouts or intervals that nothing refers to any more.

| Run | Instance | Shows |
|---|---|---|
| `follow` | 2 users, 2 connections, ids 0 to 2, one mention | maps agree, self-follow, an undisturbed walk covers all subscribers, one copy each |
| `sessions` | 2 users, 2 passwords, 2 connections, ids 0 and 1, one mention, no symmetry | one session per user, queues drain, only the owner changes subscriptions, posts end, `stop` closes everything |
| `delivery` | 2 connections, 2 User objects, 2 messages, no symmetry | no message twice, none lost before a logout, no frame left behind, every frame and post ends |
| `server` | 3 connections | list and sockets in step, `kill` closes all and ends |
| `reactor` | 2 clients (one logged in that tweets or stops the server, one that logs in and out, or tries to tweet, and may hang up), 2 pool threads | output keeps its interest, queued frames their writer, a RECEIPT closes, output is written, `stop` ends |
| `tokenizer` | 3 frames, 3 pool threads, every way to cut the stream | nothing lost, everything handed out |
| `client` | 2 names, 2 logins, 4 commands | map and ids agree with the server, logout ends |
| `cslider`, `refine_slide`, `flex_slider` | 3 slides, all modelled options | invariants of the view and of the timers, the slideshow goes on, `Carousel` is implemented |
| `connect_race`, `relogin` | as `delivery`; as `client` | disagreements, see 12 |

The type invariant of a module newer than `Delivery` is checked as a part of its
main invariant (`OutputInv`, `StreamInv`, `RegistrationInv`, `ClientInv`, `SliderInv`),
a conjunction of parts that are stated and explained one by one.

Two users suffice for the maps, since a subscription relates one user to one
topic (there are three topics); ids 1 and 2 let a user follow one topic twice. Two
connections let a refused login meet a session; that a third party adds nothing
is what the theorems show, which hold for any number. In `Delivery` a connection
makes at most one User object (once the name is registered, `Find` never leads to
`Create` again), so as many objects as connections are enough; two messages let
two threads compete for one queue. In `ThreadServer` three connections are the
client that stops, one that is in the list and one that is being accepted; in
`Reactor` two pool threads are what it takes to run a post and the receiver's own
frame at once. Three slides have a first, a last and an inner one. Names,
connections and passwords are interchangeable: the name `"server"` is not among
the names of a run, but the theorems allow it.

Fairness. The thread that holds the monitor keeps taking steps (`PostStep`), and a
thread whose socket was closed gets its I/O error. In `Delivery` a thread inside a
frame or a post keeps running, as a Java thread does; waiting for a User's monitor
needs only weak fairness here because in this instance at most two other threads
compete for it, each a bounded number of times. In `ThreadServer` and `Reactor`
every thread that can run does; the selector is strongly fair in serving writable
keys, since `select` returns all ready keys of a round. In `Client` the listener and
the server keep running, in the sliders timeouts fire, images load or fail and
animations end. Nothing is assumed of clients, keyboards and pointers.

Deadlock is not checked where the system really stops: a stopped server, a
stopped reactor, and a client that has exited or crashed.

## 11. Proofs

The theorems hold for every value of the constants that satisfies the module's
named assumptions (`EngineAssumption`, `DeliveryAssumption`, `ThreadServerAssumption`,
`TokenizerAssumption`, `ReactorAssumption`, `ClientAssumption`, `NamesAssumption`, and those
of the sliders), which say that the special values differ from the ordinary ones and that
bounds are numbers; a theorem that needs more has it as a hypothesis (`QueuedHasWriterHolds`,
`StreamInvHolds`). They hold for any number of names, connections, threads, messages, frames and slides.
Each invariance proof has three facts: `Init` gives the inductive invariant, every
action keeps it (one lemma or step per action), and it gives the invariant that a
run checks. TLC checked each inductive invariant on the module's run before it was
proved.

**`TwitterEngineProofs`.** `"server"` may or may not be a
user's name.

- `TypeCorrect`: one step per action.
- `SubscribersHoldIds`, `SelfFollowHolds`. Neither is inductive. `SubscriptionInv`
  adds that an unregistered name is used nowhere (else a new user could inherit
  subscribers) and that a topic is filed under its own name (else SUBSCRIBE's
  test of the name would not keep a user from a second id for its own topic,
  which the reset at login would then remove).
- `SingleSessionHolds`, `AuthorizedConnectedHolds`: inductive together only. A login
  passes because the user is not connected, and then no session has that user; a
  DISCONNECT logs out a user that no other session has.
- `QueuedOnlyOfflineHolds`, `HeldOnlyUnauthorizedHolds`, `OfflineMatchesHolds`: with
  the session invariant, and that an unregistered name is sent nothing. While the
  server runs, the owner of a session has an empty queue, so whoever changes its
  subscriptions has no waiting message that could stop matching.
- `OneCopyHolds`, `WalkCoversHolds`: strengthened by what
  `copies` is for users not served yet, and that the topic being walked through
  is never the new topic of a login.
- `OnlyOwnerHolds`: an action property, from `SubscriptionInv`.

**`DeliveryProofs`.**

- `TypeCorrect`, `HeldHasWriterHolds`, `OneFlusherHolds`. `HeldHasWriter` needs to know
  who may be where with which local variables (`ThreadInv`), that a thread that
  empties a user's queue is in that User's monitor (`LockInv`, from which
  `OneFlusherHolds` follows), and that a closed socket belongs to a handler at its
  end (`LeftInv`). The argument: the poster that finds `currentUser` null has queued
  its frame before the handler's own flush reads the queue.
- `DeliveredOnceHolds`: a message is in one place at most, and in one while nobody
  leaves. The proof sees all queues, the sockets and the threads' hands as boxes
  (`Contents`); a step either leaves the boxes alone, moves one message from the
  head of a box to the end of another, or throws boxes away after somebody left.
  `OneFlusher` makes the head that a thread reads the one it removes.

**`ConnectionProofs`**, on `ThreadServer` and `Tokenizer`, which lie beneath the frames in
the two servers. (It extends both, so the names that every module has, `Init`, `Next` and
the like, begin with `Tokenizer` in that module.)

`ThreadServer`: `RegistrationHolds`, with what a connection is that nobody
has opened or that the accept loop holds (`AcceptorInv`), that one thread at a time
is inside `kill` (`KillInv`), and that whoever takes a connection off the list has
closed its socket (`ClosedInv`). `KillClosesAllHolds`, an action property, follows:
when the loop of `kill` finds nothing more, every registered connection is closed.

`Tokenizer`: `StreamInvHolds`, for any frames, any number of pool threads and any way to
cut the stream, provided no frame has a wide character (`Wide = {}`); `SplitCharacter.cfg`
shows that the proviso is needed. `TokenizerInv` adds that one thread at a time is inside
`run` (`OneRuns`: hence nobody removes the delimiter that another has seen) and that
there are only bytes of one-byte characters, no empty buffer, and messages that are
texts of frames (`BytesInv`: hence a buffer decodes to itself). The argument: what was
handed out has two bytes per message (`HandedIs`), so the characters begin where a
frame begins (`FirstFrame`), and `nextMessage` takes that frame and nothing else. What
`FlattenSeq` computes is established by induction over the numbers (`Induction`, from
the library's fact that `<` is well-founded): its recursive function exists and is unique
(`SumsExist`, `SumsUnique`), and one piece more adds its elements at the end
(`FlattenAppend`).

**`ReactorProofs`.**

- `OutputInvHolds`, `ReceiptClosesHolds`, from `ControlInv`: a thread's local variables
  fit its place, one thread at a time runs a connection's task, a thread outside
  `TwitterEngine.send` serves its own connection, nobody knows a connection that was
  not accepted, and a RECEIPT is for a connection that should close and has no user. `ClosingHasOutput` is inductive
  only with them: a thread at another place could otherwise write the output of a
  connection whose RECEIPT is not yet there.
- `QueuedHasWriterHolds`: if each client logs in once per connection (`LogInOnce`),
  no wakeup is lost. That proviso came out of the proof: without it the invariant
  is false, and `ReactorConnectTwice.cfg` has the trace (section 12). The
  invariant `WakeInv` adds that CONNECT is neither on the wire nor in the tokenizer
  of a client that has logged in (`ConnectInv`), and that a client that posts, or is
  told that its post failed, has no messages waiting but for one that a post is
  delivering (`CaughtUpInv`), so that nothing is lost when the shared encoder throws.

**`ClientProofs`.** `ClientInvHolds`, for any names and any number of logins and
commands. What `ClientInv` says of a quiet moment and of the frame at hand is the end of
what has to be said of every frame under way:

- A `View` is what a client may know of its login: who it follows under each id, and
  whether CONNECTED has come. `Learns` says which frame may come after a view and what
  it makes of it. `AgreeInv`: the frame that the listener has at hand and those on the
  wire lead (`Leads`), one after the other, from the view that is in the map to the
  view that is the server's state. The server's answer adds a view at one end,
  the listener takes one away at the other.
- The map is that view and the users that earlier logins left (`stale`). The ids of
  those are lower than all that this login hands out (`Fresh`): that is why a stale
  user is never taken for the one an answer is about, and why `follow` does not need
  the reset that `relogin` shows to be missing. `CountInv` bounds the counter by
  the commands typed, counting each new subscription once, wherever its frame is;
  `MapInv` says that the counter is ahead of the map except between the two statements of
  `registerSubscription`.
- One connection at a time is in use (`ConnectionInv`), listeners of earlier logins
  only have to see that they were interrupted (`ListenersInv`), what is asked on a connection
  that is closed is never answered (`NetInv`), and CONNECT is the first and only
  one of its kind (`LoginInv`), so that a login never resets a view half-way.

Nothing is said once `process` is not `"running"`: the process has exited, the
keyboard thread has used a deleted connection, or two connections are in use.

**`CSliderProofs`, `RefineSlideProofs`, `FlexSliderProofs`.** `SliderInvHolds` in each:
what is shown at rest is the current slide, and the timers are as promised. It
needs what is shown during a move: the two slides of the move and nothing else
(`FallbackView`, `TransitionInv`), or the clone that `wrapup` will leave
(`DisplayInv`). `RefineSlide` needs that the list of loaded images has no image
twice (`ImagesInv`), since its length is what `setup` waits for. `StopsAtLastHolds`: a
`FlexSlider` without a loop does not go on after its last slide (`AtEndInv`,
`PlayInv`). `SafeCarousel` and `CarouselHolds`: every step of a slider is a step of
`Carousel` or a stutter. For `FlexSlider` that is all of the property
`ImplementsCarousel`; for the other two the property has `Carousel`'s fairness too,
and the theorem is its safety part.

Only model-checked, and why:

- the liveness properties and the fairness part of `ImplementsCarousel` of `CSlider`
  and `RefineSlide`: liveness under fairness and ENABLED are beyond the prover.

## 12. Where code and comments disagree

Two runs show a disagreement:

1. `connect_race`: two CONNECTs at once are both accepted; the test whether the user
   is connected is not under the lock that `login` takes.
2. `relogin`: "reset subscription map on every connect just to make sure" only asks
   whether the map is empty.

Seven more configurations are kept beside the runs; each asks TLC for one property,
most of them promised by a comment, and TLC answers with a counterexample
(`tlc -config <file> <module>`):

| Configuration | Module | Counterexample |
|---|---|---|
| `EngineRejectedLogin.cfg` | `MCTwitterEngine` | a refused login replaces the protocol of the user that is logged in elsewhere; messages then pile up at the refused connection |
| `EngineTwoIds.cfg` | `MCTwitterEngine` | "if user has not already subscribe to the given topic" is tested by id; after UNSUBSCRIBE of one of two ids, the other is left in the user's map with nothing behind it |
| `EngineTwoMentions.cfg` | `MCTwitterEngine` | "ignore the users that the message already delivered to": relays do not add to that list, and two mentions deliver twice |
| `DeliveryConnectedFirst.cfg` | `MCDelivery` | a MESSAGE is written before CONNECTED, which the handler's queue is meant to prevent |
| `DeliveryNull.cfg` | `MCDelivery` | two threads flush one handler's queue, and the later one writes `null` |
| `ReactorConnectTwice.cfg` | `MCReactor` | a client that is logged in sends CONNECT again; while the ERROR is in the shared encoder, a poster with a message for that client gets the encoder's exception, and the message waits with nobody to write it. `Client` makes a connection for each login, so it does not meet this |
| `SplitCharacter.cfg` | `MCTokenizer` | "Any unused bytes are kept in the decoder": they are dropped with their buffer |

Two more behaviours of the engine are worth knowing, although no comment speaks
against them clearly: a CONNECT over a session of the same connection leaves the
first user connected with nobody logged in as it (`ConnectNew` and `login` do not log
out), and a user who registers as `"server"` takes the server topic's place
under that name (`ConnectNew` replaces `topics["server"]`).

## 13. Not modelled

Parsing and printing of frames is character processing without state. The
statistics counters and their timer are read by nothing but the report that
prints them. The client's HTML report is formatting; its `stop`, `clients` and
`stats` commands only send a frame. Of FlexSlider: carousels of several visible
slides, `asNavFor` and `sync`, vertical and reversed geometry, resizing, adding and
removing slides. The other scripts of the page are two more sliders of the same
kind, one of them (`jquery.cslider_.js`) the same file with another name for `$`,
and menus, easing curves and styling.
