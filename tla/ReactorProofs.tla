--------------------------- MODULE ReactorProofs ---------------------------
(***************************************************************************)
(* Reactor for any number of connections and pool threads and any frames:  *)
(* output is never forgotten, a connection is closed with its RECEIPT, and *)
(* no wakeup is lost between the thread that queues a message and the      *)
(* connection's own, as long as clients log in once per connection.        *)
(***************************************************************************)
EXTENDS Reactor, TLAPS

-----------------------------------------------------------------------------
(* The inductive invariant                                                 *)

\* The places at which a thread has a connection at hand.
Dest == {"test", "flush", "poll", "encode", "add", "write"}

\* What a thread knows: its place in the code and its local variables.
Thread == [pc : WorkerPlaces, task : Conns \cup {None}, what : Frames \cup Answers \cup {None},
           at : Conns \cup {None}, posting : BOOLEAN, left : SUBSET Conns]

\* The local variables of the thread w, when e is in the engine, have the values
\* that its place relies on; outside TwitterEngine.send it serves its own client.
Fits(w, pc, task, what, at, posting, e) ==
    /\ pc # "idle" => task \in Conns
    /\ pc \in Dest => at \in Conns /\ (posting \/ at = task)
    /\ pc \in {"encode", "add"} => what \in Answers /\ (posting => what = "MESSAGE")
    /\ posting => pc \in Dest \cup {"post"}
    /\ pc = "post" => posting
    /\ posting \/ pc = "await" => e = w
ThreadInv ==
    \A w \in Workers :
        Fits(w, worker[w].pc, worker[w].task, worker[w].what, worker[w].at, worker[w].posting, engine)

\* One thread at a time runs a connection's task.
Runs(w, c) == worker[w].task = c /\ worker[w].pc \notin {"idle", "lock"}
RunInv == \A c \in Conns : \A v, w \in Workers : Runs(v, c) /\ Runs(w, c) => v = w

\* The selector thread has a key at hand, which it has cancelled after end of input.
SelectorInv ==
    /\ selector.pc \in {"read", "eof", "logout", "write"} => selector.key \in Conns
    /\ selector.pc \in {"eof", "logout"} => key[selector.key] = "cancelled"

\* Nobody knows a connection that has not been accepted.
AcceptedInv ==
    \A c \in Conns : key[c] = "none" =>
        /\ outData[c] = <<>> /\ ~session[c] /\ ~authorized[c] /\ ~shouldClose[c]
        /\ selector.key # c
        /\ \A i \in DOMAIN pool : pool[i] # c
        /\ \A w \in Workers : worker[w].task # c /\ worker[w].at # c

\* A RECEIPT is for a connection that should close and has no user any more.
ReceiptInv ==
    /\ \A c \in Conns : \A i \in DOMAIN outData[c] : outData[c][i] = "RECEIPT" => shouldClose[c]
    /\ \A w \in Workers : worker[w].pc \in {"encode", "add"} /\ worker[w].what = "RECEIPT" =>
         shouldClose[worker[w].at] /\ ~authorized[worker[w].at]

ControlInv ==
    /\ TypeOK /\ ThreadInv /\ RunInv /\ SelectorInv /\ AcceptedInv /\ ReceiptInv
    /\ OutputHasInterest /\ ClosingHasOutput

-----------------------------------------------------------------------------
(* What a step does to its thread                                          *)

LEMMA ThreadType == TypeOK => \A w \in Workers : worker[w] \in Thread
BY DEF TypeOK, Thread

\* The thread w goes on at pc with these local variables, and no other moves.
Moves(w, pc, task, what, at, posting) ==
    /\ worker' \in [Workers -> Thread]
    /\ worker'[w].pc = pc
    /\ worker'[w].task = task
    /\ worker'[w].what = what
    /\ worker'[w].at = at
    /\ worker'[w].posting = posting
    /\ \A v \in Workers : v # w => worker'[v] = worker[v]

\* Replacing the record of one thread is such a move.
LEMMA MovesTo ==
    ASSUME TypeOK, NEW w \in Workers, NEW r \in Thread, worker' = [worker EXCEPT ![w] = r]
    PROVE  Moves(w, r.pc, r.task, r.what, r.at, r.posting)
BY DEF TypeOK, Moves, Thread

\* So is changing its place only.
LEMMA GotoMoves ==
    ASSUME TypeOK, NEW w \in Workers, NEW p \in WorkerPlaces, Goto(w, p)
    PROVE  Moves(w, p, worker[w].task, worker[w].what, worker[w].at, worker[w].posting)
<1>1. PICK r \in Thread : r = [worker[w] EXCEPT !.pc = p]
  BY ThreadType DEF Thread
<1>2. /\ r.pc = p /\ r.task = worker[w].task /\ r.what = worker[w].what
      /\ r.at = worker[w].at /\ r.posting = worker[w].posting
  BY <1>1, ThreadType DEF Thread
<1>3. worker' = [worker EXCEPT ![w] = r]
  BY <1>1 DEF Goto
<1> QED BY <1>2, <1>3, MovesTo

\* Going on with a frame or with none.
LEMMA FrameMoves ==
    ASSUME TypeOK, NEW w \in Workers, NEW p \in WorkerPlaces, NEW f \in Frames \cup Answers \cup {None},
           worker' = [worker EXCEPT ![w].pc = p, ![w].what = f]
    PROVE  Moves(w, p, worker[w].task, f, worker[w].at, worker[w].posting)
<1>1. PICK r \in Thread : r = [worker[w] EXCEPT !.pc = p, !.what = f]
  BY ThreadType DEF Thread
<1>2. /\ r.pc = p /\ r.task = worker[w].task /\ r.what = f
      /\ r.at = worker[w].at /\ r.posting = worker[w].posting
  BY <1>1, ThreadType DEF Thread
<1>3. worker' = [worker EXCEPT ![w] = r]
  BY <1>1
<1> QED BY <1>2, <1>3, MovesTo

\* Answering its own client.
LEMMA AnswerMoves ==
    ASSUME TypeOK, NEW w \in Workers, NEW f \in Answers, Answer(w, f)
    PROVE  Moves(w, "encode", worker[w].task, f, worker[w].task, worker[w].posting)
<1>1. PICK r \in Thread : r = [worker[w] EXCEPT !.pc = "encode", !.what = f, !.at = worker[w].task]
  BY ThreadType DEF Thread, WorkerPlaces
<1>2. /\ r.pc = "encode" /\ r.task = worker[w].task /\ r.what = f
      /\ r.at = worker[w].task /\ r.posting = worker[w].posting
  BY <1>1, ThreadType DEF Thread
<1>3. worker' = [worker EXCEPT ![w] = r]
  BY <1>1 DEF Answer, Here
<1> QED BY <1>2, <1>3, MovesTo

\* Taking a task, and going on with it after a post.
LEMMA TaskMoves ==
    ASSUME TypeOK, NEW w \in Workers, NEW p \in WorkerPlaces, NEW c \in Conns \cup {None},
           worker' = [worker EXCEPT ![w] = [Idle EXCEPT !.pc = p, !.task = c]]
    PROVE  Moves(w, p, c, None, None, FALSE)
<1>1. PICK r \in Thread : r = [Idle EXCEPT !.pc = p, !.task = c]
  BY DEF Thread, Idle
<1>2. r.pc = p /\ r.task = c /\ r.what = None /\ r.at = None /\ r.posting = FALSE
  BY <1>1 DEF Idle
<1>3. worker' = [worker EXCEPT ![w] = r]
  BY <1>1
<1> QED BY <1>2, <1>3, MovesTo

\* The end of a task.
LEMMA IdleMoves ==
    ASSUME TypeOK, NEW w \in Workers, worker' = [worker EXCEPT ![w] = Idle]
    PROVE  Moves(w, "idle", None, None, None, FALSE)
<1>1. PICK r \in Thread : r = Idle
  BY DEF Thread, Idle, WorkerPlaces
<1>2. r.pc = "idle" /\ r.task = None /\ r.what = None /\ r.at = None /\ r.posting = FALSE
  BY <1>1 DEF Idle
<1>3. worker' = [worker EXCEPT ![w] = r]
  BY <1>1
<1> QED BY <1>2, <1>3, MovesTo

\* An exception.
LEMMA ThrowMoves ==
    ASSUME TypeOK, NEW w \in Workers, Throw(w)
    PROVE  IF worker[w].posting
           THEN Moves(w, "encode", worker[w].task, "ERROR", worker[w].task, FALSE)
           ELSE Moves(w, "idle", None, None, None, FALSE)
<1>1. CASE worker[w].posting
  <2>1. PICK r \in Thread :
           r = [Idle EXCEPT !.pc = "encode", !.task = worker[w].task, !.what = "ERROR", !.at = worker[w].task]
    BY DEF TypeOK, Thread, Idle, WorkerPlaces, Answers
  <2>2. r.pc = "encode" /\ r.task = worker[w].task /\ r.what = "ERROR" /\ r.at = worker[w].task /\ r.posting = FALSE
    BY <2>1 DEF Idle
  <2>3. worker' = [worker EXCEPT ![w] = r]
    BY <1>1, <2>1 DEF Throw, Here
  <2> QED BY <1>1, <2>2, <2>3, MovesTo
<1>2. CASE ~worker[w].posting
  BY <1>2, IdleMoves DEF Throw
<1> QED BY <1>1, <1>2

\* Beginning a post, and delivering to the next subscriber.
LEMMA EnterMoves ==
    ASSUME TypeOK, NEW w \in Workers,
           worker' = [worker EXCEPT ![w].pc = "post", ![w].what = None, ![w].posting = TRUE, ![w].left = Conns]
    PROVE  Moves(w, "post", worker[w].task, None, worker[w].at, TRUE)
<1>1. PICK r \in Thread : r = [worker[w] EXCEPT !.pc = "post", !.what = None, !.posting = TRUE, !.left = Conns]
  BY ThreadType DEF Thread, WorkerPlaces
<1>2. r.pc = "post" /\ r.task = worker[w].task /\ r.what = None /\ r.at = worker[w].at /\ r.posting = TRUE
  BY <1>1, ThreadType DEF Thread
<1>3. worker' = [worker EXCEPT ![w] = r]
  BY <1>1
<1> QED BY <1>2, <1>3, MovesTo

LEMMA PostMoves ==
    ASSUME TypeOK, NEW w \in Workers, NEW d \in Conns,
           worker' = [worker EXCEPT ![w].pc = "test", ![w].at = d, ![w].left = @ \ {d}]
    PROVE  Moves(w, "test", worker[w].task, worker[w].what, d, worker[w].posting)
<1>1. PICK r \in Thread : r = [worker[w] EXCEPT !.pc = "test", !.at = d, !.left = @ \ {d}]
  BY ThreadType DEF Thread, WorkerPlaces
<1>2. /\ r.pc = "test" /\ r.task = worker[w].task /\ r.what = worker[w].what
      /\ r.at = d /\ r.posting = worker[w].posting
  BY <1>1, ThreadType DEF Thread
<1>3. worker' = [worker EXCEPT ![w] = r]
  BY <1>1
<1> QED BY <1>2, <1>3, MovesTo

-----------------------------------------------------------------------------
(* What keeps the invariant                                                *)

\* The types of all that threads share.
SharedTypes ==
    /\ wire \in [Conns -> Seq(Frames)]
    /\ hangsUp \in [Conns -> BOOLEAN]
    /\ key \in [Conns -> {"none", "valid", "cancelled"}]
    /\ interest \in [Conns -> SUBSET {"R", "W"}]
    /\ outData \in [Conns -> Seq(Answers)]
    /\ messagesQueue \in [Conns -> Nat]
    /\ input \in [Conns -> Seq(Frames)]
    /\ session \in [Conns -> BOOLEAN]
    /\ authorized \in [Conns -> BOOLEAN]
    /\ shouldClose \in [Conns -> BOOLEAN]
    /\ selector \in [pc : SelectorPlaces, key : Conns \cup {None}]
    /\ pool \in Seq(Conns)
    /\ engine \in Workers \cup {None}
    /\ shouldRun \in BOOLEAN

LEMMA TypeParts == TypeOK <=> SharedTypes /\ worker \in [Workers -> Thread]
BY DEF TypeOK, SharedTypes, Thread

\* The engine's monitor is taken when it is free, and given back by its owner.
EngineMoves(w) == engine' = engine \/ (engine = None /\ engine' = w) \/ (engine = w /\ engine' = None)

LEMMA ThreadKeeps ==
    ASSUME ThreadInv, NEW w \in Workers,
           NEW pc, NEW task, NEW what, NEW at, NEW posting, Moves(w, pc, task, what, at, posting),
           Fits(w, pc, task, what, at, posting, engine'), EngineMoves(w)
    PROVE  ThreadInv'
<1>1. None \notin Workers
  BY ReactorAssumption DEF Workers
<1>2. ASSUME NEW v \in Workers, v # w
      PROVE  Fits(v, worker[v].pc, worker[v].task, worker[v].what, worker[v].at, worker[v].posting, engine')
  BY <1>1, <1>2 DEF ThreadInv, Fits, EngineMoves
<1> QED BY <1>2 DEF ThreadInv, Moves

\* A task is run by the thread that ran it, or by one that finds it free.
LEMMA RunKeeps ==
    ASSUME RunInv, NEW w \in Workers,
           NEW pc, NEW task, NEW what, NEW at, NEW posting, Moves(w, pc, task, what, at, posting),
           pc \notin {"idle", "lock"} => Runs(w, task) \/ ~Running(task)
    PROVE  RunInv'
BY DEF RunInv, Runs, Running, Moves

\* Threads go from one accepted connection to another.
LEMMA AcceptedKeeps ==
    ASSUME AcceptedInv, NEW w \in Workers,
           NEW pc, NEW task, NEW what, NEW at, NEW posting, Moves(w, pc, task, what, at, posting),
           \A c \in Conns : key'[c] = "none" => key[c] = "none",
           \A c \in Conns : key[c] = "none" =>
             /\ task # c /\ at # c
             /\ outData'[c] = outData[c] /\ authorized'[c] = authorized[c]
             /\ session'[c] => session[c]
             /\ shouldClose'[c] = shouldClose[c],
           UNCHANGED selector,
           \A i \in DOMAIN pool' : \E j \in DOMAIN pool : pool'[i] = pool[j]
    PROVE  AcceptedInv'
BY DEF AcceptedInv, Moves

\* A connection that should close has its RECEIPT written last.
LEMMA ReceiptKeeps ==
    ASSUME ReceiptInv, RunInv, ThreadInv, NEW w \in Workers,
           NEW pc, NEW task, NEW what, NEW at, NEW posting, Moves(w, pc, task, what, at, posting),
           \A c \in Conns : shouldClose[c] => shouldClose'[c],
           \A c \in Conns : \A i \in DOMAIN outData'[c] : outData'[c][i] = "RECEIPT" =>
             shouldClose'[c] \/ \E j \in DOMAIN outData[c] : outData[c][j] = "RECEIPT",
           \A c \in Conns : authorized'[c] => authorized[c] \/ Runs(w, c),
           pc \in {"encode", "add"} /\ what = "RECEIPT" => shouldClose'[at] /\ ~authorized'[at]
    PROVE  ReceiptInv'
<1>1. ASSUME NEW v \in Workers, v # w, worker[v].pc \in {"encode", "add"}, worker[v].what = "RECEIPT"
      PROVE  shouldClose'[worker[v].at] /\ ~authorized'[worker[v].at]
  <2>1. worker[v].at \in Conns /\ Runs(v, worker[v].at)
    BY <1>1 DEF ThreadInv, Fits, Dest, Runs
  <2>2. shouldClose[worker[v].at] /\ ~authorized[worker[v].at]
    BY <1>1 DEF ReceiptInv
  <2> QED BY <1>1, <2>1, <2>2 DEF RunInv
<1> QED BY <1>1 DEF ReceiptInv, Moves

\* What a thread must not forget when it leaves the encoder.
LEMMA ClosingKeeps ==
    ASSUME ClosingHasOutput, NEW w \in Workers,
           NEW pc, NEW task, NEW what, NEW at, NEW posting, Moves(w, pc, task, what, at, posting),
           \A c \in Conns : key'[c] = "valid" /\ shouldClose'[c] /\ outData'[c] = <<>> =>
             \/ pc \in {"encode", "add"} /\ at = c
             \/ /\ key[c] = "valid" /\ shouldClose[c] /\ outData[c] = <<>>
                /\ worker[w].at = c /\ worker[w].pc \in {"encode", "add"} =>
                     \E v \in Workers : v # w /\ worker[v].at = c /\ worker[v].pc \in {"encode", "add"}
    PROVE  ClosingHasOutput'
<1> SUFFICES ASSUME NEW c \in Conns, key'[c] = "valid", shouldClose'[c], outData'[c] = <<>>
             PROVE  \E v \in Workers : worker'[v].at = c /\ worker'[v].pc \in {"encode", "add"}
  BY DEF ClosingHasOutput
<1>1. CASE pc \in {"encode", "add"} /\ at = c
  BY <1>1 DEF Moves
<1>2. CASE ~(pc \in {"encode", "add"} /\ at = c)
  <2>1. \E v \in Workers : v # w /\ worker[v].at = c /\ worker[v].pc \in {"encode", "add"}
    BY <1>2 DEF ClosingHasOutput
  <2> QED BY <2>1 DEF Moves
<1> QED BY <1>1, <1>2

\* All of it for a step that changes nothing but its thread, the monitor, the
\* number of queued messages and the frames to be processed.
LEMMA QuietKeeps ==
    ASSUME ControlInv, NEW w \in Workers,
           NEW pc, NEW task, NEW what, NEW at, NEW posting, Moves(w, pc, task, what, at, posting),
           Fits(w, pc, task, what, at, posting, engine'), EngineMoves(w),
           pc \notin {"idle", "lock"} => Runs(w, task) \/ ~Running(task),
           \A c \in Conns : key[c] = "none" => task # c /\ at # c,
           UNCHANGED <<netVars, channelVars, protocolVars, selector, shouldRun>>,
           messagesQueue' \in [Conns -> Nat], input' \in [Conns -> Seq(Frames)], pool' \in Seq(Conns),
           \A i \in DOMAIN pool' : \E j \in DOMAIN pool : pool'[i] = pool[j],
           pc \in {"encode", "add"} /\ what = "RECEIPT" =>
             worker[w].pc \in {"encode", "add"} /\ worker[w].what = "RECEIPT" /\ at = worker[w].at,
           worker[w].pc \in {"encode", "add"} =>
             \/ pc \in {"encode", "add"} /\ at = worker[w].at
             \/ \E v \in Workers : v # w /\ worker[v].at = worker[w].at /\ worker[v].pc \in {"encode", "add"}
    PROVE  ControlInv'
<1> USE DEF ControlInv
<1>1. UNCHANGED <<wire, hangsUp, key, interest, outData, session, authorized, shouldClose>>
  BY DEF netVars, channelVars, protocolVars
<1>2. TypeOK'
  <2>1. engine' \in Workers \cup {None}
    BY DEF TypeOK, EngineMoves
  <2> QED BY <1>1, <2>1 DEF Moves, TypeOK, Thread
<1>3. ThreadInv' /\ RunInv'
  BY ThreadKeeps, RunKeeps
<1>4. SelectorInv' /\ OutputHasInterest'
  BY <1>1 DEF SelectorInv, OutputHasInterest
<1>5. AcceptedInv'
  BY <1>1, AcceptedKeeps
<1>6. ReceiptInv'
  <2>1. pc \in {"encode", "add"} /\ what = "RECEIPT" => shouldClose'[at] /\ ~authorized'[at]
    BY <1>1 DEF ReceiptInv
  <2> QED BY <1>1, <2>1, ReceiptKeeps
<1>7. ClosingHasOutput'
  BY <1>1, ClosingKeeps
<1> QED BY <1>2, <1>3, <1>4, <1>5, <1>6, <1>7

-----------------------------------------------------------------------------
(* The steps of a pool thread that change nothing but its place, the        *)
(* engine's monitor and the number of queued messages                      *)

\* From a place outside the encoder, or while another thread is in it too.
LEMMA LocalKeeps ==
    ASSUME ControlInv, NEW w \in Workers,
           NEW pc, NEW task, NEW what, NEW at, NEW posting, Moves(w, pc, task, what, at, posting),
           Fits(w, pc, task, what, at, posting, engine'), EngineMoves(w),
           pc \notin {"idle", "lock"} => Runs(w, task) \/ ~Running(task),
           \A c \in Conns : key[c] = "none" => task # c /\ at # c,
           UNCHANGED <<netVars, channelVars, input, protocolVars, selector, pool, shouldRun>>,
           messagesQueue' \in [Conns -> Nat],
           what # "RECEIPT" \/ pc \notin {"encode", "add"},
           worker[w].pc \in {"encode", "add"} =>
             \E v \in Workers : v # w /\ worker[v].at = worker[w].at /\ worker[v].pc \in {"encode", "add"}
    PROVE  ControlInv'
<1>1. input' \in [Conns -> Seq(Frames)] /\ pool' \in Seq(Conns)
  BY DEF ControlInv, TypeOK
<1>2. \A i \in DOMAIN pool' : \E j \in DOMAIN pool : pool'[i] = pool[j]
  OBVIOUS
<1>3. UNCHANGED <<netVars, channelVars, protocolVars, selector, shouldRun>>
  OBVIOUS
<1> QED BY <1>1, <1>2, <1>3, QuietKeeps

\* Moving on within a task, with the connection at hand or none.
LEMMA WithinKeeps ==
    ASSUME ControlInv, NEW w \in Workers, worker[w].pc \notin {"idle", "lock"},
           NEW pc, NEW what, NEW posting, Moves(w, pc, worker[w].task, what, worker[w].at, posting),
           Fits(w, pc, worker[w].task, what, worker[w].at, posting, engine'), EngineMoves(w),
           UNCHANGED <<netVars, channelVars, input, protocolVars, selector, pool, shouldRun>>,
           messagesQueue' \in [Conns -> Nat],
           worker[w].pc = "encode" => pc = "add",
           worker[w].pc # "add",
           pc \in {"encode", "add"} /\ what = "RECEIPT" => worker[w].pc = "encode" /\ worker[w].what = "RECEIPT"
    PROVE  ControlInv'
<1>1. Runs(w, worker[w].task)
  BY DEF Runs
<1>2. \A c \in Conns : key[c] = "none" => worker[w].task # c /\ worker[w].at # c
  BY DEF ControlInv, AcceptedInv
<1>3. input' \in [Conns -> Seq(Frames)] /\ pool' \in Seq(Conns)
  BY DEF ControlInv, TypeOK
<1> QED BY <1>1, <1>2, <1>3, QuietKeeps

LEMMA LockTaskKeeps == ASSUME ControlInv, NEW w \in Workers, LockTask(w) PROVE ControlInv'
<1>0. TypeOK /\ ThreadInv
  BY DEF ControlInv
<1>1. Moves(w, "loop", worker[w].task, worker[w].what, worker[w].at, worker[w].posting)
  BY <1>0, GotoMoves DEF LockTask, WorkerPlaces
<1>2. Fits(w, "loop", worker[w].task, worker[w].what, worker[w].at, worker[w].posting, engine')
  BY <1>0 DEF LockTask, At, ThreadInv, Fits, Dest
<1>3. ~Running(worker[w].task) /\ worker[w].pc = "lock"
  BY DEF LockTask, Here, At
<1>4. UNCHANGED <<netVars, channelVars, messagesQueue, input, protocolVars, selector, pool, engine, shouldRun>>
  BY DEF LockTask
<1>5. \A c \in Conns : key[c] = "none" => worker[w].task # c /\ worker[w].at # c
  BY DEF ControlInv, AcceptedInv
<1>6. messagesQueue' \in [Conns -> Nat] /\ EngineMoves(w)
  BY <1>0, <1>4 DEF TypeOK, EngineMoves
<1> QED BY <1>1, <1>2, <1>3, <1>4, <1>5, <1>6, LocalKeeps

\* A task in the executor's queue is of an accepted connection.
LEMMA TakeTaskKeeps == ASSUME ControlInv, NEW w \in Workers, TakeTask(w) PROVE ControlInv'
<1>0. TypeOK
  BY DEF ControlInv
<1>1. pool # <<>> /\ Head(pool) \in Conns /\ pool' = Tail(pool) /\ worker[w].pc = "idle"
  BY <1>0 DEF TakeTask, TypeOK, At
<1>. PICK pc \in {"lock", "loop"} : pc = IF Running(Head(pool)) THEN "lock" ELSE "loop"
  OBVIOUS
<1>. PICK no \in BOOLEAN : no = FALSE
  OBVIOUS
<1>2. Moves(w, pc, Head(pool), None, None, no)
  BY <1>0, <1>1, TaskMoves DEF TakeTask, WorkerPlaces
<1>3. Fits(w, pc, Head(pool), None, None, no, engine')
  BY <1>1 DEF Fits, Dest
<1>4. UNCHANGED <<netVars, channelVars, messagesQueue, input, protocolVars, selector, engine, shouldRun>>
  BY DEF TakeTask
<1>5. /\ pool' \in Seq(Conns)
      /\ \A i \in DOMAIN pool' : \E j \in DOMAIN pool : pool'[i] = pool[j]
  <2>1. pool \in Seq(Conns) /\ Len(pool) \in Nat /\ Len(pool) > 0 /\ DOMAIN pool = 1..Len(pool)
    BY <1>0, <1>1 DEF TypeOK
  <2>2. DOMAIN pool' = 1..(Len(pool) - 1) /\ \A i \in 1..(Len(pool) - 1) : pool'[i] = pool[i + 1]
    BY <1>1, <2>1
  <2>3. \A i \in 1..(Len(pool) - 1) : i + 1 \in 1..Len(pool)
    BY <2>1
  <2>4. pool' \in Seq(Conns)
    BY <1>1, <2>1
  <2> QED BY <2>1, <2>2, <2>3, <2>4
<1>6. \A c \in Conns : key[c] = "none" => Head(pool) # c /\ None # c
  <2>1. Head(pool) = pool[1] /\ 1 \in DOMAIN pool
    BY <1>0, <1>1 DEF TypeOK
  <2> QED BY <2>1, ReactorAssumption DEF ControlInv, AcceptedInv
<1>7. messagesQueue' \in [Conns -> Nat] /\ input' \in [Conns -> Seq(Frames)]
  BY <1>0, <1>4 DEF TypeOK
<1>8. pc \notin {"idle", "lock"} => Runs(w, Head(pool)) \/ ~Running(Head(pool))
  OBVIOUS
<1>9. pc \in {"encode", "add"} /\ None = "RECEIPT" =>
        worker[w].pc \in {"encode", "add"} /\ worker[w].what = "RECEIPT" /\ None = worker[w].at
  OBVIOUS
<1>10. worker[w].pc \in {"encode", "add"} =>
         \/ pc \in {"encode", "add"} /\ None = worker[w].at
         \/ \E v \in Workers : v # w /\ worker[v].at = worker[w].at /\ worker[v].pc \in {"encode", "add"}
  BY <1>1
<1>11. EngineMoves(w)
  BY <1>4 DEF EngineMoves
<1>12. UNCHANGED <<netVars, channelVars, protocolVars, selector, shouldRun>>
  BY <1>4
<1> QED BY <1>2, <1>3, <1>5, <1>6, <1>7, <1>8, <1>9, <1>10, <1>11, <1>12, QuietKeeps

\* Entering and leaving TwitterEngine.send.
LEMMA EnterSendKeeps == ASSUME ControlInv, NEW w \in Workers, EnterSend(w) PROVE ControlInv'
<1>0. TypeOK /\ ThreadInv
  BY DEF ControlInv
<1>1. Moves(w, "post", worker[w].task, None, worker[w].at, TRUE)
  BY <1>0, EnterMoves DEF EnterSend
<1>2. Fits(w, "post", worker[w].task, None, worker[w].at, TRUE, engine')
  BY <1>0 DEF EnterSend, At, ThreadInv, Fits, Dest
<1>3. worker[w].pc = "enter" /\ EngineMoves(w) /\ messagesQueue' \in [Conns -> Nat]
  BY <1>0 DEF EnterSend, At, EngineMoves, TypeOK
<1> QED BY <1>1, <1>2, <1>3, WithinKeeps DEF EnterSend

LEMMA AwaitKeeps == ASSUME ControlInv, NEW w \in Workers, AwaitTimesOut(w) PROVE ControlInv'
<1>0. TypeOK /\ ThreadInv
  BY DEF ControlInv
<1>1. Moves(w, "loop", worker[w].task, worker[w].what, worker[w].at, worker[w].posting)
  BY <1>0, GotoMoves DEF AwaitTimesOut, WorkerPlaces
<1>2. Fits(w, "loop", worker[w].task, worker[w].what, worker[w].at, worker[w].posting, engine')
  BY <1>0 DEF AwaitTimesOut, At, ThreadInv, Fits, Dest
<1>3. worker[w].pc = "await" /\ EngineMoves(w) /\ messagesQueue' \in [Conns -> Nat]
  BY <1>0 DEF AwaitTimesOut, At, EngineMoves, ThreadInv, Fits, TypeOK
<1> QED BY <1>1, <1>2, <1>3, WithinKeeps DEF AwaitTimesOut

LEMMA PostDoneKeeps == ASSUME ControlInv, NEW w \in Workers, PostDone(w) PROVE ControlInv'
<1>0. TypeOK /\ ThreadInv
  BY DEF ControlInv
<1>1. worker[w].pc = "post" /\ worker[w].posting /\ engine = w /\ worker[w].task \in Conns
  BY <1>0 DEF PostDone, At, ThreadInv, Fits
<1>. PICK no \in BOOLEAN : no = FALSE
  OBVIOUS
<1>2. Moves(w, "loop", worker[w].task, None, None, no)
  BY <1>0, <1>1, TaskMoves DEF PostDone, Here, WorkerPlaces
<1>3. Fits(w, "loop", worker[w].task, None, None, no, engine')
  BY <1>1 DEF Fits, Dest
<1>4. /\ engine' = None
      /\ UNCHANGED <<netVars, channelVars, messagesQueue, input, protocolVars, selector, pool, shouldRun>>
  BY DEF PostDone
<1>5. \A c \in Conns : key[c] = "none" => worker[w].task # c /\ None # c
  BY ReactorAssumption DEF ControlInv, AcceptedInv
<1>6. messagesQueue' \in [Conns -> Nat] /\ EngineMoves(w) /\ Runs(w, worker[w].task)
  BY <1>0, <1>1, <1>4 DEF TypeOK, EngineMoves, Runs
<1>7. /\ "loop" \notin {"idle", "lock"} => Runs(w, worker[w].task) \/ ~Running(worker[w].task)
      /\ None # "RECEIPT" \/ "loop" \notin {"encode", "add"}
  BY <1>6
<1>8. worker[w].pc \in {"encode", "add"} =>
        \E v \in Workers : v # w /\ worker[v].at = worker[w].at /\ worker[v].pc \in {"encode", "add"}
  BY <1>1
<1>9. UNCHANGED <<netVars, channelVars, input, protocolVars, selector, pool, shouldRun>>
  BY <1>4
<1> QED BY <1>2, <1>3, <1>5, <1>6, <1>7, <1>8, <1>9, LocalKeeps

\* A frame enters the queue of a subscriber that has a session.
LEMMA PostKeeps == ASSUME ControlInv, NEW w \in Workers, NEW d \in Conns, Post(w, d) PROVE ControlInv'
<1>0. TypeOK /\ ThreadInv
  BY DEF ControlInv
<1>1. worker[w].pc = "post" /\ worker[w].posting /\ engine = w /\ worker[w].task \in Conns /\ session[d]
  BY <1>0 DEF Post, At, ThreadInv, Fits
<1>2. Moves(w, "test", worker[w].task, worker[w].what, d, worker[w].posting)
  BY <1>0, PostMoves DEF Post
<1>3. Fits(w, "test", worker[w].task, worker[w].what, d, worker[w].posting, engine')
  BY <1>1 DEF Fits, Dest, Post
<1>4. /\ UNCHANGED <<netVars, channelVars, input, protocolVars, selector, pool, engine, shouldRun>>
      /\ messagesQueue' = [messagesQueue EXCEPT ![d] = @ + 1]
  BY DEF Post
<1>5. \A c \in Conns : key[c] = "none" => worker[w].task # c /\ d # c
  BY <1>1 DEF ControlInv, AcceptedInv
<1>6. messagesQueue' \in [Conns -> Nat] /\ EngineMoves(w) /\ Runs(w, worker[w].task)
  BY <1>0, <1>1, <1>4 DEF TypeOK, EngineMoves, Runs
<1>7. /\ "test" \notin {"idle", "lock"} => Runs(w, worker[w].task) \/ ~Running(worker[w].task)
      /\ worker[w].what # "RECEIPT" \/ "test" \notin {"encode", "add"}
  BY <1>6
<1>8. worker[w].pc \in {"encode", "add"} =>
        \E v \in Workers : v # w /\ worker[v].at = worker[w].at /\ worker[v].pc \in {"encode", "add"}
  BY <1>1
<1>9. UNCHANGED <<netVars, channelVars, input, protocolVars, selector, pool, shouldRun>>
  BY <1>4
<1> QED BY <1>2, <1>3, <1>5, <1>6, <1>7, <1>8, <1>9, LocalKeeps

\* The tests of flushMessages, which ends in the post or in the task.
LEMMA FlushDoneMoves ==
    ASSUME TypeOK, ThreadInv, NEW w \in Workers, worker[w].pc \in {"test", "flush"}, FlushDone(w), UNCHANGED engine
    PROVE  \E pc \in {"post", "loop"} :
             /\ pc = IF worker[w].posting THEN "post" ELSE "loop"
             /\ Moves(w, pc, worker[w].task, worker[w].what, worker[w].at, worker[w].posting)
             /\ Fits(w, pc, worker[w].task, worker[w].what, worker[w].at, worker[w].posting, engine')
<1>1. CASE worker[w].posting
  <2>1. Moves(w, "post", worker[w].task, worker[w].what, worker[w].at, worker[w].posting)
    BY <1>1, GotoMoves DEF FlushDone, WorkerPlaces
  <2>2. Fits(w, "post", worker[w].task, worker[w].what, worker[w].at, worker[w].posting, engine')
    BY <1>1 DEF ThreadInv, Fits, Dest
  <2> QED BY <1>1, <2>1, <2>2
<1>2. CASE ~worker[w].posting
  <2>1. Moves(w, "loop", worker[w].task, worker[w].what, worker[w].at, worker[w].posting)
    BY <1>2, GotoMoves DEF FlushDone, WorkerPlaces
  <2>2. Fits(w, "loop", worker[w].task, worker[w].what, worker[w].at, worker[w].posting, engine')
    BY <1>2 DEF ThreadInv, Fits, Dest
  <2> QED BY <1>2, <2>1, <2>2
<1> QED BY <1>1, <1>2

LEMMA TestKeeps == ASSUME ControlInv, NEW w \in Workers, Test(w) PROVE ControlInv'
<1>0. TypeOK /\ ThreadInv
  BY DEF ControlInv
<1>1. /\ worker[w].pc = "test" /\ messagesQueue' \in [Conns -> Nat]
      /\ UNCHANGED <<netVars, channelVars, input, protocolVars, selector, pool, engine, shouldRun>>
  BY <1>0 DEF Test, At, TypeOK
<1>2. PICK pc \in {"flush", "post", "loop"} :
        /\ Moves(w, pc, worker[w].task, worker[w].what, worker[w].at, worker[w].posting)
        /\ Fits(w, pc, worker[w].task, worker[w].what, worker[w].at, worker[w].posting, engine')
  <2>1. CASE authorized[worker[w].at]
    <3>1. Moves(w, "flush", worker[w].task, worker[w].what, worker[w].at, worker[w].posting)
      BY <1>0, <2>1, GotoMoves DEF Test, WorkerPlaces
    <3>2. Fits(w, "flush", worker[w].task, worker[w].what, worker[w].at, worker[w].posting, engine')
      BY <1>0, <1>1 DEF ThreadInv, Fits, Dest
    <3> QED BY <3>1, <3>2
  <2>2. CASE ~authorized[worker[w].at]
    BY <1>0, <1>1, <2>2, FlushDoneMoves DEF Test
  <2> QED BY <2>1, <2>2
<1> QED BY <1>1, <1>2, WithinKeeps DEF EngineMoves

LEMMA FlushKeeps == ASSUME ControlInv, NEW w \in Workers, Flush(w) PROVE ControlInv'
<1>0. TypeOK /\ ThreadInv
  BY DEF ControlInv
<1>1. /\ worker[w].pc = "flush" /\ messagesQueue' \in [Conns -> Nat]
      /\ UNCHANGED <<netVars, channelVars, input, protocolVars, selector, pool, engine, shouldRun>>
  BY <1>0 DEF Flush, At, TypeOK
<1>2. PICK pc \in {"poll", "post", "loop"} :
        /\ Moves(w, pc, worker[w].task, worker[w].what, worker[w].at, worker[w].posting)
        /\ Fits(w, pc, worker[w].task, worker[w].what, worker[w].at, worker[w].posting, engine')
  <2>1. CASE messagesQueue[worker[w].at] = 0
    BY <1>0, <1>1, <2>1, FlushDoneMoves DEF Flush
  <2>2. CASE messagesQueue[worker[w].at] # 0
    <3>1. Moves(w, "poll", worker[w].task, worker[w].what, worker[w].at, worker[w].posting)
      BY <1>0, <2>2, GotoMoves DEF Flush, WorkerPlaces
    <3>2. Fits(w, "poll", worker[w].task, worker[w].what, worker[w].at, worker[w].posting, engine')
      BY <1>0, <1>1 DEF ThreadInv, Fits, Dest
    <3> QED BY <3>1, <3>2
  <2> QED BY <2>1, <2>2
<1> QED BY <1>1, <1>2, WithinKeeps DEF EngineMoves

\* An exception anywhere but in the encoder, or there while another thread is in it.
LEMMA ThrowKeeps ==
    ASSUME ControlInv, NEW w \in Workers, Throw(w), worker[w].pc \notin {"idle", "lock"},
           UNCHANGED <<netVars, channelVars, messagesQueue, input, protocolVars, selector, pool, shouldRun>>,
           worker[w].pc \in {"encode", "add"} =>
             \E v \in Workers : v # w /\ worker[v].at = worker[w].at /\ worker[v].pc \in {"encode", "add"}
    PROVE  ControlInv'
<1>0. TypeOK /\ ThreadInv
  BY DEF ControlInv
<1>. PICK no \in BOOLEAN : no = FALSE
  OBVIOUS
<1>1. \A c \in Conns : key[c] = "none" => worker[w].task # c /\ None # c
  BY ReactorAssumption DEF ControlInv, AcceptedInv
<1>2. messagesQueue' \in [Conns -> Nat] /\ Runs(w, worker[w].task)
  BY <1>0 DEF TypeOK, Runs
<1>3. CASE worker[w].posting
  <2>1. Moves(w, "encode", worker[w].task, "ERROR", worker[w].task, no)
    BY <1>0, <1>3, ThrowMoves
  <2>2. engine = w /\ engine' = None
    BY <1>0, <1>3 DEF ThreadInv, Fits, Throw
  <2>3. Fits(w, "encode", worker[w].task, "ERROR", worker[w].task, no, engine')
    BY <1>0 DEF ThreadInv, Fits, Dest, Answers
  <2>4. EngineMoves(w)
    BY <2>2 DEF EngineMoves
  <2>5. /\ "encode" \notin {"idle", "lock"} => Runs(w, worker[w].task) \/ ~Running(worker[w].task)
        /\ "ERROR" # "RECEIPT" \/ "encode" \notin {"encode", "add"}
    BY <1>2
  <2>6. \A c \in Conns : key[c] = "none" => worker[w].task # c /\ worker[w].task # c
    BY <1>1
  <2>7. UNCHANGED <<netVars, channelVars, input, protocolVars, selector, pool, shouldRun>>
    OBVIOUS
  <2> QED BY <1>2, <2>1, <2>3, <2>4, <2>5, <2>6, <2>7, LocalKeeps
<1>4. CASE ~worker[w].posting
  <2>1. Moves(w, "idle", None, None, None, no)
    BY <1>0, <1>4, ThrowMoves
  <2>2. engine' = engine
    BY <1>4 DEF Throw
  <2>3. Fits(w, "idle", None, None, None, no, engine')
    BY DEF Fits, Dest
  <2>4. EngineMoves(w)
    BY <2>2 DEF EngineMoves
  <2>5. /\ "idle" \notin {"idle", "lock"} => Runs(w, None) \/ ~Running(None)
        /\ None # "RECEIPT" \/ "idle" \notin {"encode", "add"}
    OBVIOUS
  <2>6. \A c \in Conns : key[c] = "none" => None # c /\ None # c
    BY <1>1
  <2>7. UNCHANGED <<netVars, channelVars, input, protocolVars, selector, pool, shouldRun>>
    OBVIOUS
  <2> QED BY <1>2, <2>1, <2>3, <2>4, <2>5, <2>6, <2>7, LocalKeeps
<1> QED BY <1>3, <1>4

LEMMA PollKeeps == ASSUME ControlInv, NEW w \in Workers, Poll(w) PROVE ControlInv'
<1>0. TypeOK /\ ThreadInv
  BY DEF ControlInv
<1>1. /\ worker[w].pc = "poll" /\ worker[w].at \in Conns /\ worker[w].task \in Conns
      /\ UNCHANGED <<netVars, channelVars, input, protocolVars, selector, pool, shouldRun>>
  BY <1>0 DEF Poll, At, ThreadInv, Fits, Dest
<1>2. CASE messagesQueue[worker[w].at] = 0
  BY <1>1, <1>2, ThrowKeeps DEF Poll
<1>3. CASE messagesQueue[worker[w].at] # 0
  <2>1. Moves(w, "encode", worker[w].task, "MESSAGE", worker[w].at, worker[w].posting)
    BY <1>0, <1>3, FrameMoves DEF Poll, WorkerPlaces, Answers
  <2>2. engine' = engine /\ messagesQueue' = [messagesQueue EXCEPT ![worker[w].at] = @ - 1]
    BY <1>3 DEF Poll
  <2>3. Fits(w, "encode", worker[w].task, "MESSAGE", worker[w].at, worker[w].posting, engine')
    BY <1>0, <1>1, <2>2 DEF ThreadInv, Fits, Dest, Answers
  <2>4. messagesQueue' \in [Conns -> Nat]
    BY <1>0, <1>1, <1>3, <2>2 DEF TypeOK
  <2> QED BY <1>1, <2>1, <2>2, <2>3, <2>4, WithinKeeps DEF EngineMoves
<1> QED BY <1>2, <1>3

LEMMA EncodeKeeps == ASSUME ControlInv, NEW w \in Workers, Encode(w) PROVE ControlInv'
<1>0. TypeOK /\ ThreadInv
  BY DEF ControlInv
<1>1. /\ worker[w].pc = "encode"
      /\ UNCHANGED <<netVars, channelVars, messagesQueue, input, protocolVars, selector, pool, shouldRun>>
  BY DEF Encode, At
<1>2. CASE Goto(w, "add") /\ UNCHANGED engine
  <2>1. Moves(w, "add", worker[w].task, worker[w].what, worker[w].at, worker[w].posting)
    BY <1>0, <1>2, GotoMoves DEF WorkerPlaces
  <2>2. Fits(w, "add", worker[w].task, worker[w].what, worker[w].at, worker[w].posting, engine')
    BY <1>0, <1>1, <1>2 DEF ThreadInv, Fits, Dest
  <2>3. messagesQueue' \in [Conns -> Nat]
    BY <1>0, <1>1 DEF TypeOK
  <2> QED BY <1>1, <1>2, <2>1, <2>2, <2>3, WithinKeeps DEF EngineMoves
<1>3. CASE Throw(w) /\ \E v \in Workers \ {w} : At(v, "encode") /\ worker[v].at = worker[w].at
  BY <1>1, <1>3, ThrowKeeps DEF At
<1> QED BY <1>2, <1>3 DEF Encode

-----------------------------------------------------------------------------
(* The steps of a pool thread that change what the protocol knows          *)

\* Who logs in or out, or is to be closed, has been accepted; who is to be closed
\* is being answered.
LEMMA ProtocolKeeps ==
    ASSUME ControlInv, NEW w \in Workers, worker[w].pc \notin {"idle", "lock", "encode", "add"},
           NEW pc, NEW what, NEW at, NEW posting, Moves(w, pc, worker[w].task, what, at, posting),
           Fits(w, pc, worker[w].task, what, at, posting, engine'), EngineMoves(w),
           at \in {worker[w].task, worker[w].at},
           UNCHANGED <<netVars, channelVars, messagesQueue, selector, pool>>,
           input' \in [Conns -> Seq(Frames)], shouldRun' \in BOOLEAN,
           session' \in [Conns -> BOOLEAN], authorized' \in [Conns -> BOOLEAN], shouldClose' \in [Conns -> BOOLEAN],
           \A c \in Conns : session'[c] => session[c] \/ c = worker[w].task,
           \A c \in Conns : authorized'[c] => authorized[c] \/ c = worker[w].task,
           \A c \in Conns : shouldClose[c] => shouldClose'[c],
           \A c \in Conns : shouldClose'[c] => shouldClose[c] \/ (pc \in {"encode", "add"} /\ at = c /\ c = worker[w].task),
           pc \in {"encode", "add"} /\ what = "RECEIPT" => shouldClose'[at] /\ ~authorized'[at]
    PROVE  ControlInv'
<1>0. TypeOK /\ ThreadInv /\ RunInv /\ SelectorInv /\ AcceptedInv /\ ReceiptInv /\ OutputHasInterest /\ ClosingHasOutput
  BY DEF ControlInv
<1>1. UNCHANGED <<wire, hangsUp, key, interest, outData, messagesQueue, selector, pool>>
  BY DEF netVars, channelVars
<1>2. TypeOK'
  <2>1. engine' \in Workers \cup {None}
    BY <1>0 DEF TypeOK, EngineMoves
  <2> QED BY <1>0, <1>1, <2>1 DEF Moves, TypeOK, Thread
<1>3. Runs(w, worker[w].task)
  BY DEF Runs
<1>4. ThreadInv' /\ RunInv'
  BY <1>0, <1>3, ThreadKeeps, RunKeeps
<1>5. SelectorInv' /\ OutputHasInterest'
  BY <1>0, <1>1 DEF SelectorInv, OutputHasInterest
<1>6. AcceptedInv'
  <2> SUFFICES ASSUME NEW c \in Conns, key[c] = "none"
               PROVE  /\ outData'[c] = <<>> /\ ~session'[c] /\ ~authorized'[c] /\ ~shouldClose'[c]
                      /\ selector'.key # c
                      /\ \A i \in DOMAIN pool' : pool'[i] # c
                      /\ \A v \in Workers : worker'[v].task # c /\ worker'[v].at # c
    BY <1>1 DEF AcceptedInv
  <2>1. /\ outData[c] = <<>> /\ ~session[c] /\ ~authorized[c] /\ ~shouldClose[c]
        /\ selector.key # c
        /\ \A i \in DOMAIN pool : pool[i] # c
        /\ \A v \in Workers : worker[v].task # c /\ worker[v].at # c
    BY <1>0 DEF AcceptedInv
  <2>2. worker[w].task # c /\ at # c
    BY <2>1
  <2>3. ~session'[c] /\ ~authorized'[c] /\ ~shouldClose'[c]
    BY <2>1, <2>2
  <2>4. \A v \in Workers : worker'[v].task # c /\ worker'[v].at # c
    BY <2>1, <2>2 DEF Moves
  <2> QED BY <1>1, <2>1, <2>3, <2>4
<1>7. ReceiptInv'
  <2>1. \A c \in Conns : \A i \in DOMAIN outData'[c] : outData'[c][i] = "RECEIPT" =>
          shouldClose'[c] \/ \E j \in DOMAIN outData[c] : outData[c][j] = "RECEIPT"
    BY <1>1
  <2>2. \A c \in Conns : authorized'[c] => authorized[c] \/ Runs(w, c)
    BY <1>3
  <2> QED BY <1>0, <2>1, <2>2, ReceiptKeeps
<1>8. ClosingHasOutput'
  <2>1. \A c \in Conns : key'[c] = "valid" /\ shouldClose'[c] /\ outData'[c] = <<>> =>
             \/ pc \in {"encode", "add"} /\ at = c
             \/ /\ key[c] = "valid" /\ shouldClose[c] /\ outData[c] = <<>>
                /\ worker[w].at = c /\ worker[w].pc \in {"encode", "add"} =>
                     \E v \in Workers : v # w /\ worker[v].at = c /\ worker[v].pc \in {"encode", "add"}
    BY <1>1
  <2> QED BY <1>0, <2>1, ClosingKeeps
<1> QED BY <1>2, <1>4, <1>5, <1>6, <1>7, <1>8 DEF ControlInv

\* A thread answers its own client.
LEMMA AnswerKeeps ==
    ASSUME ControlInv, NEW w \in Workers, worker[w].pc \in {"loop", "authorize", "logout"},
           NEW f \in Answers, Answer(w, f),
           UNCHANGED <<netVars, channelVars, messagesQueue, selector, pool, engine, shouldRun>>,
           input' \in [Conns -> Seq(Frames)],
           session' \in [Conns -> BOOLEAN], authorized' \in [Conns -> BOOLEAN], shouldClose' \in [Conns -> BOOLEAN],
           \A c \in Conns : session'[c] => session[c] \/ c = worker[w].task,
           \A c \in Conns : authorized'[c] => authorized[c] \/ c = worker[w].task,
           \A c \in Conns : shouldClose[c] => shouldClose'[c],
           \A c \in Conns : shouldClose'[c] => shouldClose[c] \/ c = worker[w].task,
           f = "RECEIPT" => shouldClose'[worker[w].task] /\ ~authorized'[worker[w].task]
    PROVE  ControlInv'
<1>0. TypeOK /\ ThreadInv
  BY DEF ControlInv
<1>1. /\ worker[w].task \in Conns /\ ~worker[w].posting
      /\ worker[w].pc \notin {"idle", "lock", "encode", "add"}
  BY <1>0 DEF ThreadInv, Fits, Dest
<1>2. PICK pc \in WorkerPlaces, at \in Conns : pc = "encode" /\ at = worker[w].task
  BY <1>1 DEF WorkerPlaces
<1>3. Moves(w, pc, worker[w].task, f, at, worker[w].posting)
  BY <1>0, <1>2, AnswerMoves
<1>4. Fits(w, pc, worker[w].task, f, at, worker[w].posting, engine')
  BY <1>1, <1>2 DEF Fits, Dest
<1>5. /\ EngineMoves(w) /\ shouldRun' \in BOOLEAN /\ at \in {worker[w].task, worker[w].at}
      /\ UNCHANGED <<netVars, channelVars, messagesQueue, selector, pool>>
  BY <1>0, <1>2 DEF EngineMoves, TypeOK
<1>6. /\ \A c \in Conns : shouldClose'[c] =>
           shouldClose[c] \/ (pc \in {"encode", "add"} /\ at = c /\ c = worker[w].task)
      /\ pc \in {"encode", "add"} /\ f = "RECEIPT" => shouldClose'[at] /\ ~authorized'[at]
  BY <1>2
<1> QED BY <1>1, <1>3, <1>4, <1>5, <1>6, ProtocolKeeps

\* A thread goes on with its task, and closes nothing.
LEMMA GoesOnKeeps ==
    ASSUME ControlInv, NEW w \in Workers, worker[w].pc \notin {"idle", "lock", "encode", "add"}, ~worker[w].posting,
           NEW pc \in {"authorize", "logout", "enter", "loop", "await"}, NEW what, NEW posting, posting = worker[w].posting,
           Moves(w, pc, worker[w].task, what, worker[w].at, posting), EngineMoves(w), pc = "await" => engine' = w,
           UNCHANGED <<netVars, channelVars, messagesQueue, authorized, shouldClose, selector, pool>>,
           input' \in [Conns -> Seq(Frames)], session' \in [Conns -> BOOLEAN], shouldRun' \in BOOLEAN,
           \A c \in Conns : session'[c] => session[c] \/ c = worker[w].task
    PROVE  ControlInv'
<1>0. TypeOK /\ ThreadInv
  BY DEF ControlInv
<1>1. worker[w].task \in Conns
  BY <1>0 DEF ThreadInv, Fits
<1>2. Fits(w, pc, worker[w].task, what, worker[w].at, posting, engine')
  BY <1>1 DEF Fits, Dest
<1>3. /\ authorized' \in [Conns -> BOOLEAN] /\ shouldClose' \in [Conns -> BOOLEAN]
      /\ UNCHANGED <<netVars, channelVars, messagesQueue, selector, pool>>
      /\ worker[w].at \in {worker[w].task, worker[w].at}
  BY <1>0 DEF TypeOK
<1>4. /\ \A c \in Conns : authorized'[c] => authorized[c] \/ c = worker[w].task
      /\ \A c \in Conns : shouldClose[c] => shouldClose'[c]
      /\ \A c \in Conns : shouldClose'[c] =>
           shouldClose[c] \/ (pc \in {"encode", "add"} /\ worker[w].at = c /\ c = worker[w].task)
      /\ pc \in {"encode", "add"} /\ what = "RECEIPT" => shouldClose'[worker[w].at] /\ ~authorized'[worker[w].at]
  OBVIOUS
<1> QED BY <1>2, <1>3, <1>4, ProtocolKeeps

\* A frame is processed, up to its first access to what threads share.
LEMMA ProcessKeeps ==
    ASSUME ControlInv, NEW w \in Workers, NEW f \in Frames, worker[w].pc = "loop", Process(w, worker[w].task, f),
           UNCHANGED <<netVars, channelVars, messagesQueue, authorized, selector, pool, engine, shouldRun>>,
           input' \in [Conns -> Seq(Frames)]
    PROVE  ControlInv'
<1>0. TypeOK /\ ThreadInv
  BY DEF ControlInv
<1>1. /\ worker[w].task \in Conns /\ ~worker[w].posting
      /\ UNCHANGED <<netVars, channelVars, messagesQueue, selector, pool>> /\ EngineMoves(w)
  BY <1>0 DEF ThreadInv, Fits, Dest, EngineMoves
<1>2. /\ shouldRun' \in BOOLEAN /\ authorized' \in [Conns -> BOOLEAN]
      /\ session \in [Conns -> BOOLEAN] /\ shouldClose \in [Conns -> BOOLEAN]
  BY <1>0 DEF TypeOK
<1>3. CASE Answer(w, "ERROR") /\ UNCHANGED <<session, shouldClose>>
  BY <1>2, <1>3, AnswerKeeps DEF Answers
<1>4. CASE session' = [session EXCEPT ![worker[w].task] = TRUE] /\ Goto(w, "authorize") /\ UNCHANGED shouldClose
  <2>1. Moves(w, "authorize", worker[w].task, worker[w].what, worker[w].at, worker[w].posting)
    BY <1>0, <1>4, GotoMoves DEF WorkerPlaces
  <2>2. /\ session' \in [Conns -> BOOLEAN]
        /\ \A c \in Conns : session'[c] => session[c] \/ c = worker[w].task
    BY <1>2, <1>4
  <2> QED BY <1>1, <1>2, <1>4, <2>1, <2>2, GoesOnKeeps
<1>5. CASE Goto(w, "logout") /\ UNCHANGED <<session, shouldClose>>
  <2>1. Moves(w, "logout", worker[w].task, worker[w].what, worker[w].at, worker[w].posting)
    BY <1>0, <1>5, GotoMoves DEF WorkerPlaces
  <2> QED BY <1>1, <1>2, <1>5, <2>1, GoesOnKeeps
<1>6. CASE /\ ~authorized[worker[w].task] /\ shouldClose' = [shouldClose EXCEPT ![worker[w].task] = TRUE]
           /\ Answer(w, "RECEIPT") /\ UNCHANGED session
  <2>1. /\ shouldClose' \in [Conns -> BOOLEAN]
        /\ \A c \in Conns : shouldClose[c] => shouldClose'[c]
        /\ \A c \in Conns : shouldClose'[c] => shouldClose[c] \/ c = worker[w].task
        /\ shouldClose'[worker[w].task] /\ ~authorized'[worker[w].task]
    BY <1>1, <1>2, <1>6
  <2>2. "RECEIPT" \in Answers
    BY DEF Answers
  <2> QED BY <1>2, <1>6, <2>1, <2>2, AnswerKeeps
<1>7. CASE worker' = [worker EXCEPT ![w].pc = "enter", ![w].what = f] /\ UNCHANGED <<session, shouldClose>>
  <2>1. Moves(w, "enter", worker[w].task, f, worker[w].at, worker[w].posting)
    BY <1>0, <1>7, FrameMoves DEF WorkerPlaces
  <2> QED BY <1>1, <1>2, <1>7, <2>1, GoesOnKeeps
<1> QED BY <1>3, <1>4, <1>5, <1>6, <1>7 DEF Process

LEMMA NextMessageKeeps == ASSUME ControlInv, NEW w \in Workers, NextMessage(w) PROVE ControlInv'
<1> DEFINE c == worker[w].task
<1>0. TypeOK /\ ThreadInv
  BY DEF ControlInv
<1>1. worker[w].pc = "loop" /\ c \in Conns /\ ~worker[w].posting
  BY <1>0 DEF NextMessage, At, ThreadInv, Fits, Dest
<1>2. UNCHANGED <<netVars, channelVars, messagesQueue, authorized, selector, pool, engine, shouldRun>>
  BY DEF NextMessage
<1>3. CASE worker' = [worker EXCEPT ![w] = Idle] /\ UNCHANGED <<input, session, shouldClose>>
  <2>1. Throw(w)
    BY <1>1, <1>2, <1>3 DEF Throw
  <2>2. UNCHANGED <<netVars, channelVars, messagesQueue, input, protocolVars, selector, pool, shouldRun>>
    BY <1>2, <1>3 DEF protocolVars
  <2> QED BY <1>1, <2>1, <2>2, ThrowKeeps
<1>4. CASE input[c] # <<>> /\ Process(w, c, Head(input[c])) /\ input' = [input EXCEPT ![c] = Tail(@)]
  <2>1. input \in [Conns -> Seq(Frames)] /\ input[c] \in Seq(Frames)
    BY <1>0, <1>1 DEF TypeOK
  <2>2. Head(input[c]) \in Frames /\ Tail(input[c]) \in Seq(Frames)
    BY <1>4, <2>1
  <2>3. input' \in [Conns -> Seq(Frames)]
    BY <1>4, <2>1, <2>2
  <2> QED BY <1>1, <1>2, <1>4, <2>2, <2>3, ProcessKeeps
<1> QED BY <1>3, <1>4 DEF NextMessage, Here

\* connect sets currentUser.
LEMMA AuthorizeKeeps == ASSUME ControlInv, NEW w \in Workers, Authorize(w) PROVE ControlInv'
<1>0. TypeOK /\ ThreadInv
  BY DEF ControlInv
<1>1. worker[w].pc = "authorize" /\ worker[w].task \in Conns
  BY <1>0 DEF Authorize, At, ThreadInv, Fits
<1>2. /\ authorized' = [authorized EXCEPT ![worker[w].task] = TRUE] /\ Answer(w, "CONNECTED")
      /\ UNCHANGED <<netVars, channelVars, messagesQueue, input, session, shouldClose, selector, pool, engine, shouldRun>>
  BY DEF Authorize, Here
<1>3. /\ authorized' \in [Conns -> BOOLEAN] /\ session' \in [Conns -> BOOLEAN]
      /\ shouldClose' \in [Conns -> BOOLEAN] /\ input' \in [Conns -> Seq(Frames)]
      /\ \A c \in Conns : authorized'[c] => authorized[c] \/ c = worker[w].task
  BY <1>0, <1>1, <1>2 DEF TypeOK
<1>4. "CONNECTED" \in Answers
  BY DEF Answers
<1> QED BY <1>1, <1>2, <1>3, <1>4, AnswerKeeps

LEMMA LogoutKeeps == ASSUME ControlInv, NEW w \in Workers, Logout(w) PROVE ControlInv'
<1>0. TypeOK /\ ThreadInv
  BY DEF ControlInv
<1>1. worker[w].pc = "logout" /\ worker[w].task \in Conns
  BY <1>0 DEF Logout, At, ThreadInv, Fits
<1>2. UNCHANGED <<netVars, channelVars, messagesQueue, input, selector, pool, shouldRun>>
  BY DEF Logout
<1>3. CASE authorized[worker[w].task]
  <2>1. /\ session' = [session EXCEPT ![worker[w].task] = FALSE]
        /\ authorized' = [authorized EXCEPT ![worker[w].task] = FALSE]
        /\ shouldClose' = [shouldClose EXCEPT ![worker[w].task] = TRUE]
        /\ Answer(w, "RECEIPT") /\ UNCHANGED engine
    BY <1>3 DEF Logout, Here
  <2>2. /\ session' \in [Conns -> BOOLEAN] /\ authorized' \in [Conns -> BOOLEAN]
        /\ shouldClose' \in [Conns -> BOOLEAN] /\ input' \in [Conns -> Seq(Frames)]
    BY <1>0, <1>2, <2>1 DEF TypeOK
  <2>3. /\ \A c \in Conns : session'[c] => session[c]
        /\ \A c \in Conns : authorized'[c] => authorized[c]
        /\ \A c \in Conns : shouldClose[c] => shouldClose'[c]
        /\ \A c \in Conns : shouldClose'[c] => shouldClose[c] \/ c = worker[w].task
        /\ shouldClose'[worker[w].task] /\ ~authorized'[worker[w].task]
    BY <1>0, <1>1, <2>1 DEF TypeOK
  <2>4. "RECEIPT" \in Answers
    BY DEF Answers
  <2> QED BY <1>1, <1>2, <2>1, <2>2, <2>3, <2>4, AnswerKeeps
<1>4. CASE ~authorized[worker[w].task]
  BY <1>1, <1>2, <1>4, ThrowKeeps DEF Logout, Here
<1> QED BY <1>3, <1>4

LEMMA EnterStopKeeps == ASSUME ControlInv, NEW w \in Workers, EnterStop(w) PROVE ControlInv'
<1>0. TypeOK /\ ThreadInv
  BY DEF ControlInv
<1>1. worker[w].pc = "enter" /\ ~worker[w].posting
  BY <1>0 DEF EnterStop, At, ThreadInv, Fits, Dest
<1>. PICK pc \in {"await", "loop"} : pc = IF shouldRun THEN "await" ELSE "loop"
  OBVIOUS
<1>2. Moves(w, pc, worker[w].task, None, worker[w].at, worker[w].posting)
  BY <1>0, FrameMoves DEF EnterStop, WorkerPlaces
<1>3. EngineMoves(w) /\ (pc = "await" => engine' = w)
  BY DEF EnterStop, EngineMoves
<1>4. /\ UNCHANGED <<netVars, channelVars, messagesQueue, authorized, shouldClose, selector, pool>>
      /\ input' \in [Conns -> Seq(Frames)] /\ session' \in [Conns -> BOOLEAN] /\ shouldRun' \in BOOLEAN
      /\ \A c \in Conns : session'[c] => session[c] \/ c = worker[w].task
  BY <1>0 DEF EnterStop, TypeOK
<1> QED BY <1>1, <1>2, <1>3, <1>4, GoesOnKeeps

-----------------------------------------------------------------------------
(* The steps of a pool thread that write                                   *)

\* What becomes of output: it stays, is added to or is written, the selector is
\* asked to write what there is, and a connection that should close is closed
\* with the last of it.
OutputMoves ==
    /\ key' \in [Conns -> {"none", "valid", "cancelled"}]
    /\ interest' \in [Conns -> SUBSET {"R", "W"}]
    /\ outData' \in [Conns -> Seq(Answers)]
    /\ \A c \in Conns : (key'[c] = "none" <=> key[c] = "none") /\ (key[c] = "cancelled" => key'[c] = "cancelled")
    /\ \A c \in Conns : key[c] = "none" => outData'[c] = outData[c]
    /\ \A c \in Conns : key'[c] = "valid" /\ outData'[c] # <<>> => "W" \in interest'[c]
    /\ \A c \in Conns : key'[c] = "valid" /\ shouldClose[c] /\ outData'[c] = <<>> => key[c] = "valid" /\ outData[c] = <<>>

LEMMA WriteMoves ==
    ASSUME ControlInv, NEW c \in Conns, NEW whole \in BOOLEAN, Write(c, whole) \/ WriteInVain(c)
    PROVE  /\ OutputMoves
           /\ \A d \in Conns : \A i \in DOMAIN outData'[d] : \E j \in DOMAIN outData[d] : outData'[d][i] = outData[d][j]
<1>0. TypeOK /\ OutputHasInterest
  BY DEF ControlInv
<1>1. /\ key \in [Conns -> {"none", "valid", "cancelled"}] /\ interest \in [Conns -> SUBSET {"R", "W"}]
      /\ outData \in [Conns -> Seq(Answers)]
  BY <1>0 DEF TypeOK
<1>2. CASE WriteInVain(c)
  BY <1>0, <1>1, <1>2 DEF WriteInVain, channelVars, OutputMoves, OutputHasInterest
<1>3. CASE Write(c, whole) /\ outData[c] = <<>>
  <2>1. interest' = [interest EXCEPT ![c] = {"R"}] /\ UNCHANGED <<outData, key>>
    BY <1>3 DEF Write
  <2> QED BY <1>0, <1>1, <1>3, <2>1 DEF OutputMoves, OutputHasInterest
<1>4. CASE Write(c, whole) /\ outData[c] # <<>>
  <2>1. /\ key[c] = "valid"
        /\ outData' = IF whole THEN [outData EXCEPT ![c] = Tail(@)] ELSE outData
        /\ interest' = IF shouldClose[c] THEN [interest EXCEPT ![c] = {"W"}] ELSE interest
        /\ key' = IF shouldClose[c] /\ whole THEN [key EXCEPT ![c] = "cancelled"] ELSE key
    BY <1>4 DEF Write
  <2>2. /\ outData[c] \in Seq(Answers) /\ Tail(outData[c]) \in Seq(Answers)
        /\ \A i \in DOMAIN Tail(outData[c]) : \E j \in DOMAIN outData[c] : Tail(outData[c])[i] = outData[c][j]
    <3>1. outData[c] \in Seq(Answers) /\ Len(outData[c]) \in Nat /\ Len(outData[c]) > 0
      BY <1>1, <1>4
    <3>2. /\ Tail(outData[c]) \in Seq(Answers) /\ DOMAIN Tail(outData[c]) = 1..(Len(outData[c]) - 1)
          /\ \A i \in 1..(Len(outData[c]) - 1) : Tail(outData[c])[i] = outData[c][i + 1]
      BY <3>1
    <3>3. DOMAIN outData[c] = 1..Len(outData[c]) /\ \A i \in 1..(Len(outData[c]) - 1) : i + 1 \in 1..Len(outData[c])
      BY <3>1
    <3> QED BY <3>1, <3>2, <3>3
  <2>3. /\ outData' \in [Conns -> Seq(Answers)]
        /\ \A d \in Conns : d # c => outData'[d] = outData[d]
        /\ outData'[c] = outData[c] \/ (whole /\ outData'[c] = Tail(outData[c]))
    BY <1>1, <2>1, <2>2
  <2>4. /\ key' \in [Conns -> {"none", "valid", "cancelled"}]
        /\ \A d \in Conns : d # c => key'[d] = key[d]
        /\ key'[c] = IF shouldClose[c] /\ whole THEN "cancelled" ELSE "valid"
    BY <1>1, <2>1
  <2>5. /\ interest' \in [Conns -> SUBSET {"R", "W"}]
        /\ \A d \in Conns : d # c => interest'[d] = interest[d]
        /\ "W" \in interest'[c]
    BY <1>0, <1>1, <1>4, <2>1 DEF OutputHasInterest
  <2>6. \A d \in Conns : \A i \in DOMAIN outData'[d] : \E j \in DOMAIN outData[d] : outData'[d][i] = outData[d][j]
    <3>. SUFFICES ASSUME NEW d \in Conns, NEW i \in DOMAIN outData'[d]
                  PROVE  \E j \in DOMAIN outData[d] : outData'[d][i] = outData[d][j]
      OBVIOUS
    <3>1. CASE outData'[d] = outData[d]
      BY <3>1
    <3>2. CASE d = c /\ outData'[c] = Tail(outData[c])
      BY <2>2, <3>2
    <3> QED BY <2>3, <3>1, <3>2
  <2>7. \A d \in Conns : key'[d] = "valid" /\ outData'[d] # <<>> => "W" \in interest'[d]
    BY <1>0, <2>3, <2>4, <2>5 DEF OutputHasInterest
  <2>8. \A d \in Conns : key'[d] = "valid" /\ shouldClose[d] /\ outData'[d] = <<>> => key[d] = "valid" /\ outData[d] = <<>>
    BY <1>4, <2>1, <2>3, <2>4
  <2> QED BY <2>1, <2>3, <2>4, <2>5, <2>6, <2>7, <2>8 DEF OutputMoves
<1> QED BY <1>2, <1>3, <1>4

\* addOutData.
LEMMA AddMoves ==
    ASSUME ControlInv, NEW c \in Conns, NEW f \in Answers, key[c] # "none", AddOutData(c, f)
    PROVE  /\ OutputMoves
           /\ outData'[c] # <<>>
           /\ \A d \in Conns : \A i \in DOMAIN outData'[d] :
                outData'[d][i] = "RECEIPT" =>
                  (d = c /\ f = "RECEIPT") \/ \E j \in DOMAIN outData[d] : outData[d][j] = "RECEIPT"
<1>0. TypeOK /\ OutputHasInterest
  BY DEF ControlInv
<1>1. /\ key \in [Conns -> {"none", "valid", "cancelled"}] /\ interest \in [Conns -> SUBSET {"R", "W"}]
      /\ outData \in [Conns -> Seq(Answers)]
  BY <1>0 DEF TypeOK
<1>2. /\ outData' = [outData EXCEPT ![c] = Append(@, f)] /\ UNCHANGED key
      /\ interest' = IF key[c] = "valid" THEN [interest EXCEPT ![c] = {"R", "W"}] ELSE interest
  BY DEF AddOutData
<1>3. /\ outData[c] \in Seq(Answers) /\ Append(outData[c], f) \in Seq(Answers) /\ Append(outData[c], f) # <<>>
      /\ \A i \in DOMAIN Append(outData[c], f) :
            Append(outData[c], f)[i] = f \/ (i \in DOMAIN outData[c] /\ Append(outData[c], f)[i] = outData[c][i])
  <2>1. outData[c] \in Seq(Answers) /\ Len(outData[c]) \in Nat
    BY <1>1
  <2>2. /\ Append(outData[c], f) \in Seq(Answers) /\ DOMAIN Append(outData[c], f) = 1..(Len(outData[c]) + 1)
        /\ \A i \in 1..Len(outData[c]) : Append(outData[c], f)[i] = outData[c][i]
        /\ Append(outData[c], f)[Len(outData[c]) + 1] = f
        /\ Len(Append(outData[c], f)) = Len(outData[c]) + 1
    BY <2>1
  <2>3. DOMAIN outData[c] = 1..Len(outData[c]) /\ \A i \in 1..(Len(outData[c]) + 1) : i \in 1..Len(outData[c]) \/ i = Len(outData[c]) + 1
    BY <2>1
  <2>4. Append(outData[c], f) # <<>>
    BY <2>1
  <2> QED BY <2>1, <2>2, <2>3, <2>4
<1>4. /\ outData' \in [Conns -> Seq(Answers)]
      /\ \A d \in Conns : d # c => outData'[d] = outData[d]
      /\ outData'[c] = Append(outData[c], f)
  BY <1>1, <1>2, <1>3
<1>5. interest' \in [Conns -> SUBSET {"R", "W"}] /\ (\A d \in Conns : d # c => interest'[d] = interest[d])
      /\ (key[c] = "valid" => "W" \in interest'[c])
  BY <1>1, <1>2
<1>6. \A d \in Conns : key'[d] = "valid" /\ outData'[d] # <<>> => "W" \in interest'[d]
  BY <1>0, <1>2, <1>4, <1>5 DEF OutputHasInterest
<1>7. OutputMoves
  BY <1>1, <1>2, <1>3, <1>4, <1>5, <1>6 DEF OutputMoves
<1>8. \A d \in Conns : \A i \in DOMAIN outData'[d] : outData'[d][i] = "RECEIPT" =>
         (d = c /\ f = "RECEIPT") \/ \E j \in DOMAIN outData[d] : outData[d][j] = "RECEIPT"
  BY <1>3, <1>4
<1> QED BY <1>3, <1>4, <1>7, <1>8

\* A thread leaves the encoder with output that will be written.
LEMMA OutputKeeps ==
    ASSUME ControlInv, NEW w \in Workers,
           NEW pc, NEW task, NEW what, NEW at, NEW posting, Moves(w, pc, task, what, at, posting),
           Fits(w, pc, task, what, at, posting, engine'), EngineMoves(w),
           pc \notin {"idle", "lock"} => Runs(w, task),
           \A c \in Conns : key[c] = "none" => task # c /\ at # c,
           OutputMoves,
           UNCHANGED <<netVars, messagesQueue, input, protocolVars, selector, pool, shouldRun>>,
           \A c \in Conns : \A i \in DOMAIN outData'[c] : outData'[c][i] = "RECEIPT" =>
             shouldClose[c] \/ \E j \in DOMAIN outData[c] : outData[c][j] = "RECEIPT",
           what # "RECEIPT" \/ pc \notin {"encode", "add"},
           worker[w].pc \in {"encode", "add"} => outData'[worker[w].at] # <<>>
    PROVE  ControlInv'
<1>0. TypeOK /\ ThreadInv /\ RunInv /\ SelectorInv /\ AcceptedInv /\ ReceiptInv /\ OutputHasInterest /\ ClosingHasOutput
  BY DEF ControlInv
<1>1. UNCHANGED <<wire, hangsUp, messagesQueue, input, session, authorized, shouldClose, selector, pool, shouldRun>>
  BY DEF netVars, protocolVars
<1>2. TypeOK'
  <2>1. engine' \in Workers \cup {None}
    BY <1>0 DEF TypeOK, EngineMoves
  <2>2. worker' \in [Workers -> Thread]
    BY DEF Moves
  <2> QED BY <1>0, <1>1, <2>1, <2>2 DEF OutputMoves, TypeOK, Thread
<1>3. ThreadInv' /\ RunInv'
  BY <1>0, ThreadKeeps, RunKeeps
<1>4. SelectorInv' /\ OutputHasInterest'
  BY <1>0, <1>1 DEF SelectorInv, OutputMoves, OutputHasInterest
<1>5. AcceptedInv'
  <2>1. \A c \in Conns : key'[c] = "none" => key[c] = "none"
    BY DEF OutputMoves
  <2>2. \A c \in Conns : key[c] = "none" =>
             /\ task # c /\ at # c
             /\ outData'[c] = outData[c] /\ authorized'[c] = authorized[c]
             /\ session'[c] => session[c]
             /\ shouldClose'[c] = shouldClose[c]
    BY <1>1 DEF OutputMoves
  <2>3. UNCHANGED selector /\ \A i \in DOMAIN pool' : \E j \in DOMAIN pool : pool'[i] = pool[j]
    BY <1>1
  <2> QED BY <1>0, <2>1, <2>2, <2>3, AcceptedKeeps
<1>6. ReceiptInv'
  <2>1. /\ \A c \in Conns : shouldClose[c] => shouldClose'[c]
        /\ \A c \in Conns : authorized'[c] => authorized[c] \/ Runs(w, c)
        /\ pc \in {"encode", "add"} /\ what = "RECEIPT" => shouldClose'[at] /\ ~authorized'[at]
    BY <1>1
  <2>2. \A c \in Conns : \A i \in DOMAIN outData'[c] : outData'[c][i] = "RECEIPT" =>
          shouldClose'[c] \/ \E j \in DOMAIN outData[c] : outData[c][j] = "RECEIPT"
    BY <1>1
  <2> QED BY <1>0, <2>1, <2>2, ReceiptKeeps
<1>7. ClosingHasOutput'
  <2>1. \A c \in Conns : key'[c] = "valid" /\ shouldClose'[c] /\ outData'[c] = <<>> =>
             \/ pc \in {"encode", "add"} /\ at = c
             \/ /\ key[c] = "valid" /\ shouldClose[c] /\ outData[c] = <<>>
                /\ worker[w].at = c /\ worker[w].pc \in {"encode", "add"} =>
                     \E v \in Workers : v # w /\ worker[v].at = c /\ worker[v].pc \in {"encode", "add"}
    BY <1>1 DEF OutputMoves
  <2> QED BY <1>0, <2>1, ClosingKeeps
<1> QED BY <1>2, <1>3, <1>4, <1>5, <1>6, <1>7 DEF ControlInv

LEMMA AddKeeps == ASSUME ControlInv, NEW w \in Workers, Add(w) PROVE ControlInv'
<1>0. TypeOK /\ ThreadInv
  BY DEF ControlInv
<1>1. /\ worker[w].pc = "add" /\ worker[w].at \in Conns /\ worker[w].task \in Conns /\ worker[w].what \in Answers
      /\ worker[w].posting \/ worker[w].at = worker[w].task
      /\ worker[w].posting => worker[w].what = "MESSAGE"
      /\ AddOutData(worker[w].at, worker[w].what)
      /\ UNCHANGED <<netVars, messagesQueue, input, protocolVars, selector, pool, shouldRun>>
  BY <1>0 DEF Add, At, ThreadInv, Fits, Dest
<1>2. \A c \in Conns : key[c] = "none" => worker[w].task # c /\ worker[w].at # c
  BY DEF ControlInv, AcceptedInv
<1>3. /\ OutputMoves
      /\ worker[w].pc \in {"encode", "add"} => outData'[worker[w].at] # <<>>
      /\ \A c \in Conns : \A i \in DOMAIN outData'[c] : outData'[c][i] = "RECEIPT" =>
           (c = worker[w].at /\ worker[w].what = "RECEIPT") \/ \E j \in DOMAIN outData[c] : outData[c][j] = "RECEIPT"
  BY <1>1, <1>2, AddMoves
<1>4. worker[w].what = "RECEIPT" => shouldClose[worker[w].at]
  BY <1>1 DEF ControlInv, ReceiptInv
<1>5. \A c \in Conns : \A i \in DOMAIN outData'[c] : outData'[c][i] = "RECEIPT" =>
           shouldClose[c] \/ \E j \in DOMAIN outData[c] : outData[c][j] = "RECEIPT"
  BY <1>3, <1>4
<1>6. Runs(w, worker[w].task)
  BY <1>1 DEF Runs
<1>7. CASE key[worker[w].at] # "cancelled"
  <2>1. \E pc \in {"write", "test", "loop"} :
          /\ pc = "write" \/ ~worker[w].posting
          /\ Moves(w, pc, worker[w].task, worker[w].what, worker[w].at, worker[w].posting)
    <3>1. CASE worker[w].what = "MESSAGE"
      <4>1. Moves(w, "write", worker[w].task, worker[w].what, worker[w].at, worker[w].posting)
        BY <1>0, <1>7, <3>1, GotoMoves DEF Add, WorkerPlaces
      <4> QED BY <4>1
    <3>2. CASE worker[w].what = "CONNECTED"
      <4>1. Moves(w, "test", worker[w].task, worker[w].what, worker[w].at, worker[w].posting)
        BY <1>0, <1>7, <3>2, GotoMoves DEF Add, WorkerPlaces
      <4> QED BY <1>1, <3>2, <4>1
    <3>3. CASE worker[w].what \notin {"MESSAGE", "CONNECTED"}
      <4>1. Moves(w, "loop", worker[w].task, worker[w].what, worker[w].at, worker[w].posting)
        BY <1>0, <1>7, <3>3, GotoMoves DEF Add, WorkerPlaces
      <4> QED BY <1>1, <3>3, <4>1
    <3> QED BY <3>1, <3>2, <3>3
  <2>2. PICK pc \in {"write", "test", "loop"} :
          /\ pc = "write" \/ ~worker[w].posting
          /\ Moves(w, pc, worker[w].task, worker[w].what, worker[w].at, worker[w].posting)
    BY <2>1
  <2>3. engine' = engine
    BY <1>7 DEF Add
  <2>4. Fits(w, pc, worker[w].task, worker[w].what, worker[w].at, worker[w].posting, engine')
    BY <1>0, <1>1, <2>2, <2>3 DEF ThreadInv, Fits, Dest
  <2>5. EngineMoves(w) /\ pc \notin {"encode", "add"} /\ (pc \notin {"idle", "lock"} => Runs(w, worker[w].task))
    BY <1>6, <2>3 DEF EngineMoves
  <2> QED BY <1>1, <1>2, <1>3, <1>5, <2>2, <2>4, <2>5, OutputKeeps
<1>8. CASE key[worker[w].at] = "cancelled"
  <2>. PICK no \in BOOLEAN : no = FALSE
    OBVIOUS
  <2>1. Throw(w)
    BY <1>8 DEF Add
  <2>2. None \notin Conns
    BY ReactorAssumption
  <2>3. CASE worker[w].posting
    <3>1. Moves(w, "encode", worker[w].task, "ERROR", worker[w].task, no)
      BY <1>0, <2>1, <2>3, ThrowMoves
    <3>2. engine = w /\ engine' = None
      BY <1>0, <2>1, <2>3 DEF ThreadInv, Fits, Throw
    <3>3. Fits(w, "encode", worker[w].task, "ERROR", worker[w].task, no, engine') /\ EngineMoves(w)
      BY <1>1, <3>2 DEF Fits, Dest, Answers, EngineMoves
    <3>4. /\ "ERROR" # "RECEIPT" \/ "encode" \notin {"encode", "add"}
          /\ "encode" \notin {"idle", "lock"} => Runs(w, worker[w].task)
          /\ \A c \in Conns : key[c] = "none" => worker[w].task # c /\ worker[w].task # c
      BY <1>2, <1>6
    <3> QED BY <1>1, <1>3, <1>5, <3>1, <3>3, <3>4, OutputKeeps
  <2>4. CASE ~worker[w].posting
    <3>1. Moves(w, "idle", None, None, None, no)
      BY <1>0, <2>1, <2>4, ThrowMoves
    <3>2. engine' = engine
      BY <2>1, <2>4 DEF Throw
    <3>3. Fits(w, "idle", None, None, None, no, engine') /\ EngineMoves(w)
      BY <3>2 DEF Fits, Dest, EngineMoves
    <3>4. /\ None # "RECEIPT" \/ "idle" \notin {"encode", "add"}
          /\ "idle" \notin {"idle", "lock"} => Runs(w, None)
          /\ \A c \in Conns : key[c] = "none" => None # c /\ None # c
      BY <2>2
    <3> QED BY <1>1, <1>3, <1>5, <3>1, <3>3, <3>4, OutputKeeps
  <2> QED BY <2>3, <2>4
<1> QED BY <1>7, <1>8

LEMMA WorkerWriteKeeps ==
    ASSUME ControlInv, NEW w \in Workers, NEW whole \in BOOLEAN, WorkerWrite(w, whole)
    PROVE  ControlInv'
<1>0. TypeOK /\ ThreadInv
  BY DEF ControlInv
<1>1. /\ worker[w].pc = "write" /\ worker[w].at \in Conns /\ worker[w].task \in Conns
      /\ UNCHANGED <<netVars, messagesQueue, input, protocolVars, selector, pool, shouldRun>>
  BY <1>0 DEF WorkerWrite, At, ThreadInv, Fits, Dest
<1>2. CASE WriteThrows(worker[w].at) /\ Throw(w) /\ UNCHANGED channelVars
  BY <1>1, <1>2, ThrowKeeps
<1>3. CASE (Write(worker[w].at, whole) \/ WriteInVain(worker[w].at)) /\ Goto(w, "flush") /\ UNCHANGED engine
  <2>1. /\ OutputMoves
        /\ \A c \in Conns : \A i \in DOMAIN outData'[c] : outData'[c][i] = "RECEIPT" =>
             shouldClose[c] \/ \E j \in DOMAIN outData[c] : outData[c][j] = "RECEIPT"
    BY <1>1, <1>3, WriteMoves
  <2>2. Moves(w, "flush", worker[w].task, worker[w].what, worker[w].at, worker[w].posting)
    BY <1>0, <1>3, GotoMoves DEF WorkerPlaces
  <2>3. Fits(w, "flush", worker[w].task, worker[w].what, worker[w].at, worker[w].posting, engine') /\ EngineMoves(w)
    BY <1>0, <1>1, <1>3 DEF ThreadInv, Fits, Dest, EngineMoves
  <2>4. /\ "flush" \notin {"idle", "lock"} => Runs(w, worker[w].task)
        /\ \A c \in Conns : key[c] = "none" => worker[w].task # c /\ worker[w].at # c
        /\ worker[w].what # "RECEIPT" \/ "flush" \notin {"encode", "add"}
        /\ worker[w].pc \in {"encode", "add"} => outData'[worker[w].at] # <<>>
    BY <1>1 DEF Runs, ControlInv, AcceptedInv
  <2> QED BY <1>1, <2>1, <2>2, <2>3, <2>4, OutputKeeps
<1> QED BY <1>2, <1>3 DEF WorkerWrite

-----------------------------------------------------------------------------
(* The steps of the selector thread                                        *)

\* What is left of the output has its RECEIPT for the reason it had before.
LEMMA ReceiptStays ==
    ASSUME \A c \in Conns : \A i \in DOMAIN outData[c] : outData[c][i] = "RECEIPT" => shouldClose[c],
           \A c \in Conns : shouldClose[c] => shouldClose'[c],
           \A c \in Conns : \A i \in DOMAIN outData'[c] : \E j \in DOMAIN outData[c] : outData'[c][i] = outData[c][j]
    PROVE  \A c \in Conns : \A i \in DOMAIN outData'[c] : outData'[c][i] = "RECEIPT" => shouldClose'[c]
OBVIOUS

\* The selector thread changes nothing of the pool's threads, accepts connections
\* and hands on those it has accepted, and takes output away only to close.
LEMMA SelectorKeeps ==
    ASSUME ControlInv, UNCHANGED <<hangsUp, messagesQueue, worker, engine, shouldRun>>,
           wire' \in [Conns -> Seq(Frames)], input' \in [Conns -> Seq(Frames)],
           key' \in [Conns -> {"none", "valid", "cancelled"}], interest' \in [Conns -> SUBSET {"R", "W"}],
           outData' \in [Conns -> Seq(Answers)], session' \in [Conns -> BOOLEAN],
           authorized' \in [Conns -> BOOLEAN], shouldClose' \in [Conns -> BOOLEAN],
           selector' \in [pc : SelectorPlaces, key : Conns \cup {None}], pool' \in Seq(Conns),
           SelectorInv',
           \A c \in Conns : key'[c] = "none" =>
             /\ key[c] = "none" /\ outData'[c] = outData[c]
             /\ ~session'[c] /\ ~authorized'[c] /\ ~shouldClose'[c]
             /\ selector'.key # c
             /\ \A i \in DOMAIN pool' : pool'[i] # c,
           \A c \in Conns : shouldClose[c] => shouldClose'[c],
           \A c \in Conns : authorized'[c] => authorized[c],
           \A c \in Conns : \A i \in DOMAIN outData'[c] : \E j \in DOMAIN outData[c] : outData'[c][i] = outData[c][j],
           \A c \in Conns : key'[c] = "valid" /\ outData'[c] # <<>> => "W" \in interest'[c],
           \A c \in Conns : key'[c] = "valid" /\ shouldClose'[c] /\ outData'[c] = <<>> =>
             key[c] = "valid" /\ shouldClose[c] /\ outData[c] = <<>>
    PROVE  ControlInv'
<1>0. TypeOK /\ ThreadInv /\ RunInv /\ AcceptedInv /\ ReceiptInv /\ ClosingHasOutput
  BY DEF ControlInv
<1>1. TypeOK'
  BY <1>0 DEF TypeOK
<1>2. ThreadInv' /\ RunInv'
  BY <1>0 DEF ThreadInv, RunInv, Runs
<1>3. AcceptedInv'
  <2>1. \A c \in Conns : key[c] = "none" => outData[c] = <<>> /\ \A w \in Workers : worker[w].task # c /\ worker[w].at # c
    BY <1>0 DEF AcceptedInv
  <2> QED BY <2>1 DEF AcceptedInv
<1>4. ReceiptInv'
  <2>1. \A c \in Conns : \A i \in DOMAIN outData'[c] : outData'[c][i] = "RECEIPT" => shouldClose'[c]
    BY <1>0, ReceiptStays DEF ReceiptInv
  <2>2. ASSUME NEW w \in Workers, worker[w].pc \in {"encode", "add"}, worker[w].what = "RECEIPT"
        PROVE  shouldClose'[worker[w].at] /\ ~authorized'[worker[w].at]
    BY <1>0, <2>2 DEF ReceiptInv, ThreadInv, Fits, Dest
  <2> QED BY <2>1, <2>2 DEF ReceiptInv
<1>5. OutputHasInterest' /\ ClosingHasOutput'
  BY <1>0 DEF OutputHasInterest, ClosingHasOutput
<1> QED BY <1>1, <1>2, <1>3, <1>4, <1>5 DEF ControlInv

LEMMA AcceptKeeps == ASSUME ControlInv, NEW c \in Conns, Accept(c) PROVE ControlInv'
<1>0. TypeOK /\ SelectorInv /\ AcceptedInv /\ OutputHasInterest
  BY DEF ControlInv
<1>1. /\ key[c] = "none" /\ selector.pc = "select"
      /\ key' = [key EXCEPT ![c] = "valid"] /\ interest' = [interest EXCEPT ![c] = {"R"}]
      /\ UNCHANGED <<netVars, outData, messagesQueue, input, protocolVars, selector, pool, worker, engine, shouldRun>>
  BY DEF Accept, SelAt
<1>2. UNCHANGED <<wire, hangsUp, outData, messagesQueue, input, session, authorized, shouldClose, selector, pool, worker,
                  engine, shouldRun>>
  BY <1>1 DEF netVars, protocolVars
<1>3. /\ key' \in [Conns -> {"none", "valid", "cancelled"}] /\ interest' \in [Conns -> SUBSET {"R", "W"}]
      /\ \A d \in Conns : d # c => key'[d] = key[d] /\ interest'[d] = interest[d]
      /\ key'[c] = "valid"
  BY <1>0, <1>1 DEF TypeOK
<1>4. /\ wire' \in [Conns -> Seq(Frames)] /\ input' \in [Conns -> Seq(Frames)]
      /\ outData' \in [Conns -> Seq(Answers)] /\ session' \in [Conns -> BOOLEAN]
      /\ authorized' \in [Conns -> BOOLEAN] /\ shouldClose' \in [Conns -> BOOLEAN]
      /\ selector' \in [pc : SelectorPlaces, key : Conns \cup {None}] /\ pool' \in Seq(Conns)
  BY <1>0, <1>2 DEF TypeOK
<1>5. SelectorInv'
  BY <1>1, <1>2 DEF SelectorInv
<1>6. \A d \in Conns : key'[d] = "none" =>
             /\ key[d] = "none" /\ outData'[d] = outData[d]
             /\ ~session'[d] /\ ~authorized'[d] /\ ~shouldClose'[d]
             /\ selector'.key # d
             /\ \A i \in DOMAIN pool' : pool'[i] # d
  BY <1>0, <1>2, <1>3 DEF AcceptedInv
<1>7. outData[c] = <<>> /\ ~shouldClose[c]
  BY <1>0, <1>1 DEF AcceptedInv
<1>8. /\ \A d \in Conns : shouldClose[d] => shouldClose'[d]
      /\ \A d \in Conns : authorized'[d] => authorized[d]
      /\ \A d \in Conns : \A i \in DOMAIN outData'[d] : \E j \in DOMAIN outData[d] : outData'[d][i] = outData[d][j]
      /\ \A d \in Conns : key'[d] = "valid" /\ outData'[d] # <<>> => "W" \in interest'[d]
      /\ \A d \in Conns : key'[d] = "valid" /\ shouldClose'[d] /\ outData'[d] = <<>> =>
             key[d] = "valid" /\ shouldClose[d] /\ outData[d] = <<>>
  BY <1>0, <1>2, <1>3, <1>7 DEF OutputHasInterest
<1> QED BY <1>2, <1>3, <1>4, <1>5, <1>6, <1>8, SelectorKeeps

\* The selector thread with a key that has been accepted, or with none.
LEMMA SelectorAt ==
    ASSUME ControlInv
    PROVE  /\ selector.pc \in SelectorPlaces /\ selector.key \in Conns \cup {None}
           /\ \A c \in Conns : key[c] = "none" => selector.key # c
           /\ selector.pc \in {"read", "eof", "logout", "write"} => selector.key \in Conns
           /\ selector.pc \in {"eof", "logout"} => key[selector.key] = "cancelled"
           /\ \A p : SelGoto(p) => selector' = [pc |-> p, key |-> selector.key]
BY DEF ControlInv, TypeOK, AcceptedInv, SelectorInv, SelGoto

\* It goes to another place or another key.
LEMMA PlaceKeeps ==
    ASSUME ControlInv, NEW p \in SelectorPlaces, NEW k \in Conns \cup {None}, selector' = [pc |-> p, key |-> k],
           UNCHANGED <<netVars, channelVars, messagesQueue, input, protocolVars, pool, worker, engine, shouldRun>>,
           \A c \in Conns : key[c] = "none" => k # c,
           p \in {"read", "eof", "logout", "write"} => k \in Conns,
           p \in {"eof", "logout"} => key[k] = "cancelled"
    PROVE  ControlInv'
<1>0. TypeOK /\ AcceptedInv /\ OutputHasInterest
  BY DEF ControlInv
<1>1. UNCHANGED <<wire, hangsUp, key, interest, outData, messagesQueue, input, session, authorized, shouldClose, pool, worker,
                  engine, shouldRun>>
  BY DEF netVars, channelVars, protocolVars
<1>2. /\ wire' \in [Conns -> Seq(Frames)] /\ input' \in [Conns -> Seq(Frames)]
      /\ key' \in [Conns -> {"none", "valid", "cancelled"}] /\ interest' \in [Conns -> SUBSET {"R", "W"}]
      /\ outData' \in [Conns -> Seq(Answers)] /\ session' \in [Conns -> BOOLEAN]
      /\ authorized' \in [Conns -> BOOLEAN] /\ shouldClose' \in [Conns -> BOOLEAN]
      /\ selector' \in [pc : SelectorPlaces, key : Conns \cup {None}] /\ pool' \in Seq(Conns)
  BY <1>0, <1>1 DEF TypeOK
<1>3. SelectorInv'
  BY <1>1 DEF SelectorInv
<1>4. \A c \in Conns : key'[c] = "none" =>
             /\ key[c] = "none" /\ outData'[c] = outData[c]
             /\ ~session'[c] /\ ~authorized'[c] /\ ~shouldClose'[c]
             /\ selector'.key # c
             /\ \A i \in DOMAIN pool' : pool'[i] # c
  BY <1>0, <1>1 DEF AcceptedInv
<1>5. /\ \A c \in Conns : shouldClose[c] => shouldClose'[c]
      /\ \A c \in Conns : authorized'[c] => authorized[c]
      /\ \A c \in Conns : \A i \in DOMAIN outData'[c] : \E j \in DOMAIN outData[c] : outData'[c][i] = outData[c][j]
      /\ \A c \in Conns : key'[c] = "valid" /\ outData'[c] # <<>> => "W" \in interest'[c]
      /\ \A c \in Conns : key'[c] = "valid" /\ shouldClose'[c] /\ outData'[c] = <<>> =>
             key[c] = "valid" /\ shouldClose[c] /\ outData[c] = <<>>
  BY <1>0, <1>1 DEF OutputHasInterest
<1> QED BY <1>1, <1>2, <1>3, <1>4, <1>5, SelectorKeeps

LEMMA SelectKeeps == ASSUME ControlInv, NEW c \in Conns, NEW op \in {"read", "write"}, Select(c, op) PROVE ControlInv'
<1>1. /\ key[c] = "valid" /\ selector' = [pc |-> op, key |-> c]
      /\ UNCHANGED <<netVars, channelVars, messagesQueue, input, protocolVars, pool, worker, engine, shouldRun>>
  BY DEF Select
<1>2. op \in SelectorPlaces
  BY DEF SelectorPlaces
<1> QED BY <1>1, <1>2, PlaceKeeps

LEMMA ReadNothingKeeps == ASSUME ControlInv, ReadNothing \/ SelectorDies \/ SelectorEnds PROVE ControlInv'
<1>0. UNCHANGED <<netVars, channelVars, messagesQueue, input, protocolVars, pool, worker, engine, shouldRun>>
  BY DEF ReadNothing, SelectorDies, SelectorEnds
<1>1. None \notin Conns /\ {"select", "dead", "ended"} \subseteq SelectorPlaces
  BY ReactorAssumption DEF SelectorPlaces
<1>2. CASE ReadNothing
  BY <1>0, <1>1, <1>2, PlaceKeeps DEF ReadNothing, NextKey
<1>3. CASE SelectorDies
  BY <1>0, <1>1, <1>3, SelectorAt, PlaceKeeps DEF SelectorDies
<1>4. CASE SelectorEnds
  BY <1>0, <1>1, <1>4, SelectorAt, PlaceKeeps DEF SelectorEnds
<1> QED BY <1>2, <1>3, <1>4

\* Frames go from the wire to the tokenizer of a connection that has been accepted.
LEMMA ReadKeeps == ASSUME ControlInv, Read PROVE ControlInv'
<1> DEFINE c == selector.key
<1>0. TypeOK /\ SelectorInv /\ AcceptedInv /\ OutputHasInterest
  BY DEF ControlInv
<1>1. /\ c \in Conns /\ key[c] # "none"
      /\ UNCHANGED <<hangsUp, channelVars, messagesQueue, protocolVars, worker, engine, shouldRun>>
  BY SelectorAt DEF Read, SelAt
<1>2. PICK n \in 1..Len(wire[c]) :
        /\ wire' = [wire EXCEPT ![c] = SubSeq(@, n + 1, Len(@))]
        /\ input' = [input EXCEPT ![c] = @ \o SubSeq(wire[c], 1, n)]
  BY DEF Read
<1>3. wire' \in [Conns -> Seq(Frames)] /\ input' \in [Conns -> Seq(Frames)]
  <2>1. /\ wire \in [Conns -> Seq(Frames)] /\ input \in [Conns -> Seq(Frames)]
        /\ wire[c] \in Seq(Frames) /\ input[c] \in Seq(Frames) /\ Len(wire[c]) \in Nat
    BY <1>0, <1>1 DEF TypeOK
  <2>2. SubSeq(wire[c], n + 1, Len(wire[c])) \in Seq(Frames) /\ SubSeq(wire[c], 1, n) \in Seq(Frames)
    BY <2>1
  <2>3. input[c] \o SubSeq(wire[c], 1, n) \in Seq(Frames)
    BY <2>1, <2>2
  <2> HIDE DEF c
  <2> QED BY <1>2, <2>1, <2>2, <2>3
<1>4. /\ selector' \in [pc : SelectorPlaces, key : Conns \cup {None}]
      /\ selector'.pc \in {"select", "dead"} /\ selector'.key \in {c, None}
      /\ pool' = pool \/ pool' = Append(pool, c)
  <2>1. CASE shouldRun
    BY <2>1 DEF Read, NextKey, SelectorPlaces
  <2>2. CASE ~shouldRun
    BY <1>1, <2>2, SelectorAt DEF Read, SelectorPlaces
  <2> QED BY <2>1, <2>2
<1>5. pool' \in Seq(Conns) /\ \A i \in DOMAIN pool' : pool'[i] = c \/ \E j \in DOMAIN pool : pool'[i] = pool[j]
  <2>1. pool \in Seq(Conns) /\ Len(pool) \in Nat /\ DOMAIN pool = 1..Len(pool)
    BY <1>0 DEF TypeOK
  <2>2. CASE pool' = Append(pool, c)
    <3>1. /\ Append(pool, c) \in Seq(Conns) /\ DOMAIN Append(pool, c) = 1..(Len(pool) + 1)
          /\ \A i \in 1..Len(pool) : Append(pool, c)[i] = pool[i]
          /\ Append(pool, c)[Len(pool) + 1] = c
      BY <1>1, <2>1
    <3>2. \A i \in 1..(Len(pool) + 1) : i \in 1..Len(pool) \/ i = Len(pool) + 1
      BY <2>1
    <3> HIDE DEF c
    <3> QED BY <2>1, <2>2, <3>1, <3>2
  <2>3. CASE pool' = pool
    BY <2>1, <2>3
  <2> QED BY <1>4, <2>2, <2>3
<1>6. UNCHANGED <<hangsUp, key, interest, outData, messagesQueue, session, authorized, shouldClose, worker, engine, shouldRun>>
  BY <1>1 DEF channelVars, protocolVars
<1>7. /\ key' \in [Conns -> {"none", "valid", "cancelled"}] /\ interest' \in [Conns -> SUBSET {"R", "W"}]
      /\ outData' \in [Conns -> Seq(Answers)] /\ session' \in [Conns -> BOOLEAN]
      /\ authorized' \in [Conns -> BOOLEAN] /\ shouldClose' \in [Conns -> BOOLEAN]
  BY <1>0, <1>6 DEF TypeOK
<1>8. SelectorInv'
  BY <1>4 DEF SelectorInv
<1>9. \A d \in Conns : key'[d] = "none" =>
             /\ key[d] = "none" /\ outData'[d] = outData[d]
             /\ ~session'[d] /\ ~authorized'[d] /\ ~shouldClose'[d]
             /\ selector'.key # d
             /\ \A i \in DOMAIN pool' : pool'[i] # d
  <2>1. None \notin Conns
    BY ReactorAssumption
  <2> HIDE DEF c
  <2> QED BY <1>0, <1>1, <1>4, <1>5, <1>6, <2>1 DEF AcceptedInv
<1>10. /\ \A d \in Conns : shouldClose[d] => shouldClose'[d]
       /\ \A d \in Conns : authorized'[d] => authorized[d]
       /\ \A d \in Conns : \A i \in DOMAIN outData'[d] : \E j \in DOMAIN outData[d] : outData'[d][i] = outData[d][j]
       /\ \A d \in Conns : key'[d] = "valid" /\ outData'[d] # <<>> => "W" \in interest'[d]
       /\ \A d \in Conns : key'[d] = "valid" /\ shouldClose'[d] /\ outData'[d] = <<>> =>
             key[d] = "valid" /\ shouldClose[d] /\ outData[d] = <<>>
  BY <1>0, <1>6 DEF OutputHasInterest
<1> QED BY <1>3, <1>4, <1>5, <1>6, <1>7, <1>8, <1>9, <1>10, SelectorKeeps

\* Neither end of input, nor a write of the selector thread, touches the frames.
LEMMA WroteKeeps ==
    ASSUME ControlInv, NEW c \in Conns, key[c] # "none", selector.key = c,
           UNCHANGED <<netVars, messagesQueue, input, pool, worker, engine, shouldRun>>,
           OutputMoves,
           \A d \in Conns : \A i \in DOMAIN outData'[d] : \E j \in DOMAIN outData[d] : outData'[d][i] = outData[d][j],
           session' \in [Conns -> BOOLEAN], authorized' \in [Conns -> BOOLEAN], shouldClose' \in [Conns -> BOOLEAN],
           \A d \in Conns : session'[d] => session[d],
           \A d \in Conns : authorized'[d] => authorized[d],
           \A d \in Conns : shouldClose[d] => shouldClose'[d],
           \A d \in Conns : shouldClose'[d] => shouldClose[d] \/ key[d] = "cancelled",
           selector' \in [pc : SelectorPlaces, key : Conns \cup {None}], selector'.key \in {c, None},
           selector'.pc \in {"eof", "logout"} => selector'.key = c /\ key'[c] = "cancelled",
           selector'.pc \notin {"read", "write"}
    PROVE  ControlInv'
<1>0. TypeOK /\ AcceptedInv
  BY DEF ControlInv
<1>1. UNCHANGED <<wire, hangsUp, messagesQueue, input, pool, worker, engine, shouldRun>>
  BY DEF netVars
<1>2. /\ wire' \in [Conns -> Seq(Frames)] /\ input' \in [Conns -> Seq(Frames)]
      /\ key' \in [Conns -> {"none", "valid", "cancelled"}] /\ interest' \in [Conns -> SUBSET {"R", "W"}]
      /\ outData' \in [Conns -> Seq(Answers)] /\ pool' \in Seq(Conns)
  BY <1>0, <1>1 DEF TypeOK, OutputMoves
<1>3. SelectorInv'
  BY DEF SelectorInv
<1>4. \A d \in Conns : key'[d] = "none" =>
             /\ key[d] = "none" /\ outData'[d] = outData[d]
             /\ ~session'[d] /\ ~authorized'[d] /\ ~shouldClose'[d]
             /\ selector'.key # d
             /\ \A i \in DOMAIN pool' : pool'[i] # d
  <2>1. None \notin Conns
    BY ReactorAssumption
  <2> SUFFICES ASSUME NEW d \in Conns, key'[d] = "none"
               PROVE  /\ key[d] = "none" /\ outData'[d] = outData[d]
                      /\ ~session'[d] /\ ~authorized'[d] /\ ~shouldClose'[d]
                      /\ selector'.key # d
                      /\ \A i \in DOMAIN pool' : pool'[i] # d
    OBVIOUS
  <2>2. key[d] = "none" /\ outData'[d] = outData[d]
    BY DEF OutputMoves
  <2>3. ~session[d] /\ ~authorized[d] /\ ~shouldClose[d] /\ \A i \in DOMAIN pool : pool[i] # d
    BY <1>0, <2>2 DEF AcceptedInv
  <2>4. ~session'[d] /\ ~authorized'[d] /\ ~shouldClose'[d]
    BY <2>2, <2>3
  <2>5. selector'.key # d
    BY <2>1, <2>2
  <2> QED BY <1>1, <2>2, <2>3, <2>4, <2>5
<1>5. \A d \in Conns : key'[d] = "valid" /\ outData'[d] # <<>> => "W" \in interest'[d]
  BY DEF OutputMoves
<1>6. \A d \in Conns : key'[d] = "valid" /\ shouldClose'[d] /\ outData'[d] = <<>> =>
             key[d] = "valid" /\ shouldClose[d] /\ outData[d] = <<>>
  <2>. TAKE d \in Conns
  <2>. HAVE key'[d] = "valid" /\ shouldClose'[d] /\ outData'[d] = <<>>
  <2>1. key[d] # "cancelled"
    BY DEF OutputMoves
  <2>2. shouldClose[d]
    BY <2>1
  <2> QED BY <2>2 DEF OutputMoves
<1> QED BY <1>1, <1>2, <1>3, <1>4, <1>5, <1>6, SelectorKeeps

\* Output stays as it is when the channel's key does, or is cancelled.
LEMMA OutputStays ==
    ASSUME ControlInv, UNCHANGED <<interest, outData>>, NEW c \in Conns, key[c] # "none",
           key' \in {key, [key EXCEPT ![c] = "cancelled"]}
    PROVE  /\ OutputMoves
           /\ \A d \in Conns : \A i \in DOMAIN outData'[d] : \E j \in DOMAIN outData[d] : outData'[d][i] = outData[d][j]
<1>1. TypeOK /\ OutputHasInterest
  BY DEF ControlInv
<1>2. /\ key' \in [Conns -> {"none", "valid", "cancelled"}]
      /\ \A d \in Conns : (key'[d] = "none" <=> key[d] = "none") /\ (key[d] = "cancelled" => key'[d] = "cancelled")
      /\ \A d \in Conns : key'[d] = "valid" => key[d] = "valid"
  BY <1>1 DEF TypeOK
<1> QED BY <1>1, <1>2 DEF TypeOK, OutputHasInterest, OutputMoves

LEMMA ReadEofKeeps == ASSUME ControlInv, ReadEof PROVE ControlInv'
<1> DEFINE c == selector.key
<1>0. TypeOK
  BY DEF ControlInv
<1>1. c \in Conns /\ key[c] # "none" /\ selector' = [pc |-> "eof", key |-> c]
  BY SelectorAt DEF ReadEof, SelAt
<1>2. /\ key' = [key EXCEPT ![c] = "cancelled"]
      /\ UNCHANGED <<netVars, interest, outData, messagesQueue, input, protocolVars, pool, worker, engine, shouldRun>>
  BY DEF ReadEof
<1>3. key'[c] = "cancelled"
  BY <1>0, <1>1, <1>2 DEF TypeOK
<1>4. /\ session' \in [Conns -> BOOLEAN] /\ authorized' \in [Conns -> BOOLEAN] /\ shouldClose' \in [Conns -> BOOLEAN]
      /\ UNCHANGED <<session, authorized, shouldClose>>
  BY <1>0, <1>2 DEF TypeOK, protocolVars
<1>5. selector' \in [pc : SelectorPlaces, key : Conns \cup {None}] /\ selector'.key = c /\ selector'.pc = "eof"
  BY <1>1 DEF SelectorPlaces
<1> HIDE DEF c
<1> QED BY <1>1, <1>2, <1>3, <1>4, <1>5, OutputStays, WroteKeeps DEF c

\* The DISCONNECT of a client that has gone: the connection has been closed.
LEMMA EofKeeps == ASSUME ControlInv, Eof \/ EofLogout PROVE ControlInv'
<1> DEFINE c == selector.key
<1>0. TypeOK
  BY DEF ControlInv
<1>1. c \in Conns /\ key[c] = "cancelled"
  BY SelectorAt DEF Eof, EofLogout, SelAt
<1>2. UNCHANGED <<netVars, channelVars, messagesQueue, input, pool, worker, engine, shouldRun>>
  BY DEF Eof, EofLogout
<1>3. /\ session' \in {session, [session EXCEPT ![c] = FALSE]}
      /\ authorized' \in {authorized, [authorized EXCEPT ![c] = FALSE]}
      /\ shouldClose' \in {shouldClose, [shouldClose EXCEPT ![c] = TRUE]}
  BY DEF Eof, EofLogout, protocolVars
<1>4. /\ session' \in [Conns -> BOOLEAN] /\ authorized' \in [Conns -> BOOLEAN] /\ shouldClose' \in [Conns -> BOOLEAN]
      /\ \A d \in Conns : session'[d] => session[d]
      /\ \A d \in Conns : authorized'[d] => authorized[d]
      /\ \A d \in Conns : shouldClose[d] => shouldClose'[d]
      /\ \A d \in Conns : shouldClose'[d] => shouldClose[d] \/ key[d] = "cancelled"
  BY <1>0, <1>1, <1>3 DEF TypeOK
<1>5. selector' \in {[pc |-> p, key |-> c] : p \in {"logout", "dead"}} \cup {[pc |-> "select", key |-> None]}
  BY SelectorAt DEF Eof, EofLogout, NextKey
<1>6. /\ selector' \in [pc : SelectorPlaces, key : Conns \cup {None}] /\ selector'.key \in {c, None}
      /\ selector'.pc \in {"eof", "logout"} => selector'.key = c
      /\ selector'.pc \notin {"read", "write"}
  BY <1>1, <1>5 DEF SelectorPlaces
<1>7. UNCHANGED <<key, interest, outData>>
  BY <1>2 DEF channelVars
<1>8. OutputMoves /\ \A d \in Conns : \A i \in DOMAIN outData'[d] : \E j \in DOMAIN outData[d] : outData'[d][i] = outData[d][j]
  BY <1>1, <1>7, OutputStays
<1>9. key'[c] = "cancelled" /\ key[c] # "none"
  BY <1>1, <1>7
<1> HIDE DEF c
<1> QED BY <1>1, <1>2, <1>4, <1>6, <1>8, <1>9, WroteKeeps DEF c

LEMMA SelWriteKeeps == ASSUME ControlInv, NEW whole \in BOOLEAN, SelWrite(whole) PROVE ControlInv'
<1> DEFINE c == selector.key
<1>0. TypeOK
  BY DEF ControlInv
<1>1. c \in Conns /\ key[c] # "none" /\ selector' = [pc |-> "select", key |-> None]
  BY SelectorAt DEF SelWrite, SelAt, NextKey
<1>2. UNCHANGED <<netVars, messagesQueue, input, protocolVars, pool, worker, engine, shouldRun>>
  BY DEF SelWrite
<1>3. Write(c, whole) \/ WriteInVain(c)
  BY DEF SelWrite
<1>4. /\ session' \in [Conns -> BOOLEAN] /\ authorized' \in [Conns -> BOOLEAN] /\ shouldClose' \in [Conns -> BOOLEAN]
      /\ UNCHANGED <<session, authorized, shouldClose>>
  BY <1>0, <1>2 DEF TypeOK, protocolVars
<1>5. /\ selector' \in [pc : SelectorPlaces, key : Conns \cup {None}] /\ selector'.key = None /\ selector'.pc = "select"
      /\ OutputMoves
      /\ \A d \in Conns : \A i \in DOMAIN outData'[d] : \E j \in DOMAIN outData[d] : outData'[d][i] = outData[d][j]
  BY <1>1, <1>3, WriteMoves DEF SelectorPlaces
<1> HIDE DEF c
<1> QED BY <1>1, <1>2, <1>4, <1>5, WroteKeeps DEF c

-----------------------------------------------------------------------------
(* Output is never forgotten                                               *)

LEMMA InitControl == Init => ControlInv
<1> SUFFICES ASSUME Init PROVE ControlInv
  OBVIOUS
<1>1. TypeOK
  <2>1. wire \in [Conns -> Seq(Frames)]
    BY ReactorAssumption DEF Init
  <2>2. hangsUp \in [Conns -> BOOLEAN]
    <3>1. PICK h \in SUBSET Leavers : hangsUp = [c \in Conns |-> c \in h]
      BY DEF Init
    <3> QED BY <3>1
  <2>3. /\ key \in [Conns -> {"none", "valid", "cancelled"}] /\ interest \in [Conns -> SUBSET {"R", "W"}]
        /\ outData \in [Conns -> Seq(Answers)] /\ messagesQueue \in [Conns -> Nat] /\ input \in [Conns -> Seq(Frames)]
        /\ shouldClose \in [Conns -> BOOLEAN]
    BY DEF Init
  <2>4. session \in [Conns -> BOOLEAN] /\ authorized \in [Conns -> BOOLEAN]
    BY DEF Init
  <2>5. /\ selector \in [pc : SelectorPlaces, key : Conns \cup {None}] /\ pool \in Seq(Conns)
        /\ engine \in Workers \cup {None} /\ shouldRun \in BOOLEAN
    BY DEF Init, SelectorPlaces
  <2>6. worker \in [Workers -> Thread]
    <3>1. Idle \in Thread
      BY DEF Idle, Thread, WorkerPlaces
    <3> QED BY <3>1 DEF Init
  <2> QED BY <2>1, <2>2, <2>3, <2>4, <2>5, <2>6, TypeParts DEF SharedTypes
<1>2. \A w \in Workers : /\ worker[w].pc = "idle" /\ worker[w].task = None /\ worker[w].at = None
                          /\ worker[w].posting = FALSE
  BY DEF Init, Idle
<1>3. ThreadInv /\ RunInv
  BY <1>2 DEF ThreadInv, Fits, Dest, RunInv, Runs
<1>4. SelectorInv
  BY DEF Init, SelectorInv
<1>5. AcceptedInv
  <2>1. None \notin Conns /\ pool = <<>> /\ selector.key = None
    BY ReactorAssumption DEF Init
  <2>2. \A c \in Conns : key[c] = "none" => outData[c] = <<>> /\ ~session[c] /\ ~authorized[c] /\ ~shouldClose[c]
    BY DEF Init
  <2> QED BY <1>2, <2>1, <2>2 DEF AcceptedInv
<1>6. ReceiptInv
  <2>1. \A c \in Conns : outData[c] = <<>>
    BY DEF Init
  <2> QED BY <1>2, <2>1 DEF ReceiptInv
<1>7. OutputHasInterest /\ ClosingHasOutput
  BY DEF Init, OutputHasInterest, ClosingHasOutput
<1> QED BY <1>1, <1>3, <1>4, <1>5, <1>6, <1>7 DEF ControlInv

LEMMA StepControl == ControlInv /\ [Next]_vars => ControlInv'
<1> SUFFICES ASSUME ControlInv, [Next]_vars PROVE ControlInv'
  OBVIOUS
<1>1. CASE SelectorStep
  BY <1>1, AcceptKeeps, SelectKeeps, ReadKeeps, ReadNothingKeeps, ReadEofKeeps, EofKeeps, SelWriteKeeps DEF SelectorStep
<1>2. ASSUME NEW w \in Workers, WorkerStep(w) PROVE ControlInv'
  <2>1. CASE TakeTask(w) \/ LockTask(w) \/ NextMessage(w) \/ Authorize(w) \/ Logout(w)
    BY <2>1, TakeTaskKeeps, LockTaskKeeps, NextMessageKeeps, AuthorizeKeeps, LogoutKeeps
  <2>2. CASE EnterSend(w) \/ EnterStop(w) \/ AwaitTimesOut(w) \/ (\E d \in Conns : Post(w, d)) \/ PostDone(w)
    BY <2>2, EnterSendKeeps, EnterStopKeeps, AwaitKeeps, PostKeeps, PostDoneKeeps
  <2>3. CASE Test(w) \/ Flush(w) \/ Poll(w) \/ Encode(w) \/ Add(w) \/ (\E whole \in BOOLEAN : WorkerWrite(w, whole))
    BY <2>3, TestKeeps, FlushKeeps, PollKeeps, EncodeKeeps, AddKeeps, WorkerWriteKeeps
  <2> QED BY <1>2, <2>1, <2>2, <2>3 DEF WorkerStep
<1>3. CASE UNCHANGED vars
  <2>1. /\ UNCHANGED <<netVars, channelVars, messagesQueue, input, protocolVars, pool, worker, engine, shouldRun>>
        /\ UNCHANGED selector
    BY <1>3 DEF vars
  <2>2. selector' = [pc |-> selector.pc, key |-> selector.key]
    BY <2>1 DEF ControlInv, TypeOK
  <2> QED BY <2>1, <2>2, SelectorAt, PlaceKeeps
<1> QED BY <1>1, <1>2, <1>3 DEF Next

LEMMA ControlHolds == Spec => []ControlInv
BY InitControl, StepControl, PTL DEF Spec

\* Output of an open connection is never left behind without the selector being
\* asked to write it, and a connection that should close has output, or a thread
\* that adds some, with which it is closed (ConnectionHandler.addOutData and
\* write, in two threads; StompProtocol.processMessage).
THEOREM OutputInvHolds == Spec => []OutputInv
<1>1. ControlInv => OutputInv
  BY DEF ControlInv, OutputInv
<1> QED BY <1>1, ControlHolds, PTL

-----------------------------------------------------------------------------
(* A connection is closed with its RECEIPT                                 *)

\* What write takes away when the connection should close is the last of it.
LEMMA WriteCloses ==
    ASSUME ControlInv, NEW d \in Conns, NEW whole \in BOOLEAN, Write(d, whole) \/ WriteInVain(d),
           NEW c \in Conns, Len(outData'[c]) < Len(outData[c]), Head(outData[c]) = "RECEIPT"
    PROVE  key'[c] = "cancelled"
<1>0. /\ outData \in [Conns -> Seq(Answers)] /\ key \in [Conns -> {"none", "valid", "cancelled"}]
      /\ outData[c] \in Seq(Answers) /\ Len(outData[c]) \in Nat
  BY DEF ControlInv, TypeOK
<1>1. outData' # outData
  BY <1>0
<1>2. Write(d, whole) /\ whole /\ outData[d] # <<>> /\ outData' = [outData EXCEPT ![d] = Tail(@)]
  BY <1>1 DEF Write, WriteInVain, channelVars
<1>3. c = d
  BY <1>0, <1>2
<1>4. outData[c][1] = "RECEIPT" /\ 1 \in DOMAIN outData[c]
  BY <1>0, <1>2, <1>3
<1>5. shouldClose[c]
  BY <1>4 DEF ControlInv, ReceiptInv
<1> QED BY <1>0, <1>2, <1>3, <1>5 DEF Write

LEMMA AddNoLess ==
    ASSUME ControlInv, NEW d \in Conns, NEW f, AddOutData(d, f), NEW c \in Conns
    PROVE  ~(Len(outData'[c]) < Len(outData[c]))
<1>1. outData \in [Conns -> Seq(Answers)] /\ outData[c] \in Seq(Answers) /\ Len(outData[c]) \in Nat
  BY DEF ControlInv, TypeOK
<1>2. outData'[c] = outData[c] \/ outData'[c] = Append(outData[c], f)
  BY <1>1 DEF AddOutData
<1>3. Len(Append(outData[c], f)) = Len(outData[c]) + 1
  BY <1>1
<1> QED BY <1>1, <1>2, <1>3

\* The RECEIPT leaves the output of a connection only with the close of its
\* channel: no frame that another thread adds meanwhile follows it
\* (ConnectionHandler.write, StompProtocol.shouldClose).
THEOREM ReceiptClosesHolds == Spec => ReceiptCloses
<1>1. ASSUME ControlInv, [Next]_vars
      PROVE  [\A c \in Conns : Len(outData'[c]) < Len(outData[c]) /\ Head(outData[c]) = "RECEIPT"
                              => key'[c] = "cancelled"]_vars
  <2> SUFFICES ASSUME NEW c \in Conns, Len(outData'[c]) < Len(outData[c]), Head(outData[c]) = "RECEIPT"
               PROVE  key'[c] = "cancelled"
    OBVIOUS
  <2>1. outData[c] \in Seq(Answers) /\ Len(outData[c]) \in Nat
    BY <1>1 DEF ControlInv, TypeOK
  <2>2. outData' # outData
    BY <2>1
  <2>3. CASE SelectorStep
    <3>1. PICK whole \in BOOLEAN : SelWrite(whole)
      BY <2>2, <2>3 DEF SelectorStep, Accept, Select, Read, ReadNothing, ReadEof, Eof, EofLogout, SelectorDies,
                        SelectorEnds, channelVars
    <3>2. selector.key \in Conns /\ (Write(selector.key, whole) \/ WriteInVain(selector.key))
      BY <1>1, <3>1, SelectorAt DEF SelWrite, SelAt
    <3> QED BY <1>1, <3>2, WriteCloses
  <2>4. ASSUME NEW w \in Workers, WorkerStep(w) PROVE key'[c] = "cancelled"
    <3>1. Add(w) \/ \E whole \in BOOLEAN : WorkerWrite(w, whole)
      BY <2>2, <2>4 DEF WorkerStep, TakeTask, LockTask, NextMessage, Authorize, Logout, EnterSend, EnterStop,
                        AwaitTimesOut, Post, PostDone, Test, Flush, Poll, Encode, channelVars
    <3>2. worker[w].pc \in {"add", "write"} => worker[w].at \in Conns
      BY <1>1 DEF ControlInv, ThreadInv, Fits, Dest
    <3>3. CASE Add(w)
      BY <1>1, <3>2, <3>3, AddNoLess DEF Add, At
    <3>4. ASSUME NEW whole \in BOOLEAN, WorkerWrite(w, whole) PROVE key'[c] = "cancelled"
      <4>1. worker[w].at \in Conns /\ (Write(worker[w].at, whole) \/ WriteInVain(worker[w].at))
        BY <2>2, <3>2, <3>4 DEF WorkerWrite, At, channelVars
      <4> QED BY <1>1, <4>1, WriteCloses
    <3> QED BY <3>1, <3>3, <3>4
  <2>5. CASE UNCHANGED vars
    BY <2>2, <2>5 DEF vars, channelVars
  <2> QED BY <1>1, <2>3, <2>4, <2>5 DEF Next
<1> QED BY <1>1, ControlHolds, PTL DEF Spec, ReceiptCloses

-----------------------------------------------------------------------------
(* No wakeup is lost: the inductive invariant                              *)

HasConnect(frames) == \E i \in DOMAIN frames : frames[i] = "CONNECT"
OnlyOne(frames) == \A i, j \in DOMAIN frames : frames[i] = "CONNECT" /\ frames[j] = "CONNECT" => i = j

\* A client logs in once per connection, as the Client of this repository does,
\* which makes a new connection for each login.
LogInOnce ==
    \A c \in Conns : \A frames \in Scripts[c] : OnlyOne(frames) /\ (c \in LoggedIn => ~HasConnect(frames))

\* Then a client that has logged in, or is just doing so, does not ask for it again.
Connected(c) == authorized[c] \/ \E w \in Workers : Runs(w, c) /\ worker[w].pc = "authorize"
ConnectInv ==
    \A c \in Conns :
        /\ OnlyOne(input[c]) /\ OnlyOne(wire[c]) /\ ~(HasConnect(input[c]) /\ HasConnect(wire[c]))
        /\ Connected(c) => ~HasConnect(input[c]) /\ ~HasConnect(wire[c])

\* A thread in TwitterEngine.send is about to write the queued messages of c.
Delivers(posting, pc, at, c) == posting /\ at = c /\ pc \in {"test", "flush", "poll"}

\* c has all its messages, but for one that a post is just delivering.
Caught(c) ==
    \/ messagesQueue[c] = 0
    \/ messagesQueue[c] = 1 /\ \E u \in Workers : Delivers(worker[u].posting, worker[u].pc, worker[u].at, c)

\* A client in TwitterEngine.send, or one that is told that this failed, has caught
\* up: its own thread is not going to write what is queued.
Owes(posting, pc, what) == posting \/ (pc \in {"encode", "add"} /\ what = "ERROR")
Open(c) == key[c] = "valid" /\ authorized[c]
CaughtUpInv ==
    \A w \in Workers, c \in Conns :
        worker[w].task = c /\ Open(c) /\ Owes(worker[w].posting, worker[w].pc, worker[w].what) => Caught(c)

WakeInv == ControlInv /\ ConnectInv /\ CaughtUpInv /\ QueuedHasWriter

\* A thread that will write the queued messages of c.
Serves(pc, what, at, c) ==
    /\ at = c
    /\ \/ pc \in {"test", "flush", "poll", "write"}
       \/ pc \in {"encode", "add"} /\ what \in {"MESSAGE", "CONNECTED"}

LEMMA WriterServes ==
    QueuedHasWriter <=> \A c \in Conns : Open(c) /\ messagesQueue[c] > 0 =>
                          \E w \in Workers : Serves(worker[w].pc, worker[w].what, worker[w].at, c)
BY DEF QueuedHasWriter, Open, Serves

-----------------------------------------------------------------------------
(* What keeps it                                                           *)

\* Queued messages keep their writer, or find another.
LEMMA WriterKeeps ==
    ASSUME QueuedHasWriter, NEW w \in Workers,
           NEW pc, NEW task, NEW what, NEW at, NEW posting, Moves(w, pc, task, what, at, posting),
           \A c \in Conns : Open(c)' /\ messagesQueue'[c] > 0 =>
             \/ Serves(pc, what, at, c)
             \/ /\ Open(c) /\ messagesQueue[c] > 0
                /\ Serves(worker[w].pc, worker[w].what, worker[w].at, c) =>
                     \E v \in Workers : v # w /\ Serves(worker[v].pc, worker[v].what, worker[v].at, c)
    PROVE  QueuedHasWriter'
<1>1. ASSUME NEW c \in Conns, Open(c)', messagesQueue'[c] > 0
      PROVE  \E v \in Workers : Serves(worker'[v].pc, worker'[v].what, worker'[v].at, c)
  <2>1. CASE Serves(pc, what, at, c)
    BY <2>1 DEF Moves
  <2>2. CASE ~Serves(pc, what, at, c)
    <3>1. \E v \in Workers : v # w /\ Serves(worker[v].pc, worker[v].what, worker[v].at, c)
      BY <1>1, <2>2, WriterServes
    <3> QED BY <3>1 DEF Moves
  <2> QED BY <2>1, <2>2
<1> QED BY <1>1 DEF QueuedHasWriter, Open, Serves

\* One thread runs a connection's task, and what the others owe stays paid.
LEMMA CaughtKeeps ==
    ASSUME CaughtUpInv, ThreadInv, RunInv, NEW w \in Workers,
           NEW pc, NEW task, NEW what, NEW at, NEW posting, Moves(w, pc, task, what, at, posting),
           \A c \in Conns : Open(c)' => Open(c) \/ Runs(w, c),
           \A c \in Conns : Open(c)' /\ Open(c) /\ Caught(c) => Caught(c)',
           \A c \in Conns : task = c /\ Open(c)' /\ Owes(posting, pc, what) => Caught(c)'
    PROVE  CaughtUpInv'
<1>1. ASSUME NEW v \in Workers, NEW c \in Conns, v # w, worker[v].task = c, Open(c)',
             Owes(worker[v].posting, worker[v].pc, worker[v].what)
      PROVE  Caught(c)'
  <2>1. Runs(v, c)
    BY <1>1 DEF Owes, ThreadInv, Fits, Dest, Runs
  <2>2. Open(c)
    BY <1>1, <2>1 DEF RunInv
  <2>3. Caught(c)
    BY <1>1, <2>2 DEF CaughtUpInv
  <2> QED BY <1>1, <2>2, <2>3
<1>2. ASSUME NEW v \in Workers, NEW c \in Conns, worker'[v].task = c, Open(c)',
             Owes(worker'[v].posting, worker'[v].pc, worker'[v].what)
      PROVE  Caught(c)'
  <2>1. CASE v = w
    BY <1>2, <2>1 DEF Moves
  <2>2. CASE v # w
    BY <1>1, <1>2, <2>2 DEF Moves
  <2> QED BY <2>1, <2>2
<1> QED BY <1>2 DEF CaughtUpInv

\* A client stays caught up unless a thread gives its message up.
LEMMA CaughtStays ==
    ASSUME NEW w \in Workers,
           NEW pc, NEW task, NEW what, NEW at, NEW posting, Moves(w, pc, task, what, at, posting),
           NEW c \in Conns, Caught(c), UNCHANGED messagesQueue,
           Delivers(worker[w].posting, worker[w].pc, worker[w].at, c) => messagesQueue[c] = 0 \/ Delivers(posting, pc, at, c)
    PROVE  Caught(c)'
<1>1. CASE messagesQueue[c] = 0
  BY <1>1 DEF Caught
<1>2. CASE messagesQueue[c] # 0
  <2>1. PICK u \in Workers : Delivers(worker[u].posting, worker[u].pc, worker[u].at, c)
    BY <1>2 DEF Caught
  <2>2. CASE u = w
    BY <1>2, <2>1, <2>2 DEF Moves, Caught
  <2>3. CASE u # w
    BY <1>2, <2>1, <2>3 DEF Moves, Caught
  <2> QED BY <2>2, <2>3
<1> QED BY <1>1, <1>2

\* What clients may still ask does not change while their frames stay where they are.
LEMMA ConnectKeeps ==
    ASSUME ConnectInv, NEW w \in Workers,
           NEW pc, NEW task, NEW what, NEW at, NEW posting, Moves(w, pc, task, what, at, posting),
           UNCHANGED <<wire, input>>, pc # "authorize",
           \A c \in Conns : authorized'[c] => Connected(c)
    PROVE  ConnectInv'
<1>1. ASSUME NEW c \in Conns, Connected(c)' PROVE Connected(c)
  <2>1. CASE authorized'[c]
    BY <2>1
  <2>2. ASSUME NEW v \in Workers, Runs(v, c)', worker'[v].pc = "authorize" PROVE Connected(c)
    <3>1. v # w
      BY <2>2 DEF Moves
    <3> QED BY <2>2, <3>1 DEF Moves, Runs, Connected
  <2> QED BY <1>1, <2>1, <2>2 DEF Connected
<1> QED BY <1>1 DEF ConnectInv

\* What a step must keep.
WakeKept == ConnectInv' /\ CaughtUpInv' /\ QueuedHasWriter'

\* A thread that has no connection at hand neither writes nor owes.
LEMMA CalmKeeps ==
    ASSUME WakeInv, NEW w \in Workers, worker[w].pc \notin Dest,
           NEW pc, NEW task, NEW what, NEW at, NEW posting, Moves(w, pc, task, what, at, posting),
           UNCHANGED <<key, messagesQueue>>,
           \A c \in Conns : authorized'[c] => authorized[c],
           \A c \in Conns : task = c /\ Open(c) => ~Owes(posting, pc, what)
    PROVE  CaughtUpInv' /\ QueuedHasWriter'
<1>0. CaughtUpInv /\ QueuedHasWriter /\ ThreadInv /\ RunInv
  BY DEF WakeInv, ControlInv
<1>1. \A c \in Conns : Open(c)' => Open(c)
  BY DEF Open
<1>2. \A c \in Conns : /\ ~Serves(worker[w].pc, worker[w].what, worker[w].at, c)
                        /\ ~Delivers(worker[w].posting, worker[w].pc, worker[w].at, c)
  BY DEF Serves, Delivers, Dest
<1>3. CaughtUpInv'
  <2>1. \A c \in Conns : Open(c)' => Open(c) \/ Runs(w, c)
    BY <1>1
  <2>2. ASSUME NEW c \in Conns, Open(c)', Open(c), Caught(c) PROVE Caught(c)'
    BY <1>2, <2>2, CaughtStays
  <2>3. \A c \in Conns : task = c /\ Open(c)' /\ Owes(posting, pc, what) => Caught(c)'
    BY <1>1
  <2> QED BY <1>0, <2>1, <2>2, <2>3, CaughtKeeps
<1>4. QueuedHasWriter'
  <2>1. \A c \in Conns : Open(c)' /\ messagesQueue'[c] > 0 =>
             \/ Serves(pc, what, at, c)
             \/ /\ Open(c) /\ messagesQueue[c] > 0
                /\ Serves(worker[w].pc, worker[w].what, worker[w].at, c) =>
                     \E v \in Workers : v # w /\ Serves(worker[v].pc, worker[v].what, worker[v].at, c)
    BY <1>1, <1>2
  <2> QED BY <1>0, <2>1, WriterKeeps
<1> QED BY <1>3, <1>4

\* Such a thread goes on without processing a frame.
LEMMA CalmWakes ==
    ASSUME WakeInv, NEW w \in Workers, worker[w].pc \notin Dest,
           NEW pc, NEW task, NEW what, NEW at, NEW posting, Moves(w, pc, task, what, at, posting),
           UNCHANGED <<key, messagesQueue, wire, input>>, pc # "authorize",
           \A c \in Conns : authorized'[c] => authorized[c],
           \A c \in Conns : task = c /\ Open(c) => ~Owes(posting, pc, what)
    PROVE  WakeKept
<1>1. CaughtUpInv' /\ QueuedHasWriter'
  BY CalmKeeps
<1>2. ConnectInv
  BY DEF WakeInv
<1>3. \A c \in Conns : authorized'[c] => Connected(c)
  BY DEF Connected
<1>4. ConnectInv'
  BY <1>2, <1>3, ConnectKeeps
<1> QED BY <1>1, <1>4 DEF WakeKept

LEMMA TakeTaskWakes == ASSUME WakeInv, NEW w \in Workers, TakeTask(w) \/ LockTask(w) PROVE WakeKept
<1>0. TypeOK /\ ThreadInv
  BY DEF WakeInv, ControlInv
<1>1. /\ worker[w].pc \in {"idle", "lock"} /\ worker[w].pc \notin Dest /\ ~worker[w].posting
      /\ UNCHANGED <<key, messagesQueue, wire, input, authorized>>
  <2>1. worker[w].pc \in {"idle", "lock"}
    BY DEF TakeTask, LockTask, At
  <2>2. UNCHANGED <<key, messagesQueue, wire, input, authorized>>
    BY DEF TakeTask, LockTask, netVars, channelVars, protocolVars
  <2> QED BY <1>0, <2>1, <2>2 DEF ThreadInv, Fits, Dest
<1>2. CASE TakeTask(w)
  <2>1. Head(pool) \in Conns
    BY <1>0, <1>2 DEF TakeTask, TypeOK
  <2>. PICK pc \in {"lock", "loop"} : pc = IF Running(Head(pool)) THEN "lock" ELSE "loop"
    OBVIOUS
  <2>. PICK no \in BOOLEAN : no = FALSE
    OBVIOUS
  <2>2. Moves(w, pc, Head(pool), None, None, no)
    BY <1>0, <1>2, <2>1, TaskMoves DEF TakeTask, WorkerPlaces
  <2>3. pc # "authorize" /\ ~Owes(no, pc, None)
    BY DEF Owes
  <2>4. \A c \in Conns : authorized'[c] => authorized[c]
    BY <1>1
  <2> QED BY <1>1, <2>2, <2>3, <2>4, CalmWakes
<1>3. CASE LockTask(w)
  <2>1. Moves(w, "loop", worker[w].task, worker[w].what, worker[w].at, worker[w].posting)
    BY <1>0, <1>3, GotoMoves DEF LockTask, WorkerPlaces
  <2>2. "loop" # "authorize" /\ ~Owes(worker[w].posting, "loop", worker[w].what)
    BY <1>1 DEF Owes
  <2>3. \A c \in Conns : authorized'[c] => authorized[c]
    BY <1>1
  <2> QED BY <1>1, <2>1, <2>2, <2>3, CalmWakes
<1> QED BY <1>2, <1>3

\* A frame that is processed is the first of the tokenizer's.
LEMMA NextConnects ==
    ASSUME ConnectInv, NEW c \in Conns, input \in [Conns -> Seq(Frames)], input[c] # <<>>,
           input' = [input EXCEPT ![c] = Tail(@)], UNCHANGED <<wire, authorized>>,
           NEW w \in Workers, Runs(w, c),
           NEW pc, NEW task, NEW what, NEW at, NEW posting, Moves(w, pc, task, what, at, posting), task = c,
           pc = "authorize" => Head(input[c]) = "CONNECT"
    PROVE  ConnectInv'
<1>1. input[c] \in Seq(Frames) /\ Len(input[c]) \in Nat /\ Len(input[c]) > 0
  OBVIOUS
<1>2. /\ DOMAIN input[c] = 1..Len(input[c]) /\ DOMAIN Tail(input[c]) = 1..(Len(input[c]) - 1)
      /\ \A i \in 1..(Len(input[c]) - 1) : Tail(input[c])[i] = input[c][i + 1] /\ i + 1 \in 1..Len(input[c])
      /\ Head(input[c]) = input[c][1] /\ 1 \in 1..Len(input[c])
  BY <1>1
<1>3. /\ HasConnect(Tail(input[c])) => HasConnect(input[c])
      /\ OnlyOne(input[c]) => OnlyOne(Tail(input[c]))
      /\ Head(input[c]) = "CONNECT" => HasConnect(input[c]) /\ (OnlyOne(input[c]) => ~HasConnect(Tail(input[c])))
  <2>1. ASSUME NEW i \in DOMAIN Tail(input[c]) PROVE i + 1 \in DOMAIN input[c] /\ Tail(input[c])[i] = input[c][i + 1] /\ i \in Nat /\ i > 0
    BY <1>1, <1>2, <2>1
  <2>2. HasConnect(Tail(input[c])) => HasConnect(input[c])
    BY <2>1 DEF HasConnect
  <2>3. ASSUME OnlyOne(input[c]) PROVE OnlyOne(Tail(input[c]))
    <3> SUFFICES ASSUME NEW i \in DOMAIN Tail(input[c]), NEW j \in DOMAIN Tail(input[c]),
                        Tail(input[c])[i] = "CONNECT", Tail(input[c])[j] = "CONNECT"
                 PROVE  i = j
      BY DEF OnlyOne
    <3>1. i + 1 = j + 1
      BY <2>1, <2>3 DEF OnlyOne
    <3> QED BY <2>1, <3>1
  <2>4. ASSUME Head(input[c]) = "CONNECT"
        PROVE  HasConnect(input[c]) /\ (OnlyOne(input[c]) => ~HasConnect(Tail(input[c])))
    <3>1. HasConnect(input[c])
      BY <1>2, <2>4 DEF HasConnect
    <3>2. ASSUME OnlyOne(input[c]), NEW i \in DOMAIN Tail(input[c]), Tail(input[c])[i] = "CONNECT" PROVE FALSE
      <4>1. i + 1 = 1
        BY <1>2, <2>1, <2>4, <3>2 DEF OnlyOne
      <4> QED BY <2>1, <4>1
    <3> QED BY <3>1, <3>2 DEF HasConnect
  <2> QED BY <2>2, <2>3, <2>4
<1>4. /\ \A d \in Conns : d # c => input'[d] = input[d]
      /\ input'[c] = Tail(input[c])
  OBVIOUS
<1>5. \A d \in Conns : Connected(d)' => Connected(d) \/ (d = c /\ Head(input[c]) = "CONNECT")
  <2> SUFFICES ASSUME NEW d \in Conns, Connected(d)', ~authorized[d]
               PROVE  Connected(d) \/ (d = c /\ Head(input[c]) = "CONNECT")
    BY DEF Connected
  <2>1. PICK v \in Workers : Runs(v, d)' /\ worker'[v].pc = "authorize"
    BY DEF Connected
  <2>2. CASE v = w
    BY <2>1, <2>2 DEF Moves, Runs
  <2>3. CASE v # w
    BY <2>1, <2>3 DEF Moves, Runs, Connected
  <2> QED BY <2>2, <2>3
<1> QED BY <1>3, <1>4, <1>5 DEF ConnectInv

\* Where a frame leads its thread: a client is told of an error when it has not
\* logged in, or asks for it again.
LEMMA ProcessMoves ==
    ASSUME TypeOK, NEW w \in Workers, NEW f \in Frames, worker[w].task \in Conns, Process(w, worker[w].task, f)
    PROVE  \E pc \in WorkerPlaces, what \in Frames \cup Answers \cup {None}, at \in Conns \cup {None} :
             /\ Moves(w, pc, worker[w].task, what, at, worker[w].posting)
             /\ pc = "authorize" => f = "CONNECT"
             /\ pc \in {"encode", "add"} /\ what = "ERROR" => ~authorized[worker[w].task] \/ f = "CONNECT"
<1>0. worker[w].what \in Frames \cup Answers \cup {None} /\ worker[w].at \in Conns \cup {None}
  BY ThreadType DEF Thread
<1>1. CASE Answer(w, "ERROR") /\ (~authorized[worker[w].task] \/ f = "CONNECT")
  <2>1. Moves(w, "encode", worker[w].task, "ERROR", worker[w].task, worker[w].posting)
    BY <1>1, AnswerMoves DEF Answers
  <2>2. "encode" \in WorkerPlaces /\ "ERROR" \in Answers /\ "encode" # "authorize"
    BY DEF WorkerPlaces, Answers
  <2> QED BY <1>1, <2>1, <2>2
<1>2. CASE Answer(w, "RECEIPT")
  <2>1. Moves(w, "encode", worker[w].task, "RECEIPT", worker[w].task, worker[w].posting)
    BY <1>2, AnswerMoves DEF Answers
  <2>2. "encode" \in WorkerPlaces /\ "RECEIPT" \in Answers /\ "encode" # "authorize" /\ "RECEIPT" # "ERROR"
    BY DEF WorkerPlaces, Answers
  <2> QED BY <2>1, <2>2
<1>3. CASE Goto(w, "authorize") /\ f = "CONNECT"
  <2>1. Moves(w, "authorize", worker[w].task, worker[w].what, worker[w].at, worker[w].posting)
    BY <1>3, GotoMoves DEF WorkerPlaces
  <2>2. "authorize" \in WorkerPlaces /\ "authorize" \notin {"encode", "add"}
    BY DEF WorkerPlaces
  <2> QED BY <1>0, <1>3, <2>1, <2>2
<1>4. CASE Goto(w, "logout")
  <2>1. Moves(w, "logout", worker[w].task, worker[w].what, worker[w].at, worker[w].posting)
    BY <1>4, GotoMoves DEF WorkerPlaces
  <2>2. "logout" \in WorkerPlaces /\ "logout" \notin {"encode", "add"} /\ "logout" # "authorize"
    BY DEF WorkerPlaces
  <2> QED BY <1>0, <2>1, <2>2
<1>5. CASE worker' = [worker EXCEPT ![w].pc = "enter", ![w].what = f]
  <2>1. Moves(w, "enter", worker[w].task, f, worker[w].at, worker[w].posting)
    BY <1>5, FrameMoves DEF WorkerPlaces
  <2>2. "enter" \in WorkerPlaces /\ "enter" \notin {"encode", "add"} /\ "enter" # "authorize"
    BY DEF WorkerPlaces
  <2> QED BY <1>0, <2>1, <2>2
<1> QED BY <1>1, <1>2, <1>3, <1>4, <1>5 DEF Process

LEMMA NextMessageWakes == ASSUME WakeInv, NEW w \in Workers, NextMessage(w) PROVE WakeKept
<1>0. TypeOK /\ ThreadInv /\ ConnectInv
  BY DEF WakeInv, ControlInv
<1>1. /\ worker[w].pc = "loop" /\ worker[w].pc \notin Dest /\ ~worker[w].posting /\ worker[w].task \in Conns
      /\ Runs(w, worker[w].task)
  BY <1>0 DEF NextMessage, At, ThreadInv, Fits, Dest, Runs
<1>2. UNCHANGED <<key, messagesQueue, wire, authorized>>
  BY DEF NextMessage, netVars, channelVars
<1>3. \A c \in Conns : authorized'[c] => authorized[c]
  BY <1>2
<1>4. CASE worker' = [worker EXCEPT ![w] = Idle] /\ UNCHANGED input
  <2>. PICK no \in BOOLEAN : no = FALSE
    OBVIOUS
  <2>1. Moves(w, "idle", None, None, None, no)
    BY <1>0, <1>4, IdleMoves
  <2>2. "idle" # "authorize" /\ ~Owes(no, "idle", None)
    BY DEF Owes
  <2> QED BY <1>1, <1>2, <1>3, <1>4, <2>1, <2>2, CalmWakes
<1>5. CASE /\ input[worker[w].task] # <<>> /\ Process(w, worker[w].task, Head(input[worker[w].task]))
           /\ input' = [input EXCEPT ![worker[w].task] = Tail(@)]
  <2>1. /\ input \in [Conns -> Seq(Frames)] /\ input[worker[w].task] \in Seq(Frames)
        /\ Head(input[worker[w].task]) \in Frames
    BY <1>0, <1>1, <1>5 DEF TypeOK
  <2>2. PICK pc \in WorkerPlaces, what \in Frames \cup Answers \cup {None}, at \in Conns \cup {None} :
             /\ Moves(w, pc, worker[w].task, what, at, worker[w].posting)
             /\ pc = "authorize" => Head(input[worker[w].task]) = "CONNECT"
             /\ pc \in {"encode", "add"} /\ what = "ERROR" =>
                  ~authorized[worker[w].task] \/ Head(input[worker[w].task]) = "CONNECT"
    <3>1. PICK f \in Frames : f = Head(input[worker[w].task])
      BY <2>1
    <3>2. Process(w, worker[w].task, f)
      BY <1>5, <3>1
    <3>3. \E pc \in WorkerPlaces, what \in Frames \cup Answers \cup {None}, at \in Conns \cup {None} :
             /\ Moves(w, pc, worker[w].task, what, at, worker[w].posting)
             /\ pc = "authorize" => f = "CONNECT"
             /\ pc \in {"encode", "add"} /\ what = "ERROR" => ~authorized[worker[w].task] \/ f = "CONNECT"
      BY <1>0, <1>1, <3>2, ProcessMoves
    <3> QED BY <3>1, <3>3
  <2>3. ConnectInv'
    BY <1>0, <1>1, <1>2, <1>5, <2>1, <2>2, NextConnects
  <2>4. \A c \in Conns : worker[w].task = c /\ Open(c) => ~Owes(worker[w].posting, pc, what)
    <3>1. Head(input[worker[w].task]) = "CONNECT" => HasConnect(input[worker[w].task])
      <4>1. Head(input[worker[w].task]) = input[worker[w].task][1] /\ 1 \in DOMAIN input[worker[w].task]
        BY <1>5, <2>1
      <4> QED BY <4>1 DEF HasConnect
    <3>2. authorized[worker[w].task] => ~HasConnect(input[worker[w].task])
      BY <1>0, <1>1 DEF ConnectInv, Connected
    <3> QED BY <1>1, <2>2, <3>1, <3>2 DEF Open, Owes
  <2>5. CaughtUpInv' /\ QueuedHasWriter'
    BY <1>1, <1>2, <1>3, <2>2, <2>4, CalmKeeps
  <2> QED BY <2>3, <2>5 DEF WakeKept
<1> QED BY <1>4, <1>5 DEF NextMessage, Here

\* The CONNECTED of a client is followed by flushMessages.
LEMMA AuthorizeWakes == ASSUME WakeInv, NEW w \in Workers, Authorize(w) PROVE WakeKept
<1>0. TypeOK /\ ThreadInv /\ RunInv /\ ConnectInv /\ CaughtUpInv /\ QueuedHasWriter
  BY DEF WakeInv, ControlInv
<1>1. /\ worker[w].pc = "authorize" /\ ~worker[w].posting /\ worker[w].task \in Conns
      /\ Runs(w, worker[w].task)
  BY <1>0 DEF Authorize, At, ThreadInv, Fits, Dest, Runs
<1>2. Moves(w, "encode", worker[w].task, "CONNECTED", worker[w].task, worker[w].posting)
  BY <1>0, AnswerMoves DEF Authorize, Answers
<1>3. /\ UNCHANGED <<key, messagesQueue, wire, input>>
      /\ \A c \in Conns : authorized'[c] => authorized[c] \/ c = worker[w].task
  BY <1>0, <1>1 DEF Authorize, Here, netVars, channelVars, TypeOK
<1>4. ConnectInv'
  <2>1. \A c \in Conns : authorized'[c] => Connected(c)
    BY <1>1, <1>3 DEF Connected
  <2>2. UNCHANGED <<wire, input>> /\ "encode" # "authorize"
    BY <1>3
  <2> QED BY <1>0, <1>2, <2>1, <2>2, ConnectKeeps
<1>5. \A c \in Conns : Open(c)' => Open(c) \/ c = worker[w].task
  BY <1>3 DEF Open
<1>6. CaughtUpInv'
  <2>1. \A c \in Conns : Open(c)' => Open(c) \/ Runs(w, c)
    BY <1>1, <1>5
  <2>2. ASSUME NEW c \in Conns, Open(c)', Open(c), Caught(c) PROVE Caught(c)'
    <3>1. ~Delivers(worker[w].posting, worker[w].pc, worker[w].at, c)
      BY <1>1 DEF Delivers
    <3> QED BY <1>2, <1>3, <2>2, <3>1, CaughtStays
  <2>3. \A c \in Conns : worker[w].task = c /\ Open(c)' /\ Owes(worker[w].posting, "encode", "CONNECTED") => Caught(c)'
    BY <1>1 DEF Owes
  <2> QED BY <1>0, <1>2, <2>1, <2>2, <2>3, CaughtKeeps
<1>7. QueuedHasWriter'
  <2>1. \A c \in Conns : Open(c)' /\ messagesQueue'[c] > 0 =>
             \/ Serves("encode", "CONNECTED", worker[w].task, c)
             \/ /\ Open(c) /\ messagesQueue[c] > 0
                /\ Serves(worker[w].pc, worker[w].what, worker[w].at, c) =>
                     \E v \in Workers : v # w /\ Serves(worker[v].pc, worker[v].what, worker[v].at, c)
    BY <1>1, <1>3, <1>5 DEF Serves
  <2> QED BY <1>0, <1>2, <2>1, WriterKeeps
<1> QED BY <1>4, <1>6, <1>7 DEF WakeKept

LEMMA LogoutWakes == ASSUME WakeInv, NEW w \in Workers, Logout(w) PROVE WakeKept
<1>0. TypeOK /\ ThreadInv
  BY DEF WakeInv, ControlInv
<1>1. /\ worker[w].pc = "logout" /\ worker[w].pc \notin Dest /\ ~worker[w].posting /\ worker[w].task \in Conns
  BY <1>0 DEF Logout, At, ThreadInv, Fits, Dest
<1>2. /\ UNCHANGED <<key, messagesQueue, wire, input>>
      /\ \A c \in Conns : authorized'[c] => authorized[c]
  BY <1>0 DEF Logout, netVars, channelVars, protocolVars, TypeOK
<1>3. CASE Answer(w, "RECEIPT")
  <2>1. Moves(w, "encode", worker[w].task, "RECEIPT", worker[w].task, worker[w].posting)
    BY <1>0, <1>3, AnswerMoves DEF Answers
  <2>2. "encode" # "authorize" /\ ~Owes(worker[w].posting, "encode", "RECEIPT")
    BY <1>1 DEF Owes
  <2> QED BY <1>1, <1>2, <2>1, <2>2, CalmWakes
<1>4. CASE Throw(w)
  <2>. PICK no \in BOOLEAN : no = FALSE
    OBVIOUS
  <2>1. Moves(w, "idle", None, None, None, no)
    BY <1>0, <1>1, <1>4, ThrowMoves
  <2>2. "idle" # "authorize" /\ ~Owes(no, "idle", None)
    BY DEF Owes
  <2> QED BY <1>1, <1>2, <2>1, <2>2, CalmWakes
<1> QED BY <1>3, <1>4 DEF Logout

LEMMA EnterStopWakes == ASSUME WakeInv, NEW w \in Workers, EnterStop(w) \/ AwaitTimesOut(w) \/ PostDone(w) PROVE WakeKept
<1>0. TypeOK /\ ThreadInv
  BY DEF WakeInv, ControlInv
<1>1. /\ UNCHANGED <<key, messagesQueue, wire, input>>
      /\ \A c \in Conns : authorized'[c] => authorized[c]
  BY DEF EnterStop, AwaitTimesOut, PostDone, netVars, channelVars, protocolVars
<1>2. CASE EnterStop(w)
  <2>1. worker[w].pc \notin Dest /\ ~worker[w].posting
    BY <1>0, <1>2 DEF EnterStop, At, ThreadInv, Fits, Dest
  <2>. PICK pc \in {"await", "loop"} : pc = IF shouldRun THEN "await" ELSE "loop"
    OBVIOUS
  <2>2. Moves(w, pc, worker[w].task, None, worker[w].at, worker[w].posting)
    BY <1>0, <1>2, FrameMoves DEF EnterStop, WorkerPlaces
  <2>3. pc # "authorize" /\ ~Owes(worker[w].posting, pc, None)
    BY <2>1 DEF Owes
  <2> QED BY <1>1, <2>1, <2>2, <2>3, CalmWakes
<1>3. CASE AwaitTimesOut(w)
  <2>1. worker[w].pc \notin Dest /\ ~worker[w].posting
    BY <1>0, <1>3 DEF AwaitTimesOut, At, ThreadInv, Fits, Dest
  <2>2. Moves(w, "loop", worker[w].task, worker[w].what, worker[w].at, worker[w].posting)
    BY <1>0, <1>3, GotoMoves DEF AwaitTimesOut, WorkerPlaces
  <2>3. "loop" # "authorize" /\ ~Owes(worker[w].posting, "loop", worker[w].what)
    BY <2>1 DEF Owes
  <2> QED BY <1>1, <2>1, <2>2, <2>3, CalmWakes
<1>4. CASE PostDone(w)
  <2>1. worker[w].pc \notin Dest /\ worker[w].task \in Conns
    BY <1>0, <1>4 DEF PostDone, At, ThreadInv, Fits, Dest
  <2>. PICK no \in BOOLEAN : no = FALSE
    OBVIOUS
  <2>2. Moves(w, "loop", worker[w].task, None, None, no)
    BY <1>0, <1>4, <2>1, TaskMoves DEF PostDone, Here, WorkerPlaces
  <2>3. "loop" # "authorize" /\ ~Owes(no, "loop", None)
    BY DEF Owes
  <2> QED BY <1>1, <2>1, <2>2, <2>3, CalmWakes
<1> QED BY <1>2, <1>3, <1>4

\* A step of a thread with a connection at hand, or that posts.
LEMMA BusyWakes ==
    ASSUME WakeInv, NEW w \in Workers,
           NEW pc, NEW task, NEW what, NEW at, NEW posting, Moves(w, pc, task, what, at, posting),
           UNCHANGED <<netVars, input, protocolVars>>, pc # "authorize",
           \A c \in Conns : key'[c] = "valid" => key[c] = "valid",
           \A c \in Conns : Open(c) /\ Caught(c) => Caught(c)',
           \A c \in Conns : task = c /\ Open(c) /\ Owes(posting, pc, what) => Caught(c)',
           \A c \in Conns : key'[c] = "valid" /\ Open(c) /\ messagesQueue'[c] > 0 =>
             \/ Serves(pc, what, at, c)
             \/ /\ messagesQueue[c] > 0
                /\ Serves(worker[w].pc, worker[w].what, worker[w].at, c) =>
                     \E v \in Workers : v # w /\ Serves(worker[v].pc, worker[v].what, worker[v].at, c)
    PROVE  WakeKept
<1>0. ThreadInv /\ RunInv /\ ConnectInv /\ CaughtUpInv /\ QueuedHasWriter
  BY DEF WakeInv, ControlInv
<1>1. UNCHANGED <<wire, input, authorized>>
  BY DEF netVars, protocolVars
<1>2. \A c \in Conns : Open(c)' => Open(c) /\ key'[c] = "valid"
  BY <1>1 DEF Open
<1>3. ConnectInv'
  <2>1. \A c \in Conns : authorized'[c] => Connected(c)
    BY <1>1 DEF Connected
  <2> QED BY <1>0, <1>1, <2>1, ConnectKeeps
<1>4. CaughtUpInv'
  <2>1. \A c \in Conns : Open(c)' => Open(c) \/ Runs(w, c)
    BY <1>2
  <2>2. \A c \in Conns : Open(c)' /\ Open(c) /\ Caught(c) => Caught(c)'
    OBVIOUS
  <2>3. \A c \in Conns : task = c /\ Open(c)' /\ Owes(posting, pc, what) => Caught(c)'
    BY <1>2
  <2> QED BY <1>0, <2>1, <2>2, <2>3, CaughtKeeps
<1>5. QueuedHasWriter'
  <2>1. \A c \in Conns : Open(c)' /\ messagesQueue'[c] > 0 =>
             \/ Serves(pc, what, at, c)
             \/ /\ Open(c) /\ messagesQueue[c] > 0
                /\ Serves(worker[w].pc, worker[w].what, worker[w].at, c) =>
                     \E v \in Workers : v # w /\ Serves(worker[v].pc, worker[v].what, worker[v].at, c)
    BY <1>2
  <2> QED BY <1>0, <2>1, WriterKeeps
<1> QED BY <1>3, <1>4, <1>5 DEF WakeKept

\* A client that begins to post has caught up: no other thread is in the engine,
\* and its own is not writing.
LEMMA EnterSendWakes == ASSUME WakeInv, NEW w \in Workers, EnterSend(w) PROVE WakeKept
<1>0. TypeOK /\ ThreadInv /\ RunInv /\ QueuedHasWriter
  BY DEF WakeInv, ControlInv
<1>1. /\ worker[w].pc = "enter" /\ engine = None /\ worker[w].task \in Conns
      /\ UNCHANGED <<netVars, channelVars, messagesQueue, input, protocolVars>>
  BY <1>0 DEF EnterSend, At, ThreadInv, Fits
<1>a. PICK yes : yes = TRUE
  OBVIOUS
<1>2. Moves(w, "post", worker[w].task, None, worker[w].at, yes)
  BY <1>0, <1>a, EnterMoves DEF EnterSend
<1>3. UNCHANGED <<key, messagesQueue>>
  BY <1>1 DEF channelVars
<1>4. \A c \in Conns : /\ ~Serves(worker[w].pc, worker[w].what, worker[w].at, c)
                        /\ ~Delivers(worker[w].posting, worker[w].pc, worker[w].at, c)
  BY <1>1 DEF Serves, Delivers
<1>5. ASSUME NEW c \in Conns, Caught(c) PROVE Caught(c)'
  BY <1>2, <1>3, <1>4, <1>5, CaughtStays
<1>6. ASSUME NEW c \in Conns, worker[w].task = c, Open(c) PROVE Caught(c)'
  <2>1. messagesQueue[c] \in Nat
    BY <1>0 DEF TypeOK
  <2>2. ASSUME messagesQueue[c] > 0 PROVE FALSE
    <3>1. PICK v \in Workers : Serves(worker[v].pc, worker[v].what, worker[v].at, c)
      BY <1>0, <1>6, <2>2, WriterServes
    <3>2. worker[v].pc \in Dest /\ worker[v].at = c
      BY <3>1 DEF Serves, Dest
    <3>3. ~worker[v].posting
      BY <1>0, <1>1, ReactorAssumption DEF ThreadInv, Fits, Workers
    <3>4. Runs(v, c) /\ Runs(w, c)
      BY <1>0, <1>1, <1>6, <3>2, <3>3 DEF ThreadInv, Fits, Dest, Runs
    <3> QED BY <1>0, <1>1, <3>2, <3>4 DEF RunInv, Dest
  <2> QED BY <1>3, <2>1, <2>2 DEF Caught
<1>7. /\ \A c \in Conns : key'[c] = "valid" => key[c] = "valid"
      /\ UNCHANGED <<netVars, input, protocolVars>> /\ "post" # "authorize"
  BY <1>1, <1>3
<1>8. \A c \in Conns : key'[c] = "valid" /\ Open(c) /\ messagesQueue'[c] > 0 =>
             \/ Serves("post", None, worker[w].at, c)
             \/ /\ messagesQueue[c] > 0
                /\ Serves(worker[w].pc, worker[w].what, worker[w].at, c) =>
                     \E v \in Workers : v # w /\ Serves(worker[v].pc, worker[v].what, worker[v].at, c)
  BY <1>3, <1>4
<1>9. /\ \A c \in Conns : Open(c) /\ Caught(c) => Caught(c)'
      /\ \A c \in Conns : worker[w].task = c /\ Open(c) /\ Owes(yes, "post", None) => Caught(c)'
  BY <1>5, <1>6
<1> QED BY <1>2, <1>7, <1>8, <1>9, BusyWakes

\* A frame that is posted has its poster, the only thread in the engine, at it.
LEMMA PostWakes == ASSUME WakeInv, NEW w \in Workers, NEW d \in Conns, Post(w, d) PROVE WakeKept
<1>0. TypeOK /\ ThreadInv /\ CaughtUpInv
  BY DEF WakeInv, ControlInv
<1>1. /\ worker[w].pc = "post" /\ worker[w].posting /\ engine = w
      /\ messagesQueue' = [messagesQueue EXCEPT ![d] = @ + 1]
      /\ UNCHANGED <<netVars, channelVars, input, protocolVars>>
  BY <1>0 DEF Post, At, ThreadInv, Fits
<1>2. Moves(w, "test", worker[w].task, worker[w].what, d, worker[w].posting)
  BY <1>0, PostMoves DEF Post
<1>3. messagesQueue \in [Conns -> Nat] /\ UNCHANGED key
  BY <1>0, <1>1 DEF TypeOK, channelVars
<1>4. ASSUME NEW c \in Conns, Caught(c) PROVE Caught(c)'
  <2>1. ASSUME NEW u \in Workers, Delivers(worker[u].posting, worker[u].pc, worker[u].at, c) PROVE FALSE
    <3>1. u = w
      BY <1>0, <1>1, <2>1 DEF Delivers, ThreadInv, Fits
    <3> QED BY <1>1, <2>1, <3>1 DEF Delivers
  <2>2. messagesQueue[c] = 0
    BY <1>4, <2>1 DEF Caught
  <2>3. CASE c = d
    <3>1. messagesQueue'[c] = 1
      BY <1>1, <1>3, <2>2, <2>3
    <3>2. Delivers(worker'[w].posting, worker'[w].pc, worker'[w].at, c)
      BY <1>1, <1>2, <2>3 DEF Moves, Delivers
    <3> QED BY <3>1, <3>2 DEF Caught
  <2>4. CASE c # d
    BY <1>1, <1>3, <2>2, <2>4 DEF Caught
  <2> QED BY <2>3, <2>4
<1>5. \A c \in Conns : worker[w].task = c /\ Open(c) => Caught(c)
  BY <1>0, <1>1 DEF CaughtUpInv, Owes
<1>6. /\ \A c \in Conns : Open(c) /\ Caught(c) => Caught(c)'
      /\ \A c \in Conns : worker[w].task = c /\ Open(c) /\ Owes(worker[w].posting, "test", worker[w].what) => Caught(c)'
  BY <1>4, <1>5
<1>7. \A c \in Conns : key'[c] = "valid" /\ Open(c) /\ messagesQueue'[c] > 0 =>
             \/ Serves("test", worker[w].what, d, c)
             \/ /\ messagesQueue[c] > 0
                /\ Serves(worker[w].pc, worker[w].what, worker[w].at, c) =>
                     \E v \in Workers : v # w /\ Serves(worker[v].pc, worker[v].what, worker[v].at, c)
  BY <1>1, <1>3 DEF Serves
<1>8. /\ \A c \in Conns : key'[c] = "valid" => key[c] = "valid"
      /\ UNCHANGED <<netVars, input, protocolVars>> /\ "test" # "authorize"
  BY <1>1, <1>3
<1> QED BY <1>2, <1>6, <1>7, <1>8, BusyWakes

\* A thread goes on with the connection at hand, unless there is nothing to write.
LEMMA HandWakes ==
    ASSUME WakeInv, NEW w \in Workers,
           NEW pc, Moves(w, pc, worker[w].task, worker[w].what, worker[w].at, worker[w].posting),
           UNCHANGED <<netVars, input, protocolVars, messagesQueue>>, pc # "authorize",
           \A c \in Conns : key'[c] = "valid" => key[c] = "valid",
           pc \in {"encode", "add"} => worker[w].pc \in {"encode", "add"},
           \A c \in Conns : Open(c) /\ Delivers(worker[w].posting, worker[w].pc, worker[w].at, c) =>
             messagesQueue[c] = 0 \/ Delivers(worker[w].posting, pc, worker[w].at, c),
           \A c \in Conns : /\ key'[c] = "valid" /\ Open(c) /\ messagesQueue[c] > 0
                            /\ Serves(worker[w].pc, worker[w].what, worker[w].at, c)
                            => Serves(pc, worker[w].what, worker[w].at, c)
    PROVE  WakeKept
<1>0. CaughtUpInv
  BY DEF WakeInv
<1>1. ASSUME NEW c \in Conns, Open(c), Caught(c) PROVE Caught(c)'
  BY <1>1, CaughtStays
<1>2. \A c \in Conns : worker[w].task = c /\ Open(c) /\ Owes(worker[w].posting, pc, worker[w].what) => Caught(c)
  BY <1>0 DEF CaughtUpInv, Owes
<1>3. /\ \A c \in Conns : Open(c) /\ Caught(c) => Caught(c)'
      /\ \A c \in Conns : worker[w].task = c /\ Open(c) /\ Owes(worker[w].posting, pc, worker[w].what) => Caught(c)'
  BY <1>1, <1>2
<1>4. \A c \in Conns : key'[c] = "valid" /\ Open(c) /\ messagesQueue'[c] > 0 =>
             \/ Serves(pc, worker[w].what, worker[w].at, c)
             \/ /\ messagesQueue[c] > 0
                /\ Serves(worker[w].pc, worker[w].what, worker[w].at, c) =>
                     \E v \in Workers : v # w /\ Serves(worker[v].pc, worker[v].what, worker[v].at, c)
  OBVIOUS
<1>5. UNCHANGED <<netVars, input, protocolVars>>
  OBVIOUS
<1> QED BY <1>3, <1>4, <1>5, BusyWakes

LEMMA TestWakes == ASSUME WakeInv, NEW w \in Workers, Test(w) PROVE WakeKept
<1>0. TypeOK /\ ThreadInv
  BY DEF WakeInv, ControlInv
<1>1. /\ worker[w].pc = "test" /\ UNCHANGED <<netVars, channelVars, input, protocolVars, messagesQueue, engine>>
  BY DEF Test, At
<1>2. UNCHANGED <<netVars, input, protocolVars, messagesQueue>> /\ \A c \in Conns : key'[c] = "valid" => key[c] = "valid"
  BY <1>1 DEF channelVars
<1>3. CASE authorized[worker[w].at]
  <2>1. Moves(w, "flush", worker[w].task, worker[w].what, worker[w].at, worker[w].posting)
    BY <1>0, <1>3, GotoMoves DEF Test, WorkerPlaces
  <2>2. /\ "flush" # "authorize" /\ "flush" \notin {"encode", "add"}
        /\ \A c \in Conns : Delivers(worker[w].posting, worker[w].pc, worker[w].at, c) =>
             Delivers(worker[w].posting, "flush", worker[w].at, c)
        /\ \A c \in Conns : Serves(worker[w].pc, worker[w].what, worker[w].at, c) =>
             Serves("flush", worker[w].what, worker[w].at, c)
    BY DEF Delivers, Serves
  <2> QED BY <1>2, <2>1, <2>2, HandWakes
<1>4. CASE ~authorized[worker[w].at]
  <2>1. PICK pc \in {"post", "loop"} :
             /\ pc = IF worker[w].posting THEN "post" ELSE "loop"
             /\ Moves(w, pc, worker[w].task, worker[w].what, worker[w].at, worker[w].posting)
    BY <1>0, <1>1, <1>4, FlushDoneMoves DEF Test
  <2>2. /\ pc # "authorize" /\ pc \notin {"encode", "add"}
        /\ \A c \in Conns : ~(Open(c) /\ Delivers(worker[w].posting, worker[w].pc, worker[w].at, c))
        /\ \A c \in Conns : ~(Open(c) /\ Serves(worker[w].pc, worker[w].what, worker[w].at, c))
    BY <1>4 DEF Delivers, Serves, Open
  <2> QED BY <1>2, <2>1, <2>2, HandWakes
<1> QED BY <1>3, <1>4

LEMMA FlushWakes == ASSUME WakeInv, NEW w \in Workers, Flush(w) PROVE WakeKept
<1>0. TypeOK /\ ThreadInv
  BY DEF WakeInv, ControlInv
<1>1. /\ worker[w].pc = "flush" /\ UNCHANGED <<netVars, channelVars, input, protocolVars, messagesQueue, engine>>
  BY DEF Flush, At
<1>2. UNCHANGED <<netVars, input, protocolVars, messagesQueue>> /\ \A c \in Conns : key'[c] = "valid" => key[c] = "valid"
  BY <1>1 DEF channelVars
<1>3. CASE messagesQueue[worker[w].at] # 0
  <2>1. Moves(w, "poll", worker[w].task, worker[w].what, worker[w].at, worker[w].posting)
    BY <1>0, <1>3, GotoMoves DEF Flush, WorkerPlaces
  <2>2. /\ "poll" # "authorize" /\ "poll" \notin {"encode", "add"}
        /\ \A c \in Conns : Delivers(worker[w].posting, worker[w].pc, worker[w].at, c) =>
             Delivers(worker[w].posting, "poll", worker[w].at, c)
        /\ \A c \in Conns : Serves(worker[w].pc, worker[w].what, worker[w].at, c) =>
             Serves("poll", worker[w].what, worker[w].at, c)
    BY DEF Delivers, Serves
  <2> QED BY <1>2, <2>1, <2>2, HandWakes
<1>4. CASE messagesQueue[worker[w].at] = 0
  <2>1. PICK pc \in {"post", "loop"} :
             /\ pc = IF worker[w].posting THEN "post" ELSE "loop"
             /\ Moves(w, pc, worker[w].task, worker[w].what, worker[w].at, worker[w].posting)
    BY <1>0, <1>1, <1>4, FlushDoneMoves DEF Flush
  <2>2. /\ pc # "authorize" /\ pc \notin {"encode", "add"}
        /\ \A c \in Conns : Delivers(worker[w].posting, worker[w].pc, worker[w].at, c) => messagesQueue[c] = 0
        /\ \A c \in Conns : Serves(worker[w].pc, worker[w].what, worker[w].at, c) => ~(messagesQueue[c] > 0)
    BY <1>4 DEF Delivers, Serves
  <2> QED BY <1>2, <2>1, <2>2, HandWakes
<1> QED BY <1>3, <1>4

\* An exception is no harm where nothing is queued or another thread will write it.
LEMMA ThrowWakes ==
    ASSUME WakeInv, NEW w \in Workers, Throw(w), UNCHANGED <<netVars, input, protocolVars, messagesQueue>>,
           \A c \in Conns : key'[c] = "valid" => key[c] = "valid",
           \A c \in Conns : Delivers(worker[w].posting, worker[w].pc, worker[w].at, c) => messagesQueue[c] = 0,
           \A c \in Conns : /\ key'[c] = "valid" /\ Open(c) /\ messagesQueue[c] > 0
                            /\ Serves(worker[w].pc, worker[w].what, worker[w].at, c)
                            => \E v \in Workers : v # w /\ Serves(worker[v].pc, worker[v].what, worker[v].at, c)
    PROVE  WakeKept
<1>0. TypeOK /\ CaughtUpInv
  BY DEF WakeInv, ControlInv
<1>a. PICK no : no = FALSE
  OBVIOUS
<1>1. CASE worker[w].posting
  <2>1. Moves(w, "encode", worker[w].task, "ERROR", worker[w].task, no)
    BY <1>0, <1>a, <1>1, ThrowMoves
  <2>2. ASSUME NEW c \in Conns, Caught(c) PROVE Caught(c)'
    BY <2>1, <2>2, CaughtStays
  <2>3. \A c \in Conns : worker[w].task = c /\ Open(c) => Caught(c)
    BY <1>0, <1>1 DEF CaughtUpInv, Owes
  <2>4. /\ \A c \in Conns : Open(c) /\ Caught(c) => Caught(c)'
        /\ \A c \in Conns : worker[w].task = c /\ Open(c) /\ Owes(no, "encode", "ERROR") => Caught(c)'
    BY <2>2, <2>3
  <2>5. \A c \in Conns : key'[c] = "valid" /\ Open(c) /\ messagesQueue'[c] > 0 =>
             \/ Serves("encode", "ERROR", worker[w].task, c)
             \/ /\ messagesQueue[c] > 0
                /\ Serves(worker[w].pc, worker[w].what, worker[w].at, c) =>
                     \E v \in Workers : v # w /\ Serves(worker[v].pc, worker[v].what, worker[v].at, c)
    OBVIOUS
  <2>6. UNCHANGED <<netVars, input, protocolVars>> /\ "encode" # "authorize"
    OBVIOUS
  <2> QED BY <2>1, <2>4, <2>5, <2>6, BusyWakes
<1>2. CASE ~worker[w].posting
  <2>1. Moves(w, "idle", None, None, None, no)
    BY <1>0, <1>a, <1>2, ThrowMoves
  <2>2. ASSUME NEW c \in Conns, Caught(c) PROVE Caught(c)'
    BY <2>1, <2>2, CaughtStays
  <2>3. ~Owes(no, "idle", None)
    BY <1>a DEF Owes
  <2>4. /\ \A c \in Conns : Open(c) /\ Caught(c) => Caught(c)'
        /\ \A c \in Conns : None = c /\ Open(c) /\ Owes(no, "idle", None) => Caught(c)'
    BY <2>2, <2>3
  <2>5. \A c \in Conns : key'[c] = "valid" /\ Open(c) /\ messagesQueue'[c] > 0 =>
             \/ Serves("idle", None, None, c)
             \/ /\ messagesQueue[c] > 0
                /\ Serves(worker[w].pc, worker[w].what, worker[w].at, c) =>
                     \E v \in Workers : v # w /\ Serves(worker[v].pc, worker[v].what, worker[v].at, c)
    OBVIOUS
  <2>6. UNCHANGED <<netVars, input, protocolVars>> /\ "idle" # "authorize"
    OBVIOUS
  <2> QED BY <2>1, <2>4, <2>5, <2>6, BusyWakes
<1> QED BY <1>1, <1>2

LEMMA PollWakes == ASSUME WakeInv, NEW w \in Workers, Poll(w) PROVE WakeKept
<1>0. TypeOK /\ ThreadInv /\ CaughtUpInv
  BY DEF WakeInv, ControlInv
<1>1. /\ worker[w].pc = "poll" /\ worker[w].at \in Conns
      /\ UNCHANGED <<netVars, channelVars, input, protocolVars>>
  BY <1>0 DEF Poll, At, ThreadInv, Fits, Dest
<1>2. /\ UNCHANGED <<netVars, input, protocolVars>> /\ "encode" # "authorize"
      /\ \A c \in Conns : key'[c] = "valid" => key[c] = "valid"
  BY <1>1 DEF channelVars
<1>3. CASE messagesQueue[worker[w].at] = 0
  <2>1. Throw(w) /\ UNCHANGED messagesQueue
    BY <1>3 DEF Poll
  <2>2. /\ \A c \in Conns : Delivers(worker[w].posting, worker[w].pc, worker[w].at, c) => messagesQueue[c] = 0
        /\ \A c \in Conns : Serves(worker[w].pc, worker[w].what, worker[w].at, c) => ~(messagesQueue[c] > 0)
    BY <1>3 DEF Delivers, Serves
  <2>3. UNCHANGED <<netVars, input, protocolVars, messagesQueue>>
    BY <1>2, <2>1
  <2> QED BY <1>2, <2>1, <2>2, <2>3, ThrowWakes
<1>4. CASE messagesQueue[worker[w].at] # 0
  <2>1. Moves(w, "encode", worker[w].task, "MESSAGE", worker[w].at, worker[w].posting)
    BY <1>0, <1>4, FrameMoves DEF Poll, WorkerPlaces, Answers
  <2>2. /\ messagesQueue \in [Conns -> Nat]
        /\ messagesQueue' = [messagesQueue EXCEPT ![worker[w].at] = @ - 1]
    BY <1>0, <1>4 DEF TypeOK, Poll
  <2>3. ASSUME NEW c \in Conns, Caught(c) PROVE Caught(c)'
    <3>1. CASE c = worker[w].at
      <4>1. messagesQueue[c] = 1
        BY <1>4, <2>3, <3>1 DEF Caught
      <4>2. messagesQueue'[c] = 0
        BY <2>2, <3>1, <4>1
      <4> QED BY <4>2 DEF Caught
    <3>2. CASE c # worker[w].at
      <4>1. messagesQueue'[c] = messagesQueue[c]
        BY <2>2, <3>2
      <4>2. CASE messagesQueue[c] = 0
        BY <4>1, <4>2 DEF Caught
      <4>3. CASE messagesQueue[c] # 0
        <5>1. PICK u \in Workers : Delivers(worker[u].posting, worker[u].pc, worker[u].at, c)
          BY <2>3, <4>3 DEF Caught
        <5>2. u # w
          BY <3>2, <5>1 DEF Delivers
        <5>3. worker'[u] = worker[u] /\ messagesQueue[c] = 1
          BY <2>1, <2>3, <4>3, <5>2 DEF Moves, Caught
        <5> QED BY <4>1, <5>1, <5>3 DEF Caught
      <4> QED BY <4>2, <4>3
    <3> QED BY <3>1, <3>2
  <2>4. \A c \in Conns : worker[w].task = c /\ Open(c) /\ Owes(worker[w].posting, "encode", "MESSAGE") => Caught(c)
    BY <1>0 DEF CaughtUpInv, Owes
  <2>5. /\ \A c \in Conns : Open(c) /\ Caught(c) => Caught(c)'
        /\ \A c \in Conns : worker[w].task = c /\ Open(c) /\ Owes(worker[w].posting, "encode", "MESSAGE") => Caught(c)'
    BY <2>3, <2>4
  <2>6. \A c \in Conns : key'[c] = "valid" /\ Open(c) /\ messagesQueue'[c] > 0 =>
             \/ Serves("encode", "MESSAGE", worker[w].at, c)
             \/ /\ messagesQueue[c] > 0
                /\ Serves(worker[w].pc, worker[w].what, worker[w].at, c) =>
                     \E v \in Workers : v # w /\ Serves(worker[v].pc, worker[v].what, worker[v].at, c)
    BY <2>2 DEF Serves
  <2> QED BY <1>2, <2>1, <2>5, <2>6, BusyWakes
<1> QED BY <1>3, <1>4

\* An exception in the encoder, which another thread is in: that one is a writer,
\* or answers a client that has left, or one that has caught up.
LEMMA EncodeWakes == ASSUME WakeInv, NEW w \in Workers, Encode(w) PROVE WakeKept
<1>0. TypeOK /\ ThreadInv /\ CaughtUpInv /\ ReceiptInv
  BY DEF WakeInv, ControlInv
<1>1. /\ worker[w].pc = "encode" /\ worker[w].at \in Conns
      /\ UNCHANGED <<netVars, channelVars, messagesQueue, input, protocolVars>>
  BY <1>0 DEF Encode, At, ThreadInv, Fits, Dest
<1>2. UNCHANGED <<netVars, input, protocolVars, messagesQueue>> /\ \A c \in Conns : key'[c] = "valid" => key[c] = "valid"
  BY <1>1 DEF channelVars
<1>3. \A c \in Conns : ~Delivers(worker[w].posting, worker[w].pc, worker[w].at, c)
  BY <1>1 DEF Delivers
<1>4. CASE Goto(w, "add")
  <2>1. Moves(w, "add", worker[w].task, worker[w].what, worker[w].at, worker[w].posting)
    BY <1>0, <1>4, GotoMoves DEF WorkerPlaces
  <2>2. /\ "add" # "authorize" /\ worker[w].pc \in {"encode", "add"}
        /\ \A c \in Conns : Serves(worker[w].pc, worker[w].what, worker[w].at, c) =>
             Serves("add", worker[w].what, worker[w].at, c)
    BY <1>1 DEF Serves
  <2> QED BY <1>2, <1>3, <2>1, <2>2, HandWakes
<1>5. CASE Throw(w) /\ \E v \in Workers \ {w} : At(v, "encode") /\ worker[v].at = worker[w].at
  <2>1. PICK v \in Workers : v # w /\ worker[v].pc = "encode" /\ worker[v].at = worker[w].at
    BY <1>5 DEF At
  <2> DEFINE c == worker[w].at
  <2>2. ASSUME Open(c), messagesQueue[c] > 0
        PROVE  \E u \in Workers : u # w /\ Serves(worker[u].pc, worker[u].what, worker[u].at, c)
    <3>1. CASE worker[v].what \in {"MESSAGE", "CONNECTED"}
      BY <2>1, <3>1 DEF Serves
    <3>2. CASE worker[v].what = "RECEIPT"
      BY <1>0, <2>1, <2>2, <3>2 DEF ReceiptInv, Open
    <3>3. CASE worker[v].what = "ERROR"
      <4>1. worker[v].task = c
        BY <1>0, <2>1, <3>3 DEF ThreadInv, Fits, Dest
      <4>2. Caught(c)
        BY <1>0, <1>1, <2>1, <2>2, <3>3, <4>1 DEF CaughtUpInv, Owes
      <4>3. PICK u \in Workers : Delivers(worker[u].posting, worker[u].pc, worker[u].at, c)
        BY <2>2, <4>2 DEF Caught
      <4>4. u # w
        BY <1>1, <4>3 DEF Delivers
      <4> QED BY <4>3, <4>4 DEF Delivers, Serves
    <3>4. worker[v].what \in Answers
      BY <1>0, <2>1 DEF ThreadInv, Fits
    <3> QED BY <3>1, <3>2, <3>3, <3>4 DEF Answers
  <2>3. \A d \in Conns : /\ key'[d] = "valid" /\ Open(d) /\ messagesQueue[d] > 0
                         /\ Serves(worker[w].pc, worker[w].what, worker[w].at, d)
                         => \E u \in Workers : u # w /\ Serves(worker[u].pc, worker[u].what, worker[u].at, d)
    BY <2>2 DEF Serves
  <2> QED BY <1>2, <1>3, <1>5, <2>3, ThrowWakes
<1> QED BY <1>4, <1>5 DEF Encode

LEMMA AddWakes == ASSUME WakeInv, NEW w \in Workers, Add(w) PROVE WakeKept
<1>0. TypeOK /\ ThreadInv
  BY DEF WakeInv, ControlInv
<1>1. /\ worker[w].pc = "add" /\ worker[w].at \in Conns
      /\ UNCHANGED <<netVars, messagesQueue, input, protocolVars, key>>
  BY <1>0 DEF Add, At, ThreadInv, Fits, Dest, AddOutData
<1>2. UNCHANGED <<netVars, input, protocolVars, messagesQueue>> /\ \A c \in Conns : key'[c] = "valid" => key[c] = "valid"
  BY <1>1
<1>3. \A c \in Conns : ~Delivers(worker[w].posting, worker[w].pc, worker[w].at, c)
  BY <1>1 DEF Delivers
<1>4. CASE key[worker[w].at] = "cancelled"
  <2>1. Throw(w)
    BY <1>4 DEF Add
  <2>2. \A c \in Conns : ~(Open(c) /\ Serves(worker[w].pc, worker[w].what, worker[w].at, c))
    BY <1>4 DEF Open, Serves
  <2> QED BY <1>2, <1>3, <2>1, <2>2, ThrowWakes
<1>5. CASE key[worker[w].at] # "cancelled"
  <2>1. CASE worker[w].what = "MESSAGE"
    <3>1. Moves(w, "write", worker[w].task, worker[w].what, worker[w].at, worker[w].posting)
      BY <1>0, <1>5, <2>1, GotoMoves DEF Add, WorkerPlaces
    <3>2. /\ "write" # "authorize" /\ "write" \notin {"encode", "add"}
          /\ \A c \in Conns : Serves(worker[w].pc, worker[w].what, worker[w].at, c) =>
               Serves("write", worker[w].what, worker[w].at, c)
      BY DEF Serves
    <3> QED BY <1>2, <1>3, <3>1, <3>2, HandWakes
  <2>2. CASE worker[w].what = "CONNECTED"
    <3>1. Moves(w, "test", worker[w].task, worker[w].what, worker[w].at, worker[w].posting)
      BY <1>0, <1>5, <2>2, GotoMoves DEF Add, WorkerPlaces
    <3>2. /\ "test" # "authorize" /\ "test" \notin {"encode", "add"}
          /\ \A c \in Conns : Serves(worker[w].pc, worker[w].what, worker[w].at, c) =>
               Serves("test", worker[w].what, worker[w].at, c)
      BY DEF Serves
    <3> QED BY <1>2, <1>3, <3>1, <3>2, HandWakes
  <2>3. CASE worker[w].what \notin {"MESSAGE", "CONNECTED"}
    <3>1. Moves(w, "loop", worker[w].task, worker[w].what, worker[w].at, worker[w].posting)
      BY <1>0, <1>5, <2>3, GotoMoves DEF Add, WorkerPlaces
    <3>2. /\ "loop" # "authorize" /\ "loop" \notin {"encode", "add"}
          /\ \A c \in Conns : ~Serves(worker[w].pc, worker[w].what, worker[w].at, c)
      BY <1>1, <2>3 DEF Serves
    <3> QED BY <1>2, <1>3, <3>1, <3>2, HandWakes
  <2> QED BY <2>1, <2>2, <2>3
<1> QED BY <1>4, <1>5

LEMMA WorkerWriteWakes ==
    ASSUME WakeInv, NEW w \in Workers, NEW whole \in BOOLEAN, WorkerWrite(w, whole) PROVE WakeKept
<1>0. TypeOK /\ ThreadInv /\ ControlInv
  BY DEF WakeInv, ControlInv
<1>1. /\ worker[w].pc = "write" /\ worker[w].at \in Conns
      /\ UNCHANGED <<netVars, messagesQueue, input, protocolVars>>
  BY <1>0 DEF WorkerWrite, At, ThreadInv, Fits, Dest
<1>2. UNCHANGED <<netVars, input, protocolVars, messagesQueue>>
  BY <1>1
<1>3. \A c \in Conns : ~Delivers(worker[w].posting, worker[w].pc, worker[w].at, c)
  BY <1>1 DEF Delivers
<1>4. CASE WriteThrows(worker[w].at) /\ Throw(w) /\ UNCHANGED channelVars
  <2>1. \A c \in Conns : ~(Open(c) /\ Serves(worker[w].pc, worker[w].what, worker[w].at, c))
    BY <1>4 DEF Open, Serves, WriteThrows
  <2>2. \A c \in Conns : key'[c] = "valid" => key[c] = "valid"
    BY <1>4 DEF channelVars
  <2> QED BY <1>2, <1>3, <1>4, <2>1, <2>2, ThrowWakes
<1>5. CASE (Write(worker[w].at, whole) \/ WriteInVain(worker[w].at)) /\ Goto(w, "flush")
  <2>1. Moves(w, "flush", worker[w].task, worker[w].what, worker[w].at, worker[w].posting)
    BY <1>0, <1>5, GotoMoves DEF WorkerPlaces
  <2>2. /\ "flush" # "authorize" /\ "flush" \notin {"encode", "add"}
        /\ \A c \in Conns : Serves(worker[w].pc, worker[w].what, worker[w].at, c) =>
             Serves("flush", worker[w].what, worker[w].at, c)
    BY DEF Serves
  <2>3. \A c \in Conns : key'[c] = "valid" => key[c] = "valid"
    <3>1. OutputMoves
      BY <1>0, <1>1, <1>5, WriteMoves
    <3>2. \A c \in Conns : key[c] \in {"none", "valid", "cancelled"}
      BY <1>0 DEF TypeOK
    <3> QED BY <3>1, <3>2 DEF OutputMoves
  <2> QED BY <1>2, <1>3, <2>1, <2>2, <2>3, HandWakes
<1> QED BY <1>4, <1>5 DEF WorkerWrite

-----------------------------------------------------------------------------
(* The selector thread and the theorem                                     *)

\* Where the frames of a wire are after its first n were taken off.
LEMMA CutSequence ==
    ASSUME NEW s \in Seq(Frames), NEW n \in Nat, n >= 1, n <= Len(s)
    PROVE  /\ SubSeq(s, 1, n) \in Seq(Frames)
           /\ Len(SubSeq(s, 1, n)) = n
           /\ \A i \in 1..n : SubSeq(s, 1, n)[i] = s[i]
           /\ SubSeq(s, n + 1, Len(s)) \in Seq(Frames)
           /\ Len(SubSeq(s, n + 1, Len(s))) = Len(s) - n
           /\ \A i \in 1..(Len(s) - n) : SubSeq(s, n + 1, Len(s))[i] = s[n + i]
<1>0. Len(s) \in Nat
  OBVIOUS
<1>1. SubSeq(s, 1, n) \in Seq(Frames)
  BY <1>0
<1>2. Len(SubSeq(s, 1, n)) = n
  BY <1>0
<1>3. ASSUME NEW i \in 1..n PROVE SubSeq(s, 1, n)[i] = s[i]
  BY <1>0, <1>3
<1>4. SubSeq(s, n + 1, Len(s)) \in Seq(Frames)
  BY <1>0
<1>5. Len(SubSeq(s, n + 1, Len(s))) = Len(s) - n
  BY <1>0
<1>6. ASSUME NEW i \in 1..(Len(s) - n) PROVE SubSeq(s, n + 1, Len(s))[i] = s[n + i]
  BY <1>0, <1>6
<1> QED BY <1>1, <1>2, <1>3, <1>4, <1>5, <1>6

\* Where the frames of two sequences are when one is appended to the other.
LEMMA JoinSequence ==
    ASSUME NEW s \in Seq(Frames), NEW t \in Seq(Frames)
    PROVE  /\ s \o t \in Seq(Frames)
           /\ Len(s \o t) = Len(s) + Len(t)
           /\ \A i \in 1..Len(s) : (s \o t)[i] = s[i]
           /\ \A i \in (Len(s) + 1)..(Len(s) + Len(t)) : (s \o t)[i] = t[i - Len(s)]
<1>0. Len(s) \in Nat /\ Len(t) \in Nat
  OBVIOUS
<1>1. s \o t \in Seq(Frames)
  OBVIOUS
<1>2. Len(s \o t) = Len(s) + Len(t)
  OBVIOUS
<1>3. ASSUME NEW i \in 1..Len(s) PROVE (s \o t)[i] = s[i]
  BY <1>0, <1>3
<1>4. ASSUME NEW i \in (Len(s) + 1)..(Len(s) + Len(t)) PROVE (s \o t)[i] = t[i - Len(s)]
  BY <1>0, <1>4
<1> QED BY <1>1, <1>2, <1>3, <1>4

\* Reading only takes frames from the wire to the tokenizer.
LEMMA ReadConnects ==
    ASSUME TypeOK, ConnectInv, NEW c \in Conns, NEW n \in 1..Len(wire[c]), UNCHANGED <<worker, authorized>>,
           wire' = [wire EXCEPT ![c] = SubSeq(@, n + 1, Len(@))],
           input' = [input EXCEPT ![c] = @ \o SubSeq(wire[c], 1, n)]
    PROVE  ConnectInv'
<1> DEFINE m == Len(input[c])
           l == Len(wire[c])
           new == SubSeq(wire[c], 1, n)
           rest == SubSeq(wire[c], n + 1, l)
           all == input[c] \o new
<1>1. /\ wire[c] \in Seq(Frames) /\ input[c] \in Seq(Frames) /\ l \in Nat /\ m \in Nat /\ n \in Nat /\ n <= l /\ n >= 1
  BY DEF TypeOK
<1>2. /\ new \in Seq(Frames) /\ Len(new) = n /\ \A i \in 1..n : new[i] = wire[c][i]
      /\ rest \in Seq(Frames) /\ Len(rest) = l - n /\ \A i \in 1..(l - n) : rest[i] = wire[c][n + i]
  BY <1>1, CutSequence
<1>3. /\ all \in Seq(Frames) /\ Len(all) = m + n
      /\ \A i \in 1..m : all[i] = input[c][i]
      /\ \A i \in (m + 1)..(m + n) : all[i] = new[i - m]
  <2>1. new \in Seq(Frames) /\ Len(new) = n
    BY <1>2
  <2> HIDE DEF new
  <2> QED BY <1>1, <2>1, JoinSequence
<1>4. ASSUME NEW i \in DOMAIN all, all[i] = "CONNECT"
      PROVE  \/ i \in DOMAIN input[c] /\ input[c][i] = "CONNECT"
             \/ i - m \in DOMAIN wire[c] /\ i - m <= n /\ wire[c][i - m] = "CONNECT" /\ i \in Nat
  <2>1. i \in 1..(m + n) /\ DOMAIN input[c] = 1..m /\ DOMAIN wire[c] = 1..l
    BY <1>1, <1>3
  <2>2. CASE i <= m
    <3>1. i \in 1..m
      BY <1>1, <2>1, <2>2
    <3> HIDE DEF all, new, m, l
    <3> QED BY <1>3, <1>4, <2>1, <3>1
  <2>3. CASE i > m
    <3>1. i \in (m + 1)..(m + n) /\ i - m \in 1..n /\ i - m \in 1..l /\ i - m <= n /\ i \in Nat
      BY <1>1, <2>1, <2>3
    <3> HIDE DEF all, new, m, l
    <3> QED BY <1>2, <1>3, <1>4, <2>1, <3>1
  <2> QED BY <1>1, <2>1, <2>2, <2>3
<1>5. ASSUME NEW i \in DOMAIN rest, rest[i] = "CONNECT"
      PROVE  n + i \in DOMAIN wire[c] /\ wire[c][n + i] = "CONNECT" /\ i \in Nat /\ i >= 1
  <2>1. i \in 1..(l - n) /\ DOMAIN wire[c] = 1..l
    BY <1>1, <1>2
  <2> HIDE DEF rest, l
  <2> QED BY <1>1, <1>2, <1>5, <2>1
<1>6. /\ OnlyOne(input[c]) /\ OnlyOne(wire[c]) /\ ~(HasConnect(input[c]) /\ HasConnect(wire[c]))
      /\ Connected(c) => ~HasConnect(input[c]) /\ ~HasConnect(wire[c])
  BY DEF ConnectInv
<1> HIDE DEF all, new, rest, m, l
<1>7. OnlyOne(all)
  <2> SUFFICES ASSUME NEW i \in DOMAIN all, NEW j \in DOMAIN all, all[i] = "CONNECT", all[j] = "CONNECT" PROVE i = j
    BY DEF OnlyOne
  <2>1. CASE HasConnect(input[c])
    BY <1>4, <1>6, <2>1 DEF HasConnect, OnlyOne
  <2>2. CASE ~HasConnect(input[c])
    <3>1. /\ i - m \in DOMAIN wire[c] /\ wire[c][i - m] = "CONNECT" /\ i \in Nat
          /\ j - m \in DOMAIN wire[c] /\ wire[c][j - m] = "CONNECT" /\ j \in Nat
      BY <1>4, <2>2 DEF HasConnect
    <3>2. i - m = j - m
      BY <1>6, <3>1 DEF OnlyOne
    <3> QED BY <1>1, <3>1, <3>2
  <2> QED BY <2>1, <2>2
<1>8. OnlyOne(rest)
  <2> SUFFICES ASSUME NEW i \in DOMAIN rest, NEW j \in DOMAIN rest, rest[i] = "CONNECT", rest[j] = "CONNECT" PROVE i = j
    BY DEF OnlyOne
  <2>1. n + i = n + j /\ i \in Nat /\ j \in Nat
    BY <1>5, <1>6 DEF OnlyOne
  <2> QED BY <1>1, <2>1
<1>9. ~(HasConnect(all) /\ HasConnect(rest))
  <2> SUFFICES ASSUME NEW i \in DOMAIN all, all[i] = "CONNECT", NEW j \in DOMAIN rest, rest[j] = "CONNECT" PROVE FALSE
    BY DEF HasConnect
  <2>1. n + j \in DOMAIN wire[c] /\ wire[c][n + j] = "CONNECT" /\ j \in Nat /\ j >= 1
    BY <1>5
  <2>2. HasConnect(wire[c]) /\ ~HasConnect(input[c])
    BY <1>6, <2>1 DEF HasConnect
  <2>3. i - m \in DOMAIN wire[c] /\ i - m <= n /\ wire[c][i - m] = "CONNECT" /\ i \in Nat
    BY <1>4, <2>2 DEF HasConnect
  <2>4. i - m = n + j
    BY <1>6, <2>1, <2>3 DEF OnlyOne
  <2> QED BY <1>1, <2>1, <2>3, <2>4
<1>10. HasConnect(all) \/ HasConnect(rest) => HasConnect(input[c]) \/ HasConnect(wire[c])
  BY <1>4, <1>5 DEF HasConnect
<1>11. /\ input'[c] = all /\ wire'[c] = rest
       /\ \A d \in Conns : d # c => input'[d] = input[d] /\ wire'[d] = wire[d]
  BY DEF TypeOK, all, new, rest, l
<1>12. \A d \in Conns : Connected(d)' => Connected(d)
  BY DEF Connected, Runs
<1> QED BY <1>6, <1>7, <1>8, <1>9, <1>10, <1>11, <1>12 DEF ConnectInv

LEMMA SelectorWakes == ASSUME WakeInv, SelectorStep PROVE WakeKept
<1>0. ControlInv /\ TypeOK /\ AcceptedInv /\ ConnectInv /\ CaughtUpInv /\ QueuedHasWriter
  BY DEF WakeInv, ControlInv
<1>1. UNCHANGED <<messagesQueue, worker>>
  BY DEF SelectorStep, Accept, Select, Read, ReadNothing, ReadEof, Eof, EofLogout, SelWrite, SelectorDies, SelectorEnds
<1>2. \A c \in Conns : authorized'[c] => authorized[c]
  <2>1. CASE EofLogout
    BY <1>0, <2>1 DEF EofLogout, protocolVars, TypeOK
  <2>2. CASE ~EofLogout
    <3>1. UNCHANGED authorized
      BY <2>2 DEF SelectorStep, Accept, Select, Read, ReadNothing, ReadEof, Eof, SelWrite, SelectorDies, SelectorEnds,
                  protocolVars
    <3> QED BY <3>1
  <2> QED BY <2>1, <2>2
<1>3. \A c \in Conns : Open(c)' => Open(c)
  <2> SUFFICES ASSUME NEW c \in Conns, key'[c] = "valid", authorized[c] PROVE key[c] = "valid"
    BY <1>2 DEF Open
  <2>1. key[c] # "none" /\ key[c] \in {"none", "valid", "cancelled"}
    BY <1>0 DEF AcceptedInv, TypeOK
  <2>2. CASE \E d \in Conns : Accept(d)
    BY <1>0, <2>1, <2>2 DEF Accept, TypeOK
  <2>3. CASE \E whole \in BOOLEAN : SelWrite(whole)
    <3>1. PICK whole \in BOOLEAN : SelWrite(whole)
      BY <2>3
    <3>2. selector.key \in Conns /\ (Write(selector.key, whole) \/ WriteInVain(selector.key))
      BY <1>0, <3>1, SelectorAt DEF SelWrite, SelAt
    <3>3. OutputMoves
      BY <1>0, <3>2, WriteMoves
    <3> QED BY <2>1, <3>3 DEF OutputMoves
  <2>4. CASE ReadEof
    BY <1>0, <2>1, <2>4 DEF ReadEof, TypeOK
  <2>5. CASE ~ReadEof /\ (~\E d \in Conns : Accept(d)) /\ ~\E whole \in BOOLEAN : SelWrite(whole)
    BY <2>5 DEF SelectorStep, Select, Read, ReadNothing, Eof, EofLogout, SelectorDies, SelectorEnds, channelVars
  <2> QED BY <2>2, <2>3, <2>4, <2>5
<1>4. CaughtUpInv'
  <2>1. \A c \in Conns : Caught(c) => Caught(c)'
    BY <1>1 DEF Caught
  <2> QED BY <1>0, <1>1, <1>3, <2>1 DEF CaughtUpInv
<1>5. QueuedHasWriter'
  <2>1. ASSUME NEW c \in Conns, Open(c)', messagesQueue'[c] > 0
        PROVE  \E w \in Workers : Serves(worker'[w].pc, worker'[w].what, worker'[w].at, c)
    BY <1>0, <1>1, <1>3, <2>1, WriterServes
  <2> QED BY <2>1 DEF QueuedHasWriter, Open, Serves
<1>6. ConnectInv'
  <2>1. CASE Read
    <3>1. selector.key \in Conns /\ UNCHANGED <<worker, authorized>>
      BY <1>0, <2>1, SelectorAt DEF Read, SelAt, protocolVars
    <3>2. PICK n \in 1..Len(wire[selector.key]) :
            /\ wire' = [wire EXCEPT ![selector.key] = SubSeq(@, n + 1, Len(@))]
            /\ input' = [input EXCEPT ![selector.key] = @ \o SubSeq(wire[selector.key], 1, n)]
      BY <2>1 DEF Read
    <3> QED BY <1>0, <3>1, <3>2, ReadConnects
  <2>2. CASE ~Read
    <3>1. UNCHANGED <<wire, input>>
      BY <2>2 DEF SelectorStep, Accept, Select, ReadNothing, ReadEof, Eof, EofLogout, SelWrite, SelectorDies, SelectorEnds,
                  netVars
    <3>2. \A c \in Conns : Connected(c)' => Connected(c)
      BY <1>1, <1>2 DEF Connected, Runs
    <3> QED BY <1>0, <3>1, <3>2 DEF ConnectInv
  <2> QED BY <2>1, <2>2
<1> QED BY <1>4, <1>5, <1>6 DEF WakeKept

LEMMA InitWake == LogInOnce /\ Init => WakeInv
<1> SUFFICES ASSUME LogInOnce, Init PROVE WakeInv
  OBVIOUS
<1>1. ControlInv /\ TypeOK
  BY InitControl DEF ControlInv
<1>2. \A c \in Conns : messagesQueue[c] = 0 /\ input[c] = <<>> /\ wire[c] \in Scripts[c]
  BY DEF Init
<1>3. CaughtUpInv /\ QueuedHasWriter
  BY <1>2 DEF CaughtUpInv, Caught, QueuedHasWriter
<1>4. ConnectInv
  <2>1. \A c \in Conns : Connected(c) => c \in LoggedIn
    BY DEF Connected, Init, Runs, Idle
  <2>2. ~HasConnect(<<>>) /\ OnlyOne(<<>>)
    BY DEF HasConnect, OnlyOne
  <2> QED BY <1>2, <2>1, <2>2 DEF ConnectInv, LogInOnce
<1> QED BY <1>1, <1>3, <1>4 DEF WakeInv

LEMMA StepWake == WakeInv /\ [Next]_vars => WakeInv'
<1> SUFFICES ASSUME WakeInv, [Next]_vars PROVE WakeInv'
  OBVIOUS
<1>1. ControlInv'
  BY StepControl DEF WakeInv
<1>2. WakeKept
  <2>1. CASE SelectorStep
    BY <2>1, SelectorWakes
  <2>2. ASSUME NEW w \in Workers, WorkerStep(w) PROVE WakeKept
    <3>1. CASE TakeTask(w) \/ LockTask(w) \/ NextMessage(w) \/ Authorize(w) \/ Logout(w)
      BY <3>1, TakeTaskWakes, NextMessageWakes, AuthorizeWakes, LogoutWakes
    <3>2. CASE EnterSend(w) \/ EnterStop(w) \/ AwaitTimesOut(w) \/ (\E d \in Conns : Post(w, d)) \/ PostDone(w)
      BY <3>2, EnterSendWakes, EnterStopWakes, PostWakes
    <3>3. CASE Test(w) \/ Flush(w) \/ Poll(w) \/ Encode(w) \/ Add(w) \/ (\E whole \in BOOLEAN : WorkerWrite(w, whole))
      BY <3>3, TestWakes, FlushWakes, PollWakes, EncodeWakes, AddWakes, WorkerWriteWakes
    <3> QED BY <2>2, <3>1, <3>2, <3>3 DEF WorkerStep
  <2>3. CASE UNCHANGED vars
    <3>1. UNCHANGED <<key, messagesQueue, worker, authorized, wire, input>>
      BY <2>3 DEF vars, netVars, channelVars, protocolVars
    <3>2. CaughtUpInv' /\ QueuedHasWriter'
      BY <3>1 DEF WakeInv, CaughtUpInv, Open, Caught, QueuedHasWriter
    <3>3. ConnectInv'
      BY <3>1 DEF WakeInv, ConnectInv, Connected, Runs
    <3> QED BY <3>2, <3>3 DEF WakeKept
  <2> QED BY <2>1, <2>2, <2>3 DEF Next
<1> QED BY <1>1, <1>2 DEF WakeInv, WakeKept

\* No wakeup is lost between the thread that posts a message, which queues it and
\* then tests isAuthorized, and the client's own, which sets currentUser and then
\* flushes, in spite of exceptions in the encoder that both share: messages queued
\* for an open connection always have a thread that will write them
\* (ConnectionHandler.sendMessage and flushMessages, StompProtocol.connect).
THEOREM QueuedHasWriterHolds == LogInOnce => (Spec => []QueuedHasWriter)
<1>1. WakeInv => QueuedHasWriter
  BY DEF WakeInv
<1> QED BY <1>1, InitWake, StepWake, PTL DEF Spec
=============================================================================
