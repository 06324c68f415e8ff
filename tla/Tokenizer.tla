----------------------------- MODULE Tokenizer -----------------------------
(***************************************************************************)
(* From bytes to frames in the reactor server: the selector thread reads   *)
(* pieces of one connection's stream and hands each to the pool, whose     *)
(* threads decode them and take frames off.  Reads cut the stream anywhere,*)
(* also inside a character.                                                *)
(*                                                                         *)
(* Reactor treats a frame as the unit of input; this module is what lies   *)
(* beneath: StompFrameTokenizer, ConnectionHandler.read's calls of addBytes*)
(* and execute, and the loop of ProtocolTask.run.                          *)
(*                                                                         *)
(* The names that every module has begin with Tokenizer here, so that one  *)
(* module can extend this one and ThreadServer (ConnectionProofs).         *)
(***************************************************************************)
EXTENDS Integers, Sequences

Pieces == INSTANCE SequencesExt

CONSTANTS
    Frames,     \* the frames' texts
    Wide,       \* those with a character of two bytes
    Sent,       \* the frames that the client sends, in order
    PoolSize    \* the number of threads of the pool

ASSUME TokenizerAssumption ==
    /\ Wide \subseteq Frames
    /\ Sent \in Seq(Frames)
    /\ PoolSize \in Nat \ {0}

Workers == 1..PoolSize
Bytes == Frames \X {"text", "lead", "trail", "end"}

\* The bytes of a frame: its text, the two bytes of a wide character, the
\* delimiter.
Text(f) == << <<f, "text">> >> \o (IF f \in Wide THEN << <<f, "lead">>, <<f, "trail">> >> ELSE <<>>)
FrameBytes(f) == Append(Text(f), <<f, "end">>)
Stream(fs) == Pieces!FlattenSeq([i \in DOMAIN fs |-> FrameBytes(fs[i])])

VARIABLES
    wire,       \* bytes sent and not read
    buffers,    \* _buffers: the pieces that were read and not decoded
    stringBuf,  \* _stringBuf: decoded characters, one byte each but for the wide ones
    queued,     \* how many times the task is in the executor's queue
    worker,     \* where the pool's threads are
    taken       \* the messages handed to the protocol

tokenizerVars == <<wire, buffers, stringBuf, queued, worker, taken>>

\* Buffers hold bytes, the threads are in run, and tasks are counted.
TokenizerTypeOK ==
    /\ wire \in Seq(Bytes)
    /\ buffers \in Seq(Seq(Bytes))
    /\ stringBuf \in Seq(Bytes)
    /\ queued \in Nat
    /\ worker \in [Workers -> {"idle", "lock", "has", "next", "leave"}]
    /\ taken \in Seq(Seq(Bytes))

TokenizerInit ==
    /\ wire = Stream(Sent)
    /\ buffers = <<>>
    /\ stringBuf = <<>>
    /\ queued = 0
    /\ worker = [w \in Workers |-> "idle"]
    /\ taken = <<>>

-----------------------------------------------------------------------------

\* Mutated form: a task that is waiting or running is not queued again.
Read1(n) ==
    /\ n <= Len(wire)
    /\ wire' = SubSeq(wire, n + 1, Len(wire))
    /\ buffers' = Append(buffers, SubSeq(wire, 1, n))
    /\ queued' = IF \A w \in Workers : worker[w] = "idle" THEN 1 ELSE queued
    /\ UNCHANGED <<stringBuf, worker, taken>>

\* read: some bytes become a buffer of the tokenizer, and the task is queued.
Read(n) ==
    /\ n <= Len(wire)
    /\ wire' = SubSeq(wire, n + 1, Len(wire))
    /\ buffers' = Append(buffers, SubSeq(wire, 1, n))
    /\ queued' = queued + 1
    /\ UNCHANGED <<stringBuf, worker, taken>>

\* The threads of the pool are interchangeable: the first idle one takes a task.
TakeTask(w) ==
    /\ queued > 0
    /\ worker[w] = "idle"
    /\ \A v \in Workers : worker[v] = "idle" => w <= v
    /\ queued' = queued - 1
    /\ worker' = [worker EXCEPT ![w] = "lock"]
    /\ UNCHANGED <<wire, buffers, stringBuf, taken>>

\* Mutated form: run is not synchronized.
EnterRun1(w) ==
    /\ worker[w] = "lock"
    /\ worker' = [worker EXCEPT ![w] = "has"]
    /\ UNCHANGED <<wire, buffers, stringBuf, queued, taken>>

\* run is synchronized on the task.
EnterRun(w) ==
    /\ worker[w] = "lock"
    /\ \A v \in Workers : worker[v] \notin {"has", "next", "leave"}
    /\ worker' = [worker EXCEPT ![w] = "has"]
    /\ UNCHANGED <<wire, buffers, stringBuf, queued, taken>>

\* decode with endOfInput = false: a character that is not complete at the end of
\* the buffer stays in the buffer, which is dropped, and a buffer that begins
\* inside a character is malformed and yields nothing.
Decode(b) ==
    IF b[1][2] = "trail" THEN <<>>
    ELSE IF b[Len(b)][2] = "lead" THEN SubSeq(b, 1, Len(b) - 1) ELSE b

\* What hasMessage makes of _buffers.
Decoded == stringBuf \o Pieces!FlattenSeq([i \in DOMAIN buffers |-> Decode(buffers[i])])

\* Where the first delimiter is, 0 without one.
MessageEnd(s) == Pieces!SelectInSeq(s, LAMBDA b : b[2] = "end")

\* hasMessage decodes all buffers and looks for the delimiter; without one the
\* loop of run ends.
HasMessage(w) ==
    /\ worker[w] = "has"
    /\ buffers' = <<>>
    /\ stringBuf' = Decoded
    /\ worker' = [worker EXCEPT ![w] = IF MessageEnd(Decoded) > 0 THEN "next" ELSE "leave"]
    /\ UNCHANGED <<wire, queued, taken>>

\* nextMessage takes the text before the delimiter; without a delimiter it hands
\* on null.
NextMessage(w) ==
    LET end == MessageEnd(stringBuf) IN
    /\ worker[w] = "next"
    /\ taken' = Append(taken, SubSeq(stringBuf, 1, end - 1))
    /\ stringBuf' = SubSeq(stringBuf, end + 1, Len(stringBuf))
    /\ worker' = [worker EXCEPT ![w] = "has"]
    /\ UNCHANGED <<wire, buffers, queued>>

\* run returns, and with it the task's monitor is free.
LeaveRun(w) ==
    /\ worker[w] = "leave"
    /\ worker' = [worker EXCEPT ![w] = "idle"]
    /\ UNCHANGED <<wire, buffers, stringBuf, queued, taken>>

Run(w) == TakeTask(w) \/ EnterRun(w) \/ HasMessage(w) \/ NextMessage(w) \/ LeaveRun(w)

\* Everything was read and there is nothing left to do.
Finished ==
    /\ wire = <<>> /\ queued = 0
    /\ \A w \in Workers : worker[w] = "idle"
    /\ UNCHANGED tokenizerVars

TokenizerNext ==
    \/ \E n \in 1..Len(wire) : Read(n)
    \/ \E w \in Workers : Run(w)
    \/ Finished

\* The pool's threads run; the client may stop sending.
TokenizerSpec == TokenizerInit /\ [][TokenizerNext]_tokenizerVars /\ \A w \in Workers : WF_tokenizerVars(Run(w))

-----------------------------------------------------------------------------
(* Properties                                                              *)

\* The stream up to what was handed out: messages with their delimiters.
Frame(text) == Append(text, <<text[1][1], "end">>)
HandedOut == Pieces!FlattenSeq([i \in DOMAIN taken |-> Frame(taken[i])])

\* "Any unused bytes are kept in the decoder" (StompFrameTokenizer.java, for
\* hasMessage): however reads cut the stream and whichever threads decode it, the
\* messages handed out, the characters, the buffers and the wire make up the
\* stream that was sent, with no byte lost, repeated or moved.
NothingLost ==
    HandedOut \o stringBuf \o Pieces!FlattenSeq(buffers) \o wire = Stream(Sent)

\* "the next call to nextMessage() will not return null" (StompFrameTokenizer.java):
\* the delimiter that hasMessage saw is still there for the thread that saw it.
NextIsThere == \A w \in Workers : worker[w] = "next" => MessageEnd(stringBuf) > 0

\* What several pool threads and the selector do to one tokenizer between them keeps
\* the stream whole and hasMessage's promise.
StreamInv == TokenizerTypeOK /\ NothingLost /\ NextIsThere

\* No wakeup is lost: bytes that arrive while a thread is about to leave run are
\* decoded by another, so that every frame that was read is handed out.
AllHandedOut ==
    \A k \in 1..Len(Sent) :
        Len(wire) <= Len(Stream(SubSeq(Sent, k + 1, Len(Sent)))) ~> Len(taken) >= k

=============================================================================
