-------------------------- MODULE ConnectionProofs --------------------------
(***************************************************************************)
(* What lies beneath the frames in the two servers.                        *)
(*                                                                         *)
(* Tokenizer, for any number of threads and of frames without two-byte     *)
(* characters, however reads cut the stream: no byte is lost, repeated or  *)
(* moved, and the message that hasMessage promised is there.               *)
(*                                                                         *)
(* ThreadServer, for any set of connections: the list of connections and   *)
(* the sockets stay in step whatever accept, remove and kill do at once,   *)
(* and a kill that ends without an exception has closed every connection   *)
(* that the accept loop has registered.                                    *)
(***************************************************************************)
EXTENDS Tokenizer, ThreadServer, SequenceTheorems, NaturalsInduction, WellFoundedInduction, TLAPS

-----------------------------------------------------------------------------
(* Tokenizer: induction over the numbers, for sets                         *)

\* A set of numbers has a smallest member.
LEMMA Smallest == ASSUME NEW T, T \subseteq Nat, T # {} PROVE \E x \in T : \A y \in T : x <= y
<1> DEFINE R == OpToRel(<, Nat)
<1>1. IsWellFoundedOn(R, Nat)
  BY NatLessThanWellFounded
<1>2. \A ss \in Nat \X Nat : ss \in R <=> ss[1] < ss[2]
  BY DEF OpToRel
<1> HIDE DEF R
<1>3. PICK x \in T : \A y \in T : <<y, x>> \notin R
  BY <1>1, WFMin
<1>4. \A y \in T : ~(y < x)
  BY <1>2, <1>3
<1> QED BY <1>4

\* A set that holds 0 and, with a number, the next one holds every number.
LEMMA Induction ==
    ASSUME NEW S, 0 \in S, \A n \in Nat : n \in S => n + 1 \in S
    PROVE  Nat \subseteq S
<1> SUFFICES ASSUME {n \in Nat : n \notin S} # {} PROVE FALSE
  OBVIOUS
<1>1. PICK x \in {n \in Nat : n \notin S} : \A y \in {n \in Nat : n \notin S} : x <= y
  BY Smallest
<1>2. x - 1 \in Nat /\ x - 1 \in S
  BY <1>1
<1>3. (x - 1) + 1 \in S
  BY <1>2
<1> QED BY <1>1, <1>2, <1>3

-----------------------------------------------------------------------------
(* FlattenSeq: its recursive function exists, and there is only one.       *)

\* The recursive function in FlattenSeq's definition.
Sums(s, g) == g = [i \in 1..Len(s) |-> IF i = 1 THEN s[i] ELSE g[i - 1] \o s[i]]

\* There is a function of the partial concatenations.
LEMMA SumsExist ==
    ASSUME NEW A, NEW s \in Seq(Seq(A))
    PROVE  \E g \in [1..Len(s) -> Seq(A)] : Sums(s, g)
<1> DEFINE S == {n \in Nat : \A t \in Seq(Seq(A)) : Len(t) = n => \E g \in [1..n -> Seq(A)] : Sums(t, g)}
<1>1. 0 \in S
  <2> SUFFICES ASSUME NEW t \in Seq(Seq(A)), Len(t) = 0 PROVE \E g \in [1..0 -> Seq(A)] : Sums(t, g)
    OBVIOUS
  <2> DEFINE g == [i \in 1..0 |-> <<>>]
  <2>1. g \in [1..0 -> Seq(A)] /\ 1..0 = {} /\ 1..Len(t) = {}
    OBVIOUS
  <2>2. Sums(t, g)
    BY <2>1 DEF Sums
  <2> QED BY <2>1, <2>2
<1>2. ASSUME NEW n \in Nat, n \in S PROVE n + 1 \in S
  <2> SUFFICES ASSUME NEW t \in Seq(Seq(A)), Len(t) = n + 1 PROVE \E g \in [1..(n + 1) -> Seq(A)] : Sums(t, g)
    OBVIOUS
  <2> DEFINE u == [i \in 1..n |-> t[i]]
  <2>1. u \in Seq(Seq(A)) /\ Len(u) = n
    OBVIOUS
  <2>2. PICK h \in [1..n -> Seq(A)] : Sums(u, h)
    BY <1>2, <2>1
  <2>3. \A i \in 1..n : h[i] = IF i = 1 THEN u[i] ELSE h[i - 1] \o u[i]
    BY <2>1, <2>2 DEF Sums
  <2> DEFINE last == IF n = 0 THEN t[1] ELSE h[n] \o t[n + 1]
             g == [i \in 1..(n + 1) |-> IF i = n + 1 THEN last ELSE h[i]]
  <2>4. last \in Seq(A)
    OBVIOUS
  <2> HIDE DEF last
  <2>5. g \in [1..(n + 1) -> Seq(A)]
    BY <2>4
  <2>6. ASSUME NEW i \in 1..(n + 1) PROVE g[i] = IF i = 1 THEN t[i] ELSE g[i - 1] \o t[i]
    <3>1. CASE i = n + 1
      BY <3>1 DEF last
    <3>2. CASE i # n + 1
      <4>1. i \in 1..n /\ g[i] = h[i] /\ u[i] = t[i] /\ (i # 1 => g[i - 1] = h[i - 1])
        BY <3>2
      <4> QED BY <2>3, <4>1
    <3> QED BY <3>1, <3>2
  <2>7. Sums(t, g)
    BY <2>5, <2>6 DEF Sums
  <2> QED BY <2>5, <2>7
<1> HIDE DEF S
<1>3. Nat \subseteq S
  BY <1>1, <1>2, Induction
<1>4. Len(s) \in S
  BY <1>3
<1> QED BY <1>4 DEF S

\* And only one, so that FlattenSeq's CHOOSE is this one.
LEMMA SumsUnique ==
    ASSUME NEW A, NEW s \in Seq(Seq(A)), NEW g, NEW h, Sums(s, g), Sums(s, h)
    PROVE  g = h
<1> DEFINE S == {n \in Nat : n \in 1..Len(s) => g[n] = h[n]}
<1>1. \A i \in 1..Len(s) : /\ g[i] = IF i = 1 THEN s[i] ELSE g[i - 1] \o s[i]
                           /\ h[i] = IF i = 1 THEN s[i] ELSE h[i - 1] \o s[i]
  BY DEF Sums
<1>2. 0 \in S
  OBVIOUS
<1>3. ASSUME NEW n \in Nat, n \in S PROVE n + 1 \in S
  <2> SUFFICES ASSUME n + 1 \in 1..Len(s) PROVE g[n + 1] = h[n + 1]
    OBVIOUS
  <2>1. CASE n = 0
    BY <1>1, <2>1
  <2>2. CASE n # 0
    <3>1. n \in 1..Len(s) /\ (n + 1) - 1 = n /\ n + 1 # 1
      BY <2>2
    <3>2. g[n] = h[n]
      BY <1>3, <3>1
    <3> QED BY <1>1, <3>1, <3>2
  <2> QED BY <2>1, <2>2
<1> HIDE DEF S
<1>4. Nat \subseteq S
  BY <1>2, <1>3, Induction
<1>5. \A n \in 1..Len(s) : g[n] = h[n]
  BY <1>4 DEF S
<1> QED BY <1>5 DEF Sums

\* FlattenSeq is the last of the partial concatenations.
LEMMA FlattenIs ==
    ASSUME NEW A, NEW s \in Seq(Seq(A)), s # <<>>, NEW g, Sums(s, g)
    PROVE  Pieces!FlattenSeq(s) = g[Len(s)]
<1>1. Pieces!FlattenSeq(s) = (CHOOSE h : Sums(s, h))[Len(s)]
  BY DEF Pieces!FlattenSeq, Sums
<1>2. Sums(s, CHOOSE h : Sums(s, h))
  OBVIOUS
<1>3. (CHOOSE h : Sums(s, h)) = g
  BY <1>2, SumsUnique
<1> QED BY <1>1, <1>3

\* Nothing, put together, is nothing.
LEMMA FlattenEmpty == Pieces!FlattenSeq(<<>>) = <<>>
BY DEF Pieces!FlattenSeq

\* Pieces of a set's elements put together have that set's elements.
LEMMA FlattenType ==
    ASSUME NEW A, NEW s \in Seq(Seq(A))
    PROVE  Pieces!FlattenSeq(s) \in Seq(A)
<1>1. CASE s = <<>>
  <2>1. Pieces!FlattenSeq(s) = <<>>
    BY <1>1, FlattenEmpty
  <2> QED BY <2>1
<1>2. CASE s # <<>>
  <2>1. PICK g \in [1..Len(s) -> Seq(A)] : Sums(s, g)
    BY SumsExist
  <2>2. Len(s) \in 1..Len(s)
    BY <1>2
  <2> QED BY <1>2, <2>1, <2>2, FlattenIs
<1> QED BY <1>1, <1>2

\* One piece more adds its elements at the end.
LEMMA FlattenAppend ==
    ASSUME NEW A, NEW s \in Seq(Seq(A)), NEW x \in Seq(A)
    PROVE  Pieces!FlattenSeq(Append(s, x)) = Pieces!FlattenSeq(s) \o x
<1> DEFINE t == Append(s, x)
           n == Len(s)
<1>1. PICK g \in [1..Len(t) -> Seq(A)] : Sums(t, g)
  <2>1. t \in Seq(Seq(A))
    OBVIOUS
  <2> QED BY <2>1, SumsExist
<1>2. t \in Seq(Seq(A)) /\ t # <<>> /\ Len(t) = n + 1 /\ n \in Nat /\ t[n + 1] = x
      /\ \A i \in 1..n : t[i] = s[i]
  <2>1. n \in Nat /\ t \in Seq(Seq(A)) /\ Len(t) = n + 1 /\ t[n + 1] = x /\ \A i \in 1..n : t[i] = s[i]
    BY AppendProperties
  <2> QED BY <2>1
<1> HIDE DEF t
<1>3. \A i \in 1..(n + 1) : g[i] = IF i = 1 THEN t[i] ELSE g[i - 1] \o t[i]
  BY <1>1, <1>2 DEF Sums
<1>4. Pieces!FlattenSeq(t) = g[n + 1]
  BY <1>1, <1>2, FlattenIs
<1>5. CASE n = 0
  <2>1. s = <<>> /\ g[1] = x
    BY <1>2, <1>3, <1>5
  <2> QED BY <1>4, <1>5, <2>1, FlattenEmpty DEF t
<1>6. CASE n # 0
  <2> DEFINE h == [i \in 1..n |-> g[i]]
  <2>1. Sums(s, h)
    <3>1. ASSUME NEW i \in 1..n PROVE h[i] = IF i = 1 THEN s[i] ELSE h[i - 1] \o s[i]
      <4>1. i \in 1..(n + 1) /\ (i # 1 => i - 1 \in 1..n)
        BY <1>2
      <4> QED BY <1>2, <1>3, <4>1
    <3> QED BY <3>1 DEF Sums
  <2>2. Pieces!FlattenSeq(s) = g[n]
    <3>1. s # <<>> /\ n \in 1..n
      BY <1>2, <1>6
    <3>2. Pieces!FlattenSeq(s) = h[n]
      BY <2>1, <3>1, FlattenIs
    <3> QED BY <3>1, <3>2
  <2>3. g[n + 1] = g[n] \o x
    <3>1. n + 1 \in 1..(n + 1) /\ n + 1 # 1 /\ (n + 1) - 1 = n
      BY <1>2, <1>6
    <3>2. g[n + 1] = g[(n + 1) - 1] \o t[n + 1]
      BY <1>3, <3>1
    <3> HIDE DEF n
    <3> QED BY <1>2, <3>1, <3>2
  <2> QED BY <1>4, <2>2, <2>3 DEF t
<1> QED BY <1>5, <1>6

\* Two elements in each of the first n pieces, each element where it belongs.
Placed(x, s, n) ==
    Len(x) = 2 * n /\ \A i \in 1..n : x[2 * i - 1] = s[i][1] /\ x[2 * i] = s[i][2]

\* One piece more keeps the elements where they are.
LEMMA PlacedNext ==
    ASSUME NEW A, NEW n \in Nat, NEW x \in Seq(A), NEW y \in Seq(A), Len(y) = 2,
           NEW s, s[n + 1] = y, Placed(x, s, n)
    PROVE  Placed(x \o y, s, n + 1)
<1>1. Len(x) = 2 * n /\ \A i \in 1..n : x[2 * i - 1] = s[i][1] /\ x[2 * i] = s[i][2]
  BY DEF Placed
<1>2. Len(x \o y) = Len(x) + Len(y)
      /\ \A j \in 1..(Len(x) + Len(y)) : (x \o y)[j] = IF j <= Len(x) THEN x[j] ELSE y[j - Len(x)]
  BY ConcatProperties
<1>3. Len(x \o y) = 2 * (n + 1)
  BY <1>1, <1>2
<1>4. \A j \in 1..(2 * n + 2) : (x \o y)[j] = IF j <= 2 * n THEN x[j] ELSE y[j - 2 * n]
  <2>1. Len(x) + Len(y) = 2 * n + 2
    BY <1>1
  <2> QED BY <1>1, <1>2, <2>1
<1>5. ASSUME NEW i \in 1..(n + 1)
      PROVE  (x \o y)[2 * i - 1] = s[i][1] /\ (x \o y)[2 * i] = s[i][2]
  <2>1. CASE i = n + 1
    <3>1. /\ 2 * i - 1 = 2 * n + 1 /\ 2 * i = 2 * n + 2
          /\ ~(2 * n + 1 <= 2 * n) /\ ~(2 * n + 2 <= 2 * n)
          /\ (2 * n + 1) - 2 * n = 1 /\ (2 * n + 2) - 2 * n = 2
          /\ 2 * n + 1 \in 1..(2 * n + 2) /\ 2 * n + 2 \in 1..(2 * n + 2)
      BY <2>1
    <3>2. (x \o y)[2 * n + 1] = y[1] /\ (x \o y)[2 * n + 2] = y[2]
      BY <1>4, <3>1
    <3> QED BY <2>1, <3>1, <3>2
  <2>2. CASE i # n + 1
    <3>1. /\ i \in 1..n /\ 2 * i - 1 <= 2 * n /\ 2 * i <= 2 * n
          /\ 2 * i - 1 \in 1..(2 * n + 2) /\ 2 * i \in 1..(2 * n + 2)
      BY <2>2
    <3>2. (x \o y)[2 * i - 1] = x[2 * i - 1] /\ (x \o y)[2 * i] = x[2 * i]
      BY <1>4, <3>1
    <3> QED BY <1>1, <3>1, <3>2
  <2> QED BY <2>1, <2>2
<1> QED BY <1>3, <1>5 DEF Placed

\* Pieces of two elements, put together: each element is where it belongs.
LEMMA Pairs ==
    ASSUME NEW A, NEW s \in Seq(Seq(A)), \A i \in 1..Len(s) : Len(s[i]) = 2
    PROVE  Placed(Pieces!FlattenSeq(s), s, Len(s))
<1>1. CASE s = <<>>
  <2>1. Pieces!FlattenSeq(s) = <<>>
    BY <1>1, FlattenEmpty
  <2> QED BY <1>1, <2>1 DEF Placed
<1>2. CASE s # <<>>
  <2>1. PICK g \in [1..Len(s) -> Seq(A)] : Sums(s, g)
    BY SumsExist
  <2>2. \A i \in 1..Len(s) : g[i] = IF i = 1 THEN s[i] ELSE g[i - 1] \o s[i]
    BY <2>1 DEF Sums
  <2>3. Len(s) \in 1..Len(s) /\ Pieces!FlattenSeq(s) = g[Len(s)]
    BY <1>2, <2>1, FlattenIs
  <2> DEFINE S == {n \in Nat : n \in 1..Len(s) => Placed(g[n], s, n)}
  <2>4. 0 \in S
    OBVIOUS
  <2>5. ASSUME NEW n \in Nat, n \in S PROVE n + 1 \in S
    <3>1. n \in 1..Len(s) => Placed(g[n], s, n)
      BY <2>5
    <3>2. ASSUME n + 1 \in 1..Len(s) PROVE Placed(g[n + 1], s, n + 1)
      <4>1. CASE n = 0
        <5>1. n + 1 = 1 /\ 1 \in 1..Len(s)
          BY <3>2, <4>1
        <5>2. g[1] = s[1] /\ Len(s[1]) = 2
          BY <2>2, <5>1
        <5>3. \A i \in 1..1 : i = 1 /\ 2 * i - 1 = 1 /\ 2 * i = 2
          OBVIOUS
        <5>4. Placed(g[1], s, 1)
          BY <5>2, <5>3 DEF Placed
        <5> QED BY <5>1, <5>4
      <4>2. CASE n # 0
        <5>1. n \in 1..Len(s) /\ (n + 1) - 1 = n /\ n + 1 # 1
          BY <3>2, <4>2
        <5>2. g[n + 1] = g[n] \o s[n + 1]
          BY <2>2, <3>2, <5>1
        <5>3. g[n] \in Seq(A)
          BY <2>1, <5>1
        <5>6. s[n + 1] \in Seq(A) /\ Len(s[n + 1]) = 2
          BY <3>2
        <5>4. Placed(g[n], s, n)
          BY <3>1, <5>1
        <5>5. Placed(g[n] \o s[n + 1], s, n + 1)
          BY <5>3, <5>4, <5>6, PlacedNext
        <5> QED BY <5>2, <5>5
      <4> QED BY <4>1, <4>2
    <3> QED BY <3>2
  <2> HIDE DEF S
  <2>6. Nat \subseteq S
    BY <2>4, <2>5, Induction
  <2>7. \A n \in Nat : n \in 1..Len(s) => Placed(g[n], s, n)
    BY <2>6 DEF S
  <2>8. Len(s) \in Nat
    OBVIOUS
  <2>9. Placed(g[Len(s)], s, Len(s))
    BY <2>3, <2>7, <2>8
  <2> QED BY <2>3, <2>9
<1> QED BY <1>1, <1>2

-----------------------------------------------------------------------------
(* Tokenizer: the inductive invariant, for frames of one-byte characters   *)

Plain == Frames \X {"text", "end"}
Texts == {<< <<f, "text">> >> : f \in Frames}

\* Bytes are those of one-byte characters, buffers are not empty, and the messages
\* that were handed out are texts of frames.
BytesInv ==
    /\ wire \in Seq(Plain)
    /\ buffers \in Seq(Seq(Plain) \ {<<>>})
    /\ stringBuf \in Seq(Plain)
    /\ taken \in Seq(Texts)

\* One thread at a time is in run.
Inside == {"has", "next", "leave"}
OneRuns ==
    /\ queued \in Nat
    /\ worker \in [Workers -> {"idle", "lock", "has", "next", "leave"}]
    /\ \A v, w \in Workers : worker[v] \in Inside /\ worker[w] \in Inside => v = w

\* StreamInv with what makes it inductive.
TokenizerInv == BytesInv /\ OneRuns /\ NothingLost /\ NextIsThere

\* A sequence of two, built in two ways.
LEMMA AppendOne ==
    ASSUME NEW A, NEW t \in A, NEW e \in A
    PROVE  Append(<<t>>, e) = <<t, e>> /\ <<t>> \o <<e>> = <<t, e>> /\ <<t, e>> \in Seq(A)
<1>1. <<t>> \in Seq(A) /\ <<t, e>> \in Seq(A) /\ Len(<<t>>) = 1 /\ Len(<<t, e>>) = 2 /\ <<e>> \in Seq(A)
      /\ Len(<<e>>) = 1
  OBVIOUS
<1>2. /\ Append(<<t>>, e) \in Seq(A) /\ Len(Append(<<t>>, e)) = 2
      /\ Append(<<t>>, e)[1] = t /\ Append(<<t>>, e)[2] = e
  BY <1>1, AppendProperties
<1> DEFINE x == Append(<<t>>, e)
           y == <<t, e>>
<1>3. \A i \in 1..2 : x[i] = y[i]
  BY <1>2
<1> HIDE DEF x, y
<1>4. x = y
  BY <1>1, <1>2, <1>3, SeqEqual DEF x, y
<1>5. x = <<t>> \o <<e>>
  BY <1>1, AppendIsConcat DEF x
<1> QED BY <1>1, <1>4, <1>5 DEF x, y

\* Without a wide character a frame is its text and the delimiter.
LEMMA PlainFrame ==
    ASSUME Wide = {}, NEW f \in Frames
    PROVE  FrameBytes(f) = << <<f, "text">>, <<f, "end">> >> /\ FrameBytes(f) \in Seq(Plain)
<1> DEFINE t == <<f, "text">>
           e == <<f, "end">>
<1>1. t \in Plain /\ e \in Plain
  BY DEF Plain
<1>2. FrameBytes(f) = Append(<<t>> \o <<>>, e)
  BY DEF FrameBytes, Text
<1> HIDE DEF t, e
<1>3. <<t>> \in Seq(Plain) /\ <<t>> \o <<>> = <<t>>
  <2>1. <<t>> \in Seq(Plain)
    BY <1>1
  <2> QED BY <2>1, ConcatEmptySeq
<1>4. Append(<<t>>, e) = <<t, e>>
  BY <1>1, AppendOne
<1>5. <<t, e>> \in Seq(Plain)
  BY <1>1
<1> QED BY <1>2, <1>3, <1>4, <1>5 DEF t, e

\* The stream alternates texts and delimiters.
LEMMA StreamIs ==
    ASSUME Wide = {}
    PROVE  /\ Stream(Sent) \in Seq(Plain) /\ Len(Stream(Sent)) = 2 * Len(Sent)
           /\ \A i \in 1..Len(Sent) : /\ Sent[i] \in Frames
                                      /\ Stream(Sent)[2 * i - 1] = <<Sent[i], "text">>
                                      /\ Stream(Sent)[2 * i] = <<Sent[i], "end">>
<1> DEFINE s == [i \in DOMAIN Sent |-> FrameBytes(Sent[i])]
<1>1. Sent \in Seq(Frames) /\ DOMAIN Sent = 1..Len(Sent) /\ Len(Sent) \in Nat
      /\ \A i \in 1..Len(Sent) : Sent[i] \in Frames
  BY TokenizerAssumption
<1>2. \A i \in 1..Len(Sent) : s[i] = << <<Sent[i], "text">>, <<Sent[i], "end">> >> /\ s[i] \in Seq(Plain)
  BY <1>1, PlainFrame
<1>3. s \in Seq(Seq(Plain)) /\ Len(s) = Len(Sent)
  <2>1. s \in [1..Len(Sent) -> Seq(Plain)]
    BY <1>1, <1>2
  <2> HIDE DEF s
  <2> QED BY <1>1, <2>1
<1>4. Stream(Sent) = Pieces!FlattenSeq(s)
  BY DEF Stream
<1> HIDE DEF s
<1>5. \A i \in 1..Len(Sent) : Len(s[i]) = 2 /\ s[i][1] = <<Sent[i], "text">> /\ s[i][2] = <<Sent[i], "end">>
  BY <1>2
<1>6. Pieces!FlattenSeq(s) \in Seq(Plain)
  BY <1>3, FlattenType
<1>7. \A i \in 1..Len(s) : Len(s[i]) = 2
  BY <1>3, <1>5
<1>8. Placed(Pieces!FlattenSeq(s), s, Len(s))
  BY <1>3, <1>7, Pairs
<1>9. /\ Len(Pieces!FlattenSeq(s)) = 2 * Len(s)
      /\ \A i \in 1..Len(s) : Pieces!FlattenSeq(s)[2 * i - 1] = s[i][1] /\ Pieces!FlattenSeq(s)[2 * i] = s[i][2]
  BY <1>8 DEF Placed
<1> QED BY <1>1, <1>3, <1>4, <1>5, <1>6, <1>9

\* Bytes of one-byte characters decode to themselves.
LEMMA DecodePlain == ASSUME NEW b \in Seq(Plain) \ {<<>>} PROVE Decode(b) = b
<1>1. Len(b) \in 1..Len(b) /\ 1 \in 1..Len(b)
  OBVIOUS
<1>2. b[1] \in Plain /\ b[Len(b)] \in Plain
  BY <1>1
<1>3. \A x \in Plain : x[2] # "trail" /\ x[2] # "lead"
  BY DEF Plain
<1> QED BY <1>2, <1>3 DEF Decode

\* So hasMessage adds the buffers to the characters as they are.
LEMMA DecodedIs ==
    ASSUME BytesInv
    PROVE  /\ Pieces!FlattenSeq(buffers) \in Seq(Plain)
           /\ Decoded = stringBuf \o Pieces!FlattenSeq(buffers)
<1>1. buffers \in Seq(Seq(Plain)) /\ \A i \in DOMAIN buffers : buffers[i] \in Seq(Plain) \ {<<>>}
  <2>1. buffers \in Seq(Seq(Plain) \ {<<>>})
    BY DEF BytesInv
  <2> QED BY <2>1
<1>2. [i \in DOMAIN buffers |-> Decode(buffers[i])] = buffers
  <2>1. \A i \in DOMAIN buffers : Decode(buffers[i]) = buffers[i]
    BY <1>1, DecodePlain
  <2>2. buffers = [i \in DOMAIN buffers |-> buffers[i]]
    BY <1>1
  <2> QED BY <2>1, <2>2
<1>3. Pieces!FlattenSeq(buffers) \in Seq(Plain)
  BY <1>1, FlattenType
<1> QED BY <1>2, <1>3 DEF Decoded

\* The first delimiter, when the first element is none.
LEMMA MessageEndIs ==
    ASSUME NEW s \in Seq(Plain)
    PROVE  /\ MessageEnd(s) > 0 => \E i \in 1..Len(s) : s[i][2] = "end"
           /\ Len(s) >= 2 /\ s[1][2] # "end" /\ s[2][2] = "end" => MessageEnd(s) = 2
<1> DEFINE I == {i \in 1..Len(s) : s[i][2] = "end"}
<1>1. MessageEnd(s) = IF I # {} THEN Pieces!Min(I) ELSE 0
  BY DEF MessageEnd, Pieces!SelectInSeq
<1>2. MessageEnd(s) > 0 => I # {}
  BY <1>1
<1>3. ASSUME Len(s) >= 2, s[1][2] # "end", s[2][2] = "end" PROVE MessageEnd(s) = 2
  <2>1. 2 \in I /\ I \subseteq Nat /\ \A i \in I : 2 <= i
    <3>1. ASSUME NEW i \in I PROVE 2 <= i
      <4>1. i # 1 /\ i \in 1..Len(s)
        BY <1>3
      <4> QED BY <4>1
    <3> QED BY <1>3, <3>1
  <2> HIDE DEF I
  <2>2. PICK m : m = Pieces!Min(I)
    OBVIOUS
  <2>3. m = CHOOSE x \in I : \A y \in I : x <= y
    BY <2>2 DEF Pieces!Min
  <2>4. m \in I /\ \A y \in I : m <= y
    BY <2>1, <2>3
  <2>5. m \in Nat /\ m <= 2 /\ 2 <= m
    BY <2>1, <2>4
  <2>6. m = 2
    BY <2>5
  <2> QED BY <1>1, <2>1, <2>2, <2>6
<1> QED BY <1>2, <1>3

-----------------------------------------------------------------------------
(* What was handed out                                                     *)

\* HandedOut, of any messages.
Handed(ts) == Pieces!FlattenSeq([i \in DOMAIN ts |-> Frame(ts[i])])

\* A text and the delimiter that went with it.
LEMMA FrameIs ==
    ASSUME NEW f \in Frames
    PROVE  /\ Frame(<< <<f, "text">> >>) = << <<f, "text">>, <<f, "end">> >>
           /\ << <<f, "text">>, <<f, "end">> >> \in Seq(Plain)
<1> DEFINE t == <<f, "text">>
           e == <<f, "end">>
<1>1. t \in Plain /\ e \in Plain
  BY DEF Plain
<1>2. <<t>>[1][1] = f
  OBVIOUS
<1>3. Frame(<<t>>) = Append(<<t>>, e)
  BY <1>2 DEF Frame
<1> HIDE DEF t, e
<1>4. Append(<<t>>, e) = <<t, e>> /\ <<t, e>> \in Seq(Plain)
  BY <1>1, AppendOne
<1> QED BY <1>3, <1>4 DEF t, e

\* A message that was handed out stands for two bytes.
LEMMA TextFrame ==
    ASSUME NEW x \in Texts
    PROVE  Frame(x) \in Seq(Plain) /\ Len(Frame(x)) = 2
<1>1. PICK f \in Frames : x = << <<f, "text">> >>
  BY DEF Texts
<1>2. Frame(x) = << <<f, "text">>, <<f, "end">> >> /\ Frame(x) \in Seq(Plain)
  BY <1>1, FrameIs
<1> QED BY <1>2

\* So what was handed out has twice as many bytes as there are messages.
LEMMA HandedIs ==
    ASSUME NEW ts \in Seq(Texts)
    PROVE  Handed(ts) \in Seq(Plain) /\ Len(Handed(ts)) = 2 * Len(ts)
<1> DEFINE s == [i \in DOMAIN ts |-> Frame(ts[i])]
<1>1. DOMAIN ts = 1..Len(ts) /\ Len(ts) \in Nat /\ \A i \in 1..Len(ts) : ts[i] \in Texts
  OBVIOUS
<1>2. \A i \in 1..Len(ts) : s[i] \in Seq(Plain) /\ Len(s[i]) = 2
  BY <1>1, TextFrame
<1>3. s \in [1..Len(ts) -> Seq(Plain)]
  BY <1>1, <1>2
<1> HIDE DEF s
<1>4. s \in Seq(Seq(Plain)) /\ Len(s) = Len(ts)
  BY <1>1, <1>3
<1>5. \A i \in 1..Len(s) : Len(s[i]) = 2
  BY <1>2, <1>4
<1>6. Placed(Pieces!FlattenSeq(s), s, Len(s))
  BY <1>4, <1>5, Pairs
<1>7. Pieces!FlattenSeq(s) \in Seq(Plain)
  BY <1>4, FlattenType
<1>8. Handed(ts) = Pieces!FlattenSeq(s)
  BY DEF Handed, s
<1> QED BY <1>4, <1>6, <1>7, <1>8 DEF Placed

\* Another message adds its frame at the end.
LEMMA HandedNext ==
    ASSUME NEW ts \in Seq(Texts), NEW x \in Texts
    PROVE  Handed(Append(ts, x)) = Handed(ts) \o Frame(x)
<1> DEFINE s == [i \in DOMAIN ts |-> Frame(ts[i])]
           us == Append(ts, x)
           u == [i \in DOMAIN us |-> Frame(us[i])]
           n == Len(ts)
<1>1. /\ DOMAIN ts = 1..n /\ n \in Nat /\ \A i \in 1..n : ts[i] \in Texts
  OBVIOUS
<1>2. us \in Seq(Texts) /\ Len(us) = n + 1 /\ us[n + 1] = x /\ \A i \in 1..n : us[i] = ts[i]
  BY AppendProperties
<1>3. DOMAIN us = 1..(n + 1)
  BY <1>2
<1> HIDE DEF us, n
<1>4. s \in [1..n -> Seq(Plain)]
  BY <1>1, TextFrame
<1>5. u \in [1..(n + 1) -> Seq(Plain)]
  <2>1. \A i \in 1..(n + 1) : us[i] \in Texts
    BY <1>2, <1>3
  <2> QED BY <1>3, <2>1, TextFrame
<1>6. u[n + 1] = Frame(x) /\ \A i \in 1..n : u[i] = s[i]
  BY <1>1, <1>2, <1>3
<1>7. Handed(ts) = Pieces!FlattenSeq(s) /\ Handed(us) = Pieces!FlattenSeq(u)
  BY DEF Handed
<1> HIDE DEF s, u
<1>8. s \in Seq(Seq(Plain)) /\ Len(s) = n /\ u \in Seq(Seq(Plain)) /\ Len(u) = n + 1
  BY <1>1, <1>4, <1>5
<1>9. Frame(x) \in Seq(Plain)
  BY TextFrame
<1>10. u = Append(s, Frame(x))
  <2> DEFINE y == Append(s, Frame(x))
  <2>1. y \in Seq(Seq(Plain)) /\ Len(y) = n + 1 /\ y[n + 1] = Frame(x) /\ \A i \in 1..n : y[i] = s[i]
    BY <1>8, <1>9, AppendProperties
  <2> HIDE DEF y
  <2>2. \A i \in 1..Len(u) : u[i] = y[i]
    BY <1>1, <1>6, <1>8, <2>1
  <2>3. u = y
    BY <1>8, <2>1, <2>2, SeqEqual
  <2> QED BY <2>3 DEF y
<1>11. Pieces!FlattenSeq(u) = Pieces!FlattenSeq(s) \o Frame(x)
  BY <1>8, <1>9, <1>10, FlattenAppend
<1> QED BY <1>7, <1>11 DEF us

-----------------------------------------------------------------------------
(* The stream is kept                                                      *)

\* A read cuts the wire in two and keeps all of it.
LEMMA Cut ==
    ASSUME NEW x \in Seq(Plain), NEW n \in 1..Len(x)
    PROVE  /\ SubSeq(x, 1, n) \in Seq(Plain) \ {<<>>}
           /\ SubSeq(x, n + 1, Len(x)) \in Seq(Plain)
           /\ SubSeq(x, 1, n) \o SubSeq(x, n + 1, Len(x)) = x
<1>1. Len(x) \in Nat /\ n \in Nat /\ n <= Len(x) /\ 1 <= n /\ \A i \in 1..Len(x) : x[i] \in Plain
  OBVIOUS
<1>2. SubSeq(x, 1, n) \in Seq(Plain) /\ Len(SubSeq(x, 1, n)) = n
  <2>1. \A i \in 1..n : x[i] \in Plain
    BY <1>1
  <2>2. /\ SubSeq(x, 1, n) \in Seq(Plain)
        /\ Len(SubSeq(x, 1, n)) = IF 1 <= n THEN n - 1 + 1 ELSE 0
    BY <1>1, <2>1, SubSeqProperties
  <2> QED BY <1>1, <2>2
<1>3. SubSeq(x, n + 1, Len(x)) \in Seq(Plain)
  <2>1. n + 1 \in Int /\ Len(x) \in Int /\ \A i \in (n + 1)..Len(x) : x[i] \in Plain
    BY <1>1
  <2> QED BY <2>1, SubSeqProperties
<1>4. SubSeq(x, 1, n) \o SubSeq(x, n + 1, Len(x)) = SubSeq(x, 1, Len(x))
  <2>1. 1 \in 1..(Len(x) + 1) /\ n \in (1 - 1)..Len(x) /\ Len(x) \in n..Len(x)
    BY <1>1
  <2> QED BY <2>1, ConcatAdjacentSubSeq
<1>5. SubSeq(x, 1, Len(x)) = x
  BY SubSeqFull
<1>6. SubSeq(x, 1, n) # <<>>
  BY <1>1, <1>2
<1> QED BY <1>2, <1>3, <1>4, <1>5, <1>6

\* Concatenation by its laws alone.
Cat(x, y) == x \o y
IsSeq(x, A) == x \in Seq(A)

\* Concatenations have their parts' elements.
LEMMA CatType == ASSUME NEW A, NEW x, NEW y, IsSeq(x, A), IsSeq(y, A) PROVE IsSeq(Cat(x, y), A)
BY DEF IsSeq, Cat

\* The order in which parts are put together does not matter.
LEMMA CatAssociative ==
    ASSUME NEW A, NEW x, NEW y, NEW z, IsSeq(x, A), IsSeq(y, A), IsSeq(z, A)
    PROVE  Cat(Cat(x, y), z) = Cat(x, Cat(y, z))
BY ConcatAssociative DEF IsSeq, Cat

\* An empty part changes nothing.
LEMMA CatEmpty == ASSUME NEW A, NEW x, IsSeq(x, A) PROVE Cat(x, <<>>) = x
BY DEF IsSeq, Cat

\* The parts of the stream before and after bytes move from one to the next.
LEMMA CatMoves ==
    ASSUME NEW A, NEW h, NEW b, NEW f, NEW x, NEW y,
           IsSeq(h, A), IsSeq(b, A), IsSeq(f, A), IsSeq(x, A), IsSeq(y, A)
    PROVE  /\ Cat(Cat(Cat(h, b), Cat(f, x)), y) = Cat(Cat(Cat(h, b), f), Cat(x, y))
           /\ Cat(Cat(Cat(h, Cat(b, f)), <<>>), y) = Cat(Cat(Cat(h, b), f), y)
           /\ Cat(Cat(Cat(Cat(h, x), b), f), y) = Cat(Cat(Cat(h, Cat(x, b)), f), y)
<1>1. IsSeq(Cat(h, b), A) /\ IsSeq(Cat(b, f), A)
  BY CatType
<1>2. IsSeq(Cat(Cat(h, b), f), A) /\ IsSeq(Cat(h, Cat(b, f)), A)
  BY <1>1, CatType
<1>3. Cat(Cat(h, b), Cat(f, x)) = Cat(Cat(Cat(h, b), f), x)
  BY <1>1, CatAssociative
<1>4. Cat(Cat(Cat(Cat(h, b), f), x), y) = Cat(Cat(Cat(h, b), f), Cat(x, y))
  BY <1>2, CatAssociative
<1>5. Cat(h, Cat(b, f)) = Cat(Cat(h, b), f)
  BY CatAssociative
<1>6. Cat(Cat(h, Cat(b, f)), <<>>) = Cat(h, Cat(b, f))
  BY <1>2, CatEmpty
<1>7. Cat(Cat(h, x), b) = Cat(h, Cat(x, b))
  BY CatAssociative
<1> QED BY <1>3, <1>4, <1>5, <1>6, <1>7

\* The first element and the first two, by themselves.
LEMMA FirstTwo ==
    ASSUME NEW x \in Seq(Plain), Len(x) >= 2
    PROVE  SubSeq(x, 1, 1) = <<x[1]>> /\ SubSeq(x, 1, 2) = <<x[1], x[2]>>
<1>1. 1 \in 1..Len(x) /\ 2 \in 1..Len(x)
  OBVIOUS
<1>2. x[1] \in Plain /\ x[2] \in Plain
  BY <1>1
<1>3. \A i \in 1..2 : x[i] \in Plain
  BY <1>1
<1>4. PICK u : u = SubSeq(x, 1, 1)
  OBVIOUS
<1>5. u \in Seq(Plain) /\ Len(u) = 1 /\ u[1] = x[1]
  <2>1. 1 \in Int /\ \A i \in 1..1 : x[i] \in Plain
    BY <1>2
  <2>2. /\ u \in Seq(Plain) /\ Len(u) = IF 1 <= 1 THEN 1 - 1 + 1 ELSE 0
        /\ \A i \in 1..(1 - 1 + 1) : u[i] = x[1 + i - 1]
    BY <1>4, <2>1, SubSeqProperties
  <2>3. 1 \in 1..(1 - 1 + 1) /\ 1 + 1 - 1 = 1
    OBVIOUS
  <2> QED BY <2>2, <2>3
<1>6. PICK v : v = SubSeq(x, 1, 2)
  OBVIOUS
<1>7. v \in Seq(Plain) /\ Len(v) = 2 /\ v[1] = x[1] /\ v[2] = x[2]
  <2>1. 1 \in Int /\ 2 \in Int
    OBVIOUS
  <2>2. /\ v \in Seq(Plain) /\ Len(v) = IF 1 <= 2 THEN 2 - 1 + 1 ELSE 0
        /\ \A i \in 1..(2 - 1 + 1) : v[i] = x[1 + i - 1]
    BY <1>3, <1>6, <2>1, SubSeqProperties
  <2>3. 1 \in 1..(2 - 1 + 1) /\ 1 + 1 - 1 = 1 /\ 2 \in 1..(2 - 1 + 1) /\ 1 + 2 - 1 = 2
    OBVIOUS
  <2> QED BY <2>2, <2>3
<1>8. ASSUME NEW t \in Plain, NEW e \in Plain, u[1] = t, v[1] = t, v[2] = e
      PROVE  u = <<t>> /\ v = <<t, e>>
  <2>1. <<t>> \in Seq(Plain) /\ Len(<<t>>) = 1 /\ <<t, e>> \in Seq(Plain) /\ Len(<<t, e>>) = 2
    OBVIOUS
  <2>2. \A i \in 1..1 : u[i] = <<t>>[i]
    BY <1>8
  <2>3. \A i \in 1..2 : v[i] = <<t, e>>[i]
    BY <1>8
  <2>4. u = <<t>>
    BY <1>5, <2>1, <2>2, SeqEqual
  <2>5. v = <<t, e>>
    BY <1>7, <2>1, <2>3, SeqEqual
  <2> QED BY <2>4, <2>5
<1> QED BY <1>2, <1>4, <1>5, <1>6, <1>7, <1>8

\* The first sequence begins the concatenation, the second ends it.
LEMMA Part2 ==
    ASSUME NEW A, NEW x, NEW y, IsSeq(x, A), IsSeq(y, A)
    PROVE  /\ Len(x) \in Nat /\ Len(y) \in Nat /\ Len(Cat(x, y)) = Len(x) + Len(y)
           /\ \A i \in 1..Len(x) : Cat(x, y)[i] = x[i]
           /\ \A i \in 1..Len(y) : Cat(x, y)[Len(x) + i] = y[i]
<1>1. PICK u : u = Cat(x, y)
  OBVIOUS
<1>2. /\ Len(x) \in Nat /\ Len(y) \in Nat
      /\ Len(u) = Len(x) + Len(y)
      /\ \A i \in 1..(Len(x) + Len(y)) : u[i] = IF i <= Len(x) THEN x[i] ELSE y[i - Len(x)]
  BY <1>1, ConcatProperties DEF IsSeq, Cat
<1>3. PICK k \in Nat : k = Len(x)
  BY <1>2
<1>4. PICK l \in Nat : l = Len(y)
  BY <1>2
<1>5. \A i \in 1..(k + l) : u[i] = IF i <= k THEN x[i] ELSE y[i - k]
  BY <1>2, <1>3, <1>4
<1>6. ASSUME NEW i \in 1..k PROVE u[i] = x[i]
  <2>1. i \in 1..(k + l) /\ i <= k
    OBVIOUS
  <2> QED BY <1>5, <2>1
<1>7. ASSUME NEW i \in 1..l PROVE u[k + i] = y[i]
  <2>1. k + i \in 1..(k + l) /\ ~(k + i <= k) /\ (k + i) - k = i
    OBVIOUS
  <2> QED BY <1>5, <2>1
<1> QED BY <1>1, <1>2, <1>3, <1>4, <1>6, <1>7

\* The characters' place in the stream: right after what was handed out.
LEMMA Part ==
    ASSUME NEW A, NEW h, NEW b, NEW f, NEW w, IsSeq(h, A), IsSeq(b, A), IsSeq(f, A), IsSeq(w, A),
           NEW st, st = Cat(Cat(Cat(h, b), f), w)
    PROVE  Len(h) + Len(b) <= Len(st) /\ \A i \in 1..Len(b) : st[Len(h) + i] = b[i]
<1>1. PICK hb : hb = Cat(h, b)
  OBVIOUS
<1>2. PICK hbf : hbf = Cat(hb, f)
  OBVIOUS
<1>3. IsSeq(hb, A) /\ IsSeq(hbf, A)
  BY <1>1, <1>2, CatType
<1>4. st = Cat(hbf, w)
  BY <1>1, <1>2
<1>5. PICK k \in Nat : k = Len(h)
  BY Part2
<1>6. PICK l \in Nat : l = Len(b)
  BY Part2
<1>7. Len(hb) = k + l /\ \A i \in 1..l : hb[k + i] = b[i]
  <2>1. Len(Cat(h, b)) = Len(h) + Len(b) /\ \A i \in 1..Len(b) : Cat(h, b)[Len(h) + i] = b[i]
    BY Part2
  <2> QED BY <1>1, <1>5, <1>6, <2>1
<1>8. PICK m \in Nat : m = Len(f)
  BY Part2
<1>9. Len(hbf) = (k + l) + m /\ \A i \in 1..(k + l) : hbf[i] = hb[i]
  <2>1. Len(Cat(hb, f)) = Len(hb) + Len(f) /\ \A i \in 1..Len(hb) : Cat(hb, f)[i] = hb[i]
    BY <1>3, Part2
  <2> QED BY <1>2, <1>7, <1>8, <2>1
<1>10. PICK o \in Nat : o = Len(w)
  BY Part2
<1>11. Len(st) = ((k + l) + m) + o /\ \A i \in 1..((k + l) + m) : st[i] = hbf[i]
  <2>1. Len(Cat(hbf, w)) = Len(hbf) + Len(w) /\ \A i \in 1..Len(hbf) : Cat(hbf, w)[i] = hbf[i]
    BY <1>3, Part2
  <2> QED BY <1>4, <1>9, <1>10, <2>1
<1>12. ASSUME NEW i \in 1..l PROVE st[k + i] = b[i]
  <2>1. k + i \in 1..((k + l) + m) /\ k + i \in 1..(k + l)
    OBVIOUS
  <2> QED BY <1>7, <1>9, <1>11, <2>1
<1> QED BY <1>5, <1>6, <1>11, <1>12

\* Where the characters start in the stream: after the frames handed out.
LEMMA FirstFrame ==
    ASSUME Wide = {}, BytesInv, NothingLost, MessageEnd(stringBuf) > 0
    PROVE  \E f \in Frames : /\ stringBuf[1] = <<f, "text">> /\ stringBuf[2] = <<f, "end">>
                             /\ Len(stringBuf) >= 2 /\ MessageEnd(stringBuf) = 2
<1>1. wire \in Seq(Plain) /\ stringBuf \in Seq(Plain) /\ taken \in Seq(Texts)
  BY DEF BytesInv
<1>2. Pieces!FlattenSeq(buffers) \in Seq(Plain)
  BY DecodedIs
<1>3. PICK k \in Nat : k = Len(taken)
  BY <1>1
<1>4. HandedOut \in Seq(Plain) /\ Len(HandedOut) = 2 * k
  <2>1. Handed(taken) \in Seq(Plain) /\ Len(Handed(taken)) = 2 * Len(taken)
    BY <1>1, HandedIs
  <2> QED BY <1>3, <2>1 DEF Handed, HandedOut
<1>5. PICK l \in Nat : l = Len(stringBuf)
  BY <1>1
<1>6. PICK st : st = Stream(Sent)
  OBVIOUS
<1>7. /\ Len(st) = 2 * Len(Sent)
      /\ \A i \in 1..Len(Sent) : /\ Sent[i] \in Frames
                                 /\ st[2 * i - 1] = <<Sent[i], "text">>
                                 /\ st[2 * i] = <<Sent[i], "end">>
  BY <1>6, StreamIs
<1>8. Len(Sent) \in Nat
  BY TokenizerAssumption
<1>9. st = ((HandedOut \o stringBuf) \o Pieces!FlattenSeq(buffers)) \o wire
  BY <1>6 DEF NothingLost
<1>10. Len(HandedOut) + Len(stringBuf) <= Len(st)
       /\ \A i \in 1..Len(stringBuf) : st[Len(HandedOut) + i] = stringBuf[i]
  <2>1. /\ IsSeq(HandedOut, Plain) /\ IsSeq(stringBuf, Plain) /\ IsSeq(wire, Plain)
        /\ IsSeq(Pieces!FlattenSeq(buffers), Plain)
    BY <1>1, <1>2, <1>4 DEF IsSeq
  <2>2. st = Cat(Cat(Cat(HandedOut, stringBuf), Pieces!FlattenSeq(buffers)), wire)
    BY <1>9 DEF Cat
  <2> QED BY <2>1, <2>2, Part
<1>11. 2 * k + l <= 2 * Len(Sent) /\ \A i \in 1..l : st[2 * k + i] = stringBuf[i]
  BY <1>4, <1>5, <1>7, <1>10
<1>12. PICK e \in 1..l : stringBuf[e][2] = "end"
  BY <1>1, <1>5, MessageEndIs
<1>13. 2 * k + 1 <= 2 * Len(Sent) /\ 1 \in 1..l
  BY <1>8, <1>11, <1>12
<1>14. k + 1 \in 1..Len(Sent) /\ 2 * (k + 1) - 1 = 2 * k + 1 /\ 2 * (k + 1) = 2 * k + 2
  BY <1>8, <1>13
<1>15. /\ Sent[k + 1] \in Frames
       /\ st[2 * k + 1] = <<Sent[k + 1], "text">> /\ st[2 * k + 2] = <<Sent[k + 1], "end">>
  BY <1>7, <1>14
<1>16. stringBuf[1] = <<Sent[k + 1], "text">>
  BY <1>11, <1>13, <1>15
<1>17. e # 1
  BY <1>12, <1>16
<1>18. 2 \in 1..l /\ l >= 2
  BY <1>12, <1>17
<1>19. stringBuf[2] = <<Sent[k + 1], "end">>
  BY <1>11, <1>15, <1>18
<1>20. MessageEnd(stringBuf) = 2
  <2>1. stringBuf[1][2] # "end" /\ stringBuf[2][2] = "end" /\ Len(stringBuf) >= 2
    BY <1>5, <1>16, <1>18, <1>19
  <2> QED BY <1>1, <2>1, MessageEndIs
<1> QED BY <1>5, <1>15, <1>16, <1>18, <1>19, <1>20

-----------------------------------------------------------------------------
(* The steps                                                               *)

\* A stream that has not been read is whole.
LEMMA TokenizerInitInv == ASSUME Wide = {} PROVE TokenizerInit => TokenizerInv
<1> SUFFICES ASSUME TokenizerInit PROVE TokenizerInv
  OBVIOUS
<1>1. wire = Stream(Sent) /\ buffers = <<>> /\ stringBuf = <<>> /\ queued = 0
      /\ worker = [w \in Workers |-> "idle"] /\ taken = <<>>
  BY DEF TokenizerInit
<1>2. wire \in Seq(Plain)
  BY <1>1, StreamIs
<1>3. BytesInv
  BY <1>1, <1>2 DEF BytesInv
<1>4. OneRuns
  <2>1. \A w \in Workers : worker[w] = "idle"
    BY <1>1
  <2>2. \A w \in Workers : worker[w] \notin Inside
    BY <2>1 DEF Inside
  <2> QED BY <1>1, <2>2 DEF OneRuns
<1>5. NothingLost
  <2>1. Handed(<<>>) = <<>> /\ Pieces!FlattenSeq(<<>>) = <<>>
    <3>1. [i \in DOMAIN <<>> |-> Frame(<<>>[i])] = <<>>
      OBVIOUS
    <3> QED BY <3>1, FlattenEmpty DEF Handed
  <2>2. HandedOut = <<>>
    BY <1>1, <2>1 DEF HandedOut, Handed
  <2>3. ((<<>> \o <<>>) \o <<>>) \o wire = wire
    BY <1>2
  <2> QED BY <1>1, <2>1, <2>2, <2>3 DEF NothingLost
<1>6. NextIsThere
  BY <1>1 DEF NextIsThere
<1> QED BY <1>3, <1>4, <1>5, <1>6 DEF TokenizerInv

\* A piece that is read goes from the wire to the end of the buffers.
LEMMA ReadKeeps ==
    ASSUME Wide = {}, TokenizerInv, NEW n \in 1..Len(wire), Read(n)
    PROVE  TokenizerInv'
<1> DEFINE p == SubSeq(wire, 1, n)
           q == SubSeq(wire, n + 1, Len(wire))
           F == Pieces!FlattenSeq(buffers)
<1>1. /\ wire' = q /\ buffers' = Append(buffers, p) /\ queued' = queued + 1
      /\ stringBuf' = stringBuf /\ worker' = worker /\ taken' = taken
  BY DEF Read
<1>2. /\ wire \in Seq(Plain) /\ buffers \in Seq(Seq(Plain) \ {<<>>}) /\ stringBuf \in Seq(Plain)
      /\ taken \in Seq(Texts)
  BY DEF TokenizerInv, BytesInv
<1>3. p \in Seq(Plain) \ {<<>>} /\ q \in Seq(Plain) /\ p \o q = wire
  BY <1>2, Cut
<1> HIDE DEF p, q
<1>4. BytesInv'
  <2>1. Append(buffers, p) \in Seq(Seq(Plain) \ {<<>>})
    BY <1>2, <1>3, AppendProperties
  <2> QED BY <1>1, <1>2, <1>3, <2>1 DEF BytesInv
<1>5. F \in Seq(Plain)
  BY DecodedIs DEF TokenizerInv
<1>6. Pieces!FlattenSeq(Append(buffers, p)) = F \o p
  <2>1. buffers \in Seq(Seq(Plain)) /\ p \in Seq(Plain)
    BY <1>2, <1>3
  <2> QED BY <2>1, FlattenAppend
<1>7. HandedOut' = HandedOut
  BY <1>1 DEF HandedOut
<1>8. HandedOut \in Seq(Plain)
  BY <1>2, HandedIs DEF HandedOut, Handed
<1>9. NothingLost'
  <2>1. ((HandedOut \o stringBuf) \o F) \o (p \o q) = Stream(Sent)
    BY <1>3 DEF TokenizerInv, NothingLost
  <2>2. IsSeq(HandedOut, Plain) /\ IsSeq(stringBuf, Plain) /\ IsSeq(F, Plain) /\ IsSeq(p, Plain) /\ IsSeq(q,
        Plain)
    BY <1>2, <1>3, <1>5, <1>8 DEF IsSeq
  <2> HIDE DEF F
  <2>3. ((HandedOut \o stringBuf) \o (F \o p)) \o q = ((HandedOut \o stringBuf) \o F) \o (p \o q)
    <3>1. Cat(Cat(Cat(HandedOut, stringBuf), Cat(F, p)), q) = Cat(Cat(Cat(HandedOut, stringBuf), F), Cat(p, q))
      BY <2>2, CatMoves
    <3> QED BY <3>1 DEF Cat
  <2>4. Pieces!FlattenSeq(buffers)' = F \o p
    BY <1>1, <1>6
  <2>5. (HandedOut \o stringBuf \o Pieces!FlattenSeq(buffers) \o wire)' = ((HandedOut \o stringBuf) \o (F \o p)) \o q
    BY <1>1, <1>7, <2>4
  <2>6. (Stream(Sent))' = Stream(Sent)
    BY DEF Stream
  <2> QED BY <2>1, <2>3, <2>5, <2>6 DEF NothingLost
<1>10. OneRuns' /\ NextIsThere'
  BY <1>1 DEF TokenizerInv, OneRuns, NextIsThere
<1> QED BY <1>4, <1>9, <1>10 DEF TokenizerInv

\* The buffers' bytes become characters; a delimiter among them is seen.
LEMMA HasMessageKeeps ==
    ASSUME Wide = {}, TokenizerInv, NEW w \in Workers, HasMessage(w)
    PROVE  TokenizerInv'
<1> DEFINE F == Pieces!FlattenSeq(buffers)
           D == stringBuf \o F
<1>1. /\ wire \in Seq(Plain) /\ stringBuf \in Seq(Plain) /\ taken \in Seq(Texts)
  BY DEF TokenizerInv, BytesInv
<1>2. F \in Seq(Plain) /\ Decoded = D
  BY DecodedIs DEF TokenizerInv
<1> HIDE DEF F
<1>3. D \in Seq(Plain)
  BY <1>1, <1>2, ConcatProperties
<1>4. /\ worker[w] = "has" /\ buffers' = <<>> /\ stringBuf' = D
      /\ worker' = [worker EXCEPT ![w] = IF MessageEnd(D) > 0 THEN "next" ELSE "leave"]
      /\ wire' = wire /\ queued' = queued /\ taken' = taken
  BY <1>2 DEF HasMessage
<1> HIDE DEF D
<1>5. BytesInv'
  BY <1>1, <1>3, <1>4 DEF BytesInv
<1>6. HandedOut' = HandedOut /\ HandedOut \in Seq(Plain)
  <2>1. HandedOut' = HandedOut
    BY <1>4 DEF HandedOut
  <2> QED BY <1>1, <2>1, HandedIs DEF HandedOut, Handed
<1>7. NothingLost'
  <2>1. ((HandedOut \o stringBuf) \o F) \o wire = Stream(Sent)
    BY DEF TokenizerInv, NothingLost, F
  <2>2. IsSeq(HandedOut, Plain) /\ IsSeq(stringBuf, Plain) /\ IsSeq(F, Plain) /\ IsSeq(wire, Plain)
    BY <1>1, <1>2, <1>6 DEF IsSeq
  <2>3. ((HandedOut \o D) \o <<>>) \o wire = ((HandedOut \o stringBuf) \o F) \o wire
    <3>1. Cat(Cat(Cat(HandedOut, Cat(stringBuf, F)), <<>>), wire) = Cat(Cat(Cat(HandedOut, stringBuf), F), wire)
      BY <2>2, CatMoves
    <3> QED BY <3>1 DEF Cat, D
  <2>4. Pieces!FlattenSeq(buffers)' = <<>>
    BY <1>4, FlattenEmpty
  <2>5. (HandedOut \o stringBuf \o Pieces!FlattenSeq(buffers) \o wire)' = ((HandedOut \o D) \o <<>>) \o wire
    BY <1>4, <1>6, <2>4
  <2>6. (Stream(Sent))' = Stream(Sent)
    BY DEF Stream
  <2> QED BY <2>1, <2>3, <2>5, <2>6 DEF NothingLost
<1>8. OneRuns'
  <2> DEFINE z == IF MessageEnd(D) > 0 THEN "next" ELSE "leave"
  <2>1. z \in {"next", "leave"}
    OBVIOUS
  <2>2. worker' = [worker EXCEPT ![w] = z]
    BY <1>4
  <2> HIDE DEF z
  <2> QED BY <1>4, <2>1, <2>2 DEF TokenizerInv, OneRuns, Inside
<1>9. NextIsThere'
  <2>1. MessageEnd(stringBuf)' = MessageEnd(D)
    BY <1>4 DEF MessageEnd, Pieces!SelectInSeq, Pieces!Min
  <2>2. \A v \in Workers : v # w => worker[v] # "next"
    BY <1>4 DEF TokenizerInv, OneRuns, Inside
  <2>3. \A v \in Workers : v # w => worker'[v] # "next"
    BY <1>4, <2>2
  <2>4. worker'[w] = "next" => MessageEnd(D) > 0
    BY <1>4 DEF TokenizerInv, OneRuns
  <2> QED BY <2>1, <2>3, <2>4 DEF NextIsThere
<1> QED BY <1>5, <1>7, <1>8, <1>9 DEF TokenizerInv

\* The first frame's text is handed out and its bytes leave the characters.
LEMMA NextMessageKeeps ==
    ASSUME Wide = {}, TokenizerInv, NEW w \in Workers, NextMessage(w)
    PROVE  TokenizerInv'
<1>1. /\ wire \in Seq(Plain) /\ stringBuf \in Seq(Plain) /\ taken \in Seq(Texts)
      /\ buffers \in Seq(Seq(Plain) \ {<<>>})
  BY DEF TokenizerInv, BytesInv
<1>2. worker[w] = "next" /\ MessageEnd(stringBuf) > 0
  BY DEF TokenizerInv, NextIsThere, NextMessage
<1>3. PICK f \in Frames : /\ stringBuf[1] = <<f, "text">> /\ stringBuf[2] = <<f, "end">>
                          /\ Len(stringBuf) >= 2 /\ MessageEnd(stringBuf) = 2
  BY <1>2, FirstFrame DEF TokenizerInv
<1> DEFINE x == << <<f, "text">> >>
           te == << <<f, "text">>, <<f, "end">> >>
           rest == SubSeq(stringBuf, 3, Len(stringBuf))
           F == Pieces!FlattenSeq(buffers)
<1>4. SubSeq(stringBuf, 1, 1) = x /\ SubSeq(stringBuf, 1, 2) = te
  BY <1>1, <1>3, FirstTwo
<1>6. te \in Seq(Plain) /\ rest \in Seq(Plain) /\ te \o rest = stringBuf
  <2>1. 2 \in 1..Len(stringBuf)
    BY <1>1, <1>3
  <2>2. SubSeq(stringBuf, 2 + 1, Len(stringBuf)) = rest
    OBVIOUS
  <2> HIDE DEF rest, te
  <2> QED BY <1>1, <1>4, <2>1, <2>2, Cut
<1>7. /\ wire' = wire /\ buffers' = buffers /\ queued' = queued
      /\ taken' = Append(taken, x) /\ stringBuf' = rest
      /\ worker' = [worker EXCEPT ![w] = "has"]
  <2>1. /\ wire' = wire /\ buffers' = buffers /\ queued' = queued
        /\ taken' = Append(taken, SubSeq(stringBuf, 1, 2 - 1))
        /\ stringBuf' = SubSeq(stringBuf, 2 + 1, Len(stringBuf))
        /\ worker' = [worker EXCEPT ![w] = "has"]
    BY <1>3 DEF NextMessage
  <2>2. 2 - 1 = 1 /\ 2 + 1 = 3
    OBVIOUS
  <2> HIDE DEF x
  <2> QED BY <1>4, <2>1, <2>2
<1>8. x \in Texts
  BY DEF Texts
<1>9. Frame(x) = te
  BY FrameIs
<1> HIDE DEF x, te, rest, F
<1>10. BytesInv'
  <2>1. Append(taken, x) \in Seq(Texts)
    BY <1>1, <1>8, AppendProperties
  <2> QED BY <1>1, <1>6, <1>7, <2>1 DEF BytesInv
<1>11. HandedOut \in Seq(Plain) /\ F \in Seq(Plain)
  <2>1. HandedOut \in Seq(Plain)
    BY <1>1, HandedIs DEF HandedOut, Handed
  <2> QED BY <2>1, DecodedIs DEF TokenizerInv, F
<1>12. HandedOut' = HandedOut \o te
  <2>1. Handed(Append(taken, x)) = Handed(taken) \o te
    BY <1>1, <1>8, <1>9, HandedNext
  <2> QED BY <1>7, <2>1 DEF HandedOut, Handed
<1>13. NothingLost'
  <2>1. ((HandedOut \o (te \o rest)) \o F) \o wire = Stream(Sent)
    BY <1>6 DEF TokenizerInv, NothingLost, F
  <2>2. /\ IsSeq(HandedOut, Plain) /\ IsSeq(te, Plain) /\ IsSeq(rest, Plain) /\ IsSeq(F, Plain)
        /\ IsSeq(wire, Plain)
    BY <1>1, <1>6, <1>11 DEF IsSeq
  <2>3. (((HandedOut \o te) \o rest) \o F) \o wire = ((HandedOut \o (te \o rest)) \o F) \o wire
    <3>1. Cat(Cat(Cat(Cat(HandedOut, te), rest), F), wire) = Cat(Cat(Cat(HandedOut, Cat(te, rest)), F), wire)
      <4>1. Cat(Cat(HandedOut, te), rest) = Cat(HandedOut, Cat(te, rest))
        BY <2>2, CatAssociative
      <4> QED BY <4>1
    <3> QED BY <3>1 DEF Cat
  <2>4. Pieces!FlattenSeq(buffers)' = F
    BY <1>7 DEF F
  <2>5. (HandedOut \o stringBuf \o Pieces!FlattenSeq(buffers) \o wire)' = (((HandedOut \o te) \o rest) \o F) \o wire
    BY <1>7, <1>12, <2>4
  <2>6. (Stream(Sent))' = Stream(Sent)
    BY DEF Stream
  <2> QED BY <2>1, <2>3, <2>5, <2>6 DEF NothingLost
<1>14. OneRuns'
  BY <1>2, <1>7 DEF TokenizerInv, OneRuns, Inside
<1>15. NextIsThere'
  <2>1. \A v \in Workers : v # w => worker[v] # "next"
    BY <1>2 DEF TokenizerInv, OneRuns, Inside
  <2>2. \A v \in Workers : worker'[v] # "next"
    BY <1>7, <2>1 DEF TokenizerInv, OneRuns
  <2> QED BY <2>2 DEF NextIsThere
<1> QED BY <1>10, <1>13, <1>14, <1>15 DEF TokenizerInv

\* The steps that move no bytes.
LEMMA Unmoved ==
    ASSUME TokenizerInv, OneRuns', UNCHANGED <<wire, buffers, stringBuf, taken>>,
           \A w \in Workers : worker'[w] = "next" => worker[w] = "next"
    PROVE  TokenizerInv'
<1>1. BytesInv'
  BY DEF TokenizerInv, BytesInv
<1>2. NothingLost'
  <2>1. /\ HandedOut' = HandedOut /\ Pieces!FlattenSeq(buffers)' = Pieces!FlattenSeq(buffers)
        /\ (Stream(Sent))' = Stream(Sent)
    BY DEF HandedOut, Stream
  <2>2. wire' = wire /\ stringBuf' = stringBuf
    OBVIOUS
  <2>3. ((HandedOut \o stringBuf) \o Pieces!FlattenSeq(buffers)) \o wire = Stream(Sent)
    BY DEF TokenizerInv, NothingLost
  <2> QED BY <2>1, <2>2, <2>3 DEF NothingLost
<1>3. NextIsThere'
  <2>1. MessageEnd(stringBuf)' = MessageEnd(stringBuf)
    BY DEF MessageEnd, Pieces!SelectInSeq, Pieces!Min
  <2> QED BY <2>1 DEF TokenizerInv, NextIsThere
<1> QED BY <1>1, <1>2, <1>3 DEF TokenizerInv

\* Every step of the selector and of the pool's threads keeps it.
LEMMA TokenizerStepInv == ASSUME Wide = {} PROVE TokenizerInv /\ [TokenizerNext]_tokenizerVars => TokenizerInv'
<1> SUFFICES ASSUME TokenizerInv, [TokenizerNext]_tokenizerVars PROVE TokenizerInv'
  OBVIOUS
<1>1. ASSUME NEW n \in 1..Len(wire), Read(n) PROVE TokenizerInv'
  BY <1>1, ReadKeeps
<1>2. ASSUME NEW w \in Workers, TakeTask(w) PROVE TokenizerInv'
  <2>1. OneRuns'
    BY <1>2 DEF TakeTask, TokenizerInv, OneRuns, Inside
  <2>2. UNCHANGED <<wire, buffers, stringBuf, taken>> /\ worker' = [worker EXCEPT ![w] = "lock"]
    BY <1>2 DEF TakeTask
  <2>3. \A v \in Workers : worker'[v] = "next" => worker[v] = "next"
    BY <2>2 DEF TokenizerInv, OneRuns
  <2> QED BY <2>1, <2>2, <2>3, Unmoved
<1>3. ASSUME NEW w \in Workers, EnterRun(w) PROVE TokenizerInv'
  <2>1. OneRuns'
    BY <1>3 DEF EnterRun, TokenizerInv, OneRuns, Inside
  <2>2. UNCHANGED <<wire, buffers, stringBuf, taken>> /\ worker' = [worker EXCEPT ![w] = "has"]
    BY <1>3 DEF EnterRun
  <2>3. \A v \in Workers : worker'[v] = "next" => worker[v] = "next"
    BY <2>2 DEF TokenizerInv, OneRuns
  <2> QED BY <2>1, <2>2, <2>3, Unmoved
<1>4. ASSUME NEW w \in Workers, HasMessage(w) PROVE TokenizerInv'
  BY <1>4, HasMessageKeeps
<1>5. ASSUME NEW w \in Workers, NextMessage(w) PROVE TokenizerInv'
  BY <1>5, NextMessageKeeps
<1>6. ASSUME NEW w \in Workers, LeaveRun(w) PROVE TokenizerInv'
  <2>1. OneRuns'
    BY <1>6 DEF LeaveRun, TokenizerInv, OneRuns, Inside
  <2>2. UNCHANGED <<wire, buffers, stringBuf, taken>> /\ worker' = [worker EXCEPT ![w] = "idle"]
    BY <1>6 DEF LeaveRun
  <2>3. \A v \in Workers : worker'[v] = "next" => worker[v] = "next"
    BY <2>2 DEF TokenizerInv, OneRuns
  <2> QED BY <2>1, <2>2, <2>3, Unmoved
<1>7. ASSUME UNCHANGED tokenizerVars PROVE TokenizerInv'
  <2>1. UNCHANGED <<wire, buffers, stringBuf, taken>> /\ queued' = queued /\ worker' = worker
    BY <1>7 DEF tokenizerVars
  <2>2. OneRuns'
    BY <2>1 DEF TokenizerInv, OneRuns
  <2> QED BY <2>1, <2>2, Unmoved
<1>8. CASE Finished
  BY <1>7, <1>8 DEF Finished
<1> QED BY <1>1, <1>2, <1>3, <1>4, <1>5, <1>6, <1>7, <1>8 DEF TokenizerNext, Run

\* It says what the module promises.
LEMMA InvGives == TokenizerInv => StreamInv
<1> SUFFICES ASSUME TokenizerInv PROVE StreamInv
  OBVIOUS
<1>1. Plain \subseteq Bytes
  BY DEF Plain, Bytes
<1>2. Texts \subseteq Seq(Bytes)
  <2>1. \A f \in Frames : <<f, "text">> \in Bytes
    BY DEF Bytes
  <2> QED BY <2>1 DEF Texts
<1>3. Seq(Plain) \subseteq Seq(Bytes)
  BY <1>1
<1>4. buffers \in Seq(Seq(Bytes)) /\ taken \in Seq(Seq(Bytes))
  BY <1>2, <1>3 DEF TokenizerInv, BytesInv
<1>5. TokenizerTypeOK
  BY <1>3, <1>4 DEF TokenizerInv, BytesInv, OneRuns, TokenizerTypeOK
<1> QED BY <1>5 DEF TokenizerInv, StreamInv

\* However reads cut a stream of one-byte characters, and whichever threads of the
\* pool decode it, no byte is lost, repeated or moved, and the message that
\* hasMessage promised is there.
THEOREM StreamInvHolds == ASSUME Wide = {} PROVE TokenizerSpec => []StreamInv
<1>1. TokenizerInit => TokenizerInv
  BY TokenizerInitInv
<1>2. TokenizerInv /\ [TokenizerNext]_tokenizerVars => TokenizerInv'
  BY TokenizerStepInv
<1>3. TokenizerInv => StreamInv
  BY InvGives
<1> QED BY <1>1, <1>2, <1>3, PTL DEF TokenizerSpec

-----------------------------------------------------------------------------
(* ThreadServer: the inductive invariant                                   *)

\* A connection that nobody has opened is nowhere; the one in the accept loop's
\* hands has no thread yet.
AcceptorInv ==
    /\ acceptor.pc \in {"add", "start"} => acceptor.conn \in Conns
    /\ \A c \in Conns : acceptor.pc \in {"add", "start"} /\ acceptor.conn = c => At(c, "none")
    /\ \A c \in Conns : socket[c] = "none" =>
         /\ At(c, "none")
         /\ c \notin activeConnections
         /\ acceptor.pc \in {"add", "start"} => acceptor.conn # c

\* The places of a thread inside kill, where it holds the engine's monitor.
KillPlaces == {"kill", "next", "close", "reader", "drop"}

\* One thread at a time is inside kill.
KillInv == \A k \in Conns : thread[k] \in KillPlaces => engine = k

\* Whoever is about to take a connection off the list has closed its socket.
ClosedInv ==
    /\ \A k \in Conns : thread[k] \in {"reader", "drop"} => socket[victim] = "closed"
    /\ \A c \in Conns : thread[c] \in {"remove", "ended"} => socket[c] = "closed"

\* RegistrationInv with what makes it inductive.
ThreadServerInv == RegistrationInv /\ AcceptorInv /\ KillInv /\ ClosedInv

-----------------------------------------------------------------------------

\* Nothing has been accepted when the server starts.
LEMMA ThreadServerInitInv == Init => ThreadServerInv
<1> SUFFICES ASSUME Init PROVE ThreadServerInv
  OBVIOUS
<1>1. TypeOK
  BY DEF Init, TypeOK, ThreadPlaces
<1>2. OpenIsRegistered /\ EndedIsRemoved /\ AcceptorInv /\ KillInv /\ ClosedInv
  BY ThreadServerAssumption
     DEF Init, OpenIsRegistered, EndedIsRemoved, AcceptorInv, KillInv, KillPlaces, ClosedInv, At
<1> QED BY <1>1, <1>2 DEF ThreadServerInv, RegistrationInv

\* Every step of the accept loop, of a handler and of kill keeps it.
LEMMA ThreadServerStepInv == ThreadServerInv /\ [Next]_vars => ThreadServerInv'
<1> SUFFICES ASSUME ThreadServerInv, [Next]_vars
             PROVE  TypeOK' /\ OpenIsRegistered' /\ EndedIsRemoved' /\ AcceptorInv' /\ KillInv' /\ ClosedInv'
  BY DEF ThreadServerInv, RegistrationInv
<1> USE ThreadServerAssumption
    DEF ThreadServerInv, RegistrationInv, TypeOK, OpenIsRegistered, EndedIsRemoved, AcceptorInv, KillInv, KillPlaces,
        ClosedInv, At, Goto, ThreadPlaces, serverVars, listVars, connVars
<1> DEFINE Kept == TypeOK' /\ OpenIsRegistered' /\ EndedIsRemoved' /\ AcceptorInv' /\ KillInv' /\ ClosedInv'
<1>1. ASSUME NEW c \in Conns, Accept(c) PROVE Kept
  BY <1>1 DEF Accept
<1>2. ASSUME AcceptFails PROVE Kept
  BY <1>2 DEF AcceptFails
<1>3. ASSUME Add PROVE Kept
  BY <1>3 DEF Add
<1>4. ASSUME Start PROVE Kept
  BY <1>4 DEF Start
<1>5. ASSUME NEW c \in Conns, Initialize(c) PROVE Kept
  BY <1>5 DEF Initialize
<1>6. ASSUME NEW c \in Conns, ReadFrame(c) PROVE Kept
  BY <1>6 DEF ReadFrame
<1>7. ASSUME NEW c \in Conns, ReadEnds(c) PROVE Kept
  BY <1>7 DEF ReadEnds
<1>8. ASSUME NEW c \in Conns, NEW p \in {"after", "send", "stop"}, Handle(c, p) PROVE Kept
  BY <1>8 DEF Handle
<1>9. ASSUME NEW c \in Conns, Disconnect(c) PROVE Kept
  BY <1>9 DEF Disconnect
<1>10. ASSUME NEW c \in Conns, Send(c) PROVE Kept
  BY <1>10 DEF Send
<1>11. ASSUME NEW c \in Conns, After(c) PROVE Kept
  BY <1>11 DEF After
<1>12. ASSUME NEW c \in Conns, Close(c) PROVE Kept
  BY <1>12 DEF Close
<1>13. ASSUME NEW c \in Conns, Remove(c) PROVE Kept
  BY <1>13 DEF Remove
<1>14. ASSUME NEW k \in Conns, KillBegins(k) PROVE Kept
  BY <1>14 DEF KillBegins
<1>15. ASSUME NEW k \in Conns, KillListener(k) PROVE Kept
  BY <1>15 DEF KillListener
<1>16. ASSUME NEW k \in Conns, KillNext(k) PROVE Kept
  BY <1>16 DEF KillNext, KillReturns
<1>17. ASSUME NEW k \in Conns, KillCloses(k) PROVE Kept
  <2>1. victim \in Conns /\ thread[k] = "close"
    BY <1>17 DEF KillCloses
  <2>2. CASE socket[victim] = "closed"
    BY <1>17, <2>1, <2>2 DEF KillCloses
  <2>3. CASE socket[victim] # "closed"
    <3>1. /\ socket' = [socket EXCEPT ![victim] = "closed"]
          /\ thread' = [thread EXCEPT ![k] = "reader"]
          /\ shouldClose' = [shouldClose EXCEPT ![victim] = TRUE]
          /\ UNCHANGED <<listening, isRunning, acceptor, activeConnections, modified, victim, server, engine>>
      BY <1>17, <2>3 DEF KillCloses
    <3>2. TypeOK'
      BY <2>1, <3>1
    <3>3. OpenIsRegistered' /\ EndedIsRemoved'
      BY <2>1, <3>1
    <3>4. AcceptorInv'
      BY <2>1, <3>1
    <3>5. KillInv' /\ ClosedInv'
      BY <2>1, <3>1
    <3> QED BY <3>2, <3>3, <3>4, <3>5
  <2> QED BY <2>2, <2>3
<1>18. ASSUME NEW k \in Conns, KillReader(k) PROVE Kept
  BY <1>18 DEF KillReader
<1>19. ASSUME NEW k \in Conns, KillDrops(k) PROVE Kept
  BY <1>19 DEF KillDrops, KillReturns
<1>20. CASE UNCHANGED vars
  BY <1>20 DEF vars
<1> QED
  BY <1>1, <1>2, <1>3, <1>4, <1>5, <1>6, <1>7, <1>8, <1>9, <1>10, <1>11, <1>12,
     <1>13, <1>14, <1>15, <1>16, <1>17, <1>18, <1>19, <1>20
     DEF Next, AcceptorStep, HandlerStep, KillStep, ReadFails

\* The inductive invariant holds in every behaviour.
LEMMA ThreadServerInvariant == Spec => []ThreadServerInv
BY ThreadServerInitInv, ThreadServerStepInv, PTL DEF Spec

-----------------------------------------------------------------------------

\* For any number of clients: a connection whose socket is open is in the list
\* or still in the accept loop's hands, a handler that has ended is not in it,
\* and kill has a connection in its hands exactly while it is closing one.
THEOREM RegistrationHolds == Spec => []RegistrationInv
<1>1. ThreadServerInv => RegistrationInv BY DEF ThreadServerInv
<1> QED BY <1>1, ThreadServerInvariant, PTL

\* The only step in which kill comes to its end without an exception is the one
\* that finds the list empty.
LEMMA KillEndsEmpty ==
    ASSUME ThreadServerInv, [Next]_vars, NEW k \in Conns, At(k, "next"), thread'[k] = "after", ~modified
    PROVE  activeConnections = {}
<1> USE DEF ThreadServerInv, RegistrationInv, TypeOK, AcceptorInv, At, Goto
<1>1. CASE AcceptorStep
  BY <1>1 DEF AcceptorStep, AcceptFails, Add, Start
<1>2. ASSUME NEW c \in Conns, Accept(c) \/ ReadFrame(c) \/ ReadEnds(c) \/ HandlerStep(c), c # k
      PROVE FALSE
  <2>1. thread'[k] = thread[k]
    BY <1>2 DEF Accept, ReadFrame, ReadEnds, HandlerStep, KillStep, Initialize, ReadFails, Send, After, Close, Remove,
                Handle, Disconnect, KillBegins, KillListener, KillNext, KillReturns, KillCloses, KillReader, KillDrops
  <2> QED BY <2>1
<1>3. CASE Accept(k) \/ ReadFrame(k) \/ ReadEnds(k) \/ HandlerStep(k)
  <2>1. CASE KillNext(k)
    BY <2>1 DEF KillNext
  <2>2. CASE Accept(k)
    BY <2>2 DEF Accept
  <2>3. ~ReadFrame(k) /\ ~ReadEnds(k) /\ ~(\E p \in {"after", "send", "stop"} : Handle(k, p)) /\ ~ReadFails(k)
    BY DEF ReadFrame, ReadEnds, Handle, ReadFails
  <2>4. ~Initialize(k) /\ ~Send(k) /\ ~After(k) /\ ~Close(k) /\ ~Remove(k) /\ ~Disconnect(k)
    BY DEF Initialize, Send, After, Close, Remove, Disconnect
  <2>5. ~KillBegins(k) /\ ~KillListener(k) /\ ~KillCloses(k) /\ ~KillReader(k) /\ ~KillDrops(k)
    BY DEF KillBegins, KillListener, KillCloses, KillReader, KillDrops
  <2> QED BY <1>3, <2>1, <2>2, <2>3, <2>4, <2>5 DEF HandlerStep, KillStep
<1>4. CASE UNCHANGED vars
  BY <1>4 DEF vars
<1> QED BY <1>1, <1>2, <1>3, <1>4 DEF Next

\* A kill that ends without an exception leaves no socket open, but that of the
\* connection which the accept loop has got and not yet put into the list.
THEOREM KillClosesAllHolds == Spec => KillClosesAll
<1>1. ASSUME ThreadServerInv, [Next]_vars
      PROVE  [\A k \in Conns : At(k, "next") /\ thread'[k] = "after" /\ ~modified =>
               \A c \in Conns : socket[c] = "open" => acceptor = [pc |-> "add", conn |-> c]]_vars
  <2>1. OpenIsRegistered
    BY <1>1 DEF ThreadServerInv, RegistrationInv
  <2>2. \A k \in Conns : At(k, "next") /\ thread'[k] = "after" /\ ~modified => activeConnections = {}
    BY <1>1, KillEndsEmpty
  <2> QED BY <2>1, <2>2 DEF OpenIsRegistered
<1> QED BY <1>1, ThreadServerInvariant, PTL DEF Spec, KillClosesAll

=============================================================================
