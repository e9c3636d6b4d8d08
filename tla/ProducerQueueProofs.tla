------------------------ MODULE ProducerQueueProofs ------------------------
(***************************************************************************)
(* The producing half of the queue for any number of callers and calls and *)
(* every capacity of its channel.  All three places a payload can be in,   *)
(* read from the oldest on, are one line: the loop moves payloads along    *)
(* it, only a caller lengthens it, and nobody takes anything out of it.    *)
(***************************************************************************)
EXTENDS ProducerQueue, SequenceTheorems, TLAPS

\* s, and behind it t.
Then(s, t) == s \o t

Line == Then(Then(flushed, items), channel)

\* What is accepted is what stands in the line.
LineIsAccepted == accepted = Elements(Line)

\* The payloads of one caller stand in the order of its calls.
InOrder(s) ==
    \A i, j \in DOMAIN s : i < j => s[i][1] # s[j][1] \/ s[i][2] < s[j][2]

\* No payload is of a call still to be made; of the call that is at the select,
\* the payload is not in the line yet.
LineIsOfThePast ==
    \A i \in DOMAIN Line :
        LET c == Line[i][1]
        IN  Line[i][2] <= calls[c] /\ (caller[c] = "select" => Line[i][2] < calls[c])

AfterSeal == {"drain", "drainFlush", "lastFlush", "exit", "done"}

\* Nobody is at the select of a sealed queue, and the loop goes past the seal
\* only with the queue sealed, past the drain only with an empty channel.
SealedIsQuiet ==
    /\ sealed => \A c \in Callers : caller[c] # "select"
    /\ sealed <=> loop \in AfterSeal
    /\ loop \in {"lastFlush", "exit", "done"} => channel = <<>>
    /\ loop \in {"exit", "done"} => items = <<>>

\* There is room in the batch for what the loop takes next.
RoomInBatch == loop \in {"run", "sealing", "drain"} => Len(items) < Buffer

\* Whoever is at the select has begun a call.
CallBegun == \A c \in Callers : caller[c] = "select" => calls[c] > 0

IInv ==
    /\ TypeOK
    /\ CallBegun
    /\ LineIsAccepted
    /\ InOrder(Line)
    /\ LineIsOfThePast
    /\ SealedIsQuiet
    /\ RoomInBatch

-----------------------------------------------------------------------------
(* Sequences.                                                               *)

\* What stands where in a concatenation.
LEMMA ThenProperties ==
    ASSUME NEW s \in Seq(Payloads), NEW t \in Seq(Payloads)
    PROVE  /\ Then(s, t) \in Seq(Payloads)
           /\ Len(s) \in Nat /\ Len(t) \in Nat /\ Len(Then(s, t)) = Len(s) + Len(t)
           /\ DOMAIN s = 1 .. Len(s) /\ DOMAIN t = 1 .. Len(t)
           /\ DOMAIN Then(s, t) = 1 .. Len(s) + Len(t)
           /\ \A i \in 1 .. Len(s) : Then(s, t)[i] = s[i]
           /\ \A i \in 1 .. Len(t) : Then(s, t)[Len(s) + i] = t[i]
           /\ \A i \in DOMAIN Then(s, t) :
                 \/ i \in 1 .. Len(s)
                 \/ \E j \in 1 .. Len(t) : i = Len(s) + j
  <1> DEFINE u == s \o t
  <1>1. /\ u \in Seq(Payloads) /\ Len(u) = Len(s) + Len(t)
        /\ \A i \in 1 .. Len(s) + Len(t) : u[i] = IF i <= Len(s) THEN s[i] ELSE t[i - Len(s)]
    BY ConcatProperties
  <1>2. /\ DOMAIN s = 1 .. Len(s) /\ DOMAIN t = 1 .. Len(t) /\ DOMAIN u = 1 .. Len(u)
        /\ Len(s) \in Nat /\ Len(t) \in Nat
    BY <1>1, LenProperties
  <1> HIDE DEF u
  <1>3. \A i \in 1 .. Len(s) : u[i] = s[i]
    BY <1>1, <1>2
  <1>4. ASSUME NEW i \in 1 .. Len(t)
        PROVE  u[Len(s) + i] = t[i]
    <2>1. Len(s) + i \in 1 .. Len(s) + Len(t) /\ ~ (Len(s) + i <= Len(s))
          /\ (Len(s) + i) - Len(s) = i
      BY <1>2
    <2> QED BY <1>1, <2>1
  <1>5. ASSUME NEW i \in DOMAIN u, i \notin 1 .. Len(s)
        PROVE  \E j \in 1 .. Len(t) : i = Len(s) + j
    <2>1. i - Len(s) \in 1 .. Len(t) /\ i = Len(s) + (i - Len(s))
      BY <1>1, <1>2, <1>5
    <2> QED BY <2>1
  <1>6. u = Then(s, t)
    BY DEF u, Then
  <1> QED BY <1>1, <1>2, <1>3, <1>4, <1>5, <1>6

\* A concatenation has the elements of both its parts.
LEMMA ThenElements ==
    ASSUME NEW s \in Seq(Payloads), NEW t \in Seq(Payloads)
    PROVE  Elements(Then(s, t)) = Elements(s) \cup Elements(t)
  <1> DEFINE u == Then(s, t)
  <1>0. /\ DOMAIN s = 1 .. Len(s) /\ DOMAIN t = 1 .. Len(t) /\ DOMAIN u = 1 .. Len(s) + Len(t)
        /\ Len(s) \in Nat /\ Len(t) \in Nat
        /\ \A i \in 1 .. Len(s) : u[i] = s[i]
        /\ \A i \in 1 .. Len(t) : u[Len(s) + i] = t[i]
        /\ \A i \in DOMAIN u : i \in 1 .. Len(s) \/ \E j \in 1 .. Len(t) : i = Len(s) + j
    BY ThenProperties
  <1> HIDE DEF u
  <1>1. ASSUME NEW i \in DOMAIN u
        PROVE  u[i] \in Elements(s) \cup Elements(t)
    BY <1>0 DEF Elements
  <1>2. ASSUME NEW i \in DOMAIN s
        PROVE  s[i] \in Elements(u)
    <2>1. i \in DOMAIN u /\ u[i] = s[i]
      BY <1>0
    <2> QED BY <2>1 DEF Elements
  <1>3. ASSUME NEW i \in DOMAIN t
        PROVE  t[i] \in Elements(u)
    <2>1. Len(s) + i \in DOMAIN u /\ u[Len(s) + i] = t[i]
      BY <1>0
    <2> QED BY <2>1 DEF Elements
  <1>4. Elements(u) = Elements(s) \cup Elements(t)
    BY <1>1, <1>2, <1>3 DEF Elements
  <1> QED BY <1>4 DEF u

\* Concatenation is associative.
LEMMA ThenAssociative ==
    ASSUME NEW a \in Seq(Payloads), NEW b \in Seq(Payloads), NEW c \in Seq(Payloads)
    PROVE  Then(Then(a, b), c) = Then(a, Then(b, c))
  <1> DEFINE ab == Then(a, b)
             bc == Then(b, c)
             l  == Then(ab, c)
             r  == Then(a, bc)
  <1>1. /\ Len(a) \in Nat /\ Len(b) \in Nat /\ Len(c) \in Nat
        /\ ab \in Seq(Payloads) /\ Len(ab) = Len(a) + Len(b)
        /\ bc \in Seq(Payloads) /\ Len(bc) = Len(b) + Len(c)
        /\ \A i \in 1 .. Len(a) : ab[i] = a[i]
        /\ \A i \in 1 .. Len(b) : ab[Len(a) + i] = b[i] /\ bc[i] = b[i]
        /\ \A i \in 1 .. Len(c) : bc[Len(b) + i] = c[i]
    BY ZenonT(60), ThenProperties
  <1> HIDE DEF ab, bc
  <1>2. /\ l \in Seq(Payloads) /\ Len(l) = Len(ab) + Len(c)
        /\ r \in Seq(Payloads) /\ Len(r) = Len(a) + Len(bc)
        /\ \A i \in 1 .. Len(ab) : l[i] = ab[i]
        /\ \A i \in 1 .. Len(c) : l[Len(ab) + i] = c[i]
        /\ \A i \in 1 .. Len(a) : r[i] = a[i]
        /\ \A i \in 1 .. Len(bc) : r[Len(a) + i] = bc[i]
    BY ZenonT(60), <1>1, ThenProperties
  <1> HIDE DEF l, r
  <1>3. ASSUME NEW i \in 1 .. Len(a)
        PROVE  l[i] = r[i]
    <2>1. i \in 1 .. Len(ab)
      BY <1>1
    <2> QED BY <1>1, <1>2, <2>1
  <1>4. ASSUME NEW i \in 1 .. Len(b)
        PROVE  l[Len(a) + i] = r[Len(a) + i]
    <2>1. Len(a) + i \in 1 .. Len(ab) /\ i \in 1 .. Len(bc)
      BY <1>1
    <2> QED BY <1>1, <1>2, <2>1
  <1>5. ASSUME NEW i \in 1 .. Len(c)
        PROVE  l[Len(a) + (Len(b) + i)] = r[Len(a) + (Len(b) + i)]
    <2>1. Len(b) + i \in 1 .. Len(bc)
      BY <1>1
    <2>2. Len(ab) + i = Len(a) + (Len(b) + i)
      BY <1>1
    <2>3. r[Len(a) + (Len(b) + i)] = c[i]
      BY <1>1, <1>2, <2>1
    <2>4. l[Len(ab) + i] = c[i]
      BY <1>2
    <2> QED BY <2>2, <2>3, <2>4
  <1>6. ASSUME NEW i \in 1 .. Len(l)
        PROVE  l[i] = r[i]
    <2>1. CASE i <= Len(a)
      BY <1>1, <1>2, <1>3, <2>1
    <2>2. CASE i > Len(a) /\ i <= Len(a) + Len(b)
      <3>1. i - Len(a) \in 1 .. Len(b) /\ i = Len(a) + (i - Len(a))
        BY <1>1, <1>2, <2>2
      <3> QED BY <1>4, <3>1
    <2>3. CASE i > Len(a) + Len(b)
      <3> DEFINE k == i - (Len(a) + Len(b))
      <3>1. k \in 1 .. Len(c) /\ i = Len(a) + (Len(b) + k)
        BY <1>1, <1>2, <2>3
      <3> HIDE DEF k
      <3> QED BY <1>5, <3>1
    <2> QED BY <1>1, <1>2, <2>1, <2>2, <2>3
  <1>7. l = r
    <2>1. Len(l) = Len(r)
      BY <1>1, <1>2
    <2> QED BY <1>2, <1>6, <2>1, SeqEqual
  <1> QED BY <1>7 DEF ab, bc, l, r

\* What moves from the head of one sequence to the end of the one before it
\* stays where it is in their concatenation.
LEMMA HeadMovesOver ==
    ASSUME NEW s \in Seq(Payloads), NEW t \in Seq(Payloads), NEW u \in Seq(Payloads), u # <<>>
    PROVE  Then(Then(s, Append(t, Head(u))), Tail(u)) = Then(Then(s, t), u)
  <1> DEFINE h == <<Head(u)>>
  <1>1. /\ Head(u) \in Payloads /\ Tail(u) \in Seq(Payloads) /\ Len(Tail(u)) = Len(u) - 1
        /\ \A i \in 1 .. Len(Tail(u)) : Tail(u)[i] = u[i + 1]
        /\ Head(u) = u[1] /\ Len(u) \in Nat /\ Len(u) >= 1
    BY HeadTailProperties, LenProperties, EmptySeq
  <1>2. h \in Seq(Payloads) /\ Len(h) = 1 /\ h[1] = u[1]
    BY <1>1
  <1>3. Append(t, Head(u)) = Then(t, h)
    BY <1>1 DEF Then
  <1> HIDE DEF h
  <1>4. ASSUME NEW v \in Seq(Payloads), v = Tail(u)
        PROVE  Then(h, v) = u
    <2>0. /\ Then(h, v) \in Seq(Payloads) /\ Len(Then(h, v)) = Len(h) + Len(v)
          /\ \A i \in 1 .. Len(h) : Then(h, v)[i] = h[i]
          /\ \A i \in 1 .. Len(v) : Then(h, v)[Len(h) + i] = v[i]
      BY <1>2, ThenProperties
    <2>1. /\ Then(h, v) \in Seq(Payloads) /\ Len(Then(h, v)) = 1 + Len(v)
          /\ Then(h, v)[1] = h[1]
          /\ \A i \in 1 .. Len(v) : Then(h, v)[1 + i] = v[i]
      BY <1>2, <2>0
    <2>2. ASSUME NEW i \in 1 .. Len(u)
          PROVE  Then(h, v)[i] = u[i]
      <3>1. CASE i = 1
        BY <1>2, <2>1, <3>1
      <3>2. CASE i > 1
        <4>1. i - 1 \in 1 .. Len(v) /\ (i - 1) + 1 = i /\ 1 + (i - 1) = i
          BY <1>1, <1>4, <3>2
        <4> QED BY ZenonT(60), <1>1, <1>4, <2>1, <4>1
      <3> QED BY <1>1, <3>1, <3>2
    <2> QED BY <1>1, <1>4, <2>1, <2>2, SeqEqual
  <1>5. /\ Then(s, Then(t, h)) = Then(Then(s, t), h)
        /\ Then(s, t) \in Seq(Payloads)
    BY <1>2, ThenAssociative, ThenProperties
  <1>6. Then(Then(Then(s, t), h), Tail(u)) = Then(Then(s, t), Then(h, Tail(u)))
    BY <1>1, <1>2, <1>5, ThenAssociative
  <1> QED BY <1>1, <1>3, <1>4, <1>5, <1>6

\* A sequence in order has no element twice: what comes later is not there yet.
LEMMA ThenInOrder ==
    ASSUME NEW s \in Seq(Payloads), NEW t \in Seq(Payloads),
           InOrder(Then(s, t))
    PROVE  InOrder(s) /\ InOrder(t) /\ Elements(s) \cap Elements(t) = {}
  <1> DEFINE u == Then(s, t)
  <1>1. /\ DOMAIN s = 1 .. Len(s) /\ DOMAIN t = 1 .. Len(t) /\ DOMAIN u = 1 .. Len(s) + Len(t)
        /\ Len(s) \in Nat /\ Len(t) \in Nat
        /\ \A i \in 1 .. Len(s) : u[i] = s[i]
        /\ \A i \in 1 .. Len(t) : u[Len(s) + i] = t[i]
    BY ThenProperties
  <1>2. \A i, j \in DOMAIN u : i < j => u[i][1] # u[j][1] \/ u[i][2] < u[j][2]
    BY DEF InOrder
  <1> HIDE DEF u
  <1>3. \A i \in DOMAIN s : i \in DOMAIN u /\ u[i] = s[i]
    BY <1>1
  <1>4. \A i \in DOMAIN t : Len(s) + i \in DOMAIN u /\ u[Len(s) + i] = t[i]
    BY <1>1
  <1>5. InOrder(s)
    BY <1>2, <1>3 DEF InOrder
  <1>6. InOrder(t)
    <2>1. SUFFICES ASSUME NEW i \in DOMAIN t, NEW j \in DOMAIN t, i < j
                   PROVE  t[i][1] # t[j][1] \/ t[i][2] < t[j][2]
      BY DEF InOrder
    <2>2. Len(s) + i < Len(s) + j
      BY <1>1, <2>1
    <2> QED BY <1>2, <1>4, <2>2
  <1>7. ASSUME NEW i \in DOMAIN s, NEW j \in DOMAIN t, s[i] = t[j]
        PROVE  FALSE
    <2>1. i \in DOMAIN u /\ Len(s) + j \in DOMAIN u /\ i < Len(s) + j
      BY <1>1, <1>3, <1>4
    <2>2. u[i] = s[i] /\ u[Len(s) + j] = s[i]
      BY <1>3, <1>4, <1>7
    <2>3. s[i][2] < s[i][2]
      BY <1>2, <2>1, <2>2
    <2>4. s[i] \in Payloads
      BY <1>1, ElementOfSeq
    <2> QED BY <2>3, <2>4, ProducerAssumption DEF Payloads, ProducerAssumption
  <1> QED BY <1>5, <1>6, <1>7 DEF Elements

-----------------------------------------------------------------------------
(* The steps.                                                               *)

LEMMA InitInv == Init => IInv
  <1> SUFFICES ASSUME Init
               PROVE  IInv
    OBVIOUS
  <1> USE ProducerAssumption DEF ProducerAssumption, Init
  <1>1. TypeOK
    <2>1. <<>> \in Seq(Payloads) /\ Len(<<>>) = 0
      BY EmptySeq
    <2>2. calls \in [Callers -> 0 .. MaxCalls]
      OBVIOUS
    <2>3. channel = <<>> /\ items = <<>> /\ flushed = <<>> /\ 0 <= Buffer
      OBVIOUS
    <2>4. caller \in [Callers -> {"out"} \cup InSelect]
      OBVIOUS
    <2>5. loop \in LoopPC /\ accepted \subseteq Payloads
      BY DEF LoopPC
    <2>6. stop \in BOOLEAN /\ sealed \in BOOLEAN /\ client \in BOOLEAN
      OBVIOUS
    <2>7. channel \in Seq(Payloads) /\ Len(channel) <= Buffer
      BY <2>1, <2>3
    <2>8. items \in Seq(Payloads) /\ Len(items) <= Buffer /\ flushed \in Seq(Payloads)
      BY <2>1, <2>3
    <2>9. writer \in {"no", "waiting", "done"}
      OBVIOUS
    <2> HIDE DEF Init
    <2> QED BY <2>2, <2>4, <2>5, <2>6, <2>7, <2>8, <2>9 DEF TypeOK
  <1>2. Line = <<>> /\ DOMAIN Line = {}
    <2>1. <<>> \in Seq(Payloads) /\ <<>> \o <<>> = <<>>
      BY EmptySeq
    <2> QED BY <2>1 DEF Line, Then
  <1>3. LineIsAccepted /\ InOrder(Line) /\ LineIsOfThePast /\ CallBegun
    BY <1>2 DEF LineIsAccepted, InOrder, LineIsOfThePast, Elements, CallBegun
  <1>4. SealedIsQuiet /\ RoomInBatch
    BY EmptySeq DEF SealedIsQuiet, RoomInBatch, AfterSeal
  <1> QED BY <1>1, <1>3, <1>4 DEF IInv

\* What one step does to the line: nothing, or a caller that is at the select
\* puts the payload of its call behind it.
Sends(c) ==
    /\ caller[c] = "select"
    /\ Line' = Then(Line, <<<<c, calls[c]>>>>)
    /\ accepted' = accepted \cup {<<c, calls[c]>>}
    /\ calls' = calls
    /\ caller' = [caller EXCEPT ![c] = "unlock"]
    /\ UNCHANGED <<sealed, loop, items, flushed>>

\* Every sequence of the model is one of payloads.
LEMMA LineType ==
    ASSUME TypeOK
    PROVE  /\ channel \in Seq(Payloads) /\ items \in Seq(Payloads) /\ flushed \in Seq(Payloads)
           /\ Then(flushed, items) \in Seq(Payloads)
           /\ Line \in Seq(Payloads)
  BY ThenProperties DEF TypeOK, Line

\* A payload the loop takes from the channel stays where it is in the line.
LEMMA TakeKeepsLine ==
    ASSUME TypeOK, NEW full, NEW otherwise, Take(full, otherwise)
    PROVE  Line' = Line
  <1>1. /\ items' = Append(items, Head(channel)) /\ channel' = Tail(channel)
        /\ flushed' = flushed /\ channel # <<>>
    BY DEF Take
  <1> QED BY <1>1, LineType, HeadMovesOver DEF Line

\* A batch that is flushed stays where it is in the line.
LEMMA FlushKeepsLine ==
    ASSUME TypeOK, FlushReturns
    PROVE  Line' = Line
  <1>1. flushed' = Then(flushed, items) /\ items' = <<>> /\ channel' = channel
    BY DEF FlushReturns, Then
  <1>2. Then(Then(flushed, items), <<>>) = Then(flushed, items)
    BY LineType, ConcatEmptySeq DEF Then
  <1> QED BY <1>1, <1>2 DEF Line

LEMMA SendLengthensLine ==
    ASSUME TypeOK, CallBegun, NEW c \in Callers, Send(c)
    PROVE  Sends(c) /\ <<c, calls[c]>> \in Payloads
  <1> DEFINE x == <<c, calls[c]>>
             h == <<x>>
  <1>1. /\ channel' = Append(channel, x) /\ UNCHANGED <<items, flushed, sealed, loop, calls>>
        /\ accepted' = accepted \cup {x} /\ caller' = [caller EXCEPT ![c] = "unlock"]
        /\ caller[c] = "select"
    BY DEF Send, loopVars
  <1>2. x \in Payloads
    <2>1. calls[c] \in 0 .. MaxCalls /\ calls[c] > 0
      BY <1>1 DEF TypeOK, CallBegun
    <2>2. calls[c] \in 1 .. MaxCalls
      BY <2>1, ProducerAssumption DEF ProducerAssumption
    <2> QED BY <2>2 DEF Payloads
  <1> HIDE DEF x
  <1>3. h \in Seq(Payloads) /\ Append(channel, x) = Then(channel, h)
    BY <1>2, LineType DEF Then
  <1> HIDE DEF h
  <1>4. Line' = Then(Then(flushed, items), Then(channel, h))
    BY <1>1, <1>3 DEF Line
  <1>5. Line' = Then(Line, h)
    BY <1>3, <1>4, LineType, ThenAssociative DEF Line
  <1> QED BY <1>1, <1>2, <1>5 DEF Sends, x, h

\* Only a caller that sends changes the line, or what is accepted.
LEMMA LineStep ==
    ASSUME TypeOK, CallBegun, [Next]_vars
    PROVE  \/ Line' = Line /\ accepted' = accepted
           \/ \E c \in Callers : Sends(c) /\ <<c, calls[c]>> \in Payloads
  <1>1. ASSUME NEW full, NEW otherwise, Take(full, otherwise)
        PROVE  Line' = Line /\ accepted' = accepted
    BY <1>1, TakeKeepsLine DEF Take
  <1>2. CASE Receive \/ Drain
    BY <1>1, <1>2 DEF Receive, Drain
  <1>3. CASE FlushReturns
    BY <1>3, FlushKeepsLine DEF FlushReturns
  <1>4. ASSUME NEW c \in Callers, Send(c)
        PROVE  Sends(c) /\ <<c, calls[c]>> \in Payloads
    BY <1>4, SendLengthensLine
  <1>5. ASSUME ~Receive, ~Drain, ~FlushReturns, \A c \in Callers : ~Send(c)
        PROVE  Line' = Line /\ accepted' = accepted
    <2>1. UNCHANGED <<flushed, items, channel, accepted>>
      BY <1>5 DEF Next, vars, LoopStep, Call, Enter, Refuse, TimeOut, Leave, FlushTick,
                  ObserveStop, Seal, Drained, LoopEnds, CancelStop, CloseClient, Terminated,
                  loopVars, callerVars
    <2> QED BY <2>1 DEF Line
  <1> QED BY <1>2, <1>3, <1>4, <1>5

\* What happens to the counters and the places of the callers.
LEMMA CallerStep ==
    ASSUME TypeOK, [Next]_vars, NEW c \in Callers
    PROVE  /\ calls'[c] >= calls[c]
           /\ caller'[c] = "select" => \/ caller[c] = "select" /\ calls'[c] = calls[c]
                                       \/ ~sealed /\ loop' = loop /\ calls'[c] = calls[c] + 1
  <1>1. calls[c] \in Nat /\ calls \in [Callers -> 0 .. MaxCalls] /\ DOMAIN caller = Callers
    BY ProducerAssumption DEF TypeOK, ProducerAssumption
  <1>2. ASSUME NEW d \in Callers, Enter(d)
        PROVE  /\ calls' = [calls EXCEPT ![d] = @ + 1]
               /\ caller' = [caller EXCEPT ![d] = IF sealed THEN "out" ELSE "select"]
               /\ loop' = loop
    BY <1>2 DEF Enter, loopVars
  <1>3. ASSUME NEW d \in Callers, Call(d)
        PROVE  /\ calls' = calls
               /\ \/ caller' = [caller EXCEPT ![d] = "unlock"]
                  \/ caller' = [caller EXCEPT ![d] = "out"]
    BY <1>3 DEF Call, Send, Refuse, TimeOut, Leave
  <1>4. ASSUME \A d \in Callers : ~Enter(d) /\ ~Call(d)
        PROVE  calls' = calls /\ caller' = caller
    BY <1>4 DEF Next, vars, LoopStep, Take, Receive, Drain, FlushReturns, FlushTick,
                ObserveStop, Seal, Drained, LoopEnds, CancelStop, CloseClient, Terminated,
                loopVars, callerVars
  <1>5. CASE \E d \in Callers : Enter(d)
    <2>1. PICK d \in Callers : Enter(d)
      BY <1>5
    <2> QED BY <1>1, <1>2, <2>1
  <1>6. CASE \E d \in Callers : Call(d)
    <2>1. PICK d \in Callers : Call(d)
      BY <1>6
    <2> QED BY <1>1, <1>3, <2>1
  <1> QED BY <1>1, <1>4, <1>5, <1>6

LEMMA TypeStep ==
    ASSUME IInv, [Next]_vars
    PROVE  TypeOK'
  <1> USE ProducerAssumption DEF ProducerAssumption
  <1>1. TypeOK /\ RoomInBatch /\ CallBegun
    BY DEF IInv
  <1>2. ASSUME NEW full \in LoopPC, NEW otherwise \in LoopPC, Take(full, otherwise),
               Len(items) < Buffer
        PROVE  TypeOK'
    <2>1. /\ Head(channel) \in Payloads /\ Tail(channel) \in Seq(Payloads)
          /\ Len(Tail(channel)) <= Buffer
      BY <1>1, <1>2 DEF TypeOK, Take
    <2>2. channel' \in Seq(Payloads) /\ Len(channel') <= Buffer
      BY <1>2, <2>1 DEF Take
    <2>3. items' \in Seq(Payloads) /\ Len(items') <= Buffer
      BY <1>1, <1>2, <2>1 DEF TypeOK, Take
    <2>4. loop' \in LoopPC
      BY <1>2 DEF Take
    <2> QED BY <1>1, <1>2, <2>2, <2>3, <2>4 DEF TypeOK, Take, callerVars
  <1>3. CASE Receive
    BY <1>1, <1>2, <1>3 DEF Receive, RoomInBatch, LoopPC
  <1>4. CASE Drain
    BY <1>1, <1>2, <1>4 DEF Drain, RoomInBatch, LoopPC
  <1>5. CASE FlushReturns
    <2>1. flushed' = Then(flushed, items) /\ items' = <<>>
      BY <1>5 DEF FlushReturns, Then
    <2>2. flushed' \in Seq(Payloads)
      BY <1>1, <2>1, LineType
    <2>3. items' \in Seq(Payloads) /\ Len(items') <= Buffer
      BY <2>1, EmptySeq
    <2>4. loop' \in LoopPC
      BY <1>5 DEF FlushReturns, LoopPC
    <2> QED BY <1>1, <1>5, <2>2, <2>3, <2>4 DEF TypeOK, FlushReturns, callerVars
  <1>6. ASSUME NEW c \in Callers, Send(c)
        PROVE  TypeOK'
    <2>1. <<c, calls[c]>> \in Payloads
      BY <1>1, <1>6, SendLengthensLine
    <2>2. channel' \in Seq(Payloads) /\ Len(channel') <= Buffer
      BY <1>1, <1>6, <2>1 DEF Send, TypeOK
    <2>3. accepted' \subseteq Payloads
      BY <1>1, <1>6, <2>1 DEF Send, TypeOK
    <2>4. caller' \in [Callers -> {"out"} \cup InSelect]
      BY <1>1, <1>6 DEF Send, TypeOK, InSelect
    <2> QED BY <1>1, <1>6, <2>2, <2>3, <2>4 DEF TypeOK, Send, loopVars
  <1>7. ASSUME NEW c \in Callers, Enter(c)
        PROVE  TypeOK'
    <2>1. calls' \in [Callers -> 0 .. MaxCalls] /\ caller' \in [Callers -> {"out"} \cup InSelect]
      BY <1>1, <1>7 DEF Enter, TypeOK, InSelect
    <2> QED BY <1>1, <1>7, <2>1 DEF TypeOK, Enter, loopVars
  <1>8. ASSUME NEW c \in Callers, Refuse(c) \/ TimeOut(c) \/ Leave(c)
        PROVE  TypeOK'
    <2>1. caller' \in [Callers -> {"out"} \cup InSelect]
      BY <1>1, <1>8 DEF Refuse, TimeOut, Leave, TypeOK, InSelect
    <2> QED BY <1>1, <1>8, <2>1 DEF TypeOK, Refuse, TimeOut, Leave, loopVars
  <1>9. CASE FlushTick \/ ObserveStop \/ Seal \/ Drained \/ LoopEnds
    BY <1>1, <1>9 DEF TypeOK, LoopPC, FlushTick, ObserveStop, Seal, Drained, LoopEnds, callerVars
  <1>10. CASE CancelStop \/ CloseClient \/ Terminated \/ UNCHANGED vars
    BY <1>1, <1>10 DEF TypeOK, CancelStop, CloseClient, Terminated, callerVars, loopVars, vars
  <1> QED BY <1>3, <1>4, <1>5, <1>6, <1>7, <1>8, <1>9, <1>10 DEF Next, LoopStep, Call

LEMMA BegunStep ==
    ASSUME IInv, [Next]_vars
    PROVE  CallBegun'
  <1>1. TypeOK /\ CallBegun
    BY DEF IInv
  <1>2. SUFFICES ASSUME NEW c \in Callers, caller'[c] = "select"
                 PROVE  calls'[c] > 0
    BY DEF CallBegun
  <1>3. calls[c] \in Nat
    BY <1>1, ProducerAssumption DEF TypeOK, ProducerAssumption
  <1> QED BY <1>1, <1>2, <1>3, CallerStep DEF CallBegun

\* The seal is set when nobody is at the select, and whoever comes later is
\* refused; past the drain nothing is in the channel, past the last flush nothing
\* is in the batch.
LEMMA QuietStep ==
    ASSUME IInv, [Next]_vars
    PROVE  SealedIsQuiet' /\ RoomInBatch'
  <1> USE ProducerAssumption DEF ProducerAssumption
  <1>1. TypeOK /\ SealedIsQuiet /\ RoomInBatch
    BY DEF IInv
  <1>2. ASSUME NEW c \in Callers, Send(c)
        PROVE  SealedIsQuiet' /\ RoomInBatch'
    <2>1. ~sealed /\ UNCHANGED <<sealed, loop, items>>
      BY <1>1, <1>2 DEF Send, loopVars, SealedIsQuiet
    <2>2. loop \notin AfterSeal
      BY <1>1, <2>1 DEF SealedIsQuiet
    <2> QED BY <1>1, <2>1, <2>2 DEF SealedIsQuiet, RoomInBatch, AfterSeal
  <1>3. ASSUME NEW c \in Callers, Enter(c) \/ Refuse(c) \/ TimeOut(c) \/ Leave(c)
        PROVE  SealedIsQuiet' /\ RoomInBatch'
    <2>1. UNCHANGED <<sealed, loop, items, channel>>
      BY <1>3 DEF Enter, Refuse, TimeOut, Leave, loopVars
    <2>2. sealed => \A d \in Callers : caller'[d] # "select"
      BY <1>1, <1>3 DEF SealedIsQuiet, Enter, Refuse, TimeOut, Leave, TypeOK
    <2> QED BY <1>1, <2>1, <2>2 DEF SealedIsQuiet, RoomInBatch, AfterSeal
  <1>4. CASE Receive
    <2>1. /\ loop = "run" /\ UNCHANGED <<sealed, caller>> /\ loop' \in {"run", "flush"}
          /\ loop' = "run" => Len(items) + 1 < Buffer
          /\ items' = Append(items, Head(channel))
      BY <1>1, <1>4 DEF Receive, Take, callerVars, TypeOK
    <2>2. Len(items') = Len(items) + 1
      BY <1>1, <2>1 DEF TypeOK
    <2> QED BY <1>1, <2>1, <2>2 DEF SealedIsQuiet, RoomInBatch, AfterSeal
  <1>5. CASE Drain
    <2>1. /\ loop = "drain" /\ UNCHANGED <<sealed, caller>> /\ loop' \in {"drain", "drainFlush"}
          /\ loop' = "drain" => Len(items) + 1 < Buffer
          /\ items' = Append(items, Head(channel))
      BY <1>1, <1>5 DEF Drain, Take, callerVars, TypeOK
    <2>2. Len(items') = Len(items) + 1
      BY <1>1, <2>1 DEF TypeOK
    <2> QED BY <1>1, <2>1, <2>2 DEF SealedIsQuiet, RoomInBatch, AfterSeal
  <1>6. CASE FlushReturns
    <2>1. UNCHANGED <<sealed, caller, channel>> /\ items' = <<>> /\ Len(items') = 0
      BY <1>6, EmptySeq DEF FlushReturns, callerVars
    <2>2. CASE loop = "flush"
      BY <1>1, <1>6, <2>1, <2>2 DEF FlushReturns, SealedIsQuiet, RoomInBatch, AfterSeal
    <2>3. CASE loop = "drainFlush"
      BY <1>1, <1>6, <2>1, <2>3 DEF FlushReturns, SealedIsQuiet, RoomInBatch, AfterSeal
    <2>4. CASE loop = "lastFlush"
      BY <1>1, <1>6, <2>1, <2>4 DEF FlushReturns, SealedIsQuiet, RoomInBatch, AfterSeal
    <2> QED BY <1>6, <2>2, <2>3, <2>4 DEF FlushReturns
  <1>7. CASE Seal
    BY <1>1, <1>7 DEF Seal, Readers, InSelect, callerVars, SealedIsQuiet, RoomInBatch, AfterSeal,
                      TypeOK
  <1>8. CASE FlushTick \/ ObserveStop \/ Drained \/ LoopEnds
    BY <1>1, <1>8 DEF FlushTick, ObserveStop, Drained, LoopEnds, callerVars, SealedIsQuiet,
                      RoomInBatch, AfterSeal
  <1>9. CASE CancelStop \/ CloseClient \/ Terminated \/ UNCHANGED vars
    BY <1>1, <1>9 DEF CancelStop, CloseClient, Terminated, callerVars, loopVars, vars,
                      SealedIsQuiet, RoomInBatch, AfterSeal
  <1> QED BY <1>2, <1>3, <1>4, <1>5, <1>6, <1>7, <1>8, <1>9 DEF Next, LoopStep, Call

\* A payload that is sent is of a call whose payload was not in the line, and
\* later than all there is of its caller.
LEMMA OrderStep ==
    ASSUME IInv, [Next]_vars
    PROVE  InOrder(Line)' /\ LineIsOfThePast' /\ LineIsAccepted'
  <1>1. /\ TypeOK /\ CallBegun /\ LineIsAccepted /\ InOrder(Line) /\ LineIsOfThePast
        /\ Line \in Seq(Payloads)
    BY LineType DEF IInv
  <1>2. \A i \in DOMAIN Line :
           /\ Line[i][1] \in Callers /\ Line[i][2] \in Nat
           /\ Line[i][2] <= calls[Line[i][1]]
           /\ caller[Line[i][1]] = "select" => Line[i][2] < calls[Line[i][1]]
    <2>1. \A i \in DOMAIN Line : Line[i] \in Payloads
      BY <1>1, LenProperties, ElementOfSeq
    <2>2. \A x \in Payloads : x[1] \in Callers /\ x[2] \in Nat
      BY ProducerAssumption DEF Payloads, ProducerAssumption
    <2> QED BY <1>1, <2>1, <2>2 DEF LineIsOfThePast
  <1>3. \A c \in Callers : calls[c] \in Nat /\ calls'[c] \in Nat
    <2>1. TypeOK'
      BY TypeStep
    <2> QED BY <1>1, <2>1, ProducerAssumption DEF TypeOK, ProducerAssumption
  \* An entry stays of the past.
  <1>4. ASSUME NEW i \in DOMAIN Line
        PROVE  /\ Line[i][2] <= calls'[Line[i][1]]
               /\ caller'[Line[i][1]] = "select" => Line[i][2] < calls'[Line[i][1]]
    <2>1. Line[i][1] \in Callers
      BY <1>2
    <2>2. /\ calls'[Line[i][1]] >= calls[Line[i][1]]
          /\ caller'[Line[i][1]] = "select" =>
                \/ caller[Line[i][1]] = "select" /\ calls'[Line[i][1]] = calls[Line[i][1]]
                \/ calls'[Line[i][1]] = calls[Line[i][1]] + 1
      BY <1>1, <2>1, CallerStep
    <2> QED BY <1>2, <1>3, <2>1, <2>2
  <1>5. CASE Line' = Line /\ accepted' = accepted
    BY <1>1, <1>4, <1>5 DEF LineIsAccepted, InOrder, LineIsOfThePast
  <1>6. ASSUME NEW c \in Callers, Sends(c), <<c, calls[c]>> \in Payloads
        PROVE  InOrder(Line)' /\ LineIsOfThePast' /\ LineIsAccepted'
    <2> DEFINE x == <<c, calls[c]>>
               h == <<x>>
    <2>1. /\ Line' = Then(Line, h) /\ accepted' = accepted \cup {x} /\ calls' = calls
          /\ caller[c] = "select" /\ caller'[c] # "select"
          /\ x[1] = c /\ x[2] = calls[c]
      BY <1>1, <1>6 DEF Sends, TypeOK
    <2>2. h \in Seq(Payloads) /\ Len(h) = 1 /\ h[1] = x
      BY <1>6
    <2>3. Elements(h) = {x}
      BY <2>2, LenProperties DEF Elements
    <2> HIDE DEF x, h
    <2>4. LineIsAccepted'
      <3>1. Elements(Line') = Elements(Line) \cup {x}
        BY <1>1, <2>1, <2>2, <2>3, ThenElements
      <3> QED BY <1>1, <2>1, <3>1 DEF LineIsAccepted
    <2>5. /\ Len(Line) \in Nat /\ DOMAIN Line = 1 .. Len(Line)
          /\ DOMAIN Line' = 1 .. Len(Line) + 1
          /\ \A i \in 1 .. Len(Line) : Line'[i] = Line[i]
          /\ Line'[Len(Line) + 1] = x
      <3>1. /\ Len(Line) \in Nat /\ DOMAIN Line = 1 .. Len(Line)
            /\ DOMAIN Then(Line, h) = 1 .. Len(Line) + Len(h)
            /\ \A i \in 1 .. Len(Line) : Then(Line, h)[i] = Line[i]
            /\ \A i \in 1 .. Len(h) : Then(Line, h)[Len(Line) + i] = h[i]
        BY <1>1, <2>2, ThenProperties
      <3> QED BY <2>1, <2>2, <3>1
    <2>6. ASSUME NEW i \in DOMAIN Line', NEW j \in DOMAIN Line', i < j
          PROVE  Line'[i][1] # Line'[j][1] \/ Line'[i][2] < Line'[j][2]
      <3>1. CASE j \in DOMAIN Line
        <4>1. i \in DOMAIN Line
          BY <2>5, <2>6, <3>1
        <4> QED BY <1>1, <2>5, <2>6, <3>1, <4>1 DEF InOrder
      <3>2. CASE j = Len(Line) + 1
        <4>1. i \in DOMAIN Line /\ Line'[i] = Line[i]
          BY <2>5, <2>6, <3>2
        <4> QED BY <1>2, <2>1, <2>5, <3>2, <4>1
      <3> QED BY <2>5, <3>1, <3>2
    <2>7. ASSUME NEW i \in DOMAIN Line'
          PROVE  /\ Line'[i][2] <= calls'[Line'[i][1]]
                 /\ caller'[Line'[i][1]] = "select" => Line'[i][2] < calls'[Line'[i][1]]
      <3>1. CASE i \in DOMAIN Line
        BY <1>4, <2>5, <3>1
      <3>2. CASE i = Len(Line) + 1
        BY <1>3, <2>1, <2>5, <3>2
      <3> QED BY <2>5, <3>1, <3>2
    <2> QED BY <2>4, <2>6, <2>7 DEF InOrder, LineIsOfThePast
  <1> QED BY <1>1, <1>5, <1>6, LineStep

LEMMA Inductive == IInv /\ [Next]_vars => IInv'
  BY TypeStep, BegunStep, QuietStep, OrderStep DEF IInv

-----------------------------------------------------------------------------

LEMMA Invariant == Spec => []IInv
  BY InitInv, Inductive, PTL DEF Spec

\* What has been flushed is in the line, and at the end is the line.
LEMMA InvImplies == IInv => EachPayloadFlushedOnce
  <1> SUFFICES ASSUME IInv
               PROVE  EachPayloadFlushedOnce
    OBVIOUS
  <1>1. /\ TypeOK /\ LineIsAccepted /\ SealedIsQuiet /\ InOrder(Line)
        /\ flushed \in Seq(Payloads) /\ items \in Seq(Payloads) /\ channel \in Seq(Payloads)
        /\ Then(flushed, items) \in Seq(Payloads)
    BY LineType DEF IInv
  <1>2. FlushedOnceInOrder
    <2>1. InOrder(Then(flushed, items))
      BY <1>1, ThenInOrder DEF Line
    <2>2. InOrder(flushed)
      BY <1>1, <2>1, ThenInOrder
    <2> QED BY <2>2 DEF InOrder, FlushedOnceInOrder
  <1>3. NothingLeftAtTheEnd
    <2>1. SUFFICES ASSUME loop = "done"
                   PROVE  accepted = Elements(flushed) /\ channel = <<>> /\ items = <<>>
      BY DEF NothingLeftAtTheEnd
    <2>2. channel = <<>> /\ items = <<>>
      BY <1>1, <2>1 DEF SealedIsQuiet
    <2>3. Line = flushed
      BY <1>1, <2>2, ConcatEmptySeq DEF Line, Then
    <2> QED BY <1>1, <2>2, <2>3 DEF LineIsAccepted
  <1> QED BY <1>1, <1>2, <1>3 DEF EachPayloadFlushedOnce

\* However many goroutines produce, and whenever the queue stops: when the loop
\* has ended, every payload whose Produce returned nil has been flushed, none
\* twice, and those of one caller in the order it sent them
\* (kafka_queue.go:42-45, 198-200, 223-237).
THEOREM NothingIsLost == Spec => []EachPayloadFlushedOnce
  BY Invariant, InvImplies, PTL

-----------------------------------------------------------------------------
(* Refinement.                                                              *)

\* What is flushed has been accepted, and what waits in the batch is accepted
\* and not flushed.
LEMMA BatchIsPending ==
    ASSUME IInv
    PROVE  /\ Elements(flushed) \subseteq accepted
           /\ Elements(items) \subseteq accepted \ Elements(flushed)
           /\ Elements(Then(flushed, items)) = Elements(flushed) \cup Elements(items)
  <1>1. /\ accepted = Elements(Line) /\ InOrder(Line)
        /\ flushed \in Seq(Payloads) /\ items \in Seq(Payloads) /\ channel \in Seq(Payloads)
        /\ Then(flushed, items) \in Seq(Payloads)
    BY LineType DEF IInv, LineIsAccepted
  <1>2. Elements(Then(flushed, items)) = Elements(flushed) \cup Elements(items)
    BY <1>1, ThenElements
  <1>3. Elements(Line) = Elements(Then(flushed, items)) \cup Elements(channel)
    BY <1>1, ThenElements DEF Line
  <1>4. InOrder(Then(flushed, items))
    BY <1>1, ThenInOrder DEF Line
  <1>5. Elements(flushed) \cap Elements(items) = {}
    BY <1>1, <1>4, ThenInOrder
  <1> QED BY <1>1, <1>2, <1>3, <1>5


LEMMA AbstractInit == Init => Abstract!Init
  BY DEF Init, Abstract!Init, Elements

\* Every step of the queue is one of the abstract queue's, or none: only Send,
\* the return of a flush and the end of the loop show.
LEMMA AbstractStep ==
    ASSUME IInv, [Next]_vars
    PROVE  [Abstract!Next]_Abstract!vars
  <1>1. TypeOK /\ CallBegun /\ SealedIsQuiet /\ LineIsAccepted /\ LineIsOfThePast
    BY DEF IInv
  <1>2. ASSUME NEW c \in Callers, Send(c)
        PROVE  Abstract!Next
    <2> DEFINE x == <<c, calls[c]>>
    <2>1. /\ x \in Payloads /\ accepted' = accepted \cup {x} /\ flushed' = flushed
          /\ loop' = loop /\ caller[c] = "select"
      BY <1>1, <1>2, SendLengthensLine DEF Sends
    <2>2. x \notin accepted
      <3>1. SUFFICES ASSUME NEW i \in DOMAIN Line, Line[i] = x
                     PROVE  FALSE
        BY <1>1 DEF LineIsAccepted, Elements
      <3>2. Line[i][1] = c /\ Line[i][2] = calls[c]
        BY <3>1
      <3>3. calls[c] < calls[c] /\ calls[c] \in Int
        BY <1>1, <2>1, <3>2, ProducerAssumption DEF LineIsOfThePast, TypeOK, ProducerAssumption
      <3> QED BY <3>3
    <2>3. loop # "done"
      BY <1>1, <2>1 DEF SealedIsQuiet, AfterSeal
    <2> HIDE DEF x
    <2>4. Abstract!Accept(x)
      BY <2>1, <2>2, <2>3, BatchIsPending DEF Abstract!Accept
    <2> QED BY <2>1, <2>4 DEF Abstract!Next
  <1>3. CASE FlushReturns
    <2> DEFINE batch == Elements(items)
    <2>1. /\ Elements(flushed') = Elements(flushed) \cup batch
          /\ batch \subseteq accepted \ Elements(flushed)
          /\ accepted' = accepted
      BY <1>3, BatchIsPending DEF FlushReturns, Then
    <2>2. (loop' = "done") = (loop = "done")
      BY <1>3 DEF FlushReturns
    <2> HIDE DEF batch
    <2>3. CASE batch = {}
      BY <2>1, <2>2, <2>3 DEF Abstract!vars
    <2>4. CASE batch # {}
      <3>1. Abstract!Flush(batch)
        BY <2>1, <2>2, <2>4 DEF Abstract!Flush
      <3> QED BY <2>1, <3>1 DEF Abstract!Next
    <2> QED BY <2>3, <2>4
  <1>4. CASE LoopEnds
    <2>1. /\ loop = "exit" /\ loop' = "done" /\ UNCHANGED <<accepted, flushed>>
          /\ channel = <<>> /\ items = <<>>
      BY <1>1, <1>4 DEF LoopEnds, SealedIsQuiet
    <2>2. Line = flushed
      BY <1>1, <2>1, LineType, ConcatEmptySeq DEF Line, Then
    <2>3. accepted \ Elements(flushed) = {}
      BY <1>1, <2>2 DEF LineIsAccepted
    <2>4. Abstract!Close
      BY <2>1, <2>3 DEF Abstract!Close
    <2> QED BY <2>4 DEF Abstract!Next
  <1>5. ASSUME ~FlushReturns, ~LoopEnds, \A c \in Callers : ~Send(c)
        PROVE  UNCHANGED Abstract!vars
    <2>1. UNCHANGED <<accepted, flushed>> /\ (loop' = "done") = (loop = "done")
      BY <1>5 DEF Next, vars, LoopStep, Call, Enter, Refuse, TimeOut, Leave, FlushTick, Take,
                  Receive, Drain, ObserveStop, Seal, Drained, CancelStop, CloseClient,
                  Terminated, loopVars, callerVars
    <2> QED BY <2>1 DEF Abstract!vars
  <1> QED BY <1>2, <1>3, <1>4, <1>5

\* The queue keeps the promise of PayloadQueue: an accepted payload is handed on
\* exactly once, and the queue closes with nothing accepted left in it.
THEOREM QueueKeepsItsPromise == Spec => ImplementsPayloadQueue
  BY InitInv, Inductive, AbstractInit, AbstractStep, PTL
     DEF Spec, ImplementsPayloadQueue, Abstract!Spec
=============================================================================
