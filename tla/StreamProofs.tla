---------------------------- MODULE StreamProofs ----------------------------
(***************************************************************************)
(* Proofs about the readers and writers of event streams: what they        *)
(* promise holds for any stream and any way it is cut into chunks.         *)
(***************************************************************************)
EXTENDS DataLemmas, EventStreams, MCStreams

CONSTANT Words       \* the values a backend sends

-----------------------------------------------------------------------------
(* Typed events and the judgement of a stream (ResponsesSse)               *)

LEMMA FlattenIsTyped == ASSUME NEW ss PROVE Typed!FlattenSeq(ss) = FlattenSeq(ss)
BY DEF Typed!FlattenSeq, FlattenSeq

\* What the loop over a chunk accumulates
EndStates == {"Open", "TerminalLifecycle", "Error"}
Parsed ==
    [state : EndStates, count : Nat, at : Nat \cup {Never}, events : Seq(FrameKinds),
     error : BOOLEAN]

LEMMA FrameParsed ==
    ASSUME now \in Nat, NEW a \in Parsed, NEW f \in FrameKinds
    PROVE  Typed!ParseFrame(a, f) \in Parsed
<1>1. /\ a.state \in EndStates /\ a.count \in Nat /\ a.at \in Nat \cup {Never}
      /\ a.events \in Seq(FrameKinds) /\ a.error \in BOOLEAN
  BY DEF Parsed
<1> DEFINE a1 == [a EXCEPT !.count = @ + 1]
           b == Typed!RecordCompletion(a1, f)
<1>2. a1 \in Parsed /\ a1.events = a.events
  BY <1>1 DEF Parsed
<1>3. b \in Parsed
  <2> HIDE DEF a1
  <2>1. a1.state \in EndStates
    BY <1>2 DEF Parsed
  <2>2. b \in {a1, [a1 EXCEPT !.state = "Error"], [a1 EXCEPT !.error = TRUE],
               [a1 EXCEPT !.state = "TerminalLifecycle"]}
    BY <2>1 DEF Typed!RecordCompletion
  <2> QED BY <1>2, <2>2 DEF Parsed, EndStates
<1> HIDE DEF a1
<1>4. b.events \in Seq(FrameKinds) /\ b.state \in EndStates
  <2> HIDE DEF b
  <2> QED BY <1>3 DEF Parsed
<1>5. Append(b.events, f) \in Seq(FrameKinds)
  BY <1>4, AppendProperties
<1>6. Typed!MarkComplete(a.state, b.state, a.at) \in Nat \cup {Never}
  BY <1>1 DEF Typed!MarkComplete
<1>7. Typed!ParseFrame(a, f) \in
         {a, [a1 EXCEPT !.error = TRUE], [a EXCEPT !.error = TRUE], b,
          [b EXCEPT !.events = Append(@, f),
                    !.at = Typed!MarkComplete(a.state, b.state, a.at)]}
  BY DEF Typed!ParseFrame, a1
<1>8. [a1 EXCEPT !.error = TRUE] \in Parsed /\ [a EXCEPT !.error = TRUE] \in Parsed
  BY <1>2 DEF Parsed
<1>9. [b EXCEPT !.events = Append(@, f), !.at = Typed!MarkComplete(a.state, b.state, a.at)]
         \in Parsed
  <2> HIDE DEF b
  <2> QED BY <1>3, <1>5, <1>6 DEF Parsed
<1> QED BY <1>3, <1>7, <1>8, <1>9

ParseLoop == [af \in Parsed \X FrameKinds |-> Typed!ParseFrame(af[1], af[2])]
LEMMA ParseFramesFolds ==
    ASSUME now \in Nat, NEW a \in Parsed, NEW fs \in Seq(FrameKinds)
    PROVE  /\ ParseLoop \in LoopBodies(Parsed, FrameKinds)
           /\ Typed!ParseFrames(a, fs) = FoldOf(Parsed, a, fs, ParseLoop)
<1> DEFINE Takes(h) == h = [k \in 0..Len(fs) |->
                               IF k = 0 THEN a ELSE Typed!ParseFrame(h[k - 1], fs[k])]
<1>1. ParseLoop \in LoopBodies(Parsed, FrameKinds)
  BY FrameParsed DEF ParseLoop, LoopBodies
<1>2. PICK g \in [0..Len(fs) -> Parsed] : Accumulates(g, a, fs, ParseLoop)
  BY <1>1, FoldDefined
<1>3. \A k \in 0..Len(fs) : k = 0 \/ (k \in 1..Len(fs) /\ k # 0 /\ k - 1 \in 0..Len(fs))
  OBVIOUS
<1>4. \A k \in 1..Len(fs) : fs[k] \in FrameKinds
  OBVIOUS
<1>5. \A v \in Parsed : \A k \in 1..Len(fs) : ParseLoop[<<v, fs[k]>>] = Typed!ParseFrame(v, fs[k])
  BY <1>4 DEF ParseLoop
<1>6. Takes(g)
  <2>1. \A k \in 0..Len(fs) : g[k] = IF k = 0 THEN a ELSE Typed!ParseFrame(g[k - 1], fs[k])
    BY <1>2, <1>3, <1>5 DEF Accumulates
  <2> QED BY <2>1
<1> DEFINE h == CHOOSE fl : Takes(fl)
<1>7. Takes(h)
  BY <1>6
<1>8. Typed!ParseFrames(a, fs) = h[Len(fs)]
  BY Zenon DEF Typed!ParseFrames
<1> HIDE DEF h
<1>9. h[0] = a /\ \A k \in 1..Len(fs) : h[k] = Typed!ParseFrame(h[k - 1], fs[k])
  <2>1. \A k \in 0..Len(fs) : h[k] = IF k = 0 THEN a ELSE Typed!ParseFrame(h[k - 1], fs[k])
    BY <1>7
  <2> QED BY <1>3, <2>1
<1>10. \A k \in 1..Len(fs) : h[k - 1] \in Parsed => h[k] = ParseLoop[<<h[k - 1], fs[k]>>]
  BY <1>5, <1>9
<1>11. h[Len(fs)] = FoldOf(Parsed, a, fs, ParseLoop)
  BY <1>1, <1>9, <1>10, FoldUnique
<1> QED BY <1>1, <1>8, <1>11

-----------------------------------------------------------------------------
\* The fed that are events
LEMMA NotDoneGrows ==
    ASSUME NEW fs \in Seq(FrameKinds)
    PROVE  /\ Typed!NotDone(fs) \in Seq(FrameKinds) /\ Typed!NotDone(<<>>) = <<>>
           /\ \A gs \in Seq(FrameKinds) :
                 Typed!NotDone(fs \o gs) = Typed!NotDone(fs) \o Typed!NotDone(gs)
           /\ \A f \in FrameKinds :
                 Typed!NotDone(Append(fs, f)) =
                     IF f = "done" THEN Typed!NotDone(fs) ELSE Append(Typed!NotDone(fs), f)
<1> DEFINE one == [f \in FrameKinds |-> IF f = "done" THEN <<>> ELSE <<f>>]
<1>1. one \in [FrameKinds -> Seq(FrameKinds)]
  OBVIOUS
<1>2. ASSUME NEW s \in Seq(FrameKinds) PROVE Typed!NotDone(s) = FlatMap(one, s)
  <2>1. \A k \in DOMAIN s : one[s[k]] = IF s[k] = "done" THEN <<>> ELSE <<s[k]>>
    OBVIOUS
  <2> HIDE DEF one
  <2> QED BY <2>1, FlattenIsTyped DEF Typed!NotDone, FlatMap
<1>3. \A f \in FrameKinds : one[f] = IF f = "done" THEN <<>> ELSE <<f>>
  OBVIOUS
<1> HIDE DEF one
<1>4. /\ FlatMap(one, fs) \in Seq(FrameKinds) /\ FlatMap(one, <<>>) = <<>>
      /\ \A gs \in Seq(FrameKinds) : FlatMap(one, fs \o gs) = FlatMap(one, fs) \o FlatMap(one, gs)
      /\ \A f \in FrameKinds : FlatMap(one, Append(fs, f)) = FlatMap(one, fs) \o one[f]
  <2>1. Grows(one, fs, FrameKinds, FrameKinds)
    BY <1>1, FlatMapGrows
  <2> QED BY <2>1 DEF Grows
<1>5. \A gs \in Seq(FrameKinds) : fs \o gs \in Seq(FrameKinds)
  BY ConcatProperties
<1>6. ASSUME NEW f \in FrameKinds
      PROVE  Typed!NotDone(Append(fs, f)) =
                 IF f = "done" THEN Typed!NotDone(fs) ELSE Append(Typed!NotDone(fs), f)
  <2>1. Append(fs, f) \in Seq(FrameKinds)
    BY AppendProperties
  <2>2. Typed!NotDone(Append(fs, f)) = Typed!NotDone(fs) \o one[f]
    BY <1>2, <1>4, <2>1
  <2>3. Typed!NotDone(fs) \in Seq(FrameKinds)
    BY <1>2, <1>4
  <2>4. CASE f = "done"
    BY <1>3, <2>2, <2>3, <2>4, ConcatEmptySeq
  <2>5. CASE f # "done"
    BY <1>3, <2>2, <2>3, <2>5, AppendIsConcat
  <2> QED BY <2>4, <2>5
<1>7. <<>> \in Seq(FrameKinds)
  OBVIOUS
<1> QED BY <1>2, <1>4, <1>5, <1>6, <1>7

-----------------------------------------------------------------------------
\* The events taken so far and the state they leave the stream in
Ended(es, st) ==
    /\ st \in EndStates
    /\ st = "Open" => \A k \in 1..Len(es) : ~Typed!IsTerminal(es[k])
    /\ st = "TerminalLifecycle" =>
          /\ Len(es) > 0 /\ es[Len(es)] = "terminal"
          /\ \A k \in 1..(Len(es) - 1) : ~Typed!IsTerminal(es[k])
    /\ st = "Error" =>
          /\ Len(es) > 0 /\ es[Len(es)] = "error"
          /\ \A k \in 1..(Len(es) - 1) :
                Typed!IsTerminal(es[k]) => es[k] = "terminal" /\ k = Len(es) - 1

\* When the end was seen: within the timeout of the first chunk
InTime(st, at, start) ==
    IF st = "Open" THEN at = Never
    ELSE at \in Nat /\ start \in Nat /\ at - start <= Timeout

JudgeInv ==
    /\ taken \in Seq(FrameKinds) /\ fed \in Seq(FrameKinds) /\ now \in Nat
    /\ started_at = Never \/ started_at \in Nat
    /\ event_count = Len(taken) /\ Len(taken) <= MaxEvents
    /\ Ended(taken, completion_state)
    /\ InTime(completion_state, completed_at, started_at)
    /\ verdict # "error" => taken = Typed!NotDone(fed)
    /\ verdict = "complete" => completion_state # "Open"
    /\ verdict = "incomplete" => completion_state = "Open"

\* What one more event does to the state
Moves(st, f, nx) ==
    \/ f = "error" /\ st # "Error" /\ nx = "Error"
    \/ f = "terminal" /\ st = "Open" /\ nx = "TerminalLifecycle"
    \/ f \notin {"error", "terminal"} /\ st = "Open" /\ nx = "Open"

LEMMA EndedStep ==
    ASSUME NEW V, NEW es \in Seq(V), NEW f \in V, NEW st, Ended(es, st), NEW nx, Moves(st, f, nx)
    PROVE  Ended(Append(es, f), nx)
<1>1. PICK fx : fx = Append(es, f)
  OBVIOUS
<1>2. PICK n \in Nat : n = Len(es)
  OBVIOUS
<1>3. Len(fx) = n + 1 /\ fx[n + 1] = f /\ (\A k \in 1..n : fx[k] = es[k]) /\ n + 1 > 0
      /\ (n + 1) - 1 = n
  BY <1>1, <1>2
<1>4. CASE nx = "Open"
  <2>1. f \notin {"error", "terminal"} /\ st = "Open"
    BY <1>4 DEF Moves
  <2>2. \A k \in 1..(n + 1) : k = n + 1 \/ k \in 1..n
    OBVIOUS
  <2>3. \A k \in 1..(n + 1) : ~Typed!IsTerminal(fx[k])
    BY <1>2, <1>3, <2>1, <2>2 DEF Ended, Typed!IsTerminal
  <2> QED BY <1>1, <1>3, <1>4, <2>3 DEF Ended, EndStates
<1>5. CASE nx = "TerminalLifecycle"
  <2>1. f = "terminal" /\ st = "Open"
    BY <1>5 DEF Moves
  <2>2. \A k \in 1..n : ~Typed!IsTerminal(fx[k])
    BY <1>2, <1>3, <2>1 DEF Ended
  <2> QED BY <1>1, <1>3, <1>5, <2>1, <2>2 DEF Ended, EndStates
<1>6. CASE nx = "Error"
  <2>1. f = "error" /\ st # "Error" /\ st \in EndStates
    BY <1>6 DEF Moves, Ended
  <2>2. ASSUME NEW k \in 1..n, Typed!IsTerminal(fx[k]) PROVE fx[k] = "terminal" /\ k = n
    <3>1. fx[k] = es[k]
      BY <1>3
    <3>2. st = "TerminalLifecycle"
      BY <1>2, <2>1, <2>2, <3>1 DEF Ended, EndStates
    <3>3. es[n] = "terminal" /\ \A j \in 1..(n - 1) : ~Typed!IsTerminal(es[j])
      BY <1>2, <3>2 DEF Ended
    <3>4. k = n \/ k \in 1..(n - 1)
      OBVIOUS
    <3> QED BY <2>2, <3>1, <3>3, <3>4
  <2> QED BY <1>1, <1>3, <1>6, <2>1, <2>2 DEF Ended, EndStates
<1> QED BY <1>4, <1>5, <1>6 DEF Moves

LEMMA RecordMoves ==
    ASSUME NEW a \in Parsed, ~a.error, NEW f, NEW b, b = Typed!RecordCompletion(a, f), ~b.error
    PROVE  Moves(a.state, f, b.state) /\ b.count = a.count /\ b.events = a.events
           /\ b.at = a.at
<1>1. a.state \in EndStates /\ a.error = FALSE
  BY DEF Parsed
<1>2. CASE f = "error"
  <2>1. CASE a.state = "Error"
    <3>1. b = [a EXCEPT !.error = TRUE]
      BY <1>2, <2>1 DEF Typed!RecordCompletion
    <3> QED BY <3>1 DEF Parsed
  <2>2. CASE a.state # "Error"
    <3>1. b = [a EXCEPT !.state = "Error"]
      BY <1>2, <2>2 DEF Typed!RecordCompletion
    <3> QED BY <1>2, <2>2, <3>1 DEF Parsed, Moves
  <2> QED BY <2>1, <2>2
<1>3. CASE f # "error"
  <2>1. CASE a.state # "Open"
    <3>1. b = [a EXCEPT !.error = TRUE]
      BY <1>3, <2>1 DEF Typed!RecordCompletion
    <3> QED BY <3>1 DEF Parsed
  <2>2. CASE a.state = "Open"
    <3>1. b = IF f = "terminal" THEN [a EXCEPT !.state = "TerminalLifecycle"] ELSE a
      BY <1>3, <2>2 DEF Typed!RecordCompletion, Typed!IsTerminal
    <3> QED BY <1>3, <2>2, <3>1 DEF Parsed, Moves
  <2> QED BY <2>1, <2>2
<1> QED BY <1>2, <1>3

\* The fed fs of one chunk, from what a says of the chunks before
Loop(a, fs, start, r) ==
    r \in Parsed /\ (r.error \/
        /\ r.events = Typed!NotDone(fs)
        /\ r.count = a.count + Len(r.events)
        /\ Ended(taken \o r.events, r.state)
        /\ InTime(r.state, r.at, start))

LEMMA OneCounted == \A a \in Parsed : [a EXCEPT !.count = @ + 1] \in Parsed
BY DEF Parsed

LEMMA LoopStep ==
    ASSUME LimitsTyped, JudgeInv, NEW a \in Parsed, NEW start \in Nat, now - start <= Timeout,
           NEW fs \in Seq(FrameKinds), NEW f \in FrameKinds, NEW r, Loop(a, fs, start, r)
    PROVE  Loop(a, Append(fs, f), start, Typed!ParseFrame(r, f))
<1>1. /\ now \in Nat /\ taken \in Seq(FrameKinds) /\ r \in Parsed
      /\ r.events \in Seq(FrameKinds) /\ r.error \in BOOLEAN /\ r.count \in Nat
      /\ r.state \in EndStates /\ a.count \in Nat
  BY DEF JudgeInv, Loop, Parsed
<1>2. PICK q : q = Typed!ParseFrame(r, f)
  OBVIOUS
<1>3. q \in Parsed
  BY <1>1, <1>2, FrameParsed
<1>4. PICK fx : fx = Append(fs, f)
  OBVIOUS
<1>5. fx \in Seq(FrameKinds)
      /\ Typed!NotDone(fx) = IF f = "done" THEN Typed!NotDone(fs) ELSE Append(Typed!NotDone(fs), f)
  BY <1>4, NotDoneGrows, AppendProperties
<1>6. CASE r.error
  <2>1. q = r
    BY <1>2, <1>6 DEF Typed!ParseFrame
  <2> QED BY <1>1, <1>2, <1>6, <2>1 DEF Loop
<1>7. CASE ~r.error /\ f = "done"
  <2>1. q = r
    BY <1>2, <1>7 DEF Typed!ParseFrame
  <2> QED BY <1>2, <1>4, <1>5, <1>7, <2>1 DEF Loop
<1>8. CASE ~r.error /\ f # "done"
  <2>1. PICK r1 : r1 = [r EXCEPT !.count = @ + 1]
    OBVIOUS
  <2>2. r1 \in Parsed /\ r1.error = FALSE /\ r1.count = r.count + 1 /\ r1.state = r.state
        /\ r1.events = r.events /\ r1.at = r.at
    <3>1. r1 \in Parsed
      BY <1>1, <2>1, OneCounted
    <3>2. r1.error = r.error /\ r1.count = r.count + 1 /\ r1.state = r.state
          /\ r1.events = r.events /\ r1.at = r.at
      BY <1>1, <2>1 DEF Parsed
    <3> QED BY <1>1, <1>8, <3>1, <3>2
  <2>3. PICK b : b = Typed!RecordCompletion(r1, f)
    OBVIOUS
  <2>4. PICK at : at = Typed!MarkComplete(r.state, b.state, r.at)
    OBVIOUS
  <2>5. q = IF ~Typed!FromFrame(f) THEN [r EXCEPT !.error = TRUE]
            ELSE IF b.error THEN b ELSE [b EXCEPT !.events = Append(@, f), !.at = at]
    BY <1>2, <1>8, <2>1, <2>3, <2>4 DEF Typed!ParseFrame
  <2>6. CASE ~Typed!FromFrame(f)
    <3>1. q.error
      BY <1>1, <2>5, <2>6 DEF Parsed
    <3> QED BY <1>2, <1>3, <3>1 DEF Loop
  <2>7. CASE Typed!FromFrame(f) /\ b.error
    <3>1. q.error
      BY <2>5, <2>7
    <3> QED BY <1>2, <1>3, <3>1 DEF Loop
  <2>8. CASE Typed!FromFrame(f) /\ ~b.error
    <3>1. Moves(r.state, f, b.state) /\ b.count = r.count + 1 /\ b.events = r.events
      BY <2>2, <2>3, <2>8, RecordMoves
    <3>2. b \in [state : EndStates, count : Nat, at : Nat \cup {Never},
                 events : Seq(FrameKinds), error : BOOLEAN]
      <4>1. b \in {r1, [r1 EXCEPT !.state = "Error"], [r1 EXCEPT !.error = TRUE],
                   [r1 EXCEPT !.state = "TerminalLifecycle"]}
        BY <1>1, <2>2, <2>3 DEF Typed!RecordCompletion
      <4> QED BY <2>2, <4>1 DEF Parsed, EndStates
    <3>3. q.events = Append(r.events, f) /\ q.count = r.count + 1 /\ q.state = b.state
          /\ q.at = at
      BY <2>5, <2>8, <3>1, <3>2
    <3>4. /\ r.events = Typed!NotDone(fs) /\ r.count = a.count + Len(r.events)
          /\ Ended(taken \o r.events, r.state) /\ InTime(r.state, r.at, start)
      BY <1>8 DEF Loop
    <3>5. q.events = Typed!NotDone(fx)
      BY <1>5, <1>8, <3>3, <3>4
    <3>6. q.count = a.count + Len(q.events)
      <4>1. Len(Append(r.events, f)) = Len(r.events) + 1 /\ Len(r.events) \in Nat
        BY <1>1, AppendProperties
      <4>2. PICK n \in Nat : n = Len(r.events)
        BY <4>1
      <4>3. Len(q.events) = n + 1 /\ r.count = a.count + n
        BY <3>3, <3>4, <4>1, <4>2
      <4> QED BY <1>1, <3>3, <4>3, SMTT(30)
    <3>7. Ended(taken \o q.events, q.state)
      <4>1. taken \o Append(r.events, f) = Append(taken \o r.events, f)
        <5>1. PICK es \in Seq(FrameKinds) : es = r.events
          BY <1>1
        <5> QED BY <1>1, <5>1, ConcatThenAppend, SMTT(30)
      <4>2. taken \o r.events \in Seq(FrameKinds)
        BY <1>1, ConcatProperties
      <4>3. Ended(Append(taken \o r.events, f), b.state)
        BY <3>1, <3>4, <4>2, EndedStep
      <4> QED BY <3>3, <4>1, <4>3
    <3>8. InTime(q.state, q.at, start)
      BY <1>1, <2>4, <3>1, <3>3, <3>4 DEF InTime, Moves, Typed!MarkComplete, LimitsTyped, EndStates
    <3> QED BY <1>2, <1>3, <1>4, <3>5, <3>6, <3>7, <3>8 DEF Loop
  <2> QED BY <2>6, <2>7, <2>8
<1> QED BY <1>6, <1>7, <1>8

LEMMA LoopSound ==
    ASSUME LimitsTyped, JudgeInv, NEW a \in Parsed, NEW start \in Nat, now - start <= Timeout,
           a.count = event_count, a.events = <<>>, ~a.error,
           a.state = completion_state, InTime(a.state, a.at, start),
           NEW fs \in Seq(FrameKinds)
    PROVE  Loop(a, fs, start, Typed!ParseFrames(a, fs))
<1> DEFINE after(s) == FoldOf(Parsed, a, s, ParseLoop)
           P == {s \in Seq(FrameKinds) : Loop(a, s, start, after(s))}
<1>1. now \in Nat /\ taken \in Seq(FrameKinds) /\ Ended(taken, completion_state)
  BY DEF JudgeInv
<1>2. ParseLoop \in LoopBodies(Parsed, FrameKinds)
  BY <1>1, ParseFramesFolds
<1>3. <<>> \in P
  <2>1. after(<<>>) = a /\ <<>> \in Seq(FrameKinds)
    BY <1>2, FoldAppend
  <2>2. Typed!NotDone(<<>>) = <<>>
    BY <2>1, NotDoneGrows
  <2>3. taken \o <<>> = taken
    BY <1>1, ConcatEmptySeq
  <2>4. a.count = a.count + Len(<<>>)
    BY DEF Parsed
  <2>5. Loop(a, <<>>, start, a)
    BY <1>1, <2>2, <2>3, <2>4 DEF Loop
  <2> QED BY <2>1, <2>5
<1>4. ASSUME NEW s \in Seq(FrameKinds), NEW f \in FrameKinds, s \in P PROVE Append(s, f) \in P
  <2>1. after(Append(s, f)) = ParseLoop[<<after(s), f>>] /\ after(s) \in Parsed
    BY <1>2, FoldAppend
  <2>2. ParseLoop[<<after(s), f>>] = Typed!ParseFrame(after(s), f)
    BY <2>1 DEF ParseLoop
  <2>3. PICK r : r = after(s)
    OBVIOUS
  <2>4. Loop(a, Append(s, f), start, Typed!ParseFrame(r, f))
    BY <1>4, <2>3, LoopStep
  <2>5. Append(s, f) \in Seq(FrameKinds)
    BY AppendProperties
  <2> QED BY <2>1, <2>2, <2>3, <2>4, <2>5
<1>5. \A s \in Seq(FrameKinds) : s \in P
  <2> HIDE DEF P
  <2> QED BY <1>3, <1>4, ListInduction
<1>6. Typed!ParseFrames(a, fs) = after(fs)
  BY <1>1, ParseFramesFolds
<1> QED BY <1>5, <1>6

-----------------------------------------------------------------------------
LEMMA JudgeInit == ASSUME LimitsTyped, Typed!Init PROVE JudgeInv
<1>1. <<>> \in Seq(FrameKinds) /\ Len(<<>>) = 0
  OBVIOUS
<1>2. Typed!NotDone(<<>>) = <<>>
  BY <1>1, NotDoneGrows
<1>3. Ended(taken, completion_state)
  BY <1>1 DEF Typed!Init, Ended, EndStates
<1> QED BY <1>1, <1>2, <1>3 DEF Typed!Init, JudgeInv, InTime, LimitsTyped

LEMMA BoundedIsSeq ==
    ASSUME NEW V, NEW n, NEW s \in Typed!BoundedSeq(V, n) PROVE s \in Seq(V)
<1>1. PICK m \in 0..n : s \in [1..m -> V]
  BY DEF Typed!BoundedSeq, Typed!SeqOf
<1> QED BY <1>1

LEMMA ParseChunkJudged ==
    ASSUME LimitsTyped, JudgeInv, NEW fs \in Seq(FrameKinds), Typed!ParseChunk(fs)
    PROVE  JudgeInv'
<1>1. /\ taken \in Seq(FrameKinds) /\ fed \in Seq(FrameKinds) /\ now \in Nat
      /\ started_at = Never \/ started_at \in Nat
      /\ event_count = Len(taken) /\ Len(taken) <= MaxEvents
      /\ Ended(taken, completion_state)
      /\ InTime(completion_state, completed_at, started_at)
      /\ taken = Typed!NotDone(fed) \/ verdict = "error"
  BY DEF JudgeInv
<1>2. PICK start : start = IF started_at = Never THEN now ELSE started_at
  OBVIOUS
<1>3. start \in Nat
  BY <1>1, <1>2
<1>4. PICK a : a = [state |-> completion_state, count |-> event_count, at |-> completed_at,
                    events |-> <<>>, error |-> FALSE]
  OBVIOUS
<1>5. PICK r : r = Typed!ParseFrames(a, fs)
  OBVIOUS
<1>6. /\ verdict = "none" /\ started_at' = start /\ fed' = fed \o fs /\ now' = now
      /\ \/ /\ verdict' = "error"
            /\ UNCHANGED <<completion_state, event_count, completed_at, taken>>
         \/ /\ ~Typed!Expired(start, now) /\ ~(event_count + Typed!Counted(fs) > MaxEvents)
            /\ ~r.error
            /\ completion_state' = r.state /\ event_count' = r.count /\ completed_at' = r.at
            /\ taken' = taken \o r.events /\ verdict' = verdict
  BY <1>2, <1>4, <1>5 DEF Typed!ParseChunk
<1>7. fed' \in Seq(FrameKinds) /\ now' \in Nat /\ started_at' \in Nat
  BY <1>1, <1>3, <1>6, ConcatProperties
<1>8. InTime(completion_state, completed_at, start)
  BY <1>1, <1>2 DEF InTime, LimitsTyped
<1>9. CASE verdict' = "error" /\ UNCHANGED <<completion_state, event_count, completed_at, taken>>
  <2>1. Ended(taken', completion_state')
    BY <1>1, <1>9
  <2>2. InTime(completion_state', completed_at', started_at')
    BY <1>6, <1>8, <1>9
  <2> QED BY <1>1, <1>7, <1>9, <2>1, <2>2 DEF JudgeInv
<1>10. CASE ~Typed!Expired(start, now) /\ ~(event_count + Typed!Counted(fs) > MaxEvents)
            /\ ~r.error
            /\ completion_state' = r.state /\ event_count' = r.count /\ completed_at' = r.at
            /\ taken' = taken \o r.events /\ verdict' = verdict
  <2>1. now - start <= Timeout
    BY <1>1, <1>3, <1>10 DEF Typed!Expired, LimitsTyped
  <2>2. a \in Parsed /\ a.count = event_count /\ a.events = <<>> /\ ~a.error
        /\ a.state = completion_state /\ a.at = completed_at
    <3>1. completion_state \in EndStates /\ event_count \in Nat
          /\ completed_at \in Nat \cup {Never} /\ <<>> \in Seq(FrameKinds)
      BY <1>1, <1>8 DEF Ended, InTime
    <3> QED BY <1>4, <3>1 DEF Parsed
  <2>3. Loop(a, fs, start, r)
    BY <1>3, <1>5, <1>8, <2>1, <2>2, LoopSound
  <2>4. /\ r \in Parsed /\ r.events = Typed!NotDone(fs)
        /\ r.count = a.count + Len(r.events)
        /\ Ended(taken \o r.events, r.state)
        /\ InTime(r.state, r.at, start)
    BY <1>10, <2>3 DEF Loop
  <2>5. r.events \in Seq(FrameKinds)
    BY <2>4 DEF Parsed
  <2>6. taken \o r.events \in Seq(FrameKinds)
        /\ Len(taken \o r.events) = Len(taken) + Len(r.events)
    BY <1>1, <2>5, ConcatProperties
  <2>7. event_count' = Len(taken') /\ Len(taken') <= MaxEvents
    <3>1. Typed!Counted(fs) = Len(r.events)
      BY <2>4 DEF Typed!Counted
    <3>2. Len(r.events) \in Nat /\ Len(taken) \in Nat
      BY <1>1, <2>5
    <3> QED BY <1>1, <1>10, <2>2, <2>4, <2>6, <3>1, <3>2 DEF LimitsTyped
  <2>8. taken' = Typed!NotDone(fed')
    BY <1>1, <1>6, <1>10, <2>4, NotDoneGrows, ZenonT(60)
  <2>9. Ended(taken', completion_state') /\ InTime(completion_state', completed_at', started_at')
    BY <1>6, <1>10, <2>4
  <2> QED BY <1>1, <1>6, <1>7, <1>10, <2>6, <2>7, <2>8, <2>9 DEF JudgeInv
<1> QED BY <1>6, <1>9, <1>10

LEMMA ValidateJudged ==
    ASSUME LimitsTyped, JudgeInv, Typed!ValidateComplete PROVE JudgeInv'
<1>1. UNCHANGED <<completion_state, event_count, started_at, completed_at, now, taken, fed>>
      /\ verdict = "none" /\ verdict' \in {"incomplete", "complete"}
  BY DEF Typed!ValidateComplete
<1>2. verdict' = "complete" => completion_state # "Open"
  BY DEF Typed!ValidateComplete
<1>3. verdict' = "incomplete" => completion_state = "Open"
  <2>1. CASE completion_state # "Open"
    <3>1. completed_at \in Nat /\ started_at \in Nat /\ completed_at - started_at <= Timeout
      BY <2>1 DEF JudgeInv, InTime
    <3>2. Typed!JudgeNow(now) = completed_at
      BY <3>1 DEF Typed!JudgeNow, LimitsTyped
    <3>3. ~Typed!Expired(started_at, Typed!JudgeNow(now))
      BY <3>1, <3>2 DEF Typed!Expired, LimitsTyped
    <3> QED BY <2>1, <3>3 DEF Typed!ValidateComplete
  <2> QED BY <2>1
<1>4. Ended(taken', completion_state') /\ InTime(completion_state', completed_at', started_at')
  BY <1>1 DEF JudgeInv
<1>5. taken' = Typed!NotDone(fed')
  BY <1>1 DEF JudgeInv
<1> QED BY <1>1, <1>2, <1>3, <1>4, <1>5 DEF JudgeInv

LEMMA JudgeNext == ASSUME LimitsTyped, JudgeInv, [Typed!Next]_(Typed!vars) PROVE JudgeInv'
<1>1. CASE Typed!Next
  <2>1. ASSUME NEW fs \in Typed!BoundedSeq(FrameKinds, MaxChunk), Typed!ParseChunk(fs)
        PROVE  JudgeInv'
    BY <2>1, BoundedIsSeq, ParseChunkJudged
  <2>2. CASE Typed!ValidateComplete
    BY <2>2, ValidateJudged
  <2>3. CASE Typed!Tick
    <3>1. now' \in Nat
      BY <2>3 DEF Typed!Tick, JudgeInv
    <3>2. Ended(taken', completion_state')
          /\ InTime(completion_state', completed_at', started_at')
      BY <2>3 DEF Typed!Tick, JudgeInv
    <3> QED BY <2>3, <3>1, <3>2 DEF Typed!Tick, JudgeInv
  <2>4. CASE UNCHANGED Typed!vars
    <3>1. Ended(taken', completion_state')
          /\ InTime(completion_state', completed_at', started_at')
      BY <2>4 DEF Typed!vars, JudgeInv
    <3> QED BY <2>4, <3>1 DEF Typed!vars, JudgeInv
  <2> QED BY <1>1, <2>1, <2>2, <2>3, <2>4 DEF Typed!Next, Typed!Idle
<1>2. CASE UNCHANGED Typed!vars
  <2>1. Ended(taken', completion_state')
        /\ InTime(completion_state', completed_at', started_at')
    BY <1>2 DEF Typed!vars, JudgeInv
  <2> QED BY <1>2, <2>1 DEF Typed!vars, JudgeInv
<1> QED BY <1>1, <1>2

LEMMA JudgeImplies == ASSUME LimitsTyped, JudgeInv PROVE Typed!JudgementSound
<1>1. taken \in Seq(FrameKinds) /\ Ended(taken, completion_state)
  BY DEF JudgeInv
<1>2. PICK n \in Nat : n = Len(taken)
  BY <1>1
<1>3. DOMAIN taken = 1..n
  BY <1>1, <1>2
<1>4. completion_state \in EndStates
  BY <1>1 DEF Ended
<1>5. Typed!NothingAfterEnd
  <2> SUFFICES ASSUME NEW k \in 1..n, Typed!IsTerminal(taken[k]), NEW j \in (k + 1)..n
               PROVE  taken[k] = "terminal" /\ taken[j] = "error" /\ j = k + 1
    BY <1>2, <1>3 DEF Typed!NothingAfterEnd, Typed!Ends
  <2>1. k \in 1..(n - 1)
    OBVIOUS
  <2>2. completion_state = "Error"
    BY <1>1, <1>2, <1>4, <2>1 DEF Ended, EndStates
  <2>3. taken[n] = "error" /\ taken[k] = "terminal" /\ k = n - 1
    BY <1>1, <1>2, <2>1, <2>2 DEF Ended
  <2>4. j = n
    BY <2>3
  <2> QED BY <2>3, <2>4
<1>6. Typed!JudgementFair
  <2>1. ASSUME verdict = "complete"
        PROVE  Typed!Ends # {} /\ taken = Typed!NotDone(fed)
               /\ completed_at - started_at <= Timeout
    <3>1. completion_state # "Open" /\ taken = Typed!NotDone(fed)
          /\ InTime(completion_state, completed_at, started_at)
      BY <2>1 DEF JudgeInv
    <3>2. n \in 1..n /\ Typed!IsTerminal(taken[n])
      BY <1>1, <1>2, <1>4, <3>1 DEF Ended, EndStates, Typed!IsTerminal
    <3> QED BY <1>3, <3>1, <3>2 DEF Typed!Ends, InTime
  <2>2. ASSUME verdict = "incomplete" PROVE Typed!Ends = {}
    BY <1>1, <1>2, <1>3, <2>2 DEF JudgeInv, Ended, Typed!Ends
  <2> QED BY <2>1, <2>2 DEF Typed!JudgementFair
<1>7. Typed!BudgetHolds
  BY DEF JudgeInv, Typed!BudgetHolds
<1> QED BY <1>5, <1>6, <1>7 DEF Typed!JudgementSound

\* However the fed of a Responses stream are spread over chunks, whatever the
\* clock does between them and whenever the judgement is asked for: nothing but
\* one error event follows the event that ends the stream, a stream is judged
\* complete or incomplete by what it held and by when its end came
\* (validate_complete), and no more than max_events events are taken.
THEOREM JudgementsAreSound == ASSUME LimitsTyped PROVE Spec => []JudgementSound
<1> DEFINE Inv == reader = "typed" => JudgeInv
<1>1. Init => Inv
  BY JudgeInit DEF Init
<1>2. Inv /\ [Next]_vars => Inv'
  <2> SUFFICES ASSUME Inv, [Next]_vars, reader' = "typed" PROVE JudgeInv'
    OBVIOUS
  <2>1. reader = "typed" /\ [Typed!Next]_(Typed!vars)
    BY DEF Next, vars, typedVars, Typed!vars
  <2> QED BY <2>1, JudgeNext
<1>3. Inv => JudgementSound
  BY JudgeImplies DEF JudgementSound
<1> QED BY <1>1, <1>2, <1>3, PTL DEF Spec

-----------------------------------------------------------------------------
(* The events of a translated stream (StreamEvents)                        *)


\* Texts, ids, arguments, finish reasons and token counts are values of Words
Given == Words \cup {None}
ToolFragments == [id : Given, args : Given]
ChunksTyped ==
    /\ \A c \in Chunks :
          /\ c \in [text : Given, tools : {c.tools}, finish : Given, usage : Given]
          /\ c.tools = Absent \/ c.tools \in Seq(ToolFragments)
    /\ None \notin {"text_start", "tool_start"}

EventTypes ==
    {"message_start", "text_start", "text_delta", "tool_start", "json_delta", "stop",
     "message_delta", "message_stop"}
StopReasons == {"tool_use", "max_tokens", "end_turn"}
Values == Given \cup (StopReasons \X (Given \cup {0}))
Emitted == [type : EventTypes, index : Nat, v : Values]
Tags == {"text_delta", "call", "json_delta", "message_delta"}
Sayings == Tags \X Values
FilterStates ==
    [started : BOOLEAN, text_open : BOOLEAN, tool_open : BOOLEAN, index : Nat,
     ev : Seq(Emitted)]
ClientStates ==
    [ok : BOOLEAN, begun : BOOLEAN, ended : BOOLEAN, blocks : Nat, stops : Nat,
     open : {None, "text_start", "tool_start"}, said : Seq(Sayings)]

LEMMA ReadsTyped ==
    ASSUME NEW c \in ClientStates, NEW e \in Emitted
    PROVE  Events!ClientReads(c, e) \in ClientStates
<1>1. /\ c.ok \in BOOLEAN /\ c.begun \in BOOLEAN /\ c.ended \in BOOLEAN /\ c.blocks \in Nat
      /\ c.stops \in Nat /\ c.open \in {None, "text_start", "tool_start"} /\ c.said \in Seq(Sayings)
  BY DEF ClientStates
<1>2. e.type \in EventTypes /\ e.index \in Nat /\ e.v \in Values
  BY DEF Emitted
<1>3. ASSUME NEW t \in Tags PROVE Append(c.said, <<t, e.v>>) \in Seq(Sayings)
  <2>1. <<t, e.v>> \in Sayings
    BY <1>2 DEF Sayings
  <2> QED BY <1>1, <2>1, AppendProperties
<1>4. CASE e.type = "message_start"
  <2>1. Events!ClientReads(c, e) = [c EXCEPT !.ok = @ /\ ~c.begun, !.begun = TRUE]
    BY <1>4 DEF Events!ClientReads
  <2> QED BY <2>1 DEF ClientStates
<1>5. CASE e.type \in {"text_start", "tool_start"}
  <2>1. Events!ClientReads(c, e) =
           [c EXCEPT !.ok = @ /\ c.begun /\ ~c.ended /\ c.open = None /\ e.index = c.blocks,
                     !.blocks = @ + 1,
                     !.open = e.type,
                     !.said = IF e.type = "tool_start" THEN Append(@, <<"call", e.v>>) ELSE @]
    BY <1>5 DEF Events!ClientReads
  <2>2. Append(c.said, <<"call", e.v>>) \in Seq(Sayings)
    BY <1>3 DEF Tags
  <2>3. c.blocks + 1 \in Nat /\ e.type \in {None, "text_start", "tool_start"}
    BY <1>1, <1>5
  <2>4. (c.ok /\ c.begun /\ ~c.ended /\ c.open = None /\ e.index = c.blocks) \in BOOLEAN
    OBVIOUS
  <2> QED BY <1>1, <2>1, <2>2, <2>3, <2>4 DEF ClientStates
<1>6. CASE e.type \in {"text_delta", "json_delta"}
  <2>1. Events!ClientReads(c, e) =
           [c EXCEPT !.ok = @ /\ e.index + 1 = c.blocks
                              /\ c.open = (IF e.type = "text_delta"
                                           THEN "text_start" ELSE "tool_start"),
                     !.said = Append(@, <<e.type, e.v>>)]
    BY <1>6 DEF Events!ClientReads
  <2>2. Append(c.said, <<e.type, e.v>>) \in Seq(Sayings)
    BY <1>2, <1>3, <1>6 DEF Tags
  <2> QED BY <1>1, <2>1, <2>2 DEF ClientStates
<1>7. CASE e.type = "stop"
  <2>1. Events!ClientReads(c, e) =
           [c EXCEPT !.ok = @ /\ c.open # None /\ e.index + 1 = c.blocks,
                     !.stops = @ + 1, !.open = None]
    BY <1>7 DEF Events!ClientReads
  <2>2. c.stops + 1 \in Nat
    BY <1>1
  <2> QED BY <1>1, <2>1, <2>2 DEF ClientStates
<1>8. CASE e.type = "message_delta"
  <2>1. Events!ClientReads(c, e) =
           [c EXCEPT !.ok = @ /\ c.begun /\ c.open = None,
                     !.said = Append(@, <<"message_delta", e.v>>)]
    BY <1>8 DEF Events!ClientReads
  <2>2. Append(c.said, <<"message_delta", e.v>>) \in Seq(Sayings)
    BY <1>3 DEF Tags
  <2> QED BY <1>1, <2>1, <2>2 DEF ClientStates
<1>9. CASE e.type = "message_stop"
  <2>1. Events!ClientReads(c, e) =
           [c EXCEPT !.ok = @ /\ c.open = None /\ ~c.ended, !.ended = TRUE]
    BY <1>9 DEF Events!ClientReads
  <2> QED BY <1>1, <2>1 DEF ClientStates
<1> QED BY <1>2, <1>4, <1>5, <1>6, <1>7, <1>8, <1>9 DEF EventTypes

\* The client reads one event after the other
ReadLoop == [ce \in ClientStates \X Emitted |-> Events!ClientReads(ce[1], ce[2])]
ReadsOn(c, es) ==
    /\ Events!ReadAll(c, es) \in ClientStates /\ Events!ReadAll(c, <<>>) = c
    /\ \A e \in Emitted :
          Events!ReadAll(c, Append(es, e)) = Events!ClientReads(Events!ReadAll(c, es), e)

LEMMA ReadAllFolds ==
    ASSUME NEW c \in ClientStates, NEW es \in Seq(Emitted)
    PROVE  /\ ReadLoop \in LoopBodies(ClientStates, Emitted)
           /\ Events!ReadAll(c, es) = FoldOf(ClientStates, c, es, ReadLoop)
<1> DEFINE Takes(h) == h = [k \in 0..Len(es) |->
                               IF k = 0 THEN c ELSE Events!ClientReads(h[k - 1], es[k])]
<1>1. ReadLoop \in LoopBodies(ClientStates, Emitted)
  BY ReadsTyped DEF ReadLoop, LoopBodies
<1>2. PICK g \in [0..Len(es) -> ClientStates] : Accumulates(g, c, es, ReadLoop)
  BY <1>1, FoldDefined
<1>3. \A k \in 0..Len(es) : k = 0 \/ (k \in 1..Len(es) /\ k # 0 /\ k - 1 \in 0..Len(es))
  OBVIOUS
<1>4. \A k \in 1..Len(es) : es[k] \in Emitted
  OBVIOUS
<1>5. \A s \in ClientStates : \A k \in 1..Len(es) :
         ReadLoop[<<s, es[k]>>] = Events!ClientReads(s, es[k])
  BY <1>4 DEF ReadLoop
<1>6. Takes(g)
  <2>1. \A k \in 0..Len(es) : g[k] = IF k = 0 THEN c ELSE Events!ClientReads(g[k - 1], es[k])
    BY <1>2, <1>3, <1>5 DEF Accumulates
  <2> QED BY <2>1
<1> DEFINE h == CHOOSE fl : Takes(fl)
<1>7. Takes(h)
  BY <1>6
<1>8. Events!ReadAll(c, es) = h[Len(es)]
  BY Zenon DEF Events!ReadAll
<1> HIDE DEF h
<1>9. h[0] = c /\ \A k \in 1..Len(es) : h[k] = Events!ClientReads(h[k - 1], es[k])
  <2>1. \A k \in 0..Len(es) : h[k] = IF k = 0 THEN c ELSE Events!ClientReads(h[k - 1], es[k])
    BY <1>7
  <2> QED BY <1>3, <2>1
<1>10. \A k \in 1..Len(es) : h[k - 1] \in ClientStates => h[k] = ReadLoop[<<h[k - 1], es[k]>>]
  BY <1>5, <1>9
<1>11. h[Len(es)] = FoldOf(ClientStates, c, es, ReadLoop)
  BY <1>1, <1>9, <1>10, FoldUnique, ZenonT(60)
<1> QED BY <1>1, <1>8, <1>11

LEMMA ReadsStepwise ==
    ASSUME NEW c \in ClientStates, NEW es \in Seq(Emitted) PROVE ReadsOn(c, es)
<1> DEFINE after(s) == FoldOf(ClientStates, c, s, ReadLoop)
<1>1. \A s \in Seq(Emitted) : Events!ReadAll(c, s) = after(s)
  BY ReadAllFolds
<1>2. ReadLoop \in LoopBodies(ClientStates, Emitted)
  BY ReadAllFolds
<1>3. /\ after(es) \in ClientStates /\ after(<<>>) = c
      /\ \A e \in Emitted : after(Append(es, e)) = ReadLoop[<<after(es), e>>]
  BY <1>2, FoldAppend
<1> HIDE DEF after
<1>4. <<>> \in Seq(Emitted) /\ \A e \in Emitted : Append(es, e) \in Seq(Emitted)
  BY AppendProperties
<1>5. \A e \in Emitted : ReadLoop[<<after(es), e>>] = Events!ClientReads(after(es), e)
  BY <1>3 DEF ReadLoop
<1> QED BY <1>1, <1>3, <1>4, <1>5 DEF ReadsOn

LEMMA ReadsCut ==
    ASSUME NEW c \in ClientStates, NEW es \in Seq(Emitted), NEW fs \in Seq(Emitted)
    PROVE  Events!ReadAll(c, es \o fs) = Events!ReadAll(Events!ReadAll(c, es), fs)
<1> DEFINE d == Events!ReadAll(c, es)
           P == {s \in Seq(Emitted) : Events!ReadAll(c, es \o s) = Events!ReadAll(d, s)}
<1>1. d \in ClientStates
  BY ReadsStepwise DEF ReadsOn
<1> HIDE DEF d
<1>2. <<>> \in P
  <2>1. es \o <<>> = es /\ <<>> \in Seq(Emitted)
    BY ConcatEmptySeq
  <2>2. Events!ReadAll(d, <<>>) = d
    BY <1>1, <2>1, ReadsStepwise DEF ReadsOn
  <2> QED BY <2>1, <2>2 DEF d
<1>3. ASSUME NEW s \in Seq(Emitted), NEW e \in Emitted, s \in P PROVE Append(s, e) \in P
  <2>1. es \o Append(s, e) = Append(es \o s, e)
    BY ConcatThenAppend
  <2>2. es \o s \in Seq(Emitted) /\ Append(s, e) \in Seq(Emitted)
    BY ConcatProperties, AppendProperties
  <2>3. Events!ReadAll(c, Append(es \o s, e)) = Events!ClientReads(Events!ReadAll(c, es \o s), e)
    BY <2>2, ReadsStepwise DEF ReadsOn
  <2>4. Events!ReadAll(d, Append(s, e)) = Events!ClientReads(Events!ReadAll(d, s), e)
    BY <1>1, ReadsStepwise DEF ReadsOn
  <2> QED BY <1>3, <2>1, <2>2, <2>3, <2>4
<1> HIDE DEF P
<1>4. \A s \in Seq(Emitted) : s \in P
  BY <1>2, <1>3, ListInduction
<1> QED BY <1>4 DEF P, d

-----------------------------------------------------------------------------
\* A client that heard said and is between two events: whether the message has
\* begun (b), whether a text (x) or tool (y) block is open, how many blocks are
\* behind it (n)
Heard(c, n, said, b, x, y) ==
    /\ c \in ClientStates /\ n \in Nat /\ said \in Seq(Sayings) /\ ~(x /\ y)
    /\ c.ok = TRUE /\ c.begun = b /\ c.ended = FALSE /\ c.said = said
    /\ c.blocks = (IF x \/ y THEN n + 1 ELSE n)
    /\ c.open = (IF x THEN "text_start" ELSE IF y THEN "tool_start" ELSE None)
Ev(t, n, v) == [type |-> t, index |-> n, v |-> v]

LEMMA SayingAdded ==
    ASSUME NEW said \in Seq(Sayings), NEW t \in Tags, NEW v \in Values
    PROVE  Append(said, <<t, v>>) \in Seq(Sayings)
<1>1. <<t, v>> \in Sayings
  BY DEF Sayings
<1> QED BY <1>1, AppendProperties

LEMMA EvTyped ==
    ASSUME NEW t \in EventTypes, NEW n \in Nat, NEW v \in Values
    PROVE  Ev(t, n, v) \in Emitted /\ Ev(t, n, v).type = t /\ Ev(t, n, v).index = n
           /\ Ev(t, n, v).v = v
BY DEF Ev, Emitted

LEMMA StartHeard ==
    ASSUME NEW c, NEW n, NEW said, Heard(c, n, said, FALSE, FALSE, FALSE)
    PROVE  Heard(Events!ClientReads(c, Ev("message_start", n, None)), n, said, TRUE, FALSE, FALSE)
<1>1. None \in Values /\ "message_start" \in EventTypes
  BY DEF Values, Given, EventTypes
<1>2. PICK e : e = Ev("message_start", n, None)
  OBVIOUS
<1>3. PICK d : d = Events!ClientReads(c, e)
  OBVIOUS
<1>4. e \in Emitted /\ e.type = "message_start"
  BY <1>1, <1>2, EvTyped DEF Heard
<1>5. d \in ClientStates
  BY <1>3, <1>4, ReadsTyped DEF Heard
<1>6. d = [c EXCEPT !.ok = @ /\ ~c.begun, !.begun = TRUE]
  BY <1>3, <1>4 DEF Events!ClientReads
<1>7. /\ d.ok = (c.ok /\ ~c.begun) /\ d.begun = TRUE /\ d.ended = c.ended
      /\ d.said = c.said /\ d.blocks = c.blocks /\ d.open = c.open
  BY <1>6 DEF Heard, ClientStates
<1> QED BY <1>2, <1>3, <1>5, <1>7 DEF Heard

LEMMA OpenHeard ==
    ASSUME NEW c, NEW n, NEW said, Heard(c, n, said, TRUE, FALSE, FALSE),
           NEW t \in {"text_start", "tool_start"}, NEW v \in Given
    PROVE  Heard(Events!ClientReads(c, Ev(t, n, v)), n,
                 IF t = "tool_start" THEN Append(said, <<"call", v>>) ELSE said,
                 TRUE, t = "text_start", t = "tool_start")
<1>1. v \in Values /\ t \in EventTypes
  BY DEF Values, EventTypes
<1>2. PICK e : e = Ev(t, n, v)
  OBVIOUS
<1>3. PICK d : d = Events!ClientReads(c, e)
  OBVIOUS
<1>4. e \in Emitted /\ e.type = t /\ e.index = n /\ e.v = v
  BY <1>1, <1>2, EvTyped DEF Heard
<1>5. d \in ClientStates
  BY <1>3, <1>4, ReadsTyped DEF Heard
<1>6. PICK more : more = IF t = "tool_start" THEN Append(said, <<"call", v>>) ELSE said
  OBVIOUS
<1>7. more \in Seq(Sayings)
  BY <1>1, <1>6, SayingAdded DEF Heard, Tags
<1>8. d = [c EXCEPT !.ok = @ /\ c.begun /\ ~c.ended /\ c.open = None /\ e.index = c.blocks,
                    !.blocks = @ + 1,
                    !.open = e.type,
                    !.said = IF e.type = "tool_start" THEN Append(@, <<"call", e.v>>) ELSE @]
  BY <1>3, <1>4 DEF Events!ClientReads
<1>9. /\ d.ok = (c.ok /\ c.begun /\ ~c.ended /\ c.open = None /\ e.index = c.blocks)
      /\ d.begun = c.begun /\ d.ended = c.ended /\ d.blocks = c.blocks + 1 /\ d.open = e.type
      /\ d.said = IF e.type = "tool_start" THEN Append(c.said, <<"call", e.v>>) ELSE c.said
  BY <1>8 DEF Heard, ClientStates
<1>10. d.said = more
  BY <1>4, <1>6, <1>9 DEF Heard
<1>11. d.ok = TRUE /\ d.begun = TRUE /\ d.ended = FALSE /\ d.blocks = n + 1 /\ d.open = t
  BY <1>4, <1>9 DEF Heard
<1>12. Heard(d, n, more, TRUE, t = "text_start", t = "tool_start")
  BY <1>5, <1>7, <1>10, <1>11 DEF Heard
<1> QED BY <1>2, <1>3, <1>6, <1>12

LEMMA DeltaHeard ==
    ASSUME NEW c, NEW n, NEW said, NEW t \in {"text_delta", "json_delta"}, NEW v \in Given,
           Heard(c, n, said, TRUE, t = "text_delta", t = "json_delta")
    PROVE  Heard(Events!ClientReads(c, Ev(t, n, v)), n, Append(said, <<t, v>>), TRUE,
                 t = "text_delta", t = "json_delta")
<1>1. v \in Values /\ t \in EventTypes /\ t \in Tags
  BY DEF Values, EventTypes, Tags
<1>2. PICK e : e = Ev(t, n, v)
  OBVIOUS
<1>3. PICK d : d = Events!ClientReads(c, e)
  OBVIOUS
<1>4. e \in Emitted /\ e.type = t /\ e.index = n /\ e.v = v
  BY <1>1, <1>2, EvTyped DEF Heard
<1>5. d \in ClientStates /\ Append(said, <<t, v>>) \in Seq(Sayings)
  BY <1>1, <1>3, <1>4, ReadsTyped, SayingAdded DEF Heard
<1>6. d = [c EXCEPT !.ok = @ /\ e.index + 1 = c.blocks
                              /\ c.open = (IF e.type = "text_delta"
                                           THEN "text_start" ELSE "tool_start"),
                    !.said = Append(@, <<e.type, e.v>>)]
  BY <1>3, <1>4 DEF Events!ClientReads
<1>7. /\ d.ok = (c.ok /\ e.index + 1 = c.blocks
                 /\ c.open = (IF e.type = "text_delta" THEN "text_start" ELSE "tool_start"))
      /\ d.begun = c.begun /\ d.ended = c.ended /\ d.blocks = c.blocks /\ d.open = c.open
      /\ d.said = Append(c.said, <<e.type, e.v>>)
  BY <1>6 DEF Heard, ClientStates
<1>8. d.said = Append(said, <<t, v>>)
  BY <1>4, <1>7 DEF Heard
<1>9. d.ok = TRUE
  BY <1>4, <1>7 DEF Heard
<1> QED BY <1>2, <1>3, <1>5, <1>7, <1>8, <1>9 DEF Heard

LEMMA StopHeard ==
    ASSUME None \notin {"text_start", "tool_start"}, NEW c, NEW n, NEW said,
           NEW x \in BOOLEAN, NEW y \in BOOLEAN, x \/ y, Heard(c, n, said, TRUE, x, y)
    PROVE  Heard(Events!ClientReads(c, Ev("stop", n, None)), n + 1, said, TRUE, FALSE, FALSE)
<1>1. None \in Values /\ "stop" \in EventTypes
  BY DEF Values, Given, EventTypes
<1>2. PICK e : e = Ev("stop", n, None)
  OBVIOUS
<1>3. PICK d : d = Events!ClientReads(c, e)
  OBVIOUS
<1>4. e \in Emitted /\ e.type = "stop" /\ e.index = n
  BY <1>1, <1>2, EvTyped DEF Heard
<1>5. d \in ClientStates
  BY <1>3, <1>4, ReadsTyped DEF Heard
<1>6. d = [c EXCEPT !.ok = @ /\ c.open # None /\ e.index + 1 = c.blocks,
                    !.stops = @ + 1, !.open = None]
  BY <1>3, <1>4 DEF Events!ClientReads
<1>7. /\ d.ok = (c.ok /\ c.open # None /\ e.index + 1 = c.blocks) /\ d.begun = c.begun
      /\ d.ended = c.ended /\ d.said = c.said /\ d.blocks = c.blocks /\ d.open = None
  BY <1>6 DEF Heard, ClientStates
<1>8. c.open # None
  BY DEF Heard
<1>9. n + 1 \in Nat
  BY DEF Heard
<1> QED BY <1>2, <1>3, <1>4, <1>5, <1>7, <1>8, <1>9 DEF Heard

\* At the end of the message
LEMMA EndHeard ==
    ASSUME NEW c, NEW n, NEW said, NEW v \in Values, Heard(c, n, said, TRUE, FALSE, FALSE),
           NEW d, d = Events!ClientReads(Events!ClientReads(c, Ev("message_delta", n, v)),
                                         Ev("message_stop", n, None))
    PROVE  d \in ClientStates /\ d.ok = TRUE /\ d.ended = TRUE
           /\ d.said = Append(said, <<"message_delta", v>>)
<1>1. None \in Values /\ {"message_delta", "message_stop"} \subseteq EventTypes
  BY DEF Values, Given, EventTypes
<1>2. PICK e : e = Ev("message_delta", n, v)
  OBVIOUS
<1>3. PICK z : z = Ev("message_stop", n, None)
  OBVIOUS
<1>4. PICK b : b = Events!ClientReads(c, e)
  OBVIOUS
<1>5. e \in Emitted /\ e.type = "message_delta" /\ e.v = v
      /\ z \in Emitted /\ z.type = "message_stop"
  BY <1>1, <1>2, <1>3, EvTyped DEF Heard
<1>6. b \in ClientStates /\ d = Events!ClientReads(b, z) /\ d \in ClientStates
  BY <1>2, <1>3, <1>4, <1>5, ReadsTyped DEF Heard
<1>7. b = [c EXCEPT !.ok = @ /\ c.begun /\ c.open = None,
                    !.said = Append(@, <<"message_delta", e.v>>)]
  BY <1>4, <1>5 DEF Events!ClientReads
<1>8. /\ b.ok = (c.ok /\ c.begun /\ c.open = None) /\ b.open = c.open /\ b.ended = c.ended
      /\ b.said = Append(c.said, <<"message_delta", e.v>>)
  BY <1>7 DEF Heard, ClientStates
<1>9. d = [b EXCEPT !.ok = @ /\ b.open = None /\ ~b.ended, !.ended = TRUE]
  BY <1>5, <1>6 DEF Events!ClientReads
<1>10. d.ok = (b.ok /\ b.open = None /\ ~b.ended) /\ d.ended = TRUE /\ d.said = b.said
  BY <1>6, <1>9 DEF ClientStates
<1>11. b.ok = TRUE /\ b.open = None /\ b.ended = FALSE
  BY <1>8 DEF Heard
<1>12. b.said = Append(said, <<"message_delta", v>>)
  BY <1>5, <1>8 DEF Heard
<1> QED BY <1>6, <1>10, <1>11, <1>12

-----------------------------------------------------------------------------
\* A client that has read all s has emitted is where s says; b, x and y are the
\* flags of s
Told(s, c0, said, b, x, y) ==
    /\ s \in FilterStates /\ c0 \in ClientStates
    /\ s.started = b /\ s.text_open = x /\ s.tool_open = y
    /\ Heard(Events!ReadAll(c0, s.ev), s.index, said, b, x, y)

\* What one more event does
Sent(s, e, c0, t, v) ==
    /\ e \in FilterStates /\ e.started = s.started /\ e.text_open = s.text_open
    /\ e.tool_open = s.tool_open /\ e.index = s.index
    /\ Events!ReadAll(c0, e.ev) =
          Events!ClientReads(Events!ReadAll(c0, s.ev), Ev(t, s.index, v))

LEMMA EmitSends ==
    ASSUME NEW s \in FilterStates, NEW c0 \in ClientStates, NEW t \in EventTypes, NEW v \in Values
    PROVE  Sent(s, Events!Emit(s, t, v), c0, t, v)
<1>1. /\ s.ev \in Seq(Emitted) /\ s.index \in Nat /\ s.started \in BOOLEAN
      /\ s.text_open \in BOOLEAN /\ s.tool_open \in BOOLEAN
  BY DEF FilterStates
<1>2. PICK x : x = Ev(t, s.index, v)
  OBVIOUS
<1>3. x \in Emitted
  BY <1>1, <1>2, EvTyped
<1>4. Append(s.ev, x) \in Seq(Emitted)
  BY <1>1, <1>3, AppendProperties
<1>5. PICK es : es = Append(s.ev, x)
  OBVIOUS
<1>6. Events!Emit(s, t, v) = [s EXCEPT !.ev = es]
  BY <1>2, <1>5 DEF Events!Emit, Events!Event, Ev
<1>7. Events!ReadAll(c0, es) = Events!ClientReads(Events!ReadAll(c0, s.ev), x)
  BY <1>1, <1>3, <1>5, ReadsStepwise DEF ReadsOn
<1>8. PICK e : e = Events!Emit(s, t, v)
  OBVIOUS
<1>9. e = [s EXCEPT !.ev = es] /\ es \in Seq(Emitted)
  BY <1>4, <1>5, <1>6, <1>8
<1>10. e \in FilterStates /\ e.ev = es
  BY <1>9 DEF FilterStates
<1>11. e.started = s.started /\ e.text_open = s.text_open /\ e.tool_open = s.tool_open
       /\ e.index = s.index
  BY <1>9 DEF FilterStates
<1> QED BY <1>2, <1>7, <1>8, <1>10, <1>11 DEF Sent

\* How the helpers set the flags
Set(q, b, x, y, n, ev) ==
    /\ q \in FilterStates /\ q.started = b /\ q.text_open = x /\ q.tool_open = y
    /\ q.index = n /\ q.ev = ev
LEMMA FlagsSet ==
    ASSUME NEW e \in FilterStates
    PROVE  /\ Set([e EXCEPT !.started = TRUE], TRUE, e.text_open, e.tool_open, e.index, e.ev)
           /\ Set([e EXCEPT !.text_open = TRUE], e.started, TRUE, e.tool_open, e.index, e.ev)
           /\ Set([e EXCEPT !.tool_open = TRUE], e.started, e.text_open, TRUE, e.index, e.ev)
           /\ Set([e EXCEPT !.index = @ + 1, !.text_open = FALSE],
                  e.started, FALSE, e.tool_open, e.index + 1, e.ev)
           /\ Set([e EXCEPT !.index = @ + 1, !.tool_open = FALSE],
                  e.started, e.text_open, FALSE, e.index + 1, e.ev)
<1>1. /\ e.started \in BOOLEAN /\ e.text_open \in BOOLEAN /\ e.tool_open \in BOOLEAN
      /\ e.index \in Nat /\ e.ev \in Seq(Emitted) /\ e.index + 1 \in Nat
  BY DEF FilterStates
<1>2. e = [started |-> e.started, text_open |-> e.text_open, tool_open |-> e.tool_open,
           index |-> e.index, ev |-> e.ev]
  BY DEF FilterStates
<1>3. Set([e EXCEPT !.started = TRUE], TRUE, e.text_open, e.tool_open, e.index, e.ev)
  BY <1>1, <1>2 DEF FilterStates, Set
<1>4. Set([e EXCEPT !.text_open = TRUE], e.started, TRUE, e.tool_open, e.index, e.ev)
  BY <1>1, <1>2 DEF FilterStates, Set
<1>5. Set([e EXCEPT !.tool_open = TRUE], e.started, e.text_open, TRUE, e.index, e.ev)
  BY <1>1, <1>2 DEF FilterStates, Set
<1>6. Set([e EXCEPT !.index = @ + 1, !.text_open = FALSE],
          e.started, FALSE, e.tool_open, e.index + 1, e.ev)
  BY <1>1, <1>2 DEF FilterStates, Set
<1>7. Set([e EXCEPT !.index = @ + 1, !.tool_open = FALSE],
          e.started, e.text_open, FALSE, e.index + 1, e.ev)
  BY <1>1, <1>2 DEF FilterStates, Set
<1> QED BY <1>3, <1>4, <1>5, <1>6, <1>7

LEMMA StartTold ==
    ASSUME NEW s, NEW c0, NEW said, Told(s, c0, said, FALSE, FALSE, FALSE)
    PROVE  Told(Events!EmitMessageStart(s), c0, said, TRUE, FALSE, FALSE)
<1>1. PICK e : e = Events!Emit(s, "message_start", None)
  OBVIOUS
<1>2. None \in Values /\ "message_start" \in EventTypes
  BY DEF Values, Given, EventTypes
<1>3. Sent(s, e, c0, "message_start", None)
  BY <1>1, <1>2, EmitSends DEF Told
<1>4. PICK q : q = Events!EmitMessageStart(s)
  OBVIOUS
<1>5. Set(q, TRUE, e.text_open, e.tool_open, e.index, e.ev)
  BY <1>1, <1>3, <1>4, FlagsSet DEF Sent, Events!EmitMessageStart
<1>6. Heard(Events!ReadAll(c0, e.ev), s.index, said, TRUE, FALSE, FALSE)
  BY <1>3, StartHeard DEF Told, Sent
<1> QED BY <1>3, <1>4, <1>5, <1>6 DEF Told, Sent, Set

\* A block begins
LEMMA OpenTold ==
    ASSUME NEW s, NEW c0, NEW said, Told(s, c0, said, TRUE, FALSE, FALSE),
           NEW t \in {"text_start", "tool_start"}, NEW v \in Given, NEW q,
           q = IF t = "text_start"
               THEN [Events!Emit(s, t, v) EXCEPT !.text_open = TRUE]
               ELSE [Events!Emit(s, t, v) EXCEPT !.tool_open = TRUE]
    PROVE  Told(q, c0, IF t = "tool_start" THEN Append(said, <<"call", v>>) ELSE said,
                TRUE, t = "text_start", t = "tool_start")
<1>1. PICK e : e = Events!Emit(s, t, v)
  OBVIOUS
<1>2. v \in Values /\ t \in EventTypes
  BY DEF Values, EventTypes
<1>3. Sent(s, e, c0, t, v)
  BY <1>1, <1>2, EmitSends DEF Told
<1>4. e.started = TRUE /\ e.text_open = FALSE /\ e.tool_open = FALSE /\ e.index = s.index
      /\ e \in FilterStates
  BY <1>3 DEF Sent, Told
<1>5. Set(q, TRUE, t = "text_start", t = "tool_start", s.index, e.ev)
  <2>1. CASE t = "text_start"
    BY <1>1, <1>4, <2>1, FlagsSet
  <2>2. CASE t = "tool_start"
    BY <1>1, <1>4, <2>2, FlagsSet
  <2> QED BY <2>1, <2>2
<1>6. PICK more : more = IF t = "tool_start" THEN Append(said, <<"call", v>>) ELSE said
  OBVIOUS
<1>7. Heard(Events!ReadAll(c0, e.ev), s.index, more, TRUE, t = "text_start", t = "tool_start")
  <2>1. PICK c, n : c = Events!ReadAll(c0, s.ev) /\ n = s.index
    OBVIOUS
  <2>2. Heard(c, n, said, TRUE, FALSE, FALSE)
    BY <2>1 DEF Told
  <2>3. Heard(Events!ClientReads(c, Ev(t, n, v)), n, more, TRUE, t = "text_start", t = "tool_start")
    BY <1>6, <2>2, OpenHeard
  <2> QED BY <1>3, <2>1, <2>3 DEF Sent
<1>8. Told(q, c0, more, TRUE, t = "text_start", t = "tool_start")
  BY <1>5, <1>7 DEF Told, Set
<1> QED BY <1>6, <1>8

\* A delta in the open block
LEMMA DeltaTold ==
    ASSUME NEW s, NEW c0, NEW said, NEW t \in {"text_delta", "json_delta"}, NEW v \in Given,
           Told(s, c0, said, TRUE, t = "text_delta", t = "json_delta")
    PROVE  Told(Events!Emit(s, t, v), c0, Append(said, <<t, v>>), TRUE, t = "text_delta",
                t = "json_delta")
<1>1. PICK e : e = Events!Emit(s, t, v)
  OBVIOUS
<1>2. v \in Values /\ t \in EventTypes
  BY DEF Values, EventTypes
<1>3. Sent(s, e, c0, t, v)
  BY <1>1, <1>2, EmitSends DEF Told
<1>4. Heard(Events!ReadAll(c0, e.ev), s.index, Append(said, <<t, v>>), TRUE,
            t = "text_delta", t = "json_delta")
  <2>1. PICK c, n : c = Events!ReadAll(c0, s.ev) /\ n = s.index
    OBVIOUS
  <2>2. Heard(c, n, said, TRUE, t = "text_delta", t = "json_delta")
    BY <2>1 DEF Told
  <2>3. Heard(Events!ClientReads(c, Ev(t, n, v)), n, Append(said, <<t, v>>), TRUE,
              t = "text_delta", t = "json_delta")
    BY <2>2, DeltaHeard
  <2> QED BY <1>3, <2>1, <2>3 DEF Sent
<1> QED BY <1>1, <1>3, <1>4 DEF Told, Sent

\* The open block is stopped
LEMMA StopTold ==
    ASSUME None \notin {"text_start", "tool_start"}, NEW s, NEW c0, NEW said,
           NEW x \in BOOLEAN, NEW y \in BOOLEAN, x \/ y,
           Told(s, c0, said, TRUE, x, y), NEW q,
           q = IF x THEN [Events!Emit(s, "stop", None) EXCEPT !.index = @ + 1, !.text_open = FALSE]
                    ELSE [Events!Emit(s, "stop", None) EXCEPT !.index = @ + 1, !.tool_open = FALSE]
    PROVE  Told(q, c0, said, TRUE, FALSE, FALSE)
<1>1. PICK e : e = Events!Emit(s, "stop", None)
  OBVIOUS
<1>2. None \in Values /\ "stop" \in EventTypes
  BY DEF Values, Given, EventTypes
<1>3. Sent(s, e, c0, "stop", None)
  BY <1>1, <1>2, EmitSends DEF Told
<1>4. e.started = TRUE /\ e.text_open = x /\ e.tool_open = y /\ e.index = s.index
      /\ e \in FilterStates /\ ~(x /\ y)
  BY <1>3 DEF Sent, Told, Heard
<1>5. Set(q, TRUE, FALSE, FALSE, s.index + 1, e.ev)
  <2>1. CASE x
    <3>1. q = [e EXCEPT !.index = @ + 1, !.text_open = FALSE] /\ y = FALSE
      BY <1>1, <1>4, <2>1
    <3> QED BY <1>4, <3>1, FlagsSet, ZenonT(60)
  <2>2. CASE ~x
    <3>1. q = [e EXCEPT !.index = @ + 1, !.tool_open = FALSE] /\ x = FALSE
      BY <1>1, <2>2
    <3> QED BY <1>4, <3>1, FlagsSet, ZenonT(60)
  <2> QED BY <2>1, <2>2
<1>6. Heard(Events!ReadAll(c0, e.ev), s.index + 1, said, TRUE, FALSE, FALSE)
  BY <1>3, StopHeard DEF Told, Sent
<1> QED BY <1>5, <1>6 DEF Told, Set

-----------------------------------------------------------------------------
\* What fragments, chunks and a whole backend say
LEMMA FlattenIsEvents == ASSUME NEW ss PROVE Events!FlattenSeq(ss) = FlattenSeq(ss)
BY DEF Events!FlattenSeq, FlattenSeq

LEMMA OneSaid ==
    ASSUME NEW t \in Tags, NEW v \in Given PROVE Events!One(t, v) \in Seq(Sayings)
<1>1. <<t, v>> \in Sayings
  BY DEF Sayings, Values
<1>2. PICK x : x = <<t, v>>
  OBVIOUS
<1>3. <<x>> \in Seq(Sayings)
  BY <1>1, <1>2
<1> QED BY <1>2, <1>3 DEF Events!One

LEMMA FragmentSaid ==
    ASSUME NEW f \in ToolFragments PROVE Events!FragmentSays(f) \in Seq(Sayings)
<1>1. f.id \in Given /\ f.args \in Given
  BY DEF ToolFragments
<1>2. Events!One("call", f.id) \in Seq(Sayings) /\ Events!One("json_delta", f.args) \in Seq(Sayings)
  BY <1>1, OneSaid DEF Tags
<1> QED BY <1>2, ConcatProperties DEF Events!FragmentSays

LEMMA ToolsSayGrows ==
    ASSUME NEW fs \in Seq(ToolFragments)
    PROVE  /\ Events!ToolsSay(fs) \in Seq(Sayings) /\ Events!ToolsSay(<<>>) = <<>>
           /\ \A f \in ToolFragments :
                 Events!ToolsSay(Append(fs, f)) = Events!ToolsSay(fs) \o Events!FragmentSays(f)
<1> DEFINE one == [f \in ToolFragments |-> Events!FragmentSays(f)]
<1>1. one \in [ToolFragments -> Seq(Sayings)]
  BY FragmentSaid
<1>2. ASSUME NEW s \in Seq(ToolFragments) PROVE Events!ToolsSay(s) = FlatMap(one, s)
  <2>1. \A k \in DOMAIN s : one[s[k]] = Events!FragmentSays(s[k])
    OBVIOUS
  <2> HIDE DEF one
  <2> QED BY <2>1, FlattenIsEvents DEF Events!ToolsSay, FlatMap
<1>3. \A f \in ToolFragments : one[f] = Events!FragmentSays(f)
  OBVIOUS
<1> HIDE DEF one
<1>4. Grows(one, fs, ToolFragments, Sayings)
  BY <1>1, FlatMapGrows
<1>5. <<>> \in Seq(ToolFragments)
      /\ \A f \in ToolFragments : Append(fs, f) \in Seq(ToolFragments)
  BY AppendProperties
<1> QED BY <1>2, <1>3, <1>4, <1>5 DEF Grows

LEMMA ChunkFields ==
    ASSUME ChunksTyped, NEW c \in Chunks
    PROVE  /\ c.text \in Given /\ c.finish \in Given /\ c.usage \in Given
           /\ c.tools = Absent \/ c.tools \in Seq(ToolFragments)
<1>1. c \in [text : Given, tools : {c.tools}, finish : Given, usage : Given]
  BY DEF ChunksTyped
<1> QED BY <1>1 DEF ChunksTyped

LEMMA ChunkSaid ==
    ASSUME ChunksTyped, NEW c \in Chunks PROVE Events!ChunkSays(c) \in Seq(Sayings)
<1>1. Events!One("text_delta", c.text) \in Seq(Sayings)
  BY ChunkFields, OneSaid DEF Tags
<1>2. c.tools # Absent => Events!ToolsSay(c.tools) \in Seq(Sayings)
  BY ChunkFields, ToolsSayGrows
<1>3. <<>> \in Seq(Sayings)
  OBVIOUS
<1> QED BY <1>1, <1>2, <1>3, ConcatProperties DEF Events!ChunkSays

LEMMA BackendSaysGrows ==
    ASSUME ChunksTyped, NEW cs \in Seq(Chunks)
    PROVE  /\ Events!BackendSays(cs) \in Seq(Sayings) /\ Events!BackendSays(<<>>) = <<>>
           /\ \A c \in Chunks :
                 Events!BackendSays(Append(cs, c)) = Events!BackendSays(cs) \o Events!ChunkSays(c)
<1> DEFINE one == [c \in Chunks |-> Events!ChunkSays(c)]
<1>1. one \in [Chunks -> Seq(Sayings)]
  BY ChunkSaid
<1>2. ASSUME NEW s \in Seq(Chunks) PROVE Events!BackendSays(s) = FlatMap(one, s)
  <2>1. \A k \in DOMAIN s : one[s[k]] = Events!ChunkSays(s[k])
    OBVIOUS
  <2> HIDE DEF one
  <2> QED BY <2>1, FlattenIsEvents DEF Events!BackendSays, FlatMap
<1>3. \A c \in Chunks : one[c] = Events!ChunkSays(c)
  OBVIOUS
<1> HIDE DEF one
<1>4. Grows(one, cs, Chunks, Sayings)
  BY <1>1, FlatMapGrows
<1>5. <<>> \in Seq(Chunks) /\ \A c \in Chunks : Append(cs, c) \in Seq(Chunks)
  BY AppendProperties
<1> QED BY <1>2, <1>3, <1>4, <1>5 DEF Grows

-----------------------------------------------------------------------------
\* The helpers of transform_delta
LEMMA TextTold ==
    ASSUME NEW s, NEW c0, NEW said, NEW x \in BOOLEAN, NEW v \in Given, v # None,
           Told(s, c0, said, TRUE, x, FALSE)
    PROVE  Told(Events!EmitTextDelta(s, v), c0, said \o Events!One("text_delta", v),
                TRUE, TRUE, FALSE)
<1>1. PICK o : o = IF s.text_open THEN s
                   ELSE [Events!Emit(s, "text_start", None) EXCEPT !.text_open = TRUE]
  OBVIOUS
<1>2. s.text_open = x
  BY DEF Told
<1>3. Told(o, c0, said, TRUE, TRUE, FALSE)
  <2>1. CASE x
    BY <1>1, <1>2, <2>1
  <2>2. CASE ~x
    <3>1. Told(s, c0, said, TRUE, FALSE, FALSE)
      BY <2>2
    <3>2. o = [Events!Emit(s, "text_start", None) EXCEPT !.text_open = TRUE]
      BY <1>1, <1>2, <2>2
    <3>3. PICK t : t = "text_start"
      OBVIOUS
    <3>4. None \in Given /\ t \in {"text_start", "tool_start"}
      BY <3>3 DEF Given
    <3>5. Told(o, c0, IF t = "tool_start" THEN Append(said, <<"call", None>>) ELSE said,
               TRUE, t = "text_start", t = "tool_start")
      BY <3>1, <3>2, <3>3, <3>4, OpenTold
    <3> QED BY <3>3, <3>5
  <2> QED BY <2>1, <2>2
<1>4. PICK t : t = "text_delta"
  OBVIOUS
<1>5. Told(Events!Emit(o, t, v), c0, Append(said, <<t, v>>), TRUE,
           t = "text_delta", t = "json_delta")
  BY <1>3, <1>4, DeltaTold
<1>6. said \o Events!One("text_delta", v) = Append(said, <<t, v>>)
  <2>1. said \in Seq(Sayings) /\ <<t, v>> \in Sayings
    BY <1>4 DEF Told, Heard, Sayings, Values, Tags
  <2> QED BY <1>4, <2>1, AppendIsConcat DEF Events!One
<1>7. Events!EmitTextDelta(s, v) = Events!Emit(o, t, v)
  BY <1>1, <1>4 DEF Events!EmitTextDelta
<1> QED BY <1>4, <1>5, <1>6, <1>7

LEMMA TextStopped ==
    ASSUME None \notin {"text_start", "tool_start"}, NEW s, NEW c0, NEW said,
           NEW x \in BOOLEAN, NEW y \in BOOLEAN, Told(s, c0, said, TRUE, x, y)
    PROVE  Told(Events!CloseTextIfOpen(s), c0, said, TRUE, FALSE, y)
<1>1. s.text_open = x /\ ~(x /\ y)
  BY DEF Told, Heard
<1>2. CASE x
  <2>1. x \/ y
    BY <1>2
  <2>2. Events!CloseTextIfOpen(s) =
           IF x THEN [Events!Emit(s, "stop", None) EXCEPT !.index = @ + 1, !.text_open = FALSE]
                ELSE [Events!Emit(s, "stop", None) EXCEPT !.index = @ + 1, !.tool_open = FALSE]
    BY <1>1, <1>2 DEF Events!CloseTextIfOpen
  <2>3. Told(Events!CloseTextIfOpen(s), c0, said, TRUE, FALSE, FALSE)
    BY <2>1, <2>2, StopTold
  <2>4. y = FALSE
    BY <1>1, <1>2
  <2> QED BY <2>3, <2>4
<1>3. CASE ~x
  <2>1. x = FALSE
    BY <1>3
  <2> QED BY <1>1, <2>1 DEF Events!CloseTextIfOpen
<1> QED BY <1>2, <1>3

LEMMA ToolStopped ==
    ASSUME None \notin {"text_start", "tool_start"}, NEW s, NEW c0, NEW said,
           NEW y \in BOOLEAN, Told(s, c0, said, TRUE, FALSE, y)
    PROVE  Told(Events!CloseToolIfOpen(s), c0, said, TRUE, FALSE, FALSE)
<1>1. s.tool_open = y
  BY DEF Told
<1>2. CASE y
  <2>1. PICK x \in BOOLEAN : x = FALSE
    OBVIOUS
  <2>2. Told(s, c0, said, TRUE, x, y) /\ (x \/ y)
    BY <1>2, <2>1
  <2>3. Events!CloseToolIfOpen(s) =
           IF x THEN [Events!Emit(s, "stop", None) EXCEPT !.index = @ + 1, !.text_open = FALSE]
                ELSE [Events!Emit(s, "stop", None) EXCEPT !.index = @ + 1, !.tool_open = FALSE]
    BY <1>1, <1>2, <2>1 DEF Events!CloseToolIfOpen
  <2> QED BY <2>2, <2>3, StopTold
<1>3. CASE ~y
  <2>1. y = FALSE
    BY <1>3
  <2> QED BY <1>1, <2>1 DEF Events!CloseToolIfOpen
<1> QED BY <1>2, <1>3

\* A fragment of a call: after it a tool block is open
LEMMA FragmentTold ==
    ASSUME None \notin {"text_start", "tool_start"}, NEW s, NEW c0, NEW said,
           NEW y \in BOOLEAN, Told(s, c0, said, TRUE, FALSE, y),
           NEW f \in ToolFragments, f.id = None => y
    PROVE  Told(Events!TransformToolDelta(s, f), c0, said \o Events!FragmentSays(f),
                TRUE, FALSE, TRUE)
<1>1. f.id \in Given /\ f.args \in Given /\ said \in Seq(Sayings)
  BY DEF ToolFragments, Told, Heard
<1>2. PICK mid : mid = said \o Events!One("call", f.id)
  OBVIOUS
<1>3. PICK m : m = IF f.id = None THEN s
                   ELSE Events!EmitToolBlockStart(Events!CloseToolIfOpen(s), f.id)
  OBVIOUS
<1>4. Told(m, c0, mid, TRUE, FALSE, TRUE)
  <2>1. CASE f.id = None
    <3>1. mid = said
      BY <1>1, <1>2, <2>1, ConcatEmptySeq DEF Events!One
    <3>2. y = TRUE
      BY <2>1
    <3> QED BY <1>3, <2>1, <3>1, <3>2
  <2>2. CASE f.id # None
    <3>1. PICK z : z = Events!CloseToolIfOpen(s)
      OBVIOUS
    <3>2. Told(z, c0, said, TRUE, FALSE, FALSE)
      BY <3>1, ToolStopped
    <3>3. PICK t : t = "tool_start"
      OBVIOUS
    <3>4. m = [Events!Emit(z, t, f.id) EXCEPT !.tool_open = TRUE]
      BY <1>3, <2>2, <3>1, <3>3 DEF Events!EmitToolBlockStart
    <3>5. Told(m, c0, IF t = "tool_start" THEN Append(said, <<"call", f.id>>) ELSE said,
               TRUE, t = "text_start", t = "tool_start")
      BY <1>1, <3>2, <3>3, <3>4, OpenTold
    <3>6. mid = Append(said, <<"call", f.id>>)
      <4>1. <<"call", f.id>> \in Sayings
        BY <1>1 DEF Sayings, Values, Tags
      <4> QED BY <1>1, <1>2, <2>2, <4>1, AppendIsConcat DEF Events!One
    <3> QED BY <3>3, <3>5, <3>6
  <2> QED BY <2>1, <2>2
<1>5. mid \in Seq(Sayings)
  BY <1>4 DEF Told, Heard
<1>6. PICK end : end = mid \o Events!One("json_delta", f.args)
  OBVIOUS
<1>7. Told(Events!EmitToolArgumentsDelta(m, f.args), c0, end, TRUE, FALSE, TRUE)
  <2>1. CASE f.args = None
    <3>1. end = mid
      BY <1>5, <1>6, <2>1, ConcatEmptySeq DEF Events!One
    <3> QED BY <1>4, <2>1, <3>1 DEF Events!EmitToolArgumentsDelta
  <2>2. CASE f.args # None
    <3>1. PICK t : t = "json_delta"
      OBVIOUS
    <3>2. Told(Events!Emit(m, t, f.args), c0, Append(mid, <<t, f.args>>), TRUE,
               t = "text_delta", t = "json_delta")
      BY <1>1, <1>4, <3>1, DeltaTold
    <3>3. end = Append(mid, <<t, f.args>>)
      <4>1. <<t, f.args>> \in Sayings
        BY <1>1, <3>1 DEF Sayings, Values, Tags
      <4> QED BY <1>5, <1>6, <2>2, <3>1, <4>1, AppendIsConcat DEF Events!One
    <3>4. Events!EmitToolArgumentsDelta(m, f.args) = Events!Emit(m, t, f.args)
      BY <2>2, <3>1 DEF Events!EmitToolArgumentsDelta
    <3> QED BY <3>1, <3>2, <3>3, <3>4
  <2> QED BY <2>1, <2>2
<1>8. end = said \o Events!FragmentSays(f)
  <2>1. Events!One("call", f.id) \in Seq(Sayings)
        /\ Events!One("json_delta", f.args) \in Seq(Sayings)
    BY <1>1, OneSaid DEF Tags
  <2> QED BY <1>1, <1>2, <1>6, <2>1, ConcatAssociative DEF Events!FragmentSays
<1>9. Events!TransformToolDelta(s, f) = Events!EmitToolArgumentsDelta(m, f.args)
  BY <1>3 DEF Events!TransformToolDelta
<1> QED BY <1>7, <1>8, <1>9

LEMMA FreshTyped == Events!Fresh \in ClientStates
BY DEF Events!Fresh, ClientStates

LEMMA EmitTyped ==
    ASSUME NEW s \in FilterStates, NEW t \in EventTypes, NEW v \in Values
    PROVE  Events!Emit(s, t, v) \in FilterStates
BY FreshTyped, EmitSends DEF Sent

LEMMA FragmentTyped ==
    ASSUME NEW s \in FilterStates, NEW f \in ToolFragments
    PROVE  Events!TransformToolDelta(s, f) \in FilterStates
<1>1. f.id \in Values /\ f.args \in Values /\ None \in Values
  BY DEF ToolFragments, Values, Given
<1>2. "stop" \in EventTypes /\ "tool_start" \in EventTypes /\ "json_delta" \in EventTypes
  BY DEF EventTypes
<1>3. ASSUME NEW q \in FilterStates
      PROVE  [q EXCEPT !.index = @ + 1, !.tool_open = FALSE] \in FilterStates
             /\ [q EXCEPT !.tool_open = TRUE] \in FilterStates
  BY FlagsSet DEF Set
<1>4. Events!CloseToolIfOpen(s) \in FilterStates
  BY <1>1, <1>2, <1>3, EmitTyped DEF Events!CloseToolIfOpen
<1>5. Events!EmitToolBlockStart(Events!CloseToolIfOpen(s), f.id) \in FilterStates
  BY <1>1, <1>2, <1>3, <1>4, EmitTyped DEF Events!EmitToolBlockStart
<1>6. PICK m \in FilterStates :
         m = IF f.id = None THEN s ELSE Events!EmitToolBlockStart(Events!CloseToolIfOpen(s), f.id)
  BY <1>5
<1>7. Events!EmitToolArgumentsDelta(m, f.args) \in FilterStates
  BY <1>1, <1>2, EmitTyped DEF Events!EmitToolArgumentsDelta
<1> QED BY <1>6, <1>7 DEF Events!TransformToolDelta

ToolLoop == [sf \in FilterStates \X ToolFragments |-> Events!TransformToolDelta(sf[1], sf[2])]
LEMMA ToolDeltasFold ==
    ASSUME NEW s \in FilterStates, NEW fs \in Seq(ToolFragments)
    PROVE  /\ ToolLoop \in LoopBodies(FilterStates, ToolFragments)
           /\ Events!TransformToolDeltas(s, fs) = FoldOf(FilterStates, s, fs, ToolLoop)
<1> DEFINE Takes(h) == h = [k \in 0..Len(fs) |->
                               IF k = 0 THEN s ELSE Events!TransformToolDelta(h[k - 1], fs[k])]
<1>1. ToolLoop \in LoopBodies(FilterStates, ToolFragments)
  BY FragmentTyped DEF ToolLoop, LoopBodies
<1>2. PICK g \in [0..Len(fs) -> FilterStates] : Accumulates(g, s, fs, ToolLoop)
  BY <1>1, FoldDefined
<1>3. \A k \in 0..Len(fs) : k = 0 \/ (k \in 1..Len(fs) /\ k # 0 /\ k - 1 \in 0..Len(fs))
  OBVIOUS
<1>4. \A k \in 1..Len(fs) : fs[k] \in ToolFragments
  OBVIOUS
<1>5. \A q \in FilterStates : \A k \in 1..Len(fs) :
         ToolLoop[<<q, fs[k]>>] = Events!TransformToolDelta(q, fs[k])
  BY <1>4 DEF ToolLoop
<1>6. Takes(g)
  <2>1. \A k \in 0..Len(fs) :
           g[k] = IF k = 0 THEN s ELSE Events!TransformToolDelta(g[k - 1], fs[k])
    BY <1>2, <1>3, <1>5 DEF Accumulates
  <2> QED BY <2>1
<1> DEFINE h == CHOOSE fl : Takes(fl)
<1>7. Takes(h)
  BY <1>6
<1>8. Events!TransformToolDeltas(s, fs) = h[Len(fs)]
  BY Zenon DEF Events!TransformToolDeltas
<1> HIDE DEF h
<1>9. h[0] = s /\ \A k \in 1..Len(fs) : h[k] = Events!TransformToolDelta(h[k - 1], fs[k])
  <2>1. \A k \in 0..Len(fs) :
           h[k] = IF k = 0 THEN s ELSE Events!TransformToolDelta(h[k - 1], fs[k])
    BY <1>7
  <2> QED BY <1>3, <2>1
<1>10. \A k \in 1..Len(fs) : h[k - 1] \in FilterStates => h[k] = ToolLoop[<<h[k - 1], fs[k]>>]
  BY <1>5, <1>9
<1>11. h[Len(fs)] = FoldOf(FilterStates, s, fs, ToolLoop)
  BY <1>1, <1>9, <1>10, FoldUnique, ZenonT(60)
<1> QED BY <1>1, <1>8, <1>11

\* All fragments of a chunk
Continues(fs, y) == fs # <<>> /\ fs[1].id = None => y
ToolsTold(q, c0, said, y, fs) ==
    Told(q, c0, said \o Events!ToolsSay(fs), TRUE, FALSE, y \/ fs # <<>>)
LEMMA FragmentsTold ==
    ASSUME None \notin {"text_start", "tool_start"}, NEW s, NEW c0, NEW said,
           NEW y \in BOOLEAN, Told(s, c0, said, TRUE, FALSE, y),
           NEW fs \in Seq(ToolFragments), Continues(fs, y)
    PROVE  ToolsTold(Events!TransformToolDeltas(s, fs), c0, said, y, fs)
<1> DEFINE after(gs) == FoldOf(FilterStates, s, gs, ToolLoop)
           P == {gs \in Seq(ToolFragments) : Continues(gs, y) => ToolsTold(after(gs), c0, said, y, gs)}
<1>1. s \in FilterStates /\ said \in Seq(Sayings)
  BY DEF Told, Heard
<1>2. ToolLoop \in LoopBodies(FilterStates, ToolFragments)
  BY <1>1, ToolDeltasFold
<1>3. <<>> \in P
  <2>1. <<>> \in Seq(ToolFragments)
    OBVIOUS
  <2>2. after(<<>>) = s
    BY <1>1, <1>2, <2>1, FoldAppend
  <2>3. said \o Events!ToolsSay(<<>>) = said
    BY <1>1, <2>1, ToolsSayGrows, ConcatEmptySeq
  <2>4. (y \/ <<>> # <<>>) = y
    OBVIOUS
  <2>5. ToolsTold(s, c0, said, y, <<>>)
    BY <2>3, <2>4 DEF ToolsTold
  <2> QED BY <2>1, <2>2, <2>5
<1>4. ASSUME NEW gs \in Seq(ToolFragments), NEW f \in ToolFragments, gs \in P
      PROVE  Append(gs, f) \in P
  <2>1. PICK hs \in Seq(ToolFragments) : hs = Append(gs, f)
    BY AppendProperties
  <2>2. after(hs) = Events!TransformToolDelta(after(gs), f)
    <3>1. after(gs) \in FilterStates /\ after(Append(gs, f)) = ToolLoop[<<after(gs), f>>]
      BY <1>1, <1>2, FoldAppend
    <3> QED BY <2>1, <3>1 DEF ToolLoop
  <2>3. hs # <<>> /\ hs[1] = (IF gs = <<>> THEN f ELSE gs[1])
    BY <2>1
  <2> HIDE DEF after
  <2>4. SUFFICES ASSUME Continues(hs, y) PROVE ToolsTold(after(hs), c0, said, y, hs)
    BY <2>1
  <2>5. PICK w \in BOOLEAN : w = (y \/ gs # <<>>)
    OBVIOUS
  <2>6. Told(after(gs), c0, said \o Events!ToolsSay(gs), TRUE, FALSE, w)
    <3>1. Continues(gs, y)
      BY <2>3, <2>4 DEF Continues
    <3> QED BY <1>4, <2>5, <3>1 DEF ToolsTold
  <2>7. f.id = None => w
    BY <2>3, <2>4, <2>5 DEF Continues
  <2>8. PICK so : so = said \o Events!ToolsSay(gs)
    OBVIOUS
  <2>9. Told(Events!TransformToolDelta(after(gs), f), c0, so \o Events!FragmentSays(f),
             TRUE, FALSE, TRUE)
    BY <2>6, <2>7, <2>8, FragmentTold
  <2>10. so \o Events!FragmentSays(f) = said \o Events!ToolsSay(hs)
    <3>1. Events!ToolsSay(gs) \in Seq(Sayings) /\ Events!FragmentSays(f) \in Seq(Sayings)
          /\ Events!ToolsSay(hs) = Events!ToolsSay(gs) \o Events!FragmentSays(f)
      BY <2>1, ToolsSayGrows, FragmentSaid
    <3> QED BY <1>1, <2>8, <3>1, ConcatAssociative, SMTT(60)
  <2>11. (y \/ hs # <<>>) = TRUE
    BY <2>3
  <2> QED BY <2>2, <2>9, <2>10, <2>11 DEF ToolsTold
<1> HIDE DEF P
<1>5. \A gs \in Seq(ToolFragments) : gs \in P
  BY <1>3, <1>4, ListInduction
<1>6. Events!TransformToolDeltas(s, fs) = after(fs)
  BY <1>1, ToolDeltasFold
<1> QED BY <1>5, <1>6 DEF P

\* A whole chunk: text first, then the fragments, which continue a call or begin one
Calls(c) == c.tools # Absent /\ c.tools # <<>>
LEMMA ChunkTold ==
    ASSUME ChunksTyped, NEW s, NEW c0, NEW said, NEW x \in BOOLEAN, NEW y \in BOOLEAN,
           Told(s, c0, said, TRUE, x, y), NEW c \in Chunks, y => c.text = None,
           Calls(c) /\ c.tools[1].id = None => y
    PROVE  \E w \in BOOLEAN :
              Told(Events!TransformDelta(s, c), c0, said \o Events!ChunkSays(c), TRUE, w,
                   y \/ Calls(c))
<1>1. /\ c.text \in Given /\ (c.tools = Absent \/ c.tools \in Seq(ToolFragments))
      /\ None \notin {"text_start", "tool_start"}
  BY ChunkFields DEF ChunksTyped
<1>2. ~(x /\ y) /\ said \in Seq(Sayings)
  BY DEF Told, Heard
<1>3. PICK t : t = IF c.text = None THEN s ELSE Events!EmitTextDelta(s, c.text)
  OBVIOUS
<1>4. PICK mid : mid = said \o Events!One("text_delta", c.text)
  OBVIOUS
<1>5. PICK w \in BOOLEAN : Told(t, c0, mid, TRUE, w, y)
  <2>1. CASE c.text = None
    <3>1. mid = said
      BY <1>2, <1>4, <2>1, ConcatEmptySeq DEF Events!One
    <3> QED BY <1>3, <2>1, <3>1
  <2>2. CASE c.text # None
    <3>1. y = FALSE
      BY <2>2
    <3>2. Told(Events!EmitTextDelta(s, c.text), c0, mid, TRUE, TRUE, FALSE)
      BY <1>1, <1>4, <2>2, <3>1, TextTold
    <3> QED BY <1>3, <2>2, <3>1, <3>2
  <2> QED BY <2>1, <2>2
<1>6. CASE c.tools = Absent
  <2>1. said \o Events!ChunkSays(c) = mid
    <3>1. Events!One("text_delta", c.text) \in Seq(Sayings)
      BY <1>1, OneSaid DEF Tags
    <3> QED BY <1>4, <1>6, <3>1, ConcatEmptySeq DEF Events!ChunkSays
  <2>2. Events!TransformDelta(s, c) = t
    BY <1>3, <1>6 DEF Events!TransformDelta
  <2>3. (y \/ Calls(c)) = y
    BY <1>6 DEF Calls
  <2> QED BY <1>5, <2>1, <2>2, <2>3
<1>7. CASE c.tools # Absent
  <2>1. PICK fs \in Seq(ToolFragments) : fs = c.tools
    BY <1>1, <1>7
  <2>2. PICK q : q = Events!CloseTextIfOpen(t)
    OBVIOUS
  <2>3. Told(q, c0, mid, TRUE, FALSE, y)
    BY <1>1, <1>5, <2>2, TextStopped
  <2>4. Continues(fs, y)
    BY <1>7, <2>1 DEF Continues, Calls
  <2>5. Told(Events!TransformToolDeltas(q, fs), c0, mid \o Events!ToolsSay(fs), TRUE, FALSE,
             y \/ fs # <<>>)
    BY <1>1, <2>3, <2>4, FragmentsTold DEF ToolsTold
  <2>6. Events!TransformDelta(s, c) = Events!TransformToolDeltas(q, fs)
    BY <1>3, <1>7, <2>1, <2>2 DEF Events!TransformDelta
  <2>7. mid \o Events!ToolsSay(fs) = said \o Events!ChunkSays(c)
    <3>1. Events!One("text_delta", c.text) \in Seq(Sayings)
          /\ Events!ToolsSay(fs) \in Seq(Sayings)
      BY <1>1, OneSaid, ToolsSayGrows DEF Tags
    <3>2. Events!ChunkSays(c) = Events!One("text_delta", c.text) \o Events!ToolsSay(fs)
      BY <1>7, <2>1 DEF Events!ChunkSays
    <3> QED BY <1>2, <1>4, <3>1, <3>2, ConcatAssociative
  <2>8. (y \/ fs # <<>>) = (y \/ Calls(c))
    BY <1>7, <2>1 DEF Calls
  <2> QED BY <2>5, <2>6, <2>7, <2>8
<1> QED BY <1>6, <1>7

-----------------------------------------------------------------------------
\* What is said and how many blocks are open, in whatever order the chunks come
Adds(t, v) ==
    IF t = "tool_start" THEN <<<<"call", v>>>>
    ELSE IF t \in {"text_delta", "json_delta", "message_delta"} THEN <<<<t, v>>>> ELSE <<>>
Opens(t) == IF t \in {"text_start", "tool_start"} THEN 1 ELSE IF t = "stop" THEN 0 - 1 ELSE 0
HasRead(c, t, v, z) ==
    /\ z \in ClientStates /\ z.said = c.said \o Adds(t, v)
    /\ z.blocks - z.stops = c.blocks - c.stops + Opens(t)
    /\ z.ended = (c.ended \/ t = "message_stop")

LEMMA OneMore ==
    ASSUME NEW c \in ClientStates, NEW n \in Nat, NEW t \in EventTypes, NEW v \in Values,
           NEW z, z = Events!ClientReads(c, Ev(t, n, v))
    PROVE  HasRead(c, t, v, z)
<1>1. PICK e : e = Ev(t, n, v)
  OBVIOUS
<1>2. e \in Emitted /\ e.type = t /\ e.index = n /\ e.v = v
  BY <1>1, EvTyped
<1>3. PICK d \in ClientStates : d = Events!ClientReads(c, e)
  BY <1>2, ReadsTyped
<1>4. /\ c.said \in Seq(Sayings) /\ c.blocks \in Nat /\ c.stops \in Nat /\ c.ended \in BOOLEAN
      /\ c.ok \in BOOLEAN
  BY DEF ClientStates
<1>5. /\ d.said = c.said \o Adds(t, v) /\ d.ended = (c.ended \/ t = "message_stop")
      /\ d.blocks - d.stops = c.blocks - c.stops + Opens(t)
  <2>1. \A tag \in Tags : c.said \o <<<<tag, v>>>> = Append(c.said, <<tag, v>>)
    <3>1. \A tag \in Tags : <<tag, v>> \in Sayings
      BY DEF Sayings
    <3> QED BY <1>4, <3>1, AppendIsConcat
  <2>2. c.said \o <<>> = c.said
    BY <1>4, ConcatEmptySeq
  <2>3. CASE t \in {"message_start", "message_stop"}
    <3>1. Adds(t, v) = <<>> /\ Opens(t) = 0
      BY <2>3 DEF Adds, Opens
    <3>2. d = IF t = "message_start" THEN [c EXCEPT !.ok = @ /\ ~c.begun, !.begun = TRUE]
              ELSE [c EXCEPT !.ok = @ /\ c.open = None /\ ~c.ended, !.ended = TRUE]
      BY <1>2, <1>3, <2>3 DEF Events!ClientReads
    <3>3. d.said = c.said /\ d.blocks = c.blocks /\ d.stops = c.stops
          /\ d.ended = (c.ended \/ t = "message_stop")
      BY <1>4, <2>3, <3>2 DEF ClientStates
    <3> QED BY <1>4, <2>2, <3>1, <3>3
  <2>4. CASE t \in {"text_start", "tool_start"}
    <3>1. Adds(t, v) = (IF t = "tool_start" THEN <<<<"call", v>>>> ELSE <<>>) /\ Opens(t) = 1
      BY <2>4 DEF Adds, Opens
    <3>2. d = [c EXCEPT !.ok = @ /\ c.begun /\ ~c.ended /\ c.open = None /\ e.index = c.blocks,
                        !.blocks = @ + 1,
                        !.open = e.type,
                        !.said = IF e.type = "tool_start" THEN Append(@, <<"call", e.v>>) ELSE @]
      BY <1>2, <1>3, <2>4 DEF Events!ClientReads
    <3>3. /\ d.said = IF t = "tool_start" THEN Append(c.said, <<"call", v>>) ELSE c.said
          /\ d.blocks = c.blocks + 1 /\ d.stops = c.stops /\ d.ended = c.ended
      BY <1>2, <3>2 DEF ClientStates
    <3>4. d.said = c.said \o Adds(t, v)
      BY <2>1, <2>2, <3>1, <3>3, Zenon DEF Tags
    <3>5. d.blocks - d.stops = c.blocks - c.stops + 1
      BY <1>4, <3>3
    <3>6. d.ended = (c.ended \/ t = "message_stop")
      BY <1>4, <2>4, <3>3
    <3> QED BY <3>1, <3>4, <3>5, <3>6, Zenon
  <2>5. CASE t \in {"text_delta", "json_delta"}
    <3>1. Adds(t, v) = <<<<t, v>>>> /\ Opens(t) = 0 /\ t \in Tags
      BY <2>5 DEF Adds, Opens, Tags
    <3>2. d = [c EXCEPT !.ok = @ /\ e.index + 1 = c.blocks
                              /\ c.open = (IF e.type = "text_delta"
                                           THEN "text_start" ELSE "tool_start"),
                        !.said = Append(@, <<e.type, e.v>>)]
      BY <1>2, <1>3, <2>5 DEF Events!ClientReads
    <3>3. /\ d.said = Append(c.said, <<t, v>>) /\ d.blocks = c.blocks /\ d.stops = c.stops
          /\ d.ended = c.ended
      BY <1>2, <3>2 DEF ClientStates
    <3>4. d.said = c.said \o Adds(t, v)
      BY <2>1, <3>1, <3>3, Zenon
    <3>5. d.blocks - d.stops = c.blocks - c.stops + 0
      BY <1>4, <3>3
    <3>6. d.ended = (c.ended \/ t = "message_stop")
      BY <1>4, <2>5, <3>3
    <3> QED BY <3>1, <3>4, <3>5, <3>6, Zenon
  <2>6. CASE t = "message_delta"
    <3>1. Adds(t, v) = <<<<t, v>>>> /\ Opens(t) = 0 /\ t \in Tags
      BY <2>6 DEF Adds, Opens, Tags
    <3>2. d = [c EXCEPT !.ok = @ /\ c.begun /\ c.open = None,
                        !.said = Append(@, <<"message_delta", e.v>>)]
      BY <1>2, <1>3, <2>6 DEF Events!ClientReads
    <3>3. /\ d.said = Append(c.said, <<t, v>>) /\ d.blocks = c.blocks /\ d.stops = c.stops
          /\ d.ended = c.ended
      BY <1>2, <2>6, <3>2 DEF ClientStates
    <3>4. d.said = c.said \o Adds(t, v)
      BY <2>1, <3>1, <3>3, Zenon
    <3>5. d.blocks - d.stops = c.blocks - c.stops + 0
      BY <1>4, <3>3
    <3>6. d.ended = (c.ended \/ t = "message_stop")
      BY <1>4, <2>6, <3>3
    <3> QED BY <3>1, <3>4, <3>5, <3>6, Zenon
  <2>7. CASE t = "stop"
    <3>1. Adds(t, v) = <<>> /\ Opens(t) = 0 - 1
      BY <2>7 DEF Adds, Opens
    <3>2. d = [c EXCEPT !.ok = @ /\ c.open # None /\ e.index + 1 = c.blocks,
                        !.stops = @ + 1, !.open = None]
      BY <1>2, <1>3, <2>7 DEF Events!ClientReads
    <3>3. d.said = c.said /\ d.blocks = c.blocks /\ d.stops = c.stops + 1 /\ d.ended = c.ended
      BY <1>4, <3>2 DEF ClientStates
    <3> QED BY <1>4, <2>2, <2>7, <3>1, <3>3
  <2> QED BY <2>3, <2>4, <2>5, <2>6, <2>7 DEF EventTypes
<1> QED BY <1>1, <1>3, <1>5 DEF HasRead

\* A client that has read all s has emitted heard said, and m blocks are open
Spoken(s, c0, said, m) ==
    /\ s \in FilterStates /\ c0 \in ClientStates /\ said \in Seq(Sayings) /\ m \in Int
    /\ LET c == Events!ReadAll(c0, s.ev)
       IN c \in ClientStates /\ c.said = said /\ c.ended = FALSE /\ c.blocks - c.stops = m

LEMMA EmitSpoken ==
    ASSUME NEW s, NEW c0, NEW said, NEW m, Spoken(s, c0, said, m),
           NEW t \in EventTypes \ {"message_stop"}, NEW v \in Values
    PROVE  /\ Spoken(Events!Emit(s, t, v), c0, said \o Adds(t, v), m + Opens(t))
           /\ Events!Emit(s, t, v).text_open = s.text_open
           /\ Events!Emit(s, t, v).tool_open = s.tool_open
<1>1. PICK e : e = Events!Emit(s, t, v)
  OBVIOUS
<1>2. Sent(s, e, c0, t, v)
  BY <1>1, EmitSends DEF Spoken
<1>3. PICK c \in ClientStates : c = Events!ReadAll(c0, s.ev)
  BY DEF Spoken
<1>4. s.index \in Nat
  BY DEF Spoken, FilterStates
<1>5. PICK d : d = Events!ClientReads(c, Ev(t, s.index, v))
  OBVIOUS
<1>6. /\ d \in ClientStates /\ d.said = c.said \o Adds(t, v)
      /\ d.blocks - d.stops = c.blocks - c.stops + Opens(t)
      /\ d.ended = (c.ended \/ t = "message_stop")
  <2>1. HasRead(c, t, v, d)
    BY <1>4, <1>5, OneMore
  <2> QED BY <2>1 DEF HasRead
<1>7. Events!ReadAll(c0, e.ev) = d
  BY <1>2, <1>3, <1>5 DEF Sent
<1>8. d.said = said \o Adds(t, v) /\ d.said \in Seq(Sayings) /\ d.ended = FALSE
      /\ d.blocks - d.stops = m + Opens(t) /\ m + Opens(t) \in Int
  <2>1. c.said = said /\ c.ended = FALSE /\ c.blocks - c.stops = m /\ m \in Int
    BY <1>3 DEF Spoken
  <2>2. d.said \in Seq(Sayings)
    BY <1>6 DEF ClientStates
  <2>3. Opens(t) \in Int /\ t # "message_stop"
    BY DEF Opens
  <2>4. d.ended = FALSE
    BY <1>6, <2>1, <2>3
  <2>5. d.blocks - d.stops = m + Opens(t)
    BY <1>6, <2>1
  <2>6. m + Opens(t) \in Int
    BY <2>1, <2>3
  <2> QED BY <1>6, <2>1, <2>2, <2>4, <2>5, <2>6, Zenon
<1>9. Spoken(e, c0, said \o Adds(t, v), m + Opens(t))
  BY <1>2, <1>6, <1>7, <1>8 DEF Sent, Spoken
<1> QED BY <1>1, <1>2, <1>9 DEF Sent

\* What the flags of s say is open is what is
Num(x) == IF x THEN 1 ELSE 0
Uttered(s, c0, said) == Spoken(s, c0, said, Num(s.text_open) + Num(s.tool_open))

LEMMA FlagUttered ==
    ASSUME NEW e, NEW c0, NEW said, NEW m, Spoken(e, c0, said, m), NEW q,
           NEW b, NEW x, NEW y, NEW n, Set(q, b, x, y, n, e.ev), m = Num(x) + Num(y)
    PROVE  Uttered(q, c0, said)
BY DEF Spoken, Set, Uttered

LEMMA TextUttered ==
    ASSUME NEW s, NEW c0, NEW said, Uttered(s, c0, said), NEW v \in Given, v # None
    PROVE  Uttered(Events!EmitTextDelta(s, v), c0, said \o Events!One("text_delta", v))
<1>1. PICK o : o = IF s.text_open THEN s
                   ELSE [Events!Emit(s, "text_start", None) EXCEPT !.text_open = TRUE]
  OBVIOUS
<1>2. None \in Values /\ v \in Values /\ "text_start" \in EventTypes \ {"message_stop"}
      /\ "text_delta" \in EventTypes \ {"message_stop"} /\ said \in Seq(Sayings)
      /\ s.text_open \in BOOLEAN /\ s.tool_open \in BOOLEAN
  BY DEF Values, Given, EventTypes, Uttered, Spoken, FilterStates
<1>3. Uttered(o, c0, said)
  <2>1. CASE s.text_open
    BY <1>1, <2>1
  <2>2. CASE ~s.text_open
    <3>1. PICK e : e = Events!Emit(s, "text_start", None)
      OBVIOUS
    <3>2. Adds("text_start", None) = <<>> /\ Opens("text_start") = 1
      BY DEF Adds, Opens
    <3>3. PICK m : m = Num(s.text_open) + Num(s.tool_open)
      OBVIOUS
    <3>4. Spoken(e, c0, said \o <<>>, m + 1) /\ e.text_open = s.text_open
          /\ e.tool_open = s.tool_open
      BY <1>2, <3>1, <3>2, <3>3, EmitSpoken DEF Uttered
    <3>5. Spoken(e, c0, said, m + 1)
      BY <1>2, <3>4, ConcatEmptySeq
    <3>6. Set(o, e.started, TRUE, e.tool_open, e.index, e.ev)
      BY <1>1, <2>2, <3>1, <3>5, FlagsSet DEF Spoken
    <3>7. m + 1 = Num(TRUE) + Num(e.tool_open)
      BY <1>2, <2>2, <3>3, <3>4 DEF Num
    <3> QED BY <3>5, <3>6, <3>7, FlagUttered
  <2> QED BY <1>2, <2>1, <2>2
<1>4. PICK m : m = Num(o.text_open) + Num(o.tool_open)
  OBVIOUS
<1>5. PICK e : e = Events!Emit(o, "text_delta", v)
  OBVIOUS
<1>6. Adds("text_delta", v) = Events!One("text_delta", v) /\ Opens("text_delta") = 0
  BY DEF Adds, Opens, Events!One
<1>7. Spoken(e, c0, said \o Events!One("text_delta", v), m + 0) /\ e.text_open = o.text_open
      /\ e.tool_open = o.tool_open
  BY <1>2, <1>3, <1>4, <1>5, <1>6, EmitSpoken DEF Uttered
<1>8. m \in Int /\ m + 0 = m
  BY <1>3, <1>4 DEF Uttered, Spoken
<1>9. Uttered(e, c0, said \o Events!One("text_delta", v))
  BY <1>4, <1>7, <1>8 DEF Uttered
<1>10. Events!EmitTextDelta(s, v) = e
  BY <1>1, <1>5 DEF Events!EmitTextDelta
<1> QED BY <1>9, <1>10

LEMMA StopUttered ==
    ASSUME NEW s, NEW c0, NEW said, Uttered(s, c0, said), NEW q,
           \/ /\ s.text_open
              /\ q = [Events!Emit(s, "stop", None) EXCEPT !.index = @ + 1, !.text_open = FALSE]
           \/ /\ s.tool_open
              /\ q = [Events!Emit(s, "stop", None) EXCEPT !.index = @ + 1, !.tool_open = FALSE]
    PROVE  Uttered(q, c0, said)
<1>1. None \in Values /\ "stop" \in EventTypes \ {"message_stop"} /\ said \in Seq(Sayings)
      /\ s.text_open \in BOOLEAN /\ s.tool_open \in BOOLEAN
  BY DEF Values, Given, EventTypes, Uttered, Spoken, FilterStates
<1>2. PICK e : e = Events!Emit(s, "stop", None)
  OBVIOUS
<1>3. PICK m : m = Num(s.text_open) + Num(s.tool_open)
  OBVIOUS
<1>4. Adds("stop", None) = <<>> /\ Opens("stop") = 0 - 1
  BY DEF Adds, Opens
<1>5. Spoken(e, c0, said \o <<>>, m + (0 - 1)) /\ e.text_open = s.text_open
      /\ e.tool_open = s.tool_open
  <2>1. Spoken(s, c0, said, m)
    BY <1>3 DEF Uttered
  <2>2. Spoken(e, c0, said \o Adds("stop", None), m + Opens("stop"))
        /\ e.text_open = s.text_open /\ e.tool_open = s.tool_open
    BY <1>1, <1>2, <2>1, EmitSpoken
  <2> QED BY <1>4, <2>2
<1>6. Spoken(e, c0, said, m - 1)
  <2>1. m \in Int /\ m + (0 - 1) = m - 1
    BY <1>3 DEF Num
  <2>2. said \o <<>> = said
    BY <1>1, ConcatEmptySeq
  <2> QED BY <1>5, <2>1, <2>2
<1>7. CASE s.text_open /\ q = [e EXCEPT !.index = @ + 1, !.text_open = FALSE]
  <2>1. Set(q, e.started, FALSE, e.tool_open, e.index + 1, e.ev)
    BY <1>6, <1>7, FlagsSet DEF Spoken
  <2>2. m - 1 = Num(FALSE) + Num(e.tool_open)
    BY <1>1, <1>3, <1>5, <1>7 DEF Num
  <2> QED BY <1>6, <2>1, <2>2, FlagUttered
<1>8. CASE s.tool_open /\ q = [e EXCEPT !.index = @ + 1, !.tool_open = FALSE]
  <2>1. Set(q, e.started, e.text_open, FALSE, e.index + 1, e.ev)
    BY <1>6, <1>8, FlagsSet DEF Spoken
  <2>2. m - 1 = Num(e.text_open) + Num(FALSE)
    BY <1>1, <1>3, <1>5, <1>8 DEF Num
  <2> QED BY <1>6, <2>1, <2>2, FlagUttered
<1> QED BY <1>2, <1>7, <1>8

LEMMA ClosedUttered ==
    ASSUME NEW s, NEW c0, NEW said, Uttered(s, c0, said)
    PROVE  /\ Uttered(Events!CloseTextIfOpen(s), c0, said)
           /\ Uttered(Events!CloseToolIfOpen(s), c0, said)
<1>1. Uttered(Events!CloseTextIfOpen(s), c0, said)
  BY StopUttered DEF Events!CloseTextIfOpen
<1>2. Uttered(Events!CloseToolIfOpen(s), c0, said)
  BY StopUttered DEF Events!CloseToolIfOpen
<1> QED BY <1>1, <1>2

\* The flag of a block that was closed
LEMMA FlagCleared ==
    ASSUME NEW s \in FilterStates
    PROVE  /\ Events!CloseTextIfOpen(s) \in FilterStates
           /\ Events!CloseTextIfOpen(s).text_open = FALSE
           /\ Events!CloseToolIfOpen(s) \in FilterStates
           /\ Events!CloseToolIfOpen(s).tool_open = FALSE
           /\ Events!CloseToolIfOpen(s).text_open = s.text_open
<1>1. PICK e : e = Events!Emit(s, "stop", None)
  OBVIOUS
<1>2. None \in Values /\ "stop" \in EventTypes /\ s.text_open \in BOOLEAN /\ s.tool_open \in BOOLEAN
  BY DEF Values, Given, EventTypes, FilterStates
<1>3. e \in FilterStates /\ e.text_open = s.text_open
  BY <1>1, <1>2, FreshTyped, EmitSends DEF Sent
<1>4. /\ Set([e EXCEPT !.index = @ + 1, !.text_open = FALSE],
             e.started, FALSE, e.tool_open, e.index + 1, e.ev)
      /\ Set([e EXCEPT !.index = @ + 1, !.tool_open = FALSE],
             e.started, e.text_open, FALSE, e.index + 1, e.ev)
  BY <1>3, FlagsSet
<1>5. Events!CloseTextIfOpen(s) \in FilterStates /\ Events!CloseTextIfOpen(s).text_open = FALSE
  BY <1>1, <1>2, <1>4 DEF Events!CloseTextIfOpen, Set
<1>6. /\ Events!CloseToolIfOpen(s) \in FilterStates /\ Events!CloseToolIfOpen(s).tool_open = FALSE
      /\ Events!CloseToolIfOpen(s).text_open = s.text_open
  BY <1>1, <1>2, <1>3, <1>4 DEF Events!CloseToolIfOpen, Set
<1> QED BY <1>5, <1>6

LEMMA FragmentUttered ==
    ASSUME NEW s, NEW c0, NEW said, Uttered(s, c0, said), NEW f \in ToolFragments
    PROVE  Uttered(Events!TransformToolDelta(s, f), c0, said \o Events!FragmentSays(f))
<1>1. f.id \in Values /\ f.args \in Values /\ said \in Seq(Sayings)
      /\ {"tool_start", "json_delta"} \subseteq EventTypes \ {"message_stop"}
  BY DEF ToolFragments, Values, EventTypes, Uttered, Spoken
<1>2. PICK mid : mid = said \o Events!One("call", f.id)
  OBVIOUS
<1>3. PICK r : r = IF f.id = None THEN s
                   ELSE Events!EmitToolBlockStart(Events!CloseToolIfOpen(s), f.id)
  OBVIOUS
<1>4. Uttered(r, c0, mid)
  <2>1. CASE f.id = None
    BY <1>1, <1>2, <1>3, <2>1, ConcatEmptySeq DEF Events!One
  <2>2. CASE f.id # None
    <3>1. PICK z : z = Events!CloseToolIfOpen(s)
      OBVIOUS
    <3>2. Uttered(z, c0, said) /\ z.tool_open = FALSE /\ z \in FilterStates
      <4>1. s \in FilterStates
        BY DEF Uttered, Spoken
      <4> QED BY <3>1, <4>1, ClosedUttered, FlagCleared
    <3>3. PICK e : e = Events!Emit(z, "tool_start", f.id)
      OBVIOUS
    <3>4. PICK m : m = Num(z.text_open) + Num(z.tool_open)
      OBVIOUS
    <3>5. Adds("tool_start", f.id) = Events!One("call", f.id) /\ Opens("tool_start") = 1
      BY <2>2 DEF Adds, Opens, Events!One
    <3>6. Spoken(e, c0, mid, m + 1) /\ e.text_open = z.text_open
      BY <1>1, <1>2, <3>2, <3>3, <3>4, <3>5, EmitSpoken DEF Uttered
    <3>7. Set(r, e.started, e.text_open, TRUE, e.index, e.ev)
      BY <1>3, <2>2, <3>1, <3>3, <3>6, FlagsSet DEF Spoken, Events!EmitToolBlockStart
    <3>8. m + 1 = Num(e.text_open) + Num(TRUE)
      BY <3>2, <3>4, <3>6 DEF Num, FilterStates
    <3> QED BY <3>6, <3>7, <3>8, FlagUttered
  <2> QED BY <2>1, <2>2
<1>5. mid \in Seq(Sayings)
  BY <1>4 DEF Uttered, Spoken
<1>6. PICK end : end = mid \o Events!One("json_delta", f.args)
  OBVIOUS
<1>7. Uttered(Events!EmitToolArgumentsDelta(r, f.args), c0, end)
  <2>1. CASE f.args = None
    BY <1>4, <1>5, <1>6, <2>1, ConcatEmptySeq DEF Events!One, Events!EmitToolArgumentsDelta
  <2>2. CASE f.args # None
    <3>1. PICK e : e = Events!Emit(r, "json_delta", f.args)
      OBVIOUS
    <3>2. PICK m : m = Num(r.text_open) + Num(r.tool_open)
      OBVIOUS
    <3>3. Adds("json_delta", f.args) = Events!One("json_delta", f.args) /\ Opens("json_delta") = 0
      BY <2>2 DEF Adds, Opens, Events!One
    <3>4. /\ Spoken(e, c0, end, m + 0) /\ e.text_open = r.text_open /\ e.tool_open = r.tool_open
      BY <1>1, <1>4, <1>6, <3>1, <3>2, <3>3, EmitSpoken DEF Uttered
    <3>5. m \in Int /\ m + 0 = m
      BY <1>4, <3>2 DEF Uttered, Spoken
    <3>6. Uttered(e, c0, end)
      BY <3>2, <3>4, <3>5 DEF Uttered
    <3> QED BY <2>2, <3>1, <3>6 DEF Events!EmitToolArgumentsDelta
  <2> QED BY <2>1, <2>2
<1>8. end = said \o Events!FragmentSays(f)
  <2>1. Events!One("call", f.id) \in Seq(Sayings)
        /\ Events!One("json_delta", f.args) \in Seq(Sayings)
    BY OneSaid DEF Tags, ToolFragments
  <2> QED BY <1>1, <1>2, <1>6, <2>1, ConcatAssociative DEF Events!FragmentSays
<1>9. Events!TransformToolDelta(s, f) = Events!EmitToolArgumentsDelta(r, f.args)
  BY <1>3 DEF Events!TransformToolDelta
<1> QED BY <1>7, <1>8, <1>9

LEMMA FragmentsUttered ==
    ASSUME NEW s, NEW c0, NEW said, Uttered(s, c0, said), NEW fs \in Seq(ToolFragments)
    PROVE  Uttered(Events!TransformToolDeltas(s, fs), c0, said \o Events!ToolsSay(fs))
<1> DEFINE after(gs) == FoldOf(FilterStates, s, gs, ToolLoop)
           P == {gs \in Seq(ToolFragments) :
                    Uttered(after(gs), c0, said \o Events!ToolsSay(gs))}
<1>1. s \in FilterStates /\ said \in Seq(Sayings)
  BY DEF Uttered, Spoken
<1>2. ToolLoop \in LoopBodies(FilterStates, ToolFragments)
  BY <1>1, ToolDeltasFold
<1>3. <<>> \in P
  <2>1. <<>> \in Seq(ToolFragments)
    OBVIOUS
  <2>2. after(<<>>) = s
    BY <1>1, <1>2, <2>1, FoldAppend
  <2>3. said \o Events!ToolsSay(<<>>) = said
    BY <1>1, <2>1, ToolsSayGrows, ConcatEmptySeq
  <2> QED BY <2>1, <2>2, <2>3
<1>4. ASSUME NEW gs \in Seq(ToolFragments), NEW f \in ToolFragments, gs \in P
      PROVE  Append(gs, f) \in P
  <2>1. PICK hs \in Seq(ToolFragments) : hs = Append(gs, f)
    BY AppendProperties
  <2>2. after(hs) = Events!TransformToolDelta(after(gs), f)
    <3>1. after(gs) \in FilterStates /\ after(Append(gs, f)) = ToolLoop[<<after(gs), f>>]
      BY <1>1, <1>2, FoldAppend
    <3> QED BY <2>1, <3>1 DEF ToolLoop
  <2>3. PICK q, so : q = after(gs) /\ so = said \o Events!ToolsSay(gs)
    OBVIOUS
  <2>4. Uttered(q, c0, so)
    BY <1>4, <2>3
  <2> HIDE DEF after
  <2>5. Uttered(after(hs), c0, so \o Events!FragmentSays(f))
    BY <2>2, <2>3, <2>4, FragmentUttered
  <2>6. so \o Events!FragmentSays(f) = said \o Events!ToolsSay(hs)
    <3>1. Events!ToolsSay(gs) \in Seq(Sayings) /\ Events!FragmentSays(f) \in Seq(Sayings)
          /\ Events!ToolsSay(hs) = Events!ToolsSay(gs) \o Events!FragmentSays(f)
      BY <2>1, ToolsSayGrows, FragmentSaid
    <3> QED BY <1>1, <2>3, <3>1, ConcatAssociative
  <2> QED BY <2>1, <2>5, <2>6
<1> HIDE DEF P
<1>5. \A gs \in Seq(ToolFragments) : gs \in P
  BY <1>3, <1>4, ListInduction
<1>6. Events!TransformToolDeltas(s, fs) = after(fs)
  BY <1>1, ToolDeltasFold
<1> QED BY <1>5, <1>6 DEF P

LEMMA ChunkUttered ==
    ASSUME ChunksTyped, NEW s, NEW c0, NEW said, Uttered(s, c0, said), NEW c \in Chunks
    PROVE  Uttered(Events!TransformDelta(s, c), c0, said \o Events!ChunkSays(c))
<1>1. c.text \in Given /\ (c.tools = Absent \/ c.tools \in Seq(ToolFragments))
      /\ said \in Seq(Sayings)
  BY ChunkFields DEF Uttered, Spoken
<1>2. PICK t : t = IF c.text = None THEN s ELSE Events!EmitTextDelta(s, c.text)
  OBVIOUS
<1>3. PICK mid : mid = said \o Events!One("text_delta", c.text)
  OBVIOUS
<1>4. Uttered(t, c0, mid)
  <2>1. CASE c.text = None
    BY <1>1, <1>2, <1>3, <2>1, ConcatEmptySeq DEF Events!One
  <2>2. CASE c.text # None
    BY <1>1, <1>2, <1>3, <2>2, TextUttered
  <2> QED BY <2>1, <2>2
<1>5. Events!One("text_delta", c.text) \in Seq(Sayings) /\ mid \in Seq(Sayings)
  BY <1>1, <1>4, OneSaid DEF Tags, Uttered, Spoken
<1>6. CASE c.tools = Absent
  <2>1. said \o Events!ChunkSays(c) = mid
    BY <1>3, <1>5, <1>6, ConcatEmptySeq DEF Events!ChunkSays
  <2>2. Events!TransformDelta(s, c) = t
    BY <1>2, <1>6 DEF Events!TransformDelta
  <2> QED BY <1>4, <2>1, <2>2
<1>7. CASE c.tools # Absent
  <2>1. PICK fs \in Seq(ToolFragments) : fs = c.tools
    BY <1>1, <1>7
  <2>2. PICK q : q = Events!CloseTextIfOpen(t)
    OBVIOUS
  <2>3. Uttered(q, c0, mid)
    BY <1>4, <2>2, ClosedUttered
  <2>4. Uttered(Events!TransformToolDeltas(q, fs), c0, mid \o Events!ToolsSay(fs))
    BY <2>3, FragmentsUttered
  <2>5. Events!TransformDelta(s, c) = Events!TransformToolDeltas(q, fs)
    BY <1>2, <1>7, <2>1, <2>2 DEF Events!TransformDelta
  <2>6. mid \o Events!ToolsSay(fs) = said \o Events!ChunkSays(c)
    <3>1. Events!ToolsSay(fs) \in Seq(Sayings)
      BY ToolsSayGrows
    <3>2. Events!ChunkSays(c) = Events!One("text_delta", c.text) \o Events!ToolsSay(fs)
      BY <1>7, <2>1 DEF Events!ChunkSays
    <3> QED BY <1>1, <1>3, <1>5, <3>1, <3>2, ConcatAssociative
  <2> QED BY <2>4, <2>5, <2>6
<1> QED BY <1>6, <1>7

-----------------------------------------------------------------------------
\* The last value given, in a list that grows
LastGiven(vs, d) == Events!LastOf(vs, d)
LEMMA LastGrows ==
    ASSUME NEW V, NEW vs \in Seq(V), NEW v \in V, NEW d
    PROVE  LastGiven(Append(vs, v), d) = IF v = None THEN LastGiven(vs, d) ELSE v
<1>1. PICK n \in Nat : n = Len(vs)
  OBVIOUS
<1>2. PICK ws : ws = Append(vs, v)
  OBVIOUS
<1>3. DOMAIN vs = 1..n /\ DOMAIN ws = 1..(n + 1) /\ ws[n + 1] = v
      /\ \A k \in 1..n : ws[k] = vs[k]
  BY <1>1, <1>2
<1> DEFINE old == {k \in DOMAIN vs : vs[k] # None}
           new == {k \in DOMAIN ws : ws[k] # None}
           top(given) == CHOOSE k \in given : \A j \in given : j <= k
<1>4. /\ LastGiven(vs, d) = IF old = {} THEN d ELSE vs[top(old)]
      /\ LastGiven(ws, d) = IF new = {} THEN d ELSE ws[top(new)]
  BY DEF LastGiven, Events!LastOf
<1>5. old \subseteq 1..n /\ new = IF v = None THEN old ELSE old \cup {n + 1}
  BY <1>3
<1> HIDE DEF old, new
<1>6. CASE v # None
  <2>1. n + 1 \in new /\ \A j \in new : j <= n + 1
    BY <1>5, <1>6
  <2>2. top(new) = n + 1
    <3>1. new \subseteq Nat
      BY <1>5, <1>6
    <3>2. \E k \in new : \A j \in new : j <= k
      BY <2>1
    <3>3. PICK m : m = top(new)
      OBVIOUS
    <3>4. m \in new /\ \A j \in new : j <= m
      BY <3>2, <3>3
    <3>5. m <= n + 1 /\ n + 1 <= m /\ m \in Nat
      BY <2>1, <3>1, <3>4
    <3> QED BY <3>3, <3>5
  <2> HIDE DEF top
  <2> QED BY <1>2, <1>3, <1>4, <1>6, <2>1, <2>2
<1>7. CASE v = None
  <2>1. new = old
    BY <1>5, <1>7
  <2>2. CASE old = {}
    <3> HIDE DEF top
    <3> QED BY <1>2, <1>4, <1>7, <2>1, <2>2
  <2>3. CASE old # {}
    <3>1. Max(old) \in old /\ \A j \in old : j <= Max(old)
      BY <1>1, <1>5, <2>3, LargestElement
    <3>2. top(old) \in old
      BY <3>1
    <3> HIDE DEF top
    <3>3. ws[top(old)] = vs[top(old)]
      BY <1>3, <1>5, <3>2
    <3> QED BY <1>2, <1>4, <1>7, <2>1, <2>3, <3>3
  <2> QED BY <2>2, <2>3
<1> QED BY <1>6, <1>7

Finishes(cs) == [k \in DOMAIN cs |-> cs[k].finish]
Usages(cs) == [k \in DOMAIN cs |-> cs[k].usage]
LEMMA FieldsGrow ==
    ASSUME ChunksTyped, NEW cs \in Seq(Chunks), NEW c \in Chunks
    PROVE  /\ Finishes(cs) \in Seq(Given) /\ Usages(cs) \in Seq(Given)
           /\ Finishes(Append(cs, c)) = Append(Finishes(cs), c.finish)
           /\ Usages(Append(cs, c)) = Append(Usages(cs), c.usage)
<1>1. PICK n \in Nat : n = Len(cs)
  OBVIOUS
<1>2. PICK ds : ds = Append(cs, c)
  OBVIOUS
<1>3. DOMAIN cs = 1..n /\ DOMAIN ds = 1..(n + 1) /\ ds[n + 1] = c
      /\ \A k \in 1..n : ds[k] = cs[k] /\ cs[k] \in Chunks
  BY <1>1, <1>2
<1>4. \A k \in 1..n : cs[k].finish \in Given /\ cs[k].usage \in Given
  BY <1>3, ChunkFields
<1>5. c.finish \in Given /\ c.usage \in Given
  BY ChunkFields
<1>6. Finishes(cs) \in [1..n -> Given] /\ Usages(cs) \in [1..n -> Given]
  BY <1>3, <1>4 DEF Finishes, Usages
<1>7. PICK fs \in Seq(Given) : fs = Finishes(cs) /\ Len(fs) = n
  BY <1>6
<1>8. PICK us \in Seq(Given) : us = Usages(cs) /\ Len(us) = n
  BY <1>6
<1>9. Append(fs, c.finish) = [k \in 1..(n + 1) |-> IF k = n + 1 THEN c.finish ELSE fs[k]]
      /\ Append(us, c.usage) = [k \in 1..(n + 1) |-> IF k = n + 1 THEN c.usage ELSE us[k]]
  BY <1>7, <1>8
<1>10. Finishes(ds) = [k \in 1..(n + 1) |-> IF k = n + 1 THEN c.finish ELSE fs[k]]
  <2>1. \A k \in 1..(n + 1) : ds[k].finish = IF k = n + 1 THEN c.finish ELSE fs[k]
    BY <1>3, <1>7 DEF Finishes
  <2> QED BY <1>3, <2>1 DEF Finishes
<1>11. Usages(ds) = [k \in 1..(n + 1) |-> IF k = n + 1 THEN c.usage ELSE us[k]]
  <2>1. \A k \in 1..(n + 1) : ds[k].usage = IF k = n + 1 THEN c.usage ELSE us[k]
    BY <1>3, <1>8 DEF Usages
  <2> QED BY <1>3, <2>1 DEF Usages
<1> QED BY <1>2, <1>7, <1>8, <1>9, <1>10, <1>11

-----------------------------------------------------------------------------
Hearing == Heard(Events!Client, block_index, Events!BackendSays(sent), started, text_open,
                 tool_open)
Speaking == Uttered(Events!State, Events!Client, Events!BackendSays(sent))
Final == <<"message_delta", <<Events!MapStopReason(finish_reason), output_tokens>>>>

\* Whatever the backend sends
SaidInv ==
    /\ sent \in Seq(Chunks) /\ out \in Seq(Emitted) /\ over \in BOOLEAN
    /\ started \in BOOLEAN /\ text_open \in BOOLEAN /\ tool_open \in BOOLEAN
    /\ finish_reason \in Given /\ output_tokens \in Given \cup {0}
    /\ finish_reason = LastGiven(Finishes(sent), None) /\ output_tokens = LastGiven(Usages(sent), 0)
    /\ ~over => Speaking
    /\ over => /\ Events!Client.ended /\ Events!Client.stops = Events!Client.blocks
               /\ Events!Client.said = Append(Events!BackendSays(sent), Final)

\* Of a backend that groups its chunks
Called == \E k \in DOMAIN sent : Calls(sent[k])
HeardInv ==
    Events!Grouped =>
        /\ ~over => Hearing /\ (tool_open <=> Called) /\ (~started => ~text_open /\ ~tool_open)
        /\ over => Events!Client.ok

LEMMA EventInit == ASSUME ChunksTyped, Events!Init PROVE SaidInv /\ HeardInv
<1>1. <<>> \in Seq(Chunks) /\ <<>> \in Seq(Emitted) /\ DOMAIN <<>> = {}
  OBVIOUS
<1>2. Events!Client = Events!Fresh /\ Events!ReadAll(Events!Fresh, <<>>) = Events!Fresh
  BY <1>1, FreshTyped, ReadsStepwise DEF Events!Init, Events!Client, ReadsOn
<1>3. Events!BackendSays(<<>>) = <<>> /\ <<>> \in Seq(Sayings)
  BY <1>1, BackendSaysGrows
<1>4. Hearing
  BY <1>2, <1>3, FreshTyped DEF Hearing, Heard, Events!Init, Events!Fresh
<1>5. LastGiven(Finishes(<<>>), None) = None /\ LastGiven(Usages(<<>>), 0) = 0
  <2>1. DOMAIN Finishes(<<>>) = {} /\ DOMAIN Usages(<<>>) = {}
    BY DEF Finishes, Usages
  <2> QED BY <2>1 DEF LastGiven, Events!LastOf
<1>6. ~Called
  BY <1>1 DEF Events!Init, Called
<1>7. Speaking
  <2>1. PICK s : s = Events!State
    OBVIOUS
  <2>2. s \in FilterStates /\ s.ev = <<>> /\ s.text_open = FALSE /\ s.tool_open = FALSE
    BY <1>1, <2>1 DEF Events!State, Events!Init, FilterStates
  <2>3. PICK c : c = Events!Fresh
    OBVIOUS
  <2>4. c \in ClientStates /\ c.said = <<>> /\ c.ended = FALSE /\ c.blocks - c.stops = 0
    BY <2>3, FreshTyped DEF Events!Fresh
  <2>5. Num(s.text_open) + Num(s.tool_open) = 0
    BY <2>2 DEF Num
  <2>6. Events!ReadAll(c, s.ev) = c
    BY <1>2, <2>2, <2>3
  <2>7. Spoken(s, c, <<>>, 0)
    BY <1>3, <2>2, <2>4, <2>6 DEF Spoken
  <2>8. Uttered(s, c, <<>>)
    BY <2>5, <2>7 DEF Uttered
  <2>9. sent = <<>>
    BY DEF Events!Init
  <2> QED BY <1>2, <1>3, <2>1, <2>3, <2>8, <2>9 DEF Speaking
<1> QED BY <1>1, <1>4, <1>5, <1>6, <1>7 DEF SaidInv, HeardInv, Events!Init, Given

\* The flags as a record, and the events that follow
LEMMA FlagsRead ==
    ASSUME SaidInv, ~over
    PROVE  Set(Events!State, started, text_open, tool_open, block_index, <<>>)
<1>1. PICK s : s = Events!State
  OBVIOUS
<1>2. s.started = started /\ s.text_open = text_open /\ s.tool_open = tool_open
      /\ s.index = block_index /\ s.ev = <<>>
  BY <1>1 DEF Events!State
<1>3. s \in FilterStates
  BY <1>1 DEF SaidInv, Speaking, Uttered, Spoken
<1> QED BY <1>1, <1>2, <1>3 DEF Set

LEMMA NothingEmitted ==
    ASSUME SaidInv, ~over, Hearing
    PROVE  Told(Events!State, Events!Client, Events!BackendSays(sent), started, text_open, tool_open)
<1>1. PICK s : s = Events!State
  OBVIOUS
<1>2. Set(s, started, text_open, tool_open, block_index, <<>>)
  BY <1>1, FlagsRead
<1>3. Events!Client \in ClientStates /\ <<>> \in Seq(Emitted)
  BY DEF Hearing, Heard
<1>4. Events!ReadAll(Events!Client, <<>>) = Events!Client
  BY <1>3, ReadsStepwise DEF ReadsOn
<1> QED BY <1>1, <1>2, <1>3, <1>4 DEF Told, Hearing, Set

\* What a chunk or the end finds: the message has begun
Begun == IF started THEN Events!State ELSE Events!EmitMessageStart(Events!State)
LEMMA BegunUttered ==
    ASSUME SaidInv, ~over
    PROVE  Uttered(Begun, Events!Client, Events!BackendSays(sent))
<1>1. PICK s, c0, said : s = Events!State /\ c0 = Events!Client /\ said = Events!BackendSays(sent)
  OBVIOUS
<1>2. Uttered(s, c0, said) /\ s.started = started /\ started \in BOOLEAN
  BY <1>1, FlagsRead DEF SaidInv, Speaking, Set
<1>3. CASE started
  BY <1>1, <1>2, <1>3 DEF Begun
<1>4. CASE ~started
  <2>1. PICK e : e = Events!Emit(s, "message_start", None)
    OBVIOUS
  <2>2. PICK m : m = Num(s.text_open) + Num(s.tool_open)
    OBVIOUS
  <2>3. None \in Values /\ "message_start" \in EventTypes \ {"message_stop"}
        /\ said \in Seq(Sayings) /\ m \in Int /\ Spoken(s, c0, said, m)
    BY <1>2, <2>2 DEF Values, Given, EventTypes, Uttered, Spoken
  <2>4. Adds("message_start", None) = <<>> /\ Opens("message_start") = 0
    BY DEF Adds, Opens
  <2>5. Spoken(e, c0, said \o <<>>, m + 0) /\ e.text_open = s.text_open
        /\ e.tool_open = s.tool_open
    BY <2>1, <2>3, <2>4, EmitSpoken
  <2>6. Spoken(e, c0, said, m)
    BY <2>3, <2>5, ConcatEmptySeq
  <2>7. Set([e EXCEPT !.started = TRUE], TRUE, e.text_open, e.tool_open, e.index, e.ev)
    BY <2>6, FlagsSet DEF Spoken
  <2>8. Begun = [e EXCEPT !.started = TRUE]
    BY <1>1, <1>4, <2>1 DEF Begun, Events!EmitMessageStart
  <2>9. Uttered(Begun, c0, said)
    BY <2>2, <2>5, <2>6, <2>7, <2>8, FlagUttered
  <2> QED BY <1>1, <2>9
<1> QED BY <1>3, <1>4

LEMMA ClientAfter ==
    ASSUME SaidInv, NEW es \in Seq(Emitted), out' = out \o es
    PROVE  Events!Client' = Events!ReadAll(Events!Client, es) /\ out' \in Seq(Emitted)
<1>1. out \in Seq(Emitted)
  BY DEF SaidInv
<1>2. Events!ReadAll(Events!Fresh, out \o es) = Events!ReadAll(Events!ReadAll(Events!Fresh, out), es)
  BY <1>1, FreshTyped, ReadsCut
<1>3. out' \in Seq(Emitted)
  BY <1>1, ConcatProperties
<1> QED BY <1>2, <1>3 DEF Events!Client

\* What a chunk leaves behind
LEMMA ChunkApplied ==
    ASSUME ChunksTyped, SaidInv, NEW c \in Chunks, Events!TransformChunk(c),
           NEW q, q = Events!TransformDelta(Begun, c)
    PROVE  /\ Uttered(q, Events!Client, Events!BackendSays(sent) \o Events!ChunkSays(c))
           /\ started' = q.started /\ text_open' = q.text_open /\ tool_open' = q.tool_open
           /\ block_index' = q.index /\ out' = out \o q.ev /\ out' \in Seq(Emitted)
           /\ Events!Client' = Events!ReadAll(Events!Client, q.ev)
           /\ sent' \in Seq(Chunks)
           /\ Events!BackendSays(sent)' = Events!BackendSays(sent) \o Events!ChunkSays(c)
<1>1. ~over /\ sent' = Append(sent, c) /\ sent \in Seq(Chunks)
  BY DEF Events!TransformChunk, SaidInv
<1>2. Uttered(q, Events!Client, Events!BackendSays(sent) \o Events!ChunkSays(c))
  BY <1>1, BegunUttered, ChunkUttered
<1>3. q.ev \in Seq(Emitted)
  BY <1>2 DEF Uttered, Spoken, FilterStates
<1>4. Events!Apply(q)
  BY DEF Events!TransformChunk, Begun
<1>5. out' = out \o q.ev
  BY <1>4 DEF Events!Apply
<1>6. Events!Client' = Events!ReadAll(Events!Client, q.ev) /\ out' \in Seq(Emitted)
  BY <1>3, <1>5, ClientAfter
<1>7. sent' \in Seq(Chunks)
      /\ Events!BackendSays(sent)' = Events!BackendSays(sent) \o Events!ChunkSays(c)
  BY <1>1, BackendSaysGrows, AppendProperties
<1> QED BY <1>2, <1>4, <1>6, <1>7 DEF Events!Apply

LEMMA LastsKept ==
    ASSUME ChunksTyped, SaidInv, NEW c \in Chunks, Events!TransformChunk(c)
    PROVE  /\ finish_reason' = LastGiven(Finishes(sent), None)'
           /\ output_tokens' = LastGiven(Usages(sent), 0)'
           /\ finish_reason' \in Given /\ output_tokens' \in Given \cup {0}
<1>1. /\ sent' = Append(sent, c) /\ finish_reason' = Events!FinishReason(c)
      /\ output_tokens' = IF c.usage = None THEN output_tokens ELSE c.usage
  BY DEF Events!TransformChunk
<1>2. sent \in Seq(Chunks) /\ finish_reason \in Given /\ output_tokens \in Given \cup {0}
  BY DEF SaidInv
<1>3. c.finish \in Given /\ c.usage \in Given
  BY ChunkFields
<1>4. PICK fs \in Seq(Given), us \in Seq(Given) : fs = Finishes(sent) /\ us = Usages(sent)
  BY <1>2, FieldsGrow
<1>5. LastGiven(Finishes(sent), None)' = LastGiven(Append(fs, c.finish), None)
      /\ LastGiven(Usages(sent), 0)' = LastGiven(Append(us, c.usage), 0)
  BY <1>1, <1>2, <1>4, FieldsGrow DEF LastGiven
<1>6. LastGiven(Append(fs, c.finish), None) = IF c.finish = None THEN LastGiven(fs, None) ELSE c.finish
  BY <1>3, <1>4, LastGrows
<1>7. LastGiven(Append(us, c.usage), 0) = IF c.usage = None THEN LastGiven(us, 0) ELSE c.usage
  BY <1>3, <1>4, LastGrows
<1>8. finish_reason = LastGiven(fs, None) /\ output_tokens = LastGiven(us, 0)
  BY <1>4 DEF SaidInv
<1> QED BY <1>1, <1>2, <1>3, <1>5, <1>6, <1>7, <1>8 DEF Events!FinishReason

LEMMA ChunkSpoken ==
    ASSUME ChunksTyped, SaidInv, NEW c \in Chunks, Events!TransformChunk(c) PROVE SaidInv'
<1>1. ~over /\ over' = FALSE
  BY DEF Events!TransformChunk, SaidInv
<1>2. PICK q, c0, said : /\ q = Events!TransformDelta(Begun, c) /\ c0 = Events!Client
                         /\ said = Events!BackendSays(sent) \o Events!ChunkSays(c)
  OBVIOUS
<1>3. /\ Uttered(q, c0, said)
      /\ started' = q.started /\ text_open' = q.text_open /\ tool_open' = q.tool_open
      /\ block_index' = q.index /\ out' = out \o q.ev /\ out' \in Seq(Emitted)
      /\ Events!Client' = Events!ReadAll(c0, q.ev)
      /\ sent' \in Seq(Chunks) /\ Events!BackendSays(sent)' = said
  BY <1>2, ChunkApplied
<1>4. /\ q.started \in BOOLEAN /\ q.text_open \in BOOLEAN /\ q.tool_open \in BOOLEAN
      /\ q.index \in Nat
  BY <1>3 DEF Uttered, Spoken, FilterStates
<1>5. PICK s, d : s = Events!State' /\ d = Events!Client'
  OBVIOUS
<1>6. s.text_open = q.text_open /\ s.tool_open = q.tool_open /\ s.ev = <<>> /\ s \in FilterStates
  BY <1>3, <1>4, <1>5 DEF Events!State, FilterStates
<1>7. d \in ClientStates /\ <<>> \in Seq(Emitted)
  BY <1>3, <1>5 DEF Uttered, Spoken
<1>8. Events!ReadAll(d, <<>>) = d
  BY <1>7, ReadsStepwise DEF ReadsOn
<1>9. Uttered(s, d, said)
  BY <1>3, <1>5, <1>6, <1>7, <1>8 DEF Uttered, Spoken
<1>10. Speaking'
  BY <1>3, <1>5, <1>9 DEF Speaking
<1>11. /\ finish_reason' = LastGiven(Finishes(sent), None)'
       /\ output_tokens' = LastGiven(Usages(sent), 0)'
       /\ finish_reason' \in Given /\ output_tokens' \in Given \cup {0}
  BY LastsKept
<1> QED BY <1>1, <1>3, <1>4, <1>10, <1>11 DEF SaidInv

\* A grouped backend was grouped before its last chunk
GroupedIn(cs) ==
    \A k \in DOMAIN cs :
        /\ (\E j \in 1..(k - 1) : Calls(cs[j])) => cs[k].text = None
        /\ Calls(cs[k]) /\ cs[k].tools[1].id = None => \E j \in 1..(k - 1) : Calls(cs[j])
LEMMA GroupedGrows ==
    ASSUME NEW cs \in Seq(Chunks), NEW c \in Chunks, NEW ds, ds = Append(cs, c)
    PROVE  LET called == \E k \in DOMAIN cs : Calls(cs[k])
           IN /\ (\E k \in DOMAIN ds : Calls(ds[k])) <=> (called \/ Calls(c))
              /\ GroupedIn(ds) =>
                    /\ GroupedIn(cs) /\ (called => c.text = None)
                    /\ (Calls(c) /\ c.tools[1].id = None => called)
<1>1. PICK n \in Nat : n = Len(cs)
  OBVIOUS
<1>2. DOMAIN cs = 1..n /\ DOMAIN ds = 1..(n + 1) /\ ds[n + 1] = c
      /\ \A k \in 1..n : ds[k] = cs[k]
  BY <1>1
<1>3. \A k \in 1..(n + 1) : k \in 1..n \/ k = n + 1
  OBVIOUS
<1>4. (\E k \in 1..(n + 1) : Calls(ds[k])) <=> ((\E k \in 1..n : Calls(cs[k])) \/ Calls(c))
  BY <1>2, <1>3
<1>5. \A k \in 1..(n + 1) :
         (\E j \in 1..(k - 1) : Calls(ds[j])) <=> (\E j \in 1..(k - 1) : Calls(cs[j]))
  <2>1. \A k \in 1..(n + 1) : \A j \in 1..(k - 1) : j \in 1..n /\ ds[j] = cs[j]
    BY <1>2
  <2> QED BY <2>1
<1>6. ASSUME GroupedIn(ds)
      PROVE  /\ GroupedIn(cs) /\ ((\E k \in 1..n : Calls(cs[k])) => c.text = None)
             /\ (Calls(c) /\ c.tools[1].id = None => \E k \in 1..n : Calls(cs[k]))
  <2>1. \A k \in 1..(n + 1) :
           /\ (\E j \in 1..(k - 1) : Calls(cs[j])) => ds[k].text = None
           /\ Calls(ds[k]) /\ ds[k].tools[1].id = None => \E j \in 1..(k - 1) : Calls(cs[j])
    BY <1>2, <1>5, <1>6 DEF GroupedIn
  <2>2. GroupedIn(cs)
    BY <1>2, <2>1 DEF GroupedIn
  <2>3. n + 1 \in 1..(n + 1) /\ (n + 1) - 1 = n
    OBVIOUS
  <2> QED BY <1>2, <2>1, <2>2, <2>3
<1> QED BY <1>2, <1>4, <1>6

LEMMA GroupedTold == Events!Grouped <=> GroupedIn(sent)
BY DEF Events!Grouped, Events!CalledBefore, Events!Calls, GroupedIn, Calls

LEMMA ChunkHeard ==
    ASSUME ChunksTyped, SaidInv, HeardInv, NEW c \in Chunks, Events!TransformChunk(c) PROVE HeardInv'
<1> SUFFICES ASSUME Events!Grouped'
             PROVE  /\ over' = FALSE /\ Hearing' /\ (tool_open' <=> Called') /\ started' = TRUE
  BY DEF HeardInv
<1>1. ~over /\ over' = FALSE /\ sent' = Append(sent, c) /\ sent \in Seq(Chunks)
      /\ started \in BOOLEAN /\ text_open \in BOOLEAN /\ tool_open \in BOOLEAN
  BY DEF Events!TransformChunk, SaidInv
<1>2. GroupedIn(sent')
  BY DEF Events!Grouped, Events!CalledBefore, Events!Calls, GroupedIn, Calls
<1>3. /\ Called' <=> (Called \/ Calls(c))
      /\ Events!Grouped /\ (Called => c.text = None)
      /\ (Calls(c) /\ c.tools[1].id = None => Called)
  <2>1. PICK ds : ds = sent'
    OBVIOUS
  <2>2. /\ (\E k \in DOMAIN ds : Calls(ds[k])) <=> ((\E k \in DOMAIN sent : Calls(sent[k])) \/ Calls(c))
        /\ GroupedIn(sent) /\ ((\E k \in DOMAIN sent : Calls(sent[k])) => c.text = None)
        /\ (Calls(c) /\ c.tools[1].id = None => \E k \in DOMAIN sent : Calls(sent[k]))
    BY <1>1, <1>2, <2>1, GroupedGrows
  <2>3. Called' <=> \E k \in DOMAIN ds : Calls(ds[k])
    BY <2>1 DEF Called, Calls
  <2>4. Events!Grouped
    BY <2>2, GroupedTold
  <2> QED BY <2>2, <2>3, <2>4 DEF Called
<1>4. Hearing /\ (tool_open <=> Called) /\ (~started => ~text_open /\ ~tool_open)
  BY <1>1, <1>3 DEF HeardInv
<1>5. PICK s, c0, said : s = Begun /\ c0 = Events!Client /\ said = Events!BackendSays(sent)
  OBVIOUS
<1>6. Told(s, c0, said, TRUE, text_open, tool_open)
  <2>1. Told(Events!State, c0, said, started, text_open, tool_open)
    BY <1>1, <1>4, <1>5, NothingEmitted
  <2>2. CASE started
    <3>1. started = TRUE
      BY <2>2
    <3> QED BY <1>5, <2>1, <3>1 DEF Begun
  <2>3. CASE ~started
    <3>1. started = FALSE /\ text_open = FALSE /\ tool_open = FALSE
      BY <1>1, <1>4, <2>3
    <3> QED BY <1>5, <2>1, <3>1, StartTold DEF Begun
  <2> QED BY <2>2, <2>3
<1>7. PICK x, y \in BOOLEAN : x = text_open /\ y = tool_open
  BY <1>1
<1>8. PICK q : q = Events!TransformDelta(s, c)
  OBVIOUS
<1>9. PICK w \in BOOLEAN, z \in BOOLEAN :
         z = (y \/ Calls(c)) /\ Told(q, c0, said \o Events!ChunkSays(c), TRUE, w, z)
  <2>1. (y => c.text = None) /\ (Calls(c) /\ c.tools[1].id = None => y)
    BY <1>3, <1>4, <1>7
  <2>2. \E w \in BOOLEAN : Told(Events!TransformDelta(s, c), c0, said \o Events!ChunkSays(c), TRUE,
                                w, y \/ Calls(c))
    BY <1>6, <1>7, <2>1, ChunkTold
  <2> QED BY <1>8, <2>2
<1>10. /\ q.started = TRUE /\ q.text_open = w /\ q.tool_open = z
       /\ Heard(Events!ReadAll(c0, q.ev), q.index, said \o Events!ChunkSays(c), TRUE, w, z)
  BY <1>9 DEF Told
<1>11. /\ started' = q.started /\ text_open' = q.text_open /\ tool_open' = q.tool_open
       /\ block_index' = q.index /\ Events!Client' = Events!ReadAll(c0, q.ev)
       /\ Events!BackendSays(sent)' = said \o Events!ChunkSays(c)
  BY <1>5, <1>8, ChunkApplied
<1>12. Hearing'
  BY <1>10, <1>11 DEF Hearing
<1>13. tool_open' <=> Called'
  BY <1>3, <1>4, <1>7, <1>9, <1>10, <1>11
<1> QED BY <1>1, <1>10, <1>11, <1>12, <1>13

LEMMA ReasonMapped == ASSUME NEW f PROVE Events!MapStopReason(f) \in StopReasons
BY DEF Events!MapStopReason, StopReasons

\* emit_done: the blocks are closed, then the last two events
Closed == Events!CloseToolIfOpen(Events!CloseTextIfOpen(Events!State))
LastOne(v) == Events!Emit(Events!Emit(Closed, "message_delta", v), "message_stop", None)
LEMMA DoneApplied ==
    ASSUME ChunksTyped, SaidInv, Events!EmitDone, NEW q,
           q = LastOne(<<Events!MapStopReason(finish_reason), output_tokens>>)
    PROVE  /\ ~over /\ over' = TRUE /\ started = TRUE
           /\ UNCHANGED <<finish_reason, output_tokens, sent>>
           /\ q \in FilterStates /\ Events!Apply(q)
           /\ out' = out \o q.ev /\ out' \in Seq(Emitted)
           /\ Events!Client' = Events!ReadAll(Events!Client, q.ev)
<1>1. /\ ~over /\ over' = TRUE /\ started = TRUE /\ UNCHANGED <<finish_reason, output_tokens, sent>>
      /\ finish_reason \in Given /\ output_tokens \in Given \cup {0}
  BY DEF Events!EmitDone, SaidInv
<1>2. PICK v : v = <<Events!MapStopReason(finish_reason), output_tokens>>
  OBVIOUS
<1>3. v \in Values /\ None \in Values
      /\ "message_delta" \in EventTypes /\ "message_stop" \in EventTypes
  BY <1>1, <1>2, ReasonMapped DEF Values, Given, EventTypes
<1>4. Closed \in FilterStates
  BY <1>1, FlagCleared DEF Closed, SaidInv, Speaking, Uttered, Spoken
<1>5. q \in FilterStates
  BY <1>2, <1>3, <1>4, EmitTyped DEF LastOne
<1>6. Events!Apply(q)
  BY DEF Events!EmitDone, LastOne, Closed
<1>7. q.ev \in Seq(Emitted)
  BY <1>5 DEF FilterStates
<1>8. out' = out \o q.ev
  BY <1>6 DEF Events!Apply
<1>9. Events!Client' = Events!ReadAll(Events!Client, q.ev) /\ out' \in Seq(Emitted)
  BY <1>7, <1>8, ClientAfter
<1> QED BY <1>1, <1>5, <1>6, <1>8, <1>9

LEMMA DoneSpoken == ASSUME ChunksTyped, SaidInv, Events!EmitDone PROVE SaidInv'
<1>1. PICK v : v = <<Events!MapStopReason(finish_reason), output_tokens>>
  OBVIOUS
<1>2. PICK q, c0, said : q = LastOne(v) /\ c0 = Events!Client /\ said = Events!BackendSays(sent)
  OBVIOUS
<1>3. /\ ~over /\ over' = TRUE /\ UNCHANGED <<finish_reason, output_tokens, sent>>
      /\ q \in FilterStates /\ Events!Apply(q) /\ out' \in Seq(Emitted)
      /\ Events!Client' = Events!ReadAll(c0, q.ev)
  BY <1>1, <1>2, DoneApplied
<1>4. /\ v \in Values /\ None \in Values /\ "message_delta" \in EventTypes \ {"message_stop"}
      /\ "message_stop" \in EventTypes
  BY <1>1, ReasonMapped DEF SaidInv, Values, Given, EventTypes
<1>5. PICK s : s = Closed
  OBVIOUS
<1>6. Spoken(s, c0, said, 0)
  <2>1. Uttered(Events!State, c0, said)
    BY <1>2, <1>3 DEF SaidInv, Speaking
  <2>2. PICK t : t = Events!CloseTextIfOpen(Events!State)
    OBVIOUS
  <2>3. Uttered(t, c0, said) /\ t.text_open = FALSE /\ t \in FilterStates
    <3>1. Events!State \in FilterStates
      BY <2>1 DEF Uttered, Spoken
    <3> QED BY <2>1, <2>2, <3>1, ClosedUttered, FlagCleared
  <2>4. Uttered(s, c0, said) /\ s.text_open = FALSE /\ s.tool_open = FALSE
    BY <1>5, <2>2, <2>3, ClosedUttered, FlagCleared DEF Closed
  <2>5. Num(s.text_open) + Num(s.tool_open) = 0
    BY <2>4 DEF Num
  <2> QED BY <2>4, <2>5 DEF Uttered
<1>7. PICK d, fin : d = Events!Emit(s, "message_delta", v)
                    /\ fin = said \o <<<<"message_delta", v>>>>
  OBVIOUS
<1>8. Spoken(d, c0, fin, 0)
  <2>1. Adds("message_delta", v) = <<<<"message_delta", v>>>> /\ Opens("message_delta") = 0
    BY DEF Adds, Opens
  <2>2. Spoken(d, c0, fin, 0 + 0)
    BY <1>4, <1>6, <1>7, <2>1, EmitSpoken
  <2> QED BY <2>2
<1>9. PICK c \in ClientStates : c = Events!ReadAll(c0, d.ev) /\ c.said = fin /\ c.blocks - c.stops = 0
  BY <1>8 DEF Spoken
<1>10. q = Events!Emit(d, "message_stop", None)
  BY <1>2, <1>5, <1>7 DEF LastOne
<1>11. Sent(d, q, c0, "message_stop", None)
  BY <1>4, <1>8, <1>10, EmitSends DEF Spoken
<1>12. PICK n \in Nat : n = d.index
  BY <1>8 DEF Spoken, FilterStates
<1>13. PICK e : e = Events!ClientReads(c, Ev("message_stop", n, None))
  OBVIOUS
<1>14. /\ e \in ClientStates /\ e.said = c.said \o <<>> /\ e.ended = TRUE
       /\ e.blocks - e.stops = c.blocks - c.stops + 0
  <2>1. PICK t \in EventTypes : t = "message_stop"
    BY <1>4
  <2>2. Adds(t, None) = <<>> /\ Opens(t) = 0
    BY <2>1 DEF Adds, Opens
  <2>3. e = Events!ClientReads(c, Ev(t, n, None))
    BY <1>13, <2>1
  <2>4. None \in Values
    BY <1>4
  <2>5. /\ e \in ClientStates /\ e.said = c.said \o Adds(t, None)
        /\ e.blocks - e.stops = c.blocks - c.stops + Opens(t)
        /\ e.ended = (c.ended \/ t = "message_stop")
    <3>1. HasRead(c, t, None, e)
      BY <2>3, <2>4, OneMore
    <3> QED BY <3>1 DEF HasRead
  <2> QED BY <2>1, <2>2, <2>5
<1>15. c.blocks \in Nat /\ c.stops \in Nat
  BY DEF ClientStates
<1>16. fin \in Seq(Sayings) /\ fin \o <<>> = fin
  BY <1>8, ConcatEmptySeq DEF Spoken
<1>17. e.said = fin /\ e.stops = e.blocks /\ e.ended = TRUE
  <2>1. e.blocks \in Nat /\ e.stops \in Nat
    BY <1>14 DEF ClientStates
  <2>2. e.blocks - e.stops = 0
    BY <1>9, <1>14, <1>15
  <2>3. e.stops = e.blocks
    BY <2>1, <2>2
  <2> QED BY <1>9, <1>14, <1>16, <2>3
<1>18. Events!Client' = e
  BY <1>3, <1>9, <1>11, <1>12, <1>13 DEF Sent
<1>19. Events!BackendSays(sent)' = said /\ Final' = <<"message_delta", v>>
  BY <1>1, <1>2, <1>3 DEF Final
<1>20. fin = Append(said, <<"message_delta", v>>)
  <2>1. said \in Seq(Sayings) /\ <<"message_delta", v>> \in Sayings
    BY <1>4, <1>6 DEF Spoken, Sayings, Tags
  <2> QED BY <1>7, <2>1, AppendIsConcat
<1>21. started' \in BOOLEAN /\ text_open' \in BOOLEAN /\ tool_open' \in BOOLEAN
  BY <1>3 DEF Events!Apply, FilterStates
<1>22. LastGiven(Finishes(sent), None)' = LastGiven(Finishes(sent), None)
       /\ LastGiven(Usages(sent), 0)' = LastGiven(Usages(sent), 0)
  BY <1>3
<1>23. /\ sent \in Seq(Chunks) /\ finish_reason \in Given /\ output_tokens \in Given \cup {0}
       /\ finish_reason = LastGiven(Finishes(sent), None)
       /\ output_tokens = LastGiven(Usages(sent), 0)
  BY DEF SaidInv
<1> QED BY <1>3, <1>17, <1>18, <1>19, <1>20, <1>21, <1>22, <1>23 DEF SaidInv

LEMMA DoneHeard == ASSUME ChunksTyped, SaidInv, HeardInv, Events!EmitDone PROVE HeardInv'
<1> SUFFICES ASSUME Events!Grouped' PROVE over' = TRUE /\ Events!Client'.ok
  BY DEF HeardInv
<1>1. PICK v : v = <<Events!MapStopReason(finish_reason), output_tokens>>
  OBVIOUS
<1>2. PICK q, c0, said : q = LastOne(v) /\ c0 = Events!Client /\ said = Events!BackendSays(sent)
  OBVIOUS
<1>3. /\ ~over /\ over' = TRUE /\ started = TRUE /\ sent' = sent
      /\ Events!Client' = Events!ReadAll(c0, q.ev)
  BY <1>1, <1>2, DoneApplied
<1>4. text_open \in BOOLEAN /\ tool_open \in BOOLEAN /\ None \notin {"text_start", "tool_start"}
  BY DEF SaidInv, ChunksTyped
<1>5. Hearing
  <2>1. Events!Grouped
    BY <1>3 DEF Events!Grouped, Events!CalledBefore
  <2> QED BY <1>3, <2>1 DEF HeardInv
<1>6. PICK s : s = Closed
  OBVIOUS
<1>7. Told(s, c0, said, TRUE, FALSE, FALSE)
  <2>1. Told(Events!State, c0, said, TRUE, text_open, tool_open)
    BY <1>2, <1>3, <1>5, NothingEmitted
  <2>2. PICK x, y \in BOOLEAN : x = text_open /\ y = tool_open
    BY <1>4
  <2>3. Told(Events!CloseTextIfOpen(Events!State), c0, said, TRUE, FALSE, y)
    BY <1>4, <2>1, <2>2, TextStopped
  <2> QED BY <1>4, <1>6, <2>3, ToolStopped DEF Closed
<1>8. /\ v \in Values /\ None \in Values
      /\ "message_delta" \in EventTypes /\ "message_stop" \in EventTypes
  BY <1>1, ReasonMapped DEF SaidInv, Values, Given, EventTypes
<1>9. PICK d : d = Events!Emit(s, "message_delta", v)
  OBVIOUS
<1>10. q = Events!Emit(d, "message_stop", None)
  BY <1>2, <1>6, <1>9 DEF LastOne
<1>11. Sent(s, d, c0, "message_delta", v)
  BY <1>7, <1>8, <1>9, EmitSends DEF Told
<1>12. Sent(d, q, c0, "message_stop", None)
  BY <1>7, <1>8, <1>10, <1>11, EmitSends DEF Told, Sent
<1>13. PICK c, n : c = Events!ReadAll(c0, s.ev) /\ n = s.index
  OBVIOUS
<1>14. PICK e : e = Events!ReadAll(c0, q.ev)
  OBVIOUS
<1>15. e = Events!ClientReads(Events!ClientReads(c, Ev("message_delta", n, v)),
                              Ev("message_stop", n, None))
  BY <1>11, <1>12, <1>13, <1>14 DEF Sent
<1>16. e.ok = TRUE
  <2>1. Heard(c, n, said, TRUE, FALSE, FALSE)
    BY <1>7, <1>13 DEF Told
  <2> QED BY <1>8, <1>15, <2>1, EndHeard
<1> QED BY <1>3, <1>14, <1>16

LEMMA EventStutter == ASSUME SaidInv, HeardInv, UNCHANGED Events!vars PROVE SaidInv' /\ HeardInv'
<1>1. UNCHANGED <<started, text_open, tool_open, block_index, finish_reason, output_tokens,
                  out, sent, over>>
  BY DEF Events!vars
<1>2. Events!Client' = Events!Client /\ Events!State' = Events!State
  BY <1>1 DEF Events!Client, Events!State
<1>3. Hearing' = Hearing /\ Speaking' = Speaking /\ Final' = Final
  BY <1>1, <1>2 DEF Hearing, Speaking, Final
<1>4. Called' = Called /\ Events!Grouped' = Events!Grouped
  BY <1>1 DEF Called, Events!Grouped, Events!CalledBefore
<1>5. LastGiven(Finishes(sent), None)' = LastGiven(Finishes(sent), None)
      /\ LastGiven(Usages(sent), 0)' = LastGiven(Usages(sent), 0)
      /\ Events!BackendSays(sent)' = Events!BackendSays(sent)
  BY <1>1
<1> QED BY <1>1, <1>2, <1>3, <1>4, <1>5 DEF SaidInv, HeardInv

LEMMA EventNext ==
    ASSUME ChunksTyped, SaidInv, HeardInv, [Events!Next]_(Events!vars) PROVE SaidInv' /\ HeardInv'
<1>1. CASE UNCHANGED Events!vars
  BY <1>1, EventStutter
<1>2. ASSUME NEW c \in Chunks, Events!TransformChunk(c) PROVE SaidInv' /\ HeardInv'
  BY <1>2, ChunkSpoken, ChunkHeard
<1>3. CASE Events!EmitDone
  BY <1>3, DoneSpoken, DoneHeard
<1> QED BY <1>1, <1>2, <1>3 DEF Events!Next, Events!SkipLine, Events!Done

LEMMA EventImplies == ASSUME ChunksTyped, SaidInv, HeardInv PROVE Events!TranslationSound
<1>1. PICK said \in Seq(Sayings) : said = Events!BackendSays(sent)
  BY BackendSaysGrows DEF SaidInv
<1>2. PICK v \in Values : v = <<Events!MapStopReason(finish_reason), output_tokens>>
  BY ReasonMapped DEF SaidInv, Values
<1>3. v = <<Events!MapStopReason(Events!LastOf([k \in DOMAIN sent |-> sent[k].finish], None)),
            Events!LastOf([k \in DOMAIN sent |-> sent[k].usage], 0)>>
  BY <1>2 DEF SaidInv, LastGiven, Finishes, Usages
<1>4. CASE ~over
  <2>1. Events!Client.said = said
    <3>1. Uttered(Events!State, Events!Client, said)
      BY <1>1, <1>4 DEF SaidInv, Speaking
    <3>2. Events!ReadAll(Events!Client, Events!State.ev).said = said
          /\ Events!Client \in ClientStates
      BY <3>1 DEF Uttered, Spoken
    <3>3. Events!State.ev = <<>> /\ <<>> \in Seq(Emitted)
      BY DEF Events!State
    <3>4. Events!ReadAll(Events!Client, <<>>) = Events!Client
      BY <3>2, <3>3, ReadsStepwise DEF ReadsOn
    <3> QED BY <3>2, <3>3, <3>4
  <2>2. said \o <<>> = said
    BY ConcatEmptySeq
  <2>3. Events!Grouped => Events!Client.ok
    BY <1>4 DEF HeardInv, Hearing, Heard
  <2> QED BY <1>1, <1>4, <2>1, <2>2, <2>3
          DEF Events!TranslationSound, Events!BlocksWellFormed, Events!ContentRebuilt,
              Events!EveryBlockStops
<1>5. CASE over
  <2>1. Events!Client.ended /\ Events!Client.stops = Events!Client.blocks
        /\ Events!Client.said = Append(said, <<"message_delta", v>>)
    BY <1>1, <1>2, <1>5 DEF SaidInv, Final
  <2>2. Append(said, <<"message_delta", v>>) = said \o <<<<"message_delta", v>>>>
    <3>1. <<"message_delta", v>> \in Sayings
      BY DEF Sayings, Tags
    <3> QED BY <3>1, AppendIsConcat
  <2>3. Events!Grouped => Events!Client.ok
    BY <1>5 DEF HeardInv
  <2> QED BY <1>1, <1>3, <1>5, <2>1, <2>2, <2>3
          DEF Events!TranslationSound, Events!BlocksWellFormed, Events!ContentRebuilt,
              Events!EveryBlockStops
<1> QED BY <1>4, <1>5

\* For any chunks, in whatever order: what the events say is exactly what the
\* backend said, then the last finish reason and the last token count, and every
\* block they open is stopped before the end; and of a backend that sends its text
\* before its calls they are at every moment a stream an Anthropic client accepts,
\* blocks numbered in order and never overlapping (transform_chunk, emit_done).
THEOREM StreamsAreTranslated == ASSUME ChunksTyped PROVE Spec => []TranslationSound
<1> DEFINE Inv == reader = "events" => SaidInv /\ HeardInv
<1>1. Init => Inv
  BY EventInit DEF Init
<1>2. Inv /\ [Next]_vars => Inv'
  <2> SUFFICES ASSUME Inv, [Next]_vars, reader' = "events" PROVE SaidInv' /\ HeardInv'
    OBVIOUS
  <2>1. reader = "events" /\ [Events!Next]_(Events!vars)
    BY DEF Next, vars, eventVars, Events!vars
  <2> QED BY <2>1, EventNext
<1>3. Inv => TranslationSound
  BY EventImplies DEF TranslationSound
<1> QED BY <1>1, <1>2, <1>3, PTL DEF Spec

-----------------------------------------------------------------------------
(* The text/event-stream format, one byte or line at a time (EventStreams) *)

\* A list made of one list for each position
LEMMA PositionsGrow ==
    ASSUME NEW V, NEW n \in Nat, NEW ff \in [1..n -> Seq(V)], NEW gg \in [1..(n + 1) -> Seq(V)],
           \A k \in 1..n : gg[k] = ff[k]
    PROVE  FlattenSeq(gg) = FlattenSeq(ff) \o gg[n + 1] /\ FlattenSeq(ff) \in Seq(V)
<1>1. ff \in Seq(Seq(V)) /\ Len(ff) = n /\ gg \in Seq(Seq(V)) /\ Len(gg) = n + 1
  OBVIOUS
<1>2. n + 1 \in 1..(n + 1)
  OBVIOUS
<1>3. PICK x \in Seq(V) : x = gg[n + 1]
  BY <1>2
<1>4. gg = Append(ff, x)
  <2>1. Append(ff, x) \in Seq(Seq(V)) /\ Len(Append(ff, x)) = n + 1
        /\ \A k \in 1..(n + 1) : Append(ff, x)[k] = IF k = n + 1 THEN x ELSE ff[k]
    BY <1>1
  <2>2. \A k \in 1..Len(gg) : gg[k] = Append(ff, x)[k]
    BY <1>1, <1>3, <2>1
  <2> QED BY <1>1, <2>1, <2>2, SeqEqual
<1> QED BY <1>1, <1>3, <1>4, FlattenAppend, FlattenType

\* Where the piece before place k starts
StartsAt(s, end, k, j) ==
    j \in 1..k /\ (j = 1 \/ s[j - 1] = end) /\ \A i \in j..(k - 1) : s[i] # end
LEMMA AfterStarts ==
    ASSUME NEW s, NEW end, NEW k \in Nat \ {0}
    PROVE  /\ StartsAt(s, end, k, After(s, end, k))
           /\ \A j : StartsAt(s, end, k, j) => j = After(s, end, k)
<1> DEFINE S == {j \in 1..k : j = 1 \/ s[j - 1] = end}
<1>1. 1 \in S
  OBVIOUS
<1>2. Max(S) \in S /\ \A y \in S : y <= Max(S)
  BY <1>1, LargestElement
<1>3. PICK m \in S : \A y \in S : y <= m
  BY <1>2
<1>4. StartsAt(s, end, k, m)
  <2>1. ASSUME NEW i \in m..(k - 1), s[i] = end PROVE FALSE
    <3>1. i + 1 \in S /\ i + 1 > m
      BY <2>1
    <3> QED BY <1>3, <3>1
  <2> QED BY <2>1 DEF StartsAt
<1>5. PICK a : a = After(s, end, k)
  OBVIOUS
<1>6. StartsAt(s, end, k, a)
  BY <1>4, <1>5 DEF StartsAt, After
<1>7. ASSUME NEW j, StartsAt(s, end, k, j) PROVE j = a
  <2>1. j \in 1..k /\ a \in 1..k
    BY <1>6, <1>7 DEF StartsAt
  <2>2. CASE j < a
    <3>1. a - 1 \in j..(k - 1) /\ s[a - 1] = end
      BY <1>6, <2>1, <2>2 DEF StartsAt
    <3> QED BY <1>7, <3>1 DEF StartsAt
  <2>3. CASE a < j
    <3>1. j - 1 \in a..(k - 1) /\ s[j - 1] = end
      BY <1>7, <2>1, <2>3 DEF StartsAt
    <3> QED BY <1>6, <3>1 DEF StartsAt
  <2> QED BY <2>1, <2>2, <2>3
<1> QED BY <1>5, <1>6, <1>7

\* Pieces and the unended piece hold no end
PiecesOf(s, end, V) == Pieces(s, end) \in Seq(Seq(V)) /\ Unended(s, end) \in Seq(V)
LEMMA BeforeTyped ==
    ASSUME NEW V, NEW s \in Seq(V), NEW end, NEW k \in 1..(Len(s) + 1)
    PROVE  Before(s, end, k) \in Seq(V \ {end})
<1>1. PICK j \in 1..k : j = After(s, end, k) /\ \A i \in j..(k - 1) : s[i] # end
  BY AfterStarts DEF StartsAt
<1>2. \A i \in j..(k - 1) : s[i] \in V \ {end}
  BY <1>1
<1>3. SubSeq(s, j, k - 1) \in Seq(V \ {end})
  BY <1>2, SubSeqProperties
<1> QED BY <1>1, <1>3 DEF Before

LEMMA PiecesTyped ==
    ASSUME NEW V, NEW s \in Seq(V), NEW end PROVE PiecesOf(s, end, V \ {end})
<1>1. PICK n \in Nat : n = Len(s)
  OBVIOUS
<1>2. DOMAIN s = 1..n
  BY <1>1
<1>3. \A k \in 1..(n + 1) : Before(s, end, k) \in Seq(V \ {end})
  BY <1>1, BeforeTyped
<1>4. Unended(s, end) \in Seq(V \ {end})
  <2>1. n + 1 \in 1..(n + 1)
    OBVIOUS
  <2> QED BY <1>1, <1>3, <2>1 DEF Unended
<1> DEFINE each == [k \in DOMAIN s |-> IF s[k] = end THEN <<Before(s, end, k)>> ELSE <<>>]
           W == Seq(V \ {end})
<1>5. each \in Seq(Seq(W))
  <2>1. \A k \in 1..n : Before(s, end, k) \in W
    BY <1>3
  <2> HIDE DEF W
  <2>2. each \in [1..n -> Seq(W)]
    BY <1>2, <2>1
  <2> QED BY <2>2
<1>6. Pieces(s, end) \in Seq(W)
  <2> HIDE DEF W
  <2> QED BY <1>5, FlattenType DEF Pieces
<1> QED BY <1>4, <1>6 DEF PiecesOf

LEMMA PiecesOfNothing ==
    ASSUME NEW end PROVE Pieces(<<>>, end) = <<>> /\ Unended(<<>>, end) = <<>>
<1>1. DOMAIN <<>> = {} /\ Len(<<>>) = 0
  OBVIOUS
<1>2. Pieces(<<>>, end) = <<>>
  <2>1. [k \in DOMAIN <<>> |-> IF <<>>[k] = end THEN <<Before(<<>>, end, k)>> ELSE <<>>] = <<>>
    BY <1>1
  <2> QED BY <2>1, FlattenEmpty DEF Pieces
<1>3. After(<<>>, end, 1) \in 1..1
  BY AfterStarts DEF StartsAt
<1>4. SubSeq(<<>>, 1, 0) = <<>>
  BY SubSeqEmpty
<1>5. After(<<>>, end, 1) = 1
  BY <1>3
<1> QED BY <1>1, <1>2, <1>4, <1>5 DEF Unended, Before

\* One element more ends the piece or lengthens it
Cut(s, end, x, t) ==
    /\ x = end => Pieces(t, end) = Append(Pieces(s, end), Unended(s, end))
                  /\ Unended(t, end) = <<>>
    /\ x # end => Pieces(t, end) = Pieces(s, end) /\ Unended(t, end) = Append(Unended(s, end), x)
LEMMA PiecesGrow ==
    ASSUME NEW V, NEW s \in Seq(V), NEW x \in V, NEW end
    PROVE  Cut(s, end, x, Append(s, x))
<1>1. PICK n \in Nat : n = Len(s)
  OBVIOUS
<1>2. PICK t \in Seq(V) : t = Append(s, x)
  BY AppendProperties
<1>3. /\ DOMAIN s = 1..n /\ DOMAIN t = 1..(n + 1) /\ Len(t) = n + 1 /\ t[n + 1] = x
      /\ \A k \in 1..n : t[k] = s[k]
  BY <1>1, <1>2
<1>4. ASSUME NEW k \in 1..(n + 1) PROVE After(t, end, k) = After(s, end, k)
  <2>1. PICK j : j = After(s, end, k)
    OBVIOUS
  <2>2. StartsAt(s, end, k, j)
    BY <2>1, AfterStarts
  <2>3. StartsAt(t, end, k, j)
    <3>1. j \in 1..k /\ (j = 1 \/ j - 1 \in 1..n) /\ \A i \in j..(k - 1) : i \in 1..n
      BY <2>2 DEF StartsAt
    <3> QED BY <1>3, <2>2, <3>1 DEF StartsAt
  <2> QED BY <2>1, <2>3, AfterStarts
<1>5. ASSUME NEW k \in 1..(n + 1) PROVE Before(t, end, k) = Before(s, end, k)
  <2>1. PICK j \in 1..k : j = After(s, end, k) /\ j = After(t, end, k)
    BY <1>4, AfterStarts DEF StartsAt
  <2>2. \A i \in j..(k - 1) : s[i] \in V /\ t[i] \in V /\ t[i] = s[i]
    BY <1>1, <1>3
  <2>3. /\ SubSeq(s, j, k - 1) \in Seq(V) /\ SubSeq(t, j, k - 1) \in Seq(V)
        /\ Len(SubSeq(s, j, k - 1)) = Len(SubSeq(t, j, k - 1))
        /\ Len(SubSeq(s, j, k - 1)) = k - j
        /\ \A i \in 1..(k - j) : SubSeq(s, j, k - 1)[i] = s[j + i - 1]
        /\ \A i \in 1..(k - j) : SubSeq(t, j, k - 1)[i] = t[j + i - 1]
    <3>1. j \in Int /\ k - 1 \in Int /\ (k - 1) - j + 1 = k - j
          /\ (IF j <= k - 1 THEN (k - 1) - j + 1 ELSE 0) = k - j
      OBVIOUS
    <3>2. /\ SubSeq(s, j, k - 1) \in Seq(V)
          /\ Len(SubSeq(s, j, k - 1)) = IF j <= k - 1 THEN (k - 1) - j + 1 ELSE 0
          /\ \A i \in 1..((k - 1) - j + 1) : SubSeq(s, j, k - 1)[i] = s[j + i - 1]
      BY <2>2, <3>1, SubSeqProperties, SMTT(30)
    <3>3. /\ SubSeq(t, j, k - 1) \in Seq(V)
          /\ Len(SubSeq(t, j, k - 1)) = IF j <= k - 1 THEN (k - 1) - j + 1 ELSE 0
          /\ \A i \in 1..((k - 1) - j + 1) : SubSeq(t, j, k - 1)[i] = t[j + i - 1]
      BY <2>2, <3>1, SubSeqProperties, SMTT(30)
    <3> QED BY <3>1, <3>2, <3>3
  <2>4. \A i \in 1..(k - j) : s[j + i - 1] = t[j + i - 1]
    BY <2>2
  <2>5. SubSeq(t, j, k - 1) = SubSeq(s, j, k - 1)
    BY <2>3, <2>4, SeqEqual
  <2> QED BY <2>1, <2>5 DEF Before
<1> DEFINE W == Seq(V)
           ff == [k \in 1..n |-> IF s[k] = end THEN <<Before(s, end, k)>> ELSE <<>>]
           gg == [k \in 1..(n + 1) |-> IF t[k] = end THEN <<Before(t, end, k)>> ELSE <<>>]
<1>6. Pieces(s, end) = FlattenSeq(ff) /\ Pieces(t, end) = FlattenSeq(gg)
  BY <1>3 DEF Pieces
<1>7. \A k \in 1..(n + 1) : Before(t, end, k) \in W
  <2>1. ASSUME NEW k \in 1..(n + 1) PROVE Before(t, end, k) \in Seq(V)
    <3>1. PICK j \in 1..k : j = After(t, end, k)
      BY AfterStarts DEF StartsAt
    <3>2. \A i \in j..(k - 1) : t[i] \in V
      BY <1>3
    <3>3. SubSeq(t, j, k - 1) \in Seq(V)
      BY <3>2, SubSeqProperties
    <3> QED BY <3>1, <3>3 DEF Before
  <2> QED BY <2>1
<1> HIDE DEF W
<1>8. \A k \in 1..n : k \in 1..(n + 1) /\ gg[k] = ff[k]
  BY <1>3, <1>5
<1>9. gg \in [1..(n + 1) -> Seq(W)]
  BY <1>7
<1>10. ff \in [1..n -> Seq(W)]
  BY <1>5, <1>7, <1>8
<1>11. gg[n + 1] = IF x = end THEN <<Unended(s, end)>> ELSE <<>>
  <2>1. n + 1 \in 1..(n + 1)
    OBVIOUS
  <2>2. Before(t, end, n + 1) = Unended(s, end)
    BY <1>1, <1>5, <2>1 DEF Unended
  <2> QED BY <1>3, <2>1, <2>2
<1> HIDE DEF ff, gg
<1>12. FlattenSeq(gg) = FlattenSeq(ff) \o gg[n + 1] /\ FlattenSeq(ff) \in Seq(W)
  BY <1>8, <1>9, <1>10, PositionsGrow
<1>13. Unended(s, end) \in W
  <2>1. n + 1 \in 1..(n + 1) /\ Unended(s, end) = Before(s, end, n + 1)
    BY <1>1 DEF Unended
  <2> QED BY <1>5, <1>7, <2>1
<1>14. After(t, end, n + 2) = IF x = end THEN n + 2 ELSE After(s, end, n + 1)
  <2>1. CASE x = end
    <3>1. StartsAt(t, end, n + 2, n + 2)
      BY <1>3, <2>1 DEF StartsAt
    <3> QED BY <2>1, <3>1, AfterStarts
  <2>2. CASE x # end
    <3>1. PICK j : j = After(t, end, n + 1)
      OBVIOUS
    <3>2. StartsAt(t, end, n + 1, j)
      BY <3>1, AfterStarts
    <3>3. StartsAt(t, end, n + 2, j)
      BY <1>3, <2>2, <3>2 DEF StartsAt
    <3> QED BY <1>4, <2>2, <3>1, <3>3, AfterStarts
  <2> QED BY <2>1, <2>2
<1>15. x = end => Unended(t, end) = <<>>
  <2>1. SubSeq(t, n + 2, n + 1) = <<>>
    BY SubSeqEmpty
  <2> QED BY <1>3, <1>14, <2>1 DEF Unended, Before
<1>16. x # end => Unended(t, end) = Append(Unended(s, end), x)
  <2>1. SUFFICES ASSUME x # end PROVE Unended(t, end) = Append(Unended(s, end), x)
    OBVIOUS
  <2>2. PICK j \in 1..(n + 1) : j = After(s, end, n + 1) /\ j = After(t, end, n + 1)
                                 /\ j = After(t, end, n + 2)
    BY <1>4, <1>14, <2>1, AfterStarts DEF StartsAt
  <2>3. Unended(t, end) = SubSeq(t, j, n + 1) /\ Unended(s, end) = SubSeq(t, j, n)
    <3>1. (n + 1) + 1 = n + 2 /\ (n + 2) - 1 = n + 1 /\ (n + 1) - 1 = n /\ n + 1 \in 1..(n + 1)
      OBVIOUS
    <3>2. Unended(t, end) = SubSeq(t, j, n + 1)
      BY <1>3, <2>2, <3>1 DEF Unended, Before
    <3>3. Unended(s, end) = Before(t, end, n + 1)
      BY <1>1, <1>5, <3>1 DEF Unended
    <3> QED BY <2>2, <3>1, <3>2, <3>3 DEF Before
  <2>4. SubSeq(t, j, n + 1) = SubSeq(t, j, (n + 1) - 1) \o <<t[n + 1]>>
    <3>1. j \in 1..Len(t) /\ n + 1 \in j..Len(t)
      BY <1>3
    <3> QED BY <1>3, <3>1, SubSeqRecursiveSecond
  <2>5. SubSeq(t, j, n) \in Seq(V) /\ (n + 1) - 1 = n
    BY <1>13, <2>3 DEF W
  <2>6. Unended(t, end) = Unended(s, end) \o <<x>>
    BY <1>3, <2>3, <2>4, <2>5
  <2>7. Unended(s, end) \in Seq(V)
    BY <2>3, <2>5
  <2> QED BY <2>6, <2>7, AppendIsConcat
<1>17. CASE x = end
  <2>1. Pieces(t, end) = Pieces(s, end) \o <<Unended(s, end)>>
    BY <1>6, <1>11, <1>12, <1>17
  <2>2. Pieces(t, end) = Append(Pieces(s, end), Unended(s, end))
    BY <1>6, <1>12, <1>13, <2>1, AppendIsConcat
  <2> QED BY <1>2, <1>15, <1>17, <2>2 DEF Cut
<1>18. CASE x # end
  <2>1. Pieces(t, end) = Pieces(s, end)
    BY <1>6, <1>11, <1>12, <1>18, ConcatEmptySeq
  <2> QED BY <1>2, <1>16, <1>18, <2>1 DEF Cut
<1> QED BY <1>17, <1>18

\* One byte more
Pairs(s, b, cr, end) == b = end /\ b # cr /\ s # <<>> /\ s[Len(s)] = cr
LEMMA NormalGrows ==
    ASSUME NEW V, NEW s \in Seq(V), NEW b \in V, NEW cr, NEW end \in V
    PROVE  /\ Normal(s, cr, end) \in Seq(V)
           /\ Normal(Append(s, b), cr, end) =
                 IF Pairs(s, b, cr, end) THEN Normal(s, cr, end)
                 ELSE Append(Normal(s, cr, end), IF b = cr THEN end ELSE b)
<1>1. PICK n \in Nat : n = Len(s)
  OBVIOUS
<1>2. PICK t \in Seq(V) : t = Append(s, b)
  BY AppendProperties
<1>3. /\ DOMAIN s = 1..n /\ DOMAIN t = 1..(n + 1) /\ t[n + 1] = b
      /\ \A k \in 1..n : t[k] = s[k] /\ s[k] \in V
  BY <1>1, <1>2
<1> DEFINE ff == [k \in 1..n |-> IF s[k] = cr THEN <<end>>
                                 ELSE IF s[k] = end /\ k > 1 /\ s[k - 1] = cr THEN <<>>
                                 ELSE <<s[k]>>]
           gg == [k \in 1..(n + 1) |-> IF t[k] = cr THEN <<end>>
                                       ELSE IF t[k] = end /\ k > 1 /\ t[k - 1] = cr THEN <<>>
                                       ELSE <<t[k]>>]
<1>4. Normal(s, cr, end) = FlattenSeq(ff) /\ Normal(t, cr, end) = FlattenSeq(gg)
  BY <1>3 DEF Normal
<1>5. \A k \in 1..n : k > 1 => k - 1 \in 1..n
  OBVIOUS
<1>6. \A k \in 1..n : gg[k] = ff[k]
  BY <1>3, <1>5
<1>7. ff \in [1..n -> Seq(V)]
  BY <1>3
<1>8. gg \in [1..(n + 1) -> Seq(V)]
  <2>1. \A k \in 1..(n + 1) : t[k] \in V
    BY <1>3
  <2> QED BY <2>1
<1>9. gg[n + 1] = IF Pairs(s, b, cr, end) THEN <<>> ELSE <<IF b = cr THEN end ELSE b>>
  <2>1. n + 1 \in 1..(n + 1) /\ (n + 1) - 1 = n
    OBVIOUS
  <2>2. gg[n + 1] = IF b = cr THEN <<end>>
                    ELSE IF b = end /\ n + 1 > 1 /\ t[n] = cr THEN <<>> ELSE <<b>>
    BY <1>3, <2>1
  <2>3. n + 1 > 1 => t[n] = s[n] /\ s # <<>>
    BY <1>1, <1>3
  <2>4. s # <<>> => n + 1 > 1
    BY <1>1
  <2> QED BY <1>1, <2>2, <2>3, <2>4 DEF Pairs
<1> HIDE DEF ff, gg
<1>10. FlattenSeq(gg) = FlattenSeq(ff) \o gg[n + 1] /\ FlattenSeq(ff) \in Seq(V)
  BY <1>6, <1>7, <1>8, PositionsGrow
<1>11. CASE Pairs(s, b, cr, end)
  BY <1>2, <1>4, <1>9, <1>10, <1>11, ConcatEmptySeq
<1>12. CASE ~Pairs(s, b, cr, end)
  <2>1. PICK x \in V : x = IF b = cr THEN end ELSE b
    OBVIOUS
  <2>2. FlattenSeq(ff) \o <<x>> = Append(FlattenSeq(ff), x)
    BY <1>10, AppendIsConcat
  <2> QED BY <1>2, <1>4, <1>9, <1>10, <1>12, <2>1, <2>2
<1> QED BY <1>11, <1>12

LEMMA NormalOfNothing == ASSUME NEW cr, NEW end PROVE Normal(<<>>, cr, end) = <<>>
<1>1. DOMAIN <<>> = {}
  OBVIOUS
<1>2. [k \in DOMAIN <<>> |-> IF <<>>[k] = cr THEN <<end>>
                             ELSE IF <<>>[k] = end /\ k > 1 /\ <<>>[k - 1] = cr THEN <<>>
                             ELSE <<<<>>[k]>>] = <<>>
  BY <1>1
<1> QED BY <1>2, FlattenEmpty DEF Normal

\* The lines of a stream, the line begun, and the groups of lines
LinesIn(s, cr, end) == Pieces(Normal(s, cr, end), end)
Tip(s, cr, end) == Unended(Normal(s, cr, end), end)
GroupsIn(s, cr, end) == Pieces(LinesIn(s, cr, end), <<>>)
Group(s, cr, end) == Unended(LinesIn(s, cr, end), <<>>)

StreamTyped(s, cr, end, V) ==
    /\ LinesIn(s, cr, end) \in Seq(Seq(V)) /\ Tip(s, cr, end) \in Seq(V \ {end})
    /\ GroupsIn(s, cr, end) \in Seq(Seq(Seq(V) \ {<<>>}))
    /\ Group(s, cr, end) \in Seq(Seq(V) \ {<<>>})
ByteRead(s, b, t, cr, end) ==
    /\ Pairs(s, b, cr, end) =>
          /\ Tip(t, cr, end) = Tip(s, cr, end)
          /\ GroupsIn(t, cr, end) = GroupsIn(s, cr, end) /\ Group(t, cr, end) = Group(s, cr, end)
    /\ b \notin {cr, end} =>
          /\ Tip(t, cr, end) = Append(Tip(s, cr, end), b)
          /\ GroupsIn(t, cr, end) = GroupsIn(s, cr, end) /\ Group(t, cr, end) = Group(s, cr, end)
    /\ b \in {cr, end} /\ ~Pairs(s, b, cr, end) =>
          /\ Tip(t, cr, end) = <<>>
          /\ Tip(s, cr, end) = <<>> =>
                /\ GroupsIn(t, cr, end) = Append(GroupsIn(s, cr, end), Group(s, cr, end))
                /\ Group(t, cr, end) = <<>>
          /\ Tip(s, cr, end) # <<>> =>
                /\ GroupsIn(t, cr, end) = GroupsIn(s, cr, end)
                /\ Group(t, cr, end) = Append(Group(s, cr, end), Tip(s, cr, end))

LEMMA StreamIsTyped ==
    ASSUME NEW V, NEW s \in Seq(V), NEW cr, NEW end \in V PROVE StreamTyped(s, cr, end, V)
<1>1. Normal(s, cr, end) \in Seq(V)
  BY NormalGrows
<1>2. LinesIn(s, cr, end) \in Seq(Seq(V \ {end})) /\ Tip(s, cr, end) \in Seq(V \ {end})
  BY <1>1, PiecesTyped DEF LinesIn, Tip, PiecesOf
<1>3. LinesIn(s, cr, end) \in Seq(Seq(V))
  BY <1>2
<1>4. PiecesOf(LinesIn(s, cr, end), <<>>, Seq(V) \ {<<>>})
  BY <1>3, PiecesTyped
<1> QED BY <1>2, <1>3, <1>4 DEF StreamTyped, PiecesOf, GroupsIn, Group

LEMMA NothingRead ==
    ASSUME NEW cr, NEW end
    PROVE  Tip(<<>>, cr, end) = <<>> /\ GroupsIn(<<>>, cr, end) = <<>> /\ Group(<<>>, cr, end) = <<>>
<1>1. LinesIn(<<>>, cr, end) = <<>> /\ Tip(<<>>, cr, end) = <<>>
  BY NormalOfNothing, PiecesOfNothing DEF LinesIn, Tip
<1> QED BY <1>1, PiecesOfNothing DEF GroupsIn, Group

LEMMA StreamGrows ==
    ASSUME NEW V, NEW s \in Seq(V), NEW b \in V, NEW cr, NEW end \in V
    PROVE  ByteRead(s, b, Append(s, b), cr, end)
<1>1. PICK t : t = Append(s, b)
  OBVIOUS
<1>2. PICK ns \in Seq(V) : ns = Normal(s, cr, end)
  BY NormalGrows
<1>3. PICK ls \in Seq(Seq(V)), u \in Seq(V) : ls = LinesIn(s, cr, end) /\ u = Tip(s, cr, end)
  <2>1. StreamTyped(s, cr, end, V)
    BY StreamIsTyped
  <2>2. LinesIn(s, cr, end) \in Seq(Seq(V)) /\ Tip(s, cr, end) \in Seq(V \ {end})
    BY <2>1 DEF StreamTyped
  <2>3. \A x : x \in Seq(V \ {end}) => x \in Seq(V)
    OBVIOUS
  <2> QED BY <2>2, <2>3
<1>4. CASE Pairs(s, b, cr, end)
  <2>1. Normal(t, cr, end) = Normal(s, cr, end)
    BY <1>1, <1>4, NormalGrows
  <2>2. b = end
    BY <1>4 DEF Pairs
  <2> QED BY <1>1, <1>4, <2>1, <2>2 DEF ByteRead, LinesIn, Tip, GroupsIn, Group
<1>5. CASE b \notin {cr, end}
  <2>1. ~Pairs(s, b, cr, end)
    BY <1>5 DEF Pairs
  <2>2. Normal(t, cr, end) = Append(ns, b)
    BY <1>1, <1>2, <1>5, <2>1, NormalGrows
  <2>3. Cut(ns, end, b, Append(ns, b))
    BY PiecesGrow
  <2>4. LinesIn(t, cr, end) = LinesIn(s, cr, end) /\ Tip(t, cr, end) = Append(Tip(s, cr, end), b)
    BY <1>2, <1>5, <2>2, <2>3 DEF Cut, LinesIn, Tip
  <2> QED BY <1>1, <1>5, <2>1, <2>4 DEF ByteRead, GroupsIn, Group
<1>6. CASE b \in {cr, end} /\ ~Pairs(s, b, cr, end)
  <2>1. Normal(t, cr, end) = Append(ns, end)
    <3>1. (IF b = cr THEN end ELSE b) = end
      BY <1>6
    <3> QED BY <1>1, <1>2, <1>6, <3>1, NormalGrows
  <2>2. Cut(ns, end, end, Append(ns, end))
    BY PiecesGrow
  <2>3. LinesIn(t, cr, end) = Append(ls, u) /\ Tip(t, cr, end) = <<>>
    BY <1>2, <1>3, <2>1, <2>2 DEF Cut, LinesIn, Tip
  <2>4. Cut(ls, <<>>, u, Append(ls, u))
    BY PiecesGrow
  <2> QED BY <1>1, <1>3, <1>6, <2>3, <2>4 DEF ByteRead, Cut, GroupsIn, Group
<1> QED BY <1>4, <1>5, <1>6

\* Values joined by a separator
JoinsOn(vs, v, by, V) ==
    /\ Joined(vs, by) \in Seq(V) /\ Joined(<<>>, by) = <<>>
    /\ Joined(Append(vs, v), by) =
          Joined(vs, by) \o ((IF vs = <<>> THEN <<>> ELSE <<by>>) \o v)
LEMMA JoinedGrows ==
    ASSUME NEW V, NEW vs \in Seq(Seq(V)), NEW v \in Seq(V), NEW by \in V
    PROVE  JoinsOn(vs, v, by, V)
<1>1. PICK n \in Nat : n = Len(vs)
  OBVIOUS
<1>2. PICK ws \in Seq(Seq(V)) : ws = Append(vs, v)
  BY AppendProperties
<1>3. /\ DOMAIN vs = 1..n /\ DOMAIN ws = 1..(n + 1) /\ ws[n + 1] = v
      /\ \A k \in 1..n : ws[k] = vs[k] /\ vs[k] \in Seq(V)
  BY <1>1, <1>2
<1> DEFINE ff == [k \in 1..n |-> IF k = 1 THEN vs[k] ELSE <<by>> \o vs[k]]
           gg == [k \in 1..(n + 1) |-> IF k = 1 THEN ws[k] ELSE <<by>> \o ws[k]]
<1>4. Joined(vs, by) = FlattenSeq(ff) /\ Joined(ws, by) = FlattenSeq(gg)
  BY <1>3 DEF Joined
<1>5. \A k \in 1..n : gg[k] = ff[k]
  BY <1>3
<1>6. <<by>> \in Seq(V) /\ \A w \in Seq(V) : <<by>> \o w \in Seq(V)
  OBVIOUS
<1>7. ff \in [1..n -> Seq(V)]
  BY <1>3, <1>6
<1>8. gg \in [1..(n + 1) -> Seq(V)]
  <2>1. \A k \in 1..(n + 1) : ws[k] \in Seq(V)
    BY <1>3
  <2> QED BY <1>6, <2>1
<1>9. gg[n + 1] = (IF vs = <<>> THEN <<>> ELSE <<by>>) \o v
  <2>1. n + 1 \in 1..(n + 1)
    OBVIOUS
  <2>2. CASE n = 0
    <3>1. vs = <<>>
      BY <1>1, <2>2, EmptySeq
    <3>2. <<>> \o v = v
      BY ConcatEmptySeq
    <3> QED BY <1>3, <2>1, <2>2, <3>1, <3>2
  <2>3. CASE n # 0
    <3>1. vs # <<>>
      BY <1>1, <2>3
    <3> QED BY <1>3, <2>1, <2>3, <3>1
  <2> QED BY <2>2, <2>3
<1> HIDE DEF ff, gg
<1>10. FlattenSeq(gg) = FlattenSeq(ff) \o gg[n + 1] /\ FlattenSeq(ff) \in Seq(V)
  BY <1>5, <1>7, <1>8, PositionsGrow
<1>11. Joined(<<>>, by) = <<>>
  <2>1. [k \in DOMAIN <<>> |-> IF k = 1 THEN <<>>[k] ELSE <<by>> \o <<>>[k]] = <<>>
    OBVIOUS
  <2> QED BY <2>1, FlattenEmpty DEF Joined
<1> QED BY <1>2, <1>4, <1>9, <1>10, <1>11 DEF JoinsOn

-----------------------------------------------------------------------------
(* Frames (SseFrames)                                                      *)


Symbols == FrameBytes \cup {LF}
FieldLines == Seq(Symbols) \ {<<>>}
FramesRead == [event : Seq(Symbols) \cup {NoEvent}, data : Seq(Symbols)]
FrameParsers ==
    [line_buf : Seq(Symbols), event_type : Seq(Symbols) \cup {NoEvent}, data_buf : Seq(Symbols),
     has_data : BOOLEAN, prev_cr : BOOLEAN, scratch : Int]
FrameLoops == [p : FrameParsers, frames : Seq(FramesRead), error : BOOLEAN, skip : BOOLEAN]

DataOf == [l \in FieldLines |-> IF Head(l) = DataField THEN <<Tail(l)>> ELSE <<>>]
EventNamed == [l \in FieldLines |-> IF Head(l) = EventField THEN <<Tail(l)>> ELSE <<>>]
FramesMade == [g \in Seq(FieldLines) |-> Frames!FrameOf(g)]

LEMMA LineTyped ==
    ASSUME NEW l \in FieldLines
    PROVE  l \in Seq(Symbols) /\ l # <<>> /\ Tail(l) \in Seq(Symbols) /\ Head(l) \in Symbols
<1>1. l \in Seq(Symbols) /\ l # <<>>
  BY DEF FieldLines
<1> QED BY <1>1

\* The reference format is the one of EventStreams
LEMMA FramesFormat ==
    ASSUME NEW s, NEW end, NEW by
    PROVE  /\ Frames!Pieces(s, end) = Pieces(s, end)
           /\ Frames!Normal(s, CR, end) = Normal(s, CR, end)
           /\ Frames!Joined(s, by) = Joined(s, by)
<1>1. \A x : Frames!FlattenSeq(x) = FlattenSeq(x)
  BY DEF Frames!FlattenSeq, FlattenSeq
<1>2. \A k : Frames!Before(s, end, k) = Before(s, end, k)
  BY DEF Frames!Before, Before, Frames!After, After
<1>3. Frames!Pieces(s, end) = Pieces(s, end)
  BY <1>1, <1>2 DEF Frames!Pieces, Pieces
<1>4. Frames!Normal(s, CR, end) = Normal(s, CR, end)
  BY <1>1 DEF Frames!Normal, Normal
<1>5. Frames!Joined(s, by) = Joined(s, by)
  BY <1>1 DEF Frames!Joined, Joined
<1> QED BY <1>3, <1>4, <1>5

\* The fields of a group, one line after the other
FieldsOf(g) ==
    /\ Frames!DataLines(g) = FlatMap(DataOf, g) /\ Frames!EventLines(g) = FlatMap(EventNamed, g)
    /\ Frames!DataLines(g) \in Seq(Seq(Symbols)) /\ Frames!EventLines(g) \in Seq(Seq(Symbols))
LEMMA FieldLinesTyped ==
    /\ DataOf \in [FieldLines -> Seq(Seq(Symbols))]
    /\ EventNamed \in [FieldLines -> Seq(Seq(Symbols))]
<1>1. \A l \in FieldLines : Tail(l) \in Seq(Symbols)
  BY LineTyped
<1> QED BY <1>1 DEF DataOf, EventNamed

LEMMA FieldsTyped == ASSUME NEW g \in Seq(FieldLines) PROVE FieldsOf(g)
<1>1. \A k \in DOMAIN g : g[k] \in FieldLines
  OBVIOUS
<1>2. [k \in DOMAIN g |-> IF Head(g[k]) = DataField THEN <<Tail(g[k])>> ELSE <<>>]
        = [k \in DOMAIN g |-> DataOf[g[k]]]
  BY <1>1 DEF DataOf
<1>3. [k \in DOMAIN g |-> IF Head(g[k]) = EventField THEN <<Tail(g[k])>> ELSE <<>>]
        = [k \in DOMAIN g |-> EventNamed[g[k]]]
  BY <1>1 DEF EventNamed
<1>4. \A x : Frames!FlattenSeq(x) = FlattenSeq(x)
  BY DEF Frames!FlattenSeq, FlattenSeq
<1>5. Frames!DataLines(g) = FlatMap(DataOf, g) /\ Frames!EventLines(g) = FlatMap(EventNamed, g)
  BY <1>2, <1>3, <1>4 DEF Frames!DataLines, Frames!EventLines, FlatMap
<1>6. Grows(DataOf, g, FieldLines, Seq(Symbols)) /\ Grows(EventNamed, g, FieldLines, Seq(Symbols))
  BY FieldLinesTyped, FlatMapGrows
<1> QED BY <1>5, <1>6 DEF Grows, FieldsOf

\* The fields with one line more
FieldAdded(g, l) ==
    /\ Frames!DataLines(Append(g, l)) =
          IF Head(l) = DataField THEN Append(Frames!DataLines(g), Tail(l)) ELSE Frames!DataLines(g)
    /\ Frames!EventOf(Append(g, l)) = IF Head(l) = EventField THEN Tail(l) ELSE Frames!EventOf(g)
    /\ Frames!EventOf(g) \in Seq(Symbols) \cup {NoEvent}
    /\ Frames!DataLines(<<>>) = <<>> /\ Frames!EventOf(<<>>) = NoEvent
LEMMA FieldsAreAdded ==
    ASSUME NEW g \in Seq(FieldLines), NEW l \in FieldLines PROVE FieldAdded(g, l)
<1>1. PICK h \in Seq(FieldLines) : h = Append(g, l)
  BY AppendProperties
<1>2. FieldsOf(g) /\ FieldsOf(h) /\ FieldsOf(<<>>)
  BY FieldsTyped, EmptySeq
<1>3. Grows(DataOf, g, FieldLines, Seq(Symbols)) /\ Grows(EventNamed, g, FieldLines, Seq(Symbols))
  BY FieldLinesTyped, FlatMapGrows
<1>4. PICK w \in Seq(Symbols) : w = Tail(l)
  BY LineTyped
<1>5. PICK ds \in Seq(Seq(Symbols)), es \in Seq(Seq(Symbols)) :
         ds = Frames!DataLines(g) /\ es = Frames!EventLines(g)
  BY <1>2 DEF FieldsOf
<1>6. ds \o <<>> = ds /\ es \o <<>> = es
  BY ConcatEmptySeq
<1>7. ds \o <<w>> = Append(ds, w) /\ es \o <<w>> = Append(es, w)
  BY AppendIsConcat
<1>8. Frames!DataLines(h) = IF Head(l) = DataField THEN Append(ds, w) ELSE ds
  <2>1. Frames!DataLines(h) = ds \o DataOf[l]
    BY <1>1, <1>2, <1>3, <1>5 DEF FieldsOf, Grows
  <2>2. DataOf[l] = IF Head(l) = DataField THEN <<w>> ELSE <<>>
    BY <1>4 DEF DataOf
  <2> QED BY <1>6, <1>7, <2>1, <2>2
<1>9. Frames!EventLines(h) = IF Head(l) = EventField THEN Append(es, w) ELSE es
  <2>1. Frames!EventLines(h) = es \o EventNamed[l]
    BY <1>1, <1>2, <1>3, <1>5 DEF FieldsOf, Grows
  <2>2. EventNamed[l] = IF Head(l) = EventField THEN <<w>> ELSE <<>>
    BY <1>4 DEF EventNamed
  <2> QED BY <1>6, <1>7, <2>1, <2>2
<1>10. Append(es, w) # <<>> /\ Frames!Last(Append(es, w)) = w
  <2>1. Len(Append(es, w)) = Len(es) + 1 /\ Append(es, w)[Len(es) + 1] = w /\ Len(es) \in Nat
    BY AppendProperties
  <2> QED BY <2>1 DEF Frames!Last
<1>11. Frames!EventOf(h) = IF Head(l) = EventField THEN w ELSE Frames!EventOf(g)
  BY <1>5, <1>9, <1>10 DEF Frames!EventOf
<1>12. Frames!EventOf(g) \in Seq(Symbols) \cup {NoEvent}
  <2>1. CASE es = <<>>
    BY <1>5, <2>1 DEF Frames!EventOf
  <2>2. CASE es # <<>>
    <3>1. Len(es) \in 1..Len(es)
      BY <2>2, EmptySeq
    <3>2. es[Len(es)] \in Seq(Symbols)
      BY <3>1
    <3> QED BY <1>5, <2>2, <3>2 DEF Frames!EventOf, Frames!Last
  <2> QED BY <2>1, <2>2
<1>13. Frames!DataLines(<<>>) = <<>> /\ Frames!EventLines(<<>>) = <<>>
  BY <1>2, <1>3 DEF FieldsOf, Grows
<1> QED BY <1>1, <1>4, <1>5, <1>8, <1>11, <1>12, <1>13 DEF FieldAdded, Frames!EventOf

\* The data of a group with one line more
DataGiven(g) == Frames!Joined(Frames!DataLines(g), LF)
LEMMA DataGrows ==
    ASSUME NEW g \in Seq(FieldLines), NEW l \in FieldLines
    PROVE  /\ DataGiven(g) \in Seq(Symbols) /\ DataGiven(<<>>) = <<>>
           /\ DataGiven(Append(g, l)) =
                 IF Head(l) = DataField
                 THEN DataGiven(g) \o ((IF Frames!DataLines(g) = <<>> THEN <<>> ELSE <<LF>>)
                                       \o Tail(l))
                 ELSE DataGiven(g)
<1>1. FieldAdded(g, l)
  BY FieldsAreAdded
<1>2. PICK ds \in Seq(Seq(Symbols)) : ds = Frames!DataLines(g)
  BY FieldsTyped DEF FieldsOf
<1>3. PICK w \in Seq(Symbols) : w = Tail(l)
  BY LineTyped
<1>4. LF \in Symbols
  BY DEF Symbols
<1>5. JoinsOn(ds, w, LF, Symbols)
  BY <1>4, JoinedGrows
<1>6. \A x : Frames!Joined(x, LF) = Joined(x, LF)
  BY FramesFormat
<1> QED BY <1>1, <1>2, <1>3, <1>5, <1>6 DEF FieldAdded, DataGiven, JoinsOn

LEMMA SomeLine == <<LF>> \in FieldLines
<1>1. LF \in Symbols
  BY DEF Symbols
<1> QED BY <1>1 DEF FieldLines

LEMMA FrameTyped == ASSUME NEW g \in Seq(FieldLines) PROVE Frames!FrameOf(g) \in Seq(FramesRead)
<1>1. PICK d \in Seq(Symbols) : d = DataGiven(g)
  BY SomeLine, DataGrows
<1>2. PICK e \in Seq(Symbols) \cup {NoEvent} : e = Frames!EventOf(g)
  <2>1. FieldAdded(g, <<LF>>)
    BY SomeLine, FieldsAreAdded
  <2> QED BY <2>1 DEF FieldAdded
<1>3. [event |-> e, data |-> d] \in FramesRead
  BY DEF FramesRead
<1>4. <<[event |-> e, data |-> d]>> \in Seq(FramesRead) /\ <<>> \in Seq(FramesRead)
  BY <1>3
<1> QED BY <1>1, <1>2, <1>4 DEF Frames!FrameOf, DataGiven

\* The frames of a stream with one byte more
FramesUpTo(s) == Frames!WholeFrames(s)
FramesOn(s, g) ==
    /\ FramesUpTo(s) = FlatMap(FramesMade, GroupsIn(s, CR, LF))
    /\ FramesUpTo(s) \in Seq(FramesRead)
LEMMA FramesMapped == ASSUME NEW s \in Seq(Symbols) PROVE FramesOn(s, Group(s, CR, LF))
<1>1. PICK gs \in Seq(Seq(FieldLines)) : gs = GroupsIn(s, CR, LF)
  <2>1. LF \in Symbols
    BY DEF Symbols
  <2>2. StreamTyped(s, CR, LF, Symbols)
    BY <2>1, StreamIsTyped
  <2> QED BY <2>2 DEF StreamTyped, FieldLines
<1>2. gs = Frames!Pieces(Frames!WholeLines(s), <<>>)
  BY <1>1, FramesFormat DEF GroupsIn, LinesIn, Frames!WholeLines
<1>3. \A k \in DOMAIN gs : gs[k] \in Seq(FieldLines)
  OBVIOUS
<1>4. [j \in DOMAIN gs |-> Frames!FrameOf(gs[j])] = [j \in DOMAIN gs |-> FramesMade[gs[j]]]
  BY <1>3 DEF FramesMade
<1>5. FramesUpTo(s) = FlatMap(FramesMade, gs)
  <2>1. \A x : Frames!FlattenSeq(x) = FlattenSeq(x)
    BY DEF Frames!FlattenSeq, FlattenSeq
  <2> QED BY <1>2, <1>4, <2>1 DEF FramesUpTo, Frames!WholeFrames, FlatMap
<1>6. FramesMade \in [Seq(FieldLines) -> Seq(FramesRead)]
  BY FrameTyped DEF FramesMade
<1>7. Grows(FramesMade, gs, Seq(FieldLines), FramesRead)
  BY <1>6, FlatMapGrows
<1> QED BY <1>1, <1>5, <1>7 DEF FramesOn, Grows

LEMMA FramesGrow ==
    ASSUME NEW s \in Seq(Symbols), NEW t \in Seq(Symbols)
    PROVE  /\ GroupsIn(t, CR, LF) = GroupsIn(s, CR, LF) => FramesUpTo(t) = FramesUpTo(s)
           /\ GroupsIn(t, CR, LF) = Append(GroupsIn(s, CR, LF), Group(s, CR, LF)) =>
                 FramesUpTo(t) = FramesUpTo(s) \o Frames!FrameOf(Group(s, CR, LF))
<1>1. FramesOn(s, Group(s, CR, LF)) /\ FramesOn(t, Group(t, CR, LF))
  BY FramesMapped
<1>2. LF \in Symbols
  BY DEF Symbols
<1>3. StreamTyped(s, CR, LF, Symbols)
  BY <1>2, StreamIsTyped
<1>4. PICK gs \in Seq(Seq(FieldLines)) : gs = GroupsIn(s, CR, LF)
  BY <1>3 DEF StreamTyped, FieldLines
<1>5. PICK g \in Seq(FieldLines) : g = Group(s, CR, LF)
  BY <1>3 DEF StreamTyped, FieldLines
<1>6. FramesMade \in [Seq(FieldLines) -> Seq(FramesRead)]
  BY FrameTyped DEF FramesMade
<1>7. Grows(FramesMade, gs, Seq(FieldLines), FramesRead)
  BY <1>6, FlatMapGrows
<1>8. FlatMap(FramesMade, Append(gs, g)) = FlatMap(FramesMade, gs) \o FramesMade[g]
  BY <1>7 DEF Grows
<1>9. FramesMade[g] = Frames!FrameOf(g)
  BY DEF FramesMade
<1> QED BY <1>1, <1>4, <1>5, <1>8, <1>9 DEF FramesOn

\* What the parser holds after the stream s
EndsInCR(s) == s # <<>> /\ s[Len(s)] = CR
Holds(q, s) ==
    /\ q.line_buf = Tip(s, CR, LF)
    /\ q.event_type = Frames!EventOf(Group(s, CR, LF))
    /\ q.data_buf = DataGiven(Group(s, CR, LF))
    /\ q.has_data = (Frames!DataLines(Group(s, CR, LF)) # <<>>)
    /\ q.scratch = Frames!BufferedBytes(q) /\ q.scratch <= MaxBuffer
\* ... and the loop over a chunk, after the frames of earlier chunks
FramesKept(a, before, s) ==
    a.error \/ /\ Holds(a.p, s) /\ before \o a.frames = FramesUpTo(s)
               /\ a.skip = EndsInCR(s)

LEMMA BytesCounted ==
    ASSUME NEW q \in FrameParsers
    PROVE  /\ Len(q.line_buf) \in Nat /\ Len(q.data_buf) \in Nat
           /\ Frames!BufferedBytes(q) \in Nat
<1>1. Len(q.line_buf) \in Nat /\ Len(q.data_buf) \in Nat
  BY DEF FrameParsers
<1>2. PICK n \in Nat : n = IF q.event_type = NoEvent THEN 0 ELSE Len(q.event_type)
  <2>1. q.event_type \in Seq(Symbols) \cup {NoEvent}
    BY DEF FrameParsers
  <2>2. CASE q.event_type = NoEvent
    BY <2>2
  <2>3. CASE q.event_type # NoEvent
    <3>1. Len(q.event_type) \in Nat
      BY <2>1, <2>3
    <3> QED BY <2>3, <3>1
  <2> QED BY <2>2, <2>3
<1>3. PICK k \in Nat, m \in Nat : k = Len(q.line_buf) /\ m = Len(q.data_buf)
  BY <1>1
<1>4. Frames!BufferedBytes(q) = k + m + n
  BY <1>2, <1>3 DEF Frames!BufferedBytes
<1> QED BY <1>1, <1>4

\* Parsers with some fields set
LEMMA ParserReset ==
    ASSUME NEW q \in FrameParsers, NEW r,
           r = [q EXCEPT !.data_buf = <<>>, !.has_data = FALSE, !.event_type = NoEvent]
    PROVE  r \in FrameParsers /\ r.event_type = NoEvent /\ r.data_buf = <<>> /\ r.has_data = FALSE
<1>1. <<>> \in Seq(Symbols)
  OBVIOUS
<1> QED BY <1>1 DEF FrameParsers

LEMMA NotEmptied == ASSUME NEW V, NEW s \in Seq(V), NEW x \in V PROVE Append(s, x) # <<>>
<1>1. Len(Append(s, x)) = Len(s) + 1 /\ Len(s) \in Nat
  BY AppendProperties
<1> QED BY <1>1

\* process_line
LineRead(q) == Frames!ProcessLine(q)
LEMMA LineProcessed ==
    ASSUME FieldsTold, NEW q \in FrameParsers, NEW g \in Seq(FieldLines),
           q.event_type = Frames!EventOf(g), q.data_buf = DataGiven(g),
           q.has_data = (Frames!DataLines(g) # <<>>)
    PROVE  /\ LineRead(q).p \in FrameParsers /\ LineRead(q).frame \in Seq(FramesRead)
           /\ q.line_buf = <<>> =>
                 /\ LineRead(q).frame = Frames!FrameOf(g)
                 /\ LineRead(q).p.event_type = NoEvent /\ LineRead(q).p.data_buf = <<>>
                 /\ LineRead(q).p.has_data = FALSE
           /\ q.line_buf # <<>> =>
                 LET h == Append(g, q.line_buf) IN
                 /\ LineRead(q).frame = <<>>
                 /\ LineRead(q).p.event_type = Frames!EventOf(h)
                 /\ LineRead(q).p.data_buf = DataGiven(h)
                 /\ LineRead(q).p.has_data = (Frames!DataLines(h) # <<>>)
<1>1. q.line_buf \in Seq(Symbols) /\ q.data_buf \in Seq(Symbols)
      /\ q.event_type \in Seq(Symbols) \cup {NoEvent}
  BY DEF FrameParsers
<1>2. CASE q.line_buf = <<>>
  <2> DEFINE r == [q EXCEPT !.data_buf = <<>>, !.has_data = FALSE, !.event_type = NoEvent]
             made == IF q.has_data THEN <<[event |-> q.event_type, data |-> q.data_buf]>>
                     ELSE <<>>
  <2>1. LineRead(q) = [frame |-> made, p |-> r]
    BY <1>2 DEF LineRead, Frames!ProcessLine, Frames!Blank
  <2>2. r \in FrameParsers /\ r.event_type = NoEvent /\ r.data_buf = <<>> /\ r.has_data = FALSE
    BY ParserReset
  <2>3. made = Frames!FrameOf(g)
    BY DEF Frames!FrameOf, DataGiven
  <2>4. made \in Seq(FramesRead)
    BY <2>3, FrameTyped
  <2> HIDE DEF r, made
  <2> QED BY <1>2, <2>1, <2>2, <2>3, <2>4
<1>3. CASE q.line_buf # <<>>
  <2>1. PICK l \in FieldLines : l = q.line_buf
    BY <1>1, <1>3 DEF FieldLines
  <2>2. PICK w \in Seq(Symbols) : w = Tail(l)
    BY LineTyped
  <2>3. FieldAdded(g, l)
    BY FieldsAreAdded
  <2>4. DataGiven(Append(g, l)) =
           IF Head(l) = DataField
           THEN DataGiven(g) \o ((IF Frames!DataLines(g) = <<>> THEN <<>> ELSE <<LF>>) \o w)
           ELSE DataGiven(g)
    BY <2>2, DataGrows
  <2>5. PICK sep \in Seq(Symbols) : sep = IF q.has_data THEN <<LF>> ELSE <<>>
    <3>1. <<LF>> \in Seq(Symbols) /\ <<>> \in Seq(Symbols)
      BY DEF Symbols
    <3> QED BY <3>1
  <2> DEFINE d == [q EXCEPT !.has_data = TRUE, !.data_buf = @ \o sep \o w]
             e == [q EXCEPT !.event_type = w]
  <2>6. LineRead(q).frame = <<>>
        /\ LineRead(q).p = IF Head(l) = DataField THEN d ELSE IF Head(l) = EventField THEN e ELSE q
    BY <1>3, <2>1, <2>2, <2>5, FieldsTold DEF LineRead, Frames!ProcessLine, FieldsTold
  <2>7. (q.data_buf \o sep) \o w = q.data_buf \o (sep \o w)
        /\ (q.data_buf \o sep) \o w \in Seq(Symbols)
    BY <1>1, ConcatAssociative, ConcatProperties, SMTT(30)
  <2>8. /\ d \in FrameParsers /\ d.has_data = TRUE /\ d.event_type = q.event_type
        /\ d.data_buf = q.data_buf \o (sep \o w)
    BY <2>7 DEF FrameParsers
  <2>9. /\ e \in FrameParsers /\ e.has_data = q.has_data /\ e.event_type = w
        /\ e.data_buf = q.data_buf
    BY DEF FrameParsers
  <2> HIDE DEF d, e
  <2>10. PICK ds \in Seq(Seq(Symbols)) : ds = Frames!DataLines(g)
    BY FieldsTyped DEF FieldsOf
  <2>11. Append(ds, w) # <<>>
    BY NotEmptied
  <2>12. <<>> \in Seq(FramesRead)
    OBVIOUS
  <2>13. CASE Head(l) = DataField
    <3>1. Head(l) # EventField
      BY <2>13 DEF FieldsTold
    <3> QED BY <1>3, <2>1, <2>2, <2>3, <2>4, <2>5, <2>6, <2>8, <2>10, <2>11, <2>12, <2>13, <3>1
            DEF FieldAdded
  <2>14. CASE Head(l) = EventField /\ Head(l) # DataField
    BY <1>3, <2>1, <2>2, <2>3, <2>4, <2>6, <2>9, <2>12, <2>14 DEF FieldAdded
  <2>15. CASE Head(l) # EventField /\ Head(l) # DataField
    BY <1>3, <2>1, <2>3, <2>4, <2>6, <2>12, <2>15 DEF FieldAdded
  <2> QED BY <2>13, <2>14, <2>15
<1> QED BY <1>2, <1>3

\* Parsers with a line buffer and a count set
LineEnded(r) == [r EXCEPT !.line_buf = <<>>]
Recounted(r, n) == [r EXCEPT !.scratch = n]
LineLonger(q, b) == [q EXCEPT !.line_buf = Append(@, b), !.scratch = @ + 1]
LEMMA LineSet ==
    ASSUME NEW r \in FrameParsers, NEW n \in Nat, NEW b \in Symbols
    PROVE  /\ Recounted(LineEnded(r), n) \in FrameParsers /\ LineEnded(r) \in FrameParsers
           /\ Recounted(LineEnded(r), n).line_buf = <<>> /\ Recounted(LineEnded(r), n).scratch = n
           /\ Recounted(LineEnded(r), n).event_type = r.event_type
           /\ Recounted(LineEnded(r), n).data_buf = r.data_buf
           /\ Recounted(LineEnded(r), n).has_data = r.has_data
           /\ LineLonger(r, b) \in FrameParsers
           /\ LineLonger(r, b).line_buf = Append(r.line_buf, b)
           /\ LineLonger(r, b).scratch = r.scratch + 1
           /\ LineLonger(r, b).event_type = r.event_type
           /\ LineLonger(r, b).data_buf = r.data_buf
           /\ LineLonger(r, b).has_data = r.has_data
<1>1. <<>> \in Seq(Symbols) /\ n \in Int
  OBVIOUS
<1>2. r.line_buf \in Seq(Symbols) /\ r.scratch \in Int
  BY DEF FrameParsers
<1>3. Append(r.line_buf, b) \in Seq(Symbols) /\ r.scratch + 1 \in Int
  BY <1>2, AppendProperties
<1>4. LineEnded(r) \in FrameParsers
  BY <1>1 DEF LineEnded, FrameParsers
<1>5. Recounted(LineEnded(r), n) \in FrameParsers
  BY <1>1, <1>4 DEF Recounted, FrameParsers
<1>6. LineLonger(r, b) \in FrameParsers
  BY <1>3 DEF LineLonger, FrameParsers
<1>7. /\ Recounted(LineEnded(r), n).line_buf = <<>> /\ Recounted(LineEnded(r), n).scratch = n
      /\ Recounted(LineEnded(r), n).event_type = r.event_type
      /\ Recounted(LineEnded(r), n).data_buf = r.data_buf
      /\ Recounted(LineEnded(r), n).has_data = r.has_data
  BY DEF Recounted, LineEnded, FrameParsers
<1>8. /\ LineLonger(r, b).line_buf = Append(r.line_buf, b)
      /\ LineLonger(r, b).scratch = r.scratch + 1
      /\ LineLonger(r, b).event_type = r.event_type
      /\ LineLonger(r, b).data_buf = r.data_buf
      /\ LineLonger(r, b).has_data = r.has_data
  BY DEF LineLonger, FrameParsers
<1> QED BY <1>4, <1>5, <1>6, <1>7, <1>8

LEMMA CountedByBuffers ==
    ASSUME NEW q \in FrameParsers, NEW b \in Symbols
    PROVE  /\ Frames!BufferedBytes(LineLonger(q, b)) = Frames!BufferedBytes(q) + 1
           /\ \A n \in Nat : Frames!BufferedBytes(Recounted(LineEnded(q), n))
                                = Frames!BufferedBytes(LineEnded(q))
<1>1. PICK e : e = IF q.event_type = NoEvent THEN 0 ELSE Len(q.event_type)
  OBVIOUS
<1>2. q.line_buf \in Seq(Symbols)
  BY DEF FrameParsers
<1>3. PICK k \in Nat, m \in Nat : k = Len(q.line_buf) /\ m = Len(q.data_buf)
  BY BytesCounted
<1>4. Len(Append(q.line_buf, b)) = k + 1
  BY <1>2, <1>3, AppendProperties
<1>5. e \in Nat
  <2>1. q.event_type \in Seq(Symbols) \cup {NoEvent}
    BY DEF FrameParsers
  <2>2. CASE q.event_type = NoEvent
    BY <1>1, <2>2
  <2>3. CASE q.event_type # NoEvent
    <3>1. Len(q.event_type) \in Nat
      BY <2>1, <2>3
    <3> QED BY <1>1, <2>3, <3>1
  <2> QED BY <2>2, <2>3
<1>6. Frames!BufferedBytes(LineLonger(q, b)) = Frames!BufferedBytes(q) + 1
  <2>1. PICK r : r = LineLonger(q, b)
    OBVIOUS
  <2>2. r.line_buf = Append(q.line_buf, b) /\ r.event_type = q.event_type /\ r.data_buf = q.data_buf
    <3>1. 0 \in Nat
      OBVIOUS
    <3> QED BY <2>1, <3>1, LineSet
  <2>3. Frames!BufferedBytes(r) = (k + 1) + m + e
    BY <1>1, <1>3, <1>4, <2>2 DEF Frames!BufferedBytes
  <2>4. Frames!BufferedBytes(q) = k + m + e
    BY <1>1, <1>3 DEF Frames!BufferedBytes
  <2> QED BY <1>5, <2>1, <2>3, <2>4
<1>7. ASSUME NEW n \in Nat
      PROVE  Frames!BufferedBytes(Recounted(LineEnded(q), n)) = Frames!BufferedBytes(LineEnded(q))
  <2>1. PICK r : r = LineEnded(q)
    OBVIOUS
  <2>2. PICK x : x = Recounted(LineEnded(q), n)
    OBVIOUS
  <2>3. x.line_buf = r.line_buf /\ x.event_type = r.event_type /\ x.data_buf = r.data_buf
    BY <2>1, <2>2 DEF Recounted, LineEnded, FrameParsers
  <2> QED BY <2>1, <2>2, <2>3 DEF Frames!BufferedBytes
<1> QED BY <1>6, <1>7

\* One byte
LoopRead(a, b, t) ==
    /\ Frames!ParseByte(a, b) \in FrameLoops
    /\ FramesKept(Frames!ParseByte(a, b), frames, t)
LEMMA ByteParsed ==
    ASSUME FieldsTold, frames \in Seq(FramesRead), NEW a \in FrameLoops, NEW s \in Seq(Symbols),
           NEW b \in Symbols, FramesKept(a, frames, s)
    PROVE  LoopRead(a, b, Append(s, b))
<1>1. PICK q \in FrameParsers, made \in Seq(FramesRead) : q = a.p /\ made = a.frames
  BY DEF FrameLoops
<1>2. a.error \in BOOLEAN /\ a.skip \in BOOLEAN
  BY DEF FrameLoops
<1>3. PICK t \in Seq(Symbols) : t = Append(s, b)
  BY AppendProperties
<1>4. ByteRead(s, b, t, CR, LF)
  <2>1. LF \in Symbols
    BY DEF Symbols
  <2> QED BY <1>3, <2>1, StreamGrows
<1>5. EndsInCR(t) = (b = CR)
  <2>1. Len(t) = Len(s) + 1 /\ t[Len(s) + 1] = b /\ Len(s) \in Nat
    BY <1>3, AppendProperties
  <2>2. t # <<>>
    BY <2>1
  <2> QED BY <2>1, <2>2 DEF EndsInCR
<1>6. CASE a.error
  <2>1. Frames!ParseByte(a, b) = a
    BY <1>6 DEF Frames!ParseByte
  <2> QED BY <1>6, <2>1 DEF LoopRead, FramesKept
<1>7. ASSUME ~a.error
      PROVE  Holds(q, s) /\ frames \o made = FramesUpTo(s) /\ a.skip = EndsInCR(s)
  BY <1>1, <1>7 DEF FramesKept
<1>8. CASE ~a.error /\ a.skip /\ b = LF
  <2>1. Pairs(s, b, CR, LF)
    BY <1>7, <1>8 DEF EndsInCR, Pairs, FieldsTold
  <2>2. Frames!ParseByte(a, b) = [a EXCEPT !.skip = FALSE]
    BY <1>8 DEF Frames!ParseByte
  <2>3. PICK c \in FrameLoops : c = Frames!ParseByte(a, b) /\ c.p = a.p /\ c.frames = a.frames
                               /\ c.skip = FALSE /\ c.error = a.error
    <3>1. [a EXCEPT !.skip = FALSE] \in FrameLoops
      BY DEF FrameLoops
    <3> QED BY <2>2, <3>1 DEF FrameLoops
  <2>4. FramesUpTo(t) = FramesUpTo(s)
    BY <1>4, <2>1, FramesGrow DEF ByteRead
  <2>5. Holds(q, t)
    BY <1>4, <1>7, <1>8, <2>1 DEF ByteRead, Holds
  <2>6. EndsInCR(t) = FALSE
    BY <1>5, <1>8 DEF FieldsTold
  <2>7. FramesKept(c, frames, t)
    BY <1>1, <1>7, <1>8, <2>3, <2>4, <2>5, <2>6 DEF FramesKept
  <2> QED BY <1>3, <2>3, <2>7 DEF LoopRead
<1>9. ASSUME ~a.error, ~(a.skip /\ b = LF) PROVE ~Pairs(s, b, CR, LF)
  BY <1>7, <1>9 DEF EndsInCR, Pairs
<1>10. CASE ~a.error /\ ~(a.skip /\ b = LF) /\ b \in {CR, LF}
  <2>1. PICK g \in Seq(FieldLines) : g = Group(s, CR, LF)
    <3>1. LF \in Symbols
      BY DEF Symbols
    <3>2. StreamTyped(s, CR, LF, Symbols)
      BY <3>1, StreamIsTyped
    <3> QED BY <3>2 DEF StreamTyped, FieldLines
  <2>2. q.event_type = Frames!EventOf(g) /\ q.data_buf = DataGiven(g)
        /\ q.has_data = (Frames!DataLines(g) # <<>>) /\ q.line_buf = Tip(s, CR, LF)
    BY <1>7, <1>10, <2>1 DEF Holds
  <2>3. PICK r \in FrameParsers, fr \in Seq(FramesRead) : r = LineRead(q).p /\ fr = LineRead(q).frame
    BY <2>2, LineProcessed
  <2>4. PICK n \in Nat : n = Frames!BufferedBytes(LineEnded(r))
    <3>1. LineEnded(r) \in FrameParsers
      <4>1. 0 \in Nat
        OBVIOUS
      <4> QED BY <4>1, LineSet
    <3> QED BY <3>1, BytesCounted
  <2>5. PICK x \in FrameParsers :
           /\ x = Recounted(LineEnded(r), n) /\ x.line_buf = <<>> /\ x.scratch = n
           /\ x.event_type = r.event_type /\ x.data_buf = r.data_buf /\ x.has_data = r.has_data
    BY LineSet
  <2>6. PICK fs \in Seq(FramesRead) : fs = made \o fr
    BY ConcatProperties
  <2>7. PICK c : c = Frames!ParseByte(a, b)
    OBVIOUS
  <2>8. c = [p |-> x, frames |-> fs, skip |-> b = CR,
             error |-> Len(frames) + Len(fs) > MaxFrameEvents \/ ~(x.scratch <= MaxBuffer)]
    BY <1>1, <1>10, <2>3, <2>4, <2>5, <2>6, <2>7
       DEF Frames!ParseByte, Frames!Terminator, Frames!CheckBufferLimit, LineRead, LineEnded, Recounted
  <2>9. c \in FrameLoops /\ c.p = x /\ c.frames = fs /\ c.skip = (b = CR)
        /\ (~c.error => n <= MaxBuffer)
    <3>1. PICK e \in BOOLEAN :
             e <=> (Len(frames) + Len(fs) > MaxFrameEvents \/ ~(x.scratch <= MaxBuffer))
      OBVIOUS
    <3>2. (b = CR) \in BOOLEAN
      BY Zenon
    <3>3. c = [p |-> x, frames |-> fs, skip |-> b = CR, error |-> e]
      BY <2>8, <3>1
    <3> QED BY <2>5, <3>1, <3>2, <3>3 DEF FrameLoops
  <2>10. frames \o fs = FramesUpTo(s) \o fr
    <3>1. (frames \o made) \o fr = frames \o (made \o fr)
      BY ConcatAssociative
    <3> QED BY <1>7, <1>10, <2>6, <3>1
  <2>11. Frames!BufferedBytes(x) = n
    BY <2>4, <2>5, CountedByBuffers
  <2>12. Tip(t, CR, LF) = <<>>
    BY <1>4, <1>9, <1>10 DEF ByteRead
  <2>13. CASE q.line_buf = <<>>
    <3>1. GroupsIn(t, CR, LF) = Append(GroupsIn(s, CR, LF), g) /\ Group(t, CR, LF) = <<>>
      BY <1>4, <1>9, <1>10, <2>1, <2>2, <2>13 DEF ByteRead
    <3>2. FramesUpTo(t) = FramesUpTo(s) \o Frames!FrameOf(g)
      BY <2>1, <3>1, FramesGrow
    <3>3. fr = Frames!FrameOf(g) /\ r.event_type = NoEvent /\ r.data_buf = <<>>
          /\ r.has_data = FALSE
      BY <2>2, <2>3, <2>13, LineProcessed
    <3>4. Frames!EventOf(<<>>) = NoEvent /\ DataGiven(<<>>) = <<>> /\ Frames!DataLines(<<>>) = <<>>
      <4>1. <<>> \in Seq(FieldLines)
        OBVIOUS
      <4>2. FieldAdded(<<>>, <<LF>>)
        BY <4>1, SomeLine, FieldsAreAdded
      <4>3. DataGiven(<<>>) = <<>>
        BY <4>1, SomeLine, DataGrows
      <4> QED BY <4>2, <4>3 DEF FieldAdded
    <3>5. c.error \/ Holds(x, t)
      BY <2>5, <2>9, <2>11, <2>12, <3>1, <3>3, <3>4 DEF Holds
    <3> QED BY <1>3, <1>5, <2>7, <2>9, <2>10, <3>2, <3>3, <3>5 DEF LoopRead, FramesKept
  <2>14. CASE q.line_buf # <<>>
    <3>1. GroupsIn(t, CR, LF) = GroupsIn(s, CR, LF) /\ Group(t, CR, LF) = Append(g, q.line_buf)
      BY <1>4, <1>9, <1>10, <2>1, <2>2, <2>14 DEF ByteRead
    <3>2. FramesUpTo(t) = FramesUpTo(s)
      BY <3>1, FramesGrow
    <3>3. PICK h : h = Append(g, q.line_buf)
      OBVIOUS
    <3>4. fr = <<>> /\ r.event_type = Frames!EventOf(h) /\ r.data_buf = DataGiven(h)
          /\ r.has_data = (Frames!DataLines(h) # <<>>)
      BY <2>2, <2>3, <2>14, <3>3, LineProcessed
    <3>5. c.error \/ Holds(x, t)
      BY <2>5, <2>9, <2>11, <2>12, <3>1, <3>3, <3>4 DEF Holds
    <3>6. fs = made
      BY <2>6, <3>4, ConcatEmptySeq
    <3> QED BY <1>3, <1>5, <1>7, <1>10, <2>7, <2>9, <3>2, <3>5, <3>6 DEF LoopRead, FramesKept
  <2> QED BY <2>13, <2>14
<1>11. CASE ~a.error /\ ~(a.skip /\ b = LF) /\ b \notin {CR, LF}
  <2>1. PICK x \in FrameParsers :
           /\ x = LineLonger(q, b) /\ x.line_buf = Append(q.line_buf, b)
           /\ x.scratch = q.scratch + 1 /\ x.event_type = q.event_type
           /\ x.data_buf = q.data_buf /\ x.has_data = q.has_data
    <3>1. 0 \in Nat
      OBVIOUS
    <3> QED BY <3>1, LineSet
  <2>2. PICK c : c = Frames!ParseByte(a, b)
    OBVIOUS
  <2>3. c = [p |-> x, frames |-> made, skip |-> b = CR,
             error |-> Len(frames) + Len(made) > MaxFrameEvents \/ ~(x.scratch <= MaxBuffer)]
    BY <1>1, <1>11, <2>1, <2>2
       DEF Frames!ParseByte, Frames!Terminator, Frames!CheckBufferLimit, LineLonger
  <2>4. c \in FrameLoops /\ c.p = x /\ c.frames = made /\ c.skip = (b = CR)
        /\ (~c.error => x.scratch <= MaxBuffer)
    <3>1. PICK e \in BOOLEAN :
             e <=> (Len(frames) + Len(made) > MaxFrameEvents \/ ~(x.scratch <= MaxBuffer))
      OBVIOUS
    <3>2. (b = CR) \in BOOLEAN
      BY Zenon
    <3>3. c = [p |-> x, frames |-> made, skip |-> b = CR, error |-> e]
      BY <2>3, <3>1
    <3> QED BY <2>1, <3>1, <3>2, <3>3 DEF FrameLoops
  <2>5. FramesUpTo(t) = FramesUpTo(s)
    BY <1>4, <1>11, FramesGrow DEF ByteRead
  <2>6. Frames!BufferedBytes(x) = x.scratch
    BY <1>7, <1>11, <2>1, CountedByBuffers DEF Holds
  <2>7. c.error \/ Holds(x, t)
    BY <1>4, <1>7, <1>11, <2>1, <2>4, <2>6 DEF Holds, ByteRead
  <2> QED BY <1>3, <1>5, <1>7, <1>11, <2>2, <2>4, <2>5, <2>7 DEF LoopRead, FramesKept
<1> QED BY <1>2, <1>6, <1>8, <1>10, <1>11

\* What the loop computes is typed, whatever it starts from
LEMMA LineReadTyped ==
    ASSUME FieldsTold, NEW q \in FrameParsers
    PROVE  LineRead(q).p \in FrameParsers /\ LineRead(q).frame \in Seq(FramesRead)
<1>1. q.line_buf \in Seq(Symbols) /\ q.data_buf \in Seq(Symbols)
      /\ q.event_type \in Seq(Symbols) \cup {NoEvent}
  BY DEF FrameParsers
<1>2. CASE q.line_buf = <<>>
  <2>1. PICK made \in Seq(FramesRead) :
           made = IF q.has_data THEN <<[event |-> q.event_type, data |-> q.data_buf]>> ELSE <<>>
    <3>1. [event |-> q.event_type, data |-> q.data_buf] \in FramesRead
      BY <1>1 DEF FramesRead
    <3>2. <<[event |-> q.event_type, data |-> q.data_buf]>> \in Seq(FramesRead)
          /\ <<>> \in Seq(FramesRead)
      BY <3>1
    <3> QED BY <3>2
  <2>2. PICK r \in FrameParsers :
           r = [q EXCEPT !.data_buf = <<>>, !.has_data = FALSE, !.event_type = NoEvent]
    BY ParserReset
  <2>3. LineRead(q) = [frame |-> made, p |-> r]
    BY <1>2, <2>1, <2>2 DEF LineRead, Frames!ProcessLine, Frames!Blank
  <2> QED BY <2>3
<1>3. CASE q.line_buf # <<>>
  <2>1. PICK l \in FieldLines : l = q.line_buf
    BY <1>1, <1>3 DEF FieldLines
  <2>2. PICK w \in Seq(Symbols) : w = Tail(l)
    BY LineTyped
  <2>3. PICK sep \in Seq(Symbols) : sep = IF q.has_data THEN <<LF>> ELSE <<>>
    <3>1. <<LF>> \in Seq(Symbols) /\ <<>> \in Seq(Symbols)
      BY DEF Symbols
    <3> QED BY <3>1
  <2> DEFINE d == [q EXCEPT !.has_data = TRUE, !.data_buf = @ \o sep \o w]
             e == [q EXCEPT !.event_type = w]
  <2>4. LineRead(q).frame = <<>>
        /\ LineRead(q).p = IF Head(l) = DataField THEN d ELSE IF Head(l) = EventField THEN e ELSE q
    BY <1>3, <2>1, <2>2, <2>3 DEF LineRead, Frames!ProcessLine, FieldsTold
  <2>5. (q.data_buf \o sep) \o w \in Seq(Symbols)
    BY <1>1, ConcatProperties
  <2>6. d \in FrameParsers /\ e \in FrameParsers
    BY <2>5 DEF FrameParsers
  <2> HIDE DEF d, e
  <2>7. <<>> \in Seq(FramesRead)
    OBVIOUS
  <2> QED BY <2>4, <2>6, <2>7
<1> QED BY <1>2, <1>3

LEMMA ByteTyped ==
    ASSUME FieldsTold, frames \in Seq(FramesRead), NEW a \in FrameLoops, NEW b \in Symbols
    PROVE  Frames!ParseByte(a, b) \in FrameLoops
<1>1. PICK q \in FrameParsers, made \in Seq(FramesRead) : q = a.p /\ made = a.frames
  BY DEF FrameLoops
<1>2. a.error \in BOOLEAN /\ a.skip \in BOOLEAN
  BY DEF FrameLoops
<1>3. CASE a.error \/ (a.skip /\ b = LF)
  <2>1. Frames!ParseByte(a, b) \in {a, [a EXCEPT !.skip = FALSE]}
    BY <1>3 DEF Frames!ParseByte
  <2>2. [a EXCEPT !.skip = FALSE] \in FrameLoops
    BY DEF FrameLoops
  <2> QED BY <2>1, <2>2
<1>4. CASE ~a.error /\ ~(a.skip /\ b = LF)
  <2>1. PICK r \in FrameParsers, fr \in Seq(FramesRead) : r = LineRead(q).p /\ fr = LineRead(q).frame
    BY LineReadTyped
  <2>2. PICK n \in Nat : n = Frames!BufferedBytes(LineEnded(r))
    <3>1. LineEnded(r) \in FrameParsers
      <4>1. 0 \in Nat
        OBVIOUS
      <4> QED BY <4>1, LineSet
    <3> QED BY <3>1, BytesCounted
  <2>3. PICK x \in FrameParsers :
           x = IF b \in {CR, LF} THEN Recounted(LineEnded(r), n) ELSE LineLonger(q, b)
    BY LineSet
  <2>4. PICK fs \in Seq(FramesRead) : fs = IF b \in {CR, LF} THEN made \o fr ELSE made
    BY ConcatProperties
  <2>5. PICK e \in BOOLEAN :
           e <=> (Len(frames) + Len(fs) > MaxFrameEvents \/ ~(x.scratch <= MaxBuffer))
    OBVIOUS
  <2>6. (b = CR) \in BOOLEAN
    BY Zenon
  <2>7. Frames!ParseByte(a, b) = [p |-> x, frames |-> fs, skip |-> b = CR, error |-> e]
    BY <1>1, <1>4, <2>1, <2>2, <2>3, <2>4, <2>5
       DEF Frames!ParseByte, Frames!Terminator, Frames!CheckBufferLimit, LineRead, LineEnded,
           Recounted, LineLonger
  <2> QED BY <2>6, <2>7 DEF FrameLoops
<1> QED BY <1>2, <1>3, <1>4

\* The loop over a chunk, one byte after the other
FrameLoop == [ab \in FrameLoops \X Symbols |-> Frames!ParseByte(ab[1], ab[2])]
LEMMA BytesFold ==
    ASSUME FieldsTold, frames \in Seq(FramesRead), NEW a \in FrameLoops, NEW c \in Seq(Symbols)
    PROVE  /\ FrameLoop \in LoopBodies(FrameLoops, Symbols)
           /\ Frames!ParseBytes(a, c) = FoldOf(FrameLoops, a, c, FrameLoop)
<1> DEFINE Takes(h) == h = [k \in 0..Len(c) |->
                               IF k = 0 THEN a ELSE Frames!ParseByte(h[k - 1], c[k])]
<1>1. FrameLoop \in LoopBodies(FrameLoops, Symbols)
  BY ByteTyped DEF FrameLoop, LoopBodies
<1>2. PICK g \in [0..Len(c) -> FrameLoops] : Accumulates(g, a, c, FrameLoop)
  BY <1>1, FoldDefined
<1>3. \A k \in 0..Len(c) : k = 0 \/ (k \in 1..Len(c) /\ k # 0 /\ k - 1 \in 0..Len(c))
  OBVIOUS
<1>4. \A k \in 1..Len(c) : c[k] \in Symbols
  OBVIOUS
<1>5. \A s \in FrameLoops : \A k \in 1..Len(c) :
         FrameLoop[<<s, c[k]>>] = Frames!ParseByte(s, c[k])
  BY <1>4 DEF FrameLoop
<1>6. Takes(g)
  <2>1. \A k \in 0..Len(c) : g[k] = IF k = 0 THEN a ELSE Frames!ParseByte(g[k - 1], c[k])
    BY <1>2, <1>3, <1>5 DEF Accumulates
  <2> QED BY <2>1
<1> DEFINE h == CHOOSE fl : Takes(fl)
<1>7. Takes(h)
  BY <1>6
<1>8. Frames!ParseBytes(a, c) = h[Len(c)]
  BY Zenon DEF Frames!ParseBytes
<1> HIDE DEF h
<1>9. h[0] = a /\ \A k \in 1..Len(c) : h[k] = Frames!ParseByte(h[k - 1], c[k])
  <2>1. \A k \in 0..Len(c) : h[k] = IF k = 0 THEN a ELSE Frames!ParseByte(h[k - 1], c[k])
    BY <1>7
  <2> QED BY <1>3, <2>1
<1>10. \A k \in 1..Len(c) : h[k - 1] \in FrameLoops => h[k] = FrameLoop[<<h[k - 1], c[k]>>]
  BY <1>5, <1>9
<1>11. h[Len(c)] = FoldOf(FrameLoops, a, c, FrameLoop)
  BY <1>1, <1>9, <1>10, FoldUnique, ZenonT(60)
<1> QED BY <1>1, <1>8, <1>11

LEMMA BytesParsed ==
    ASSUME FieldsTold, frames \in Seq(FramesRead), NEW a \in FrameLoops, NEW s \in Seq(Symbols),
           FramesKept(a, frames, s), NEW c \in Seq(Symbols)
    PROVE  /\ Frames!ParseBytes(a, c) \in FrameLoops
           /\ FramesKept(Frames!ParseBytes(a, c), frames, s \o c)
<1> DEFINE after(u) == FoldOf(FrameLoops, a, u, FrameLoop)
           P == {u \in Seq(Symbols) : after(u) \in FrameLoops /\ FramesKept(after(u), frames, s \o u)}
<1>1. FrameLoop \in LoopBodies(FrameLoops, Symbols)
  BY BytesFold
<1>2. \A u \in Seq(Symbols) : /\ after(u) \in FrameLoops /\ after(<<>>) = a
                              /\ \A b \in Symbols : after(Append(u, b)) = FrameLoop[<<after(u), b>>]
  BY <1>1, FoldAppend
<1> HIDE DEF after
<1>3. <<>> \in P
  <2>1. <<>> \in Seq(Symbols) /\ s \o <<>> = s
    BY ConcatEmptySeq
  <2> QED BY <1>2, <2>1
<1>4. ASSUME NEW u \in Seq(Symbols), NEW b \in Symbols, u \in P PROVE Append(u, b) \in P
  <2>1. PICK x \in FrameLoops, t \in Seq(Symbols) : x = after(u) /\ t = s \o u
    BY <1>2, ConcatProperties
  <2>2. after(Append(u, b)) = Frames!ParseByte(x, b)
    BY <1>2, <2>1 DEF FrameLoop
  <2>3. s \o Append(u, b) = Append(t, b) /\ Append(u, b) \in Seq(Symbols)
    BY <2>1, ConcatThenAppend, AppendProperties
  <2>4. FramesKept(x, frames, t)
    BY <1>4, <2>1
  <2>5. LoopRead(x, b, Append(t, b))
    BY <2>4, ByteParsed
  <2> QED BY <2>2, <2>3, <2>5 DEF LoopRead
<1> HIDE DEF P
<1>5. c \in P
  BY <1>3, <1>4, ListInduction
<1>6. Frames!ParseBytes(a, c) = after(c)
  BY BytesFold DEF after
<1> QED BY <1>5, <1>6 DEF P

LEMMA NoBytes ==
    ASSUME FieldsTold, frames \in Seq(FramesRead), NEW a \in FrameLoops
    PROVE  Frames!ParseBytes(a, <<>>) = a
<1>1. <<>> \in Seq(Symbols)
  OBVIOUS
<1>2. FrameLoop \in LoopBodies(FrameLoops, Symbols)
  BY <1>1, BytesFold
<1>3. \A u \in Seq(Symbols) : FoldOf(FrameLoops, a, <<>>, FrameLoop) = a
  BY <1>2, FoldAppend
<1>4. Frames!ParseBytes(a, <<>>) = FoldOf(FrameLoops, a, <<>>, FrameLoop)
  BY <1>1, BytesFold
<1> QED BY <1>1, <1>3, <1>4

-----------------------------------------------------------------------------
FramesInv ==
    /\ p \in FrameParsers /\ frames \in Seq(FramesRead) /\ stream \in Seq(FrameBytes)
    /\ status = "open" =>
          Holds(p, stream) /\ frames = FramesUpTo(stream) /\ p.prev_cr = EndsInCR(stream)

LEMMA StreamTypedIn == ASSUME NEW s \in Seq(FrameBytes) PROVE s \in Seq(Symbols)
BY DEF Symbols

LEMMA FramesInit == ASSUME FieldsTold, Frames!Init PROVE FramesInv
<1>1. p = Frames!New /\ frames = <<>> /\ stream = <<>> /\ status = "open"
  BY DEF Frames!Init
<1>2. p \in FrameParsers
  BY <1>1 DEF Frames!New, FrameParsers
<1>3. Tip(<<>>, CR, LF) = <<>> /\ GroupsIn(<<>>, CR, LF) = <<>> /\ Group(<<>>, CR, LF) = <<>>
  BY NothingRead
<1>4. Frames!EventOf(<<>>) = NoEvent /\ DataGiven(<<>>) = <<>> /\ Frames!DataLines(<<>>) = <<>>
  <2>1. <<>> \in Seq(FieldLines)
    OBVIOUS
  <2>2. FieldAdded(<<>>, <<LF>>)
    BY <2>1, SomeLine, FieldsAreAdded
  <2>3. DataGiven(<<>>) = <<>>
    BY <2>1, SomeLine, DataGrows
  <2> QED BY <2>2, <2>3 DEF FieldAdded
<1>5. Frames!BufferedBytes(p) = 0
  BY <1>1 DEF Frames!BufferedBytes, Frames!New
<1>6. Holds(p, <<>>)
  <2>1. p.scratch = 0 /\ 0 <= MaxBuffer
    BY <1>1 DEF Frames!New, FieldsTold
  <2>2. p.line_buf = <<>> /\ p.event_type = NoEvent /\ p.data_buf = <<>> /\ p.has_data = FALSE
    BY <1>1 DEF Frames!New
  <2>3. p.has_data = (Frames!DataLines(<<>>) # <<>>)
    BY <1>4, <2>2
  <2> QED BY <2>1, <2>2, <2>3, <1>3, <1>4, <1>5 DEF Holds
<1>7. FramesUpTo(<<>>) = <<>>
  <2>1. <<>> \in Seq(Symbols) /\ <<>> \in Seq(Seq(FieldLines))
    OBVIOUS
  <2>2. FramesOn(<<>>, Group(<<>>, CR, LF))
    BY <2>1, FramesMapped
  <2>3. FramesMade \in [Seq(FieldLines) -> Seq(FramesRead)]
    BY FrameTyped DEF FramesMade
  <2>4. Grows(FramesMade, <<>>, Seq(FieldLines), FramesRead)
    BY <2>1, <2>3, FlatMapGrows
  <2> QED BY <1>3, <2>2, <2>4 DEF FramesOn, Grows
<1>8. p.prev_cr = EndsInCR(<<>>)
  BY <1>1 DEF Frames!New, EndsInCR
<1> QED BY <1>1, <1>2, <1>6, <1>7, <1>8 DEF FramesInv

\* A parser whose count and last byte are set
Rested(q, cr, n) == [q EXCEPT !.prev_cr = cr, !.scratch = n]
LEMMA ParserRested ==
    ASSUME NEW q \in FrameParsers, NEW cr \in BOOLEAN, NEW n \in Nat
    PROVE  /\ Rested(q, cr, n) \in FrameParsers
           /\ Rested(q, cr, n).prev_cr = cr /\ Rested(q, cr, n).scratch = n
           /\ Rested(q, cr, n).line_buf = q.line_buf /\ Rested(q, cr, n).data_buf = q.data_buf
           /\ Rested(q, cr, n).event_type = q.event_type /\ Rested(q, cr, n).has_data = q.has_data
<1>1. n \in Int
  OBVIOUS
<1> QED BY <1>1 DEF Rested, FrameParsers

LEMMA ChunkParsed ==
    ASSUME FieldsTold, FramesInv, NEW c \in Seq(FrameBytes), Frames!ParseChunk(c)
    PROVE  FramesInv'
<1>1. PICK cr \in BOOLEAN : cr = p.prev_cr
  BY DEF FramesInv, FrameParsers
<1>2. PICK a0 : a0 = [p |-> p, frames |-> <<>>, error |-> FALSE, skip |-> cr]
  OBVIOUS
<1>3. PICK a : a = Frames!ParseBytes(a0, c)
  OBVIOUS
<1>4. /\ status = "open" /\ stream' = stream \o c
      /\ IF a.error THEN status' = "failed" /\ UNCHANGED <<p, frames>>
         ELSE /\ p' = [a.p EXCEPT !.prev_cr = IF c = <<>> THEN @ ELSE Frames!Last(c) = CR,
                                  !.scratch = Frames!BufferedBytes(a.p)]
              /\ frames' = frames \o a.frames
              /\ UNCHANGED status
  BY <1>1, <1>2, <1>3 DEF Frames!ParseChunk
<1>5. stream \in Seq(Symbols) /\ c \in Seq(Symbols) /\ stream' \in Seq(FrameBytes)
  BY <1>4, StreamTypedIn, ConcatProperties DEF FramesInv
<1>6. a0 \in FrameLoops /\ FramesKept(a0, frames, stream)
  <2>1. <<>> \in Seq(FramesRead)
    OBVIOUS
  <2>2. a0 \in FrameLoops
    BY <1>2, <2>1 DEF FrameLoops, FramesInv
  <2>3. frames \o <<>> = frames
    BY ConcatEmptySeq DEF FramesInv
  <2> QED BY <1>1, <1>2, <1>4, <2>2, <2>3 DEF FramesKept, FramesInv
<1>7. a \in FrameLoops /\ FramesKept(a, frames, stream \o c)
  BY <1>3, <1>5, <1>6, BytesParsed DEF FramesInv
<1>8. CASE a.error
  BY <1>4, <1>5, <1>8 DEF FramesInv
<1>9. CASE ~a.error
  <2>1. Holds(a.p, stream \o c) /\ frames \o a.frames = FramesUpTo(stream \o c)
    BY <1>7, <1>9 DEF FramesKept
  <2>2. PICK q \in FrameParsers, made \in Seq(FramesRead) : q = a.p /\ made = a.frames
    BY <1>7 DEF FrameLoops
  <2>3. PICK n \in Nat : n = Frames!BufferedBytes(q)
    BY BytesCounted
  <2>4. PICK last \in BOOLEAN : last = IF c = <<>> THEN q.prev_cr ELSE Frames!Last(c) = CR
    <3>1. q.prev_cr \in BOOLEAN
      BY DEF FrameParsers
    <3>2. (Frames!Last(c) = CR) \in BOOLEAN
      BY Zenon
    <3> QED BY <3>1, <3>2
  <2>5. PICK r \in FrameParsers : r = Rested(q, last, n) /\ r.prev_cr = last /\ r.scratch = n
          /\ r.line_buf = q.line_buf /\ r.data_buf = q.data_buf
          /\ r.event_type = q.event_type /\ r.has_data = q.has_data
    BY ParserRested
  <2>6. p' = r
    BY <1>4, <1>9, <2>2, <2>3, <2>4, <2>5 DEF Rested
  <2>7. frames' = FramesUpTo(stream \o c) /\ frames' \in Seq(FramesRead) /\ status' = status
    <3>1. frames \o made \in Seq(FramesRead)
      BY ConcatProperties DEF FramesInv
    <3> QED BY <1>4, <1>9, <2>1, <2>2, <3>1
  <2>8. Frames!BufferedBytes(r) = n
    BY <2>3, <2>5 DEF Frames!BufferedBytes
  <2>9. Holds(r, stream \o c)
    BY <2>1, <2>2, <2>3, <2>5, <2>8 DEF Holds
  <2>10. last = EndsInCR(stream \o c)
    <3>1. CASE c = <<>>
      <4>1. a = a0
        BY <1>3, <1>6, <3>1, NoBytes DEF FramesInv
      <4>2. stream \o c = stream
        BY <1>5, <3>1, ConcatEmptySeq
      <4> QED BY <1>2, <1>4, <2>2, <2>4, <3>1, <4>1, <4>2 DEF FramesInv
    <3>2. CASE c # <<>>
      <4>1. PICK t, m, k : t = stream \o c /\ m = Len(stream) /\ k = Len(c)
        OBVIOUS
      <4>2. m \in Nat /\ k \in Nat /\ k # 0
        BY <1>5, <3>2, <4>1, EmptySeq
      <4>3. /\ t \in Seq(Symbols) /\ Len(t) = m + k
            /\ \A i \in 1..(m + k) : t[i] = IF i <= m THEN stream[i] ELSE c[i - m]
        BY <1>5, <4>1, ConcatProperties
      <4>4. t # <<>> /\ t[m + k] = c[k]
        <5>1. m + k \in 1..(m + k) /\ ~(m + k <= m) /\ (m + k) - m = k /\ m + k # 0
          BY <4>2
        <5> QED BY <4>3, <5>1, EmptySeq
      <4> QED BY <2>4, <3>2, <4>1, <4>3, <4>4 DEF EndsInCR, Frames!Last
    <3> QED BY <3>1, <3>2
  <2> QED BY <1>4, <1>5, <2>5, <2>6, <2>7, <2>9, <2>10 DEF FramesInv
<1> QED BY <1>8, <1>9

LEMMA FramesNext ==
    ASSUME FieldsTold, FramesInv, [Frames!Next]_(Frames!vars) PROVE FramesInv'
<1>1. ASSUME NEW c \in Frames!BoundedSeq(FrameBytes, MaxChunk), Frames!ParseChunk(c)
      PROVE  FramesInv'
  <2>1. c \in Seq(FrameBytes)
    BY DEF Frames!BoundedSeq, Frames!SeqOf
  <2> QED BY <1>1, <2>1, ChunkParsed
<1>2. CASE Frames!Stop \/ Frames!Idle \/ UNCHANGED Frames!vars
  <2>1. p' = p /\ frames' = frames /\ stream' = stream /\ status' = status
    BY <1>2 DEF Frames!Stop, Frames!Idle, Frames!vars
  <2> QED BY <2>1 DEF FramesInv
<1> QED BY <1>1, <1>2 DEF Frames!Next

LEMMA FramesImply == ASSUME FieldsTold, FramesInv PROVE Frames!FramesSound
BY DEF FramesInv, Holds, FramesUpTo, Frames!FramesSound, Frames!FramesOfStream, Frames!ScratchExact

\* parse_chunk_inner: between two chunks the parser stands where the format
\* does after the stream so far, so the frames are those of the stream
\* wherever it was cut (SseFrameParser)
THEOREM FramesAreSound == ASSUME FieldsTold PROVE Spec => []FramesSound
<1> DEFINE Inv == reader = "frames" => FramesInv
<1>1. Init => Inv
  BY FramesInit DEF Init
<1>2. Inv /\ [Next]_vars => Inv'
  <2> SUFFICES ASSUME Inv, [Next]_vars, reader' = "frames" PROVE FramesInv'
    OBVIOUS
  <2>1. reader = "frames" /\ [Frames!Next]_(Frames!vars)
    BY DEF Next, vars, frameVars, Frames!vars
  <2> QED BY <2>1, FramesNext
<1>3. Inv => FramesSound
  BY FramesImply DEF FramesSound
<1> QED BY <1>1, <1>2, <1>3, PTL DEF Spec

-----------------------------------------------------------------------------
(* Payloads (SseScan)                                                      *)


Signs == ScanBytes \cup {"LF"}
SignLines == Seq(Signs) \ {<<>>}
Scanners ==
    [line_buf : Seq(Signs), data_buf : Seq(Signs), has_data : BOOLEAN, prev_cr : BOOLEAN]
ScanLoops == [state : Scanners, payloads : Seq(Seq(Signs)), overflowed : BOOLEAN]

LEMMA ScanFormat ==
    ASSUME NEW s, NEW end, NEW by
    PROVE  /\ Scan!Pieces(s, end) = Pieces(s, end) /\ Scan!Unended(s, end) = Unended(s, end)
           /\ Scan!Normal(s, "CR", end) = Normal(s, "CR", end)
           /\ Scan!Joined(s, by) = Joined(s, by)
<1>1. \A x : Scan!FlattenSeq(x) = FlattenSeq(x)
  BY DEF Scan!FlattenSeq, FlattenSeq
<1>2. \A k : Scan!Before(s, end, k) = Before(s, end, k)
  BY DEF Scan!Before, Before, Scan!After, After
<1>3. Scan!Pieces(s, end) = Pieces(s, end) /\ Scan!Unended(s, end) = Unended(s, end)
  BY <1>1, <1>2 DEF Scan!Pieces, Pieces, Scan!Unended, Unended
<1>4. Scan!Normal(s, "CR", end) = Normal(s, "CR", end)
  BY <1>1 DEF Scan!Normal, Normal
<1>5. Scan!Joined(s, by) = Joined(s, by)
  BY <1>1 DEF Scan!Joined, Joined
<1> QED BY <1>3, <1>4, <1>5

\* A line of signs, and the value it may hold
LEMMA SignLineTyped ==
    ASSUME NEW l \in Seq(Signs)
    PROVE  Scan!ValueOf(l) \in Seq(Signs) /\ Scan!DataValue(l) = Scan!ValueOf(l)
<1>1. PICK m \in 3..4 : m = IF Len(l) >= 3 /\ l[3] = " " THEN 4 ELSE 3
  OBVIOUS
<1>2. PICK n \in Nat : n = Len(l)
  OBVIOUS
<1>3. \A i \in m..n : l[i] \in Signs
  BY <1>2
<1>4. SubSeq(l, m, n) \in Seq(Signs)
  BY <1>3, SubSeqProperties
<1> QED BY <1>1, <1>2, <1>4 DEF Scan!ValueOf, Scan!DataValue

LEMMA FirstAlone ==
    ASSUME NEW V, NEW l \in Seq(V), Len(l) >= 1 PROVE SubSeq(l, 1, 1) = <<l[1]>>
<1>1. \A i \in 1..1 : l[i] \in V
  OBVIOUS
<1>2. PICK u : u = SubSeq(l, 1, 1)
  OBVIOUS
<1>3. u \in Seq(V) /\ Len(u) = 1 /\ u[1] = l[1]
  <2>1. /\ u \in Seq(V) /\ Len(u) = IF 1 <= 1 THEN 1 - 1 + 1 ELSE 0
        /\ \A i \in 1..(1 - 1 + 1) : u[i] = l[1 + i - 1]
    BY <1>1, <1>2, SubSeqProperties
  <2> QED BY <2>1
<1>4. PICK w : w = <<l[1]>>
  OBVIOUS
<1>5. w \in Seq(V) /\ Len(w) = 1 /\ w[1] = l[1]
  BY <1>1, <1>4
<1>6. \A i \in 1..Len(u) : u[i] = w[i]
  BY <1>3, <1>5
<1>7. u = w
  BY <1>3, <1>5, <1>6, SeqEqual
<1> QED BY <1>2, <1>4, <1>7

\* The field name is what is before the first colon
LEMMA DataLineTold ==
    ASSUME NEW l \in SignLines PROVE Scan!IsData(l) <=> Scan!HasValue(l)
<1>1. l \in Seq(Signs) /\ l # <<>>
  BY DEF SignLines
<1>2. PICK n \in Nat : n = Len(l) /\ DOMAIN l = 1..n
  BY <1>1
<1> DEFINE First(i) == i \in DOMAIN l /\ l[i] = ":" /\ \A j \in 1..(i - 1) : l[j] # ":"
           colon == CHOOSE i \in DOMAIN l : l[i] = ":" /\ \A j \in 1..(i - 1) : l[j] # ":"
<1>3. ASSUME ":" \in {l[i] : i \in DOMAIN l} PROVE First(colon)
  <2> DEFINE S == {i \in DOMAIN l : l[i] = ":"}
  <2>1. S \subseteq Nat /\ S # {}
    BY <1>2, <1>3
  <2>2. PICK m \in S : \A y \in S : m <= y
    BY <2>1, SmallestElement
  <2>3. First(m)
    <3>1. ASSUME NEW j \in 1..(m - 1), l[j] = ":" PROVE FALSE
      <4>1. j \in S /\ j < m
        BY <1>2, <2>2, <3>1
      <4>2. m \in Nat /\ j \in Nat /\ m <= j
        BY <1>2, <2>2, <4>1
      <4> QED BY <4>1, <4>2
    <3> QED BY <2>2, <3>1
  <2> QED BY <2>3
<1>4. Scan!IsData(l) <=> ":" \in {l[i] : i \in DOMAIN l} /\ SubSeq(l, 1, colon - 1) = <<"data">>
  BY <1>1 DEF Scan!IsData
<1> HIDE DEF colon
<1>5. ASSUME Scan!IsData(l) PROVE Scan!HasValue(l)
  <2>1. PICK c \in 1..n : c = colon /\ l[c] = ":" /\ \A j \in 1..(c - 1) : l[j] # ":"
    BY <1>2, <1>3, <1>4, <1>5
  <2>2. \A i \in 1..(c - 1) : l[i] \in Signs
    BY <1>1, <1>2
  <2>3. /\ Len(SubSeq(l, 1, c - 1)) = IF 1 <= c - 1 THEN (c - 1) - 1 + 1 ELSE 0
        /\ \A i \in 1..((c - 1) - 1 + 1) : SubSeq(l, 1, c - 1)[i] = l[1 + i - 1]
    BY <2>2, SubSeqProperties
  <2>4. SubSeq(l, 1, c - 1) = <<"data">>
    BY <1>4, <1>5, <2>1
  <2>5. c = 2
    BY <2>3, <2>4
  <2>6. l[1] = "data"
    <3>1. c - 1 = 1 /\ 1 \in 1..((c - 1) - 1 + 1) /\ 1 + 1 - 1 = 1
      BY <2>5
    <3>2. PICK u : u = SubSeq(l, 1, c - 1)
      OBVIOUS
    <3>3. u[1] = l[1]
      BY <2>3, <3>1, <3>2
    <3>4. u = <<"data">>
      BY <2>4, <3>2
    <3> QED BY <3>3, <3>4
  <2> QED BY <1>2, <2>1, <2>5, <2>6 DEF Scan!HasValue
<1>6. ASSUME Scan!HasValue(l) PROVE Scan!IsData(l)
  <2>1. n >= 2 /\ l[1] = "data" /\ l[2] = ":" /\ 2 \in DOMAIN l
    BY <1>2, <1>6 DEF Scan!HasValue
  <2>2. ":" \in {l[i] : i \in DOMAIN l}
    BY <2>1
  <2>3. PICK c \in 1..n : c = colon /\ l[c] = ":" /\ \A j \in 1..(c - 1) : l[j] # ":"
    BY <1>2, <1>3, <2>2
  <2>4. c = 2
    <3>1. c # 1
      BY <2>1, <2>3
    <3>2. ~(c > 2)
      BY <2>1, <2>3
    <3> QED BY <3>1, <3>2
  <2>5. l[1] \in Signs
    BY <1>1, <1>2, <2>1
  <2>6. SubSeq(l, 1, 1) = <<l[1]>>
    BY <1>1, <1>2, <2>1, FirstAlone
  <2> QED BY <1>4, <2>1, <2>2, <2>3, <2>4, <2>6
<1> QED BY <1>5, <1>6

\* The values of a group, one line after the other
ValueIn == [l \in SignLines |-> IF Scan!HasValue(l) THEN <<Scan!ValueOf(l)>> ELSE <<>>]
ValuesAre(g, l) ==
    /\ Scan!Values(g) \in Seq(Seq(Signs)) /\ Scan!Values(<<>>) = <<>>
    /\ Scan!Values(Append(g, l)) =
          IF Scan!HasValue(l) THEN Append(Scan!Values(g), Scan!ValueOf(l)) ELSE Scan!Values(g)
LEMMA ValuesGrow ==
    ASSUME NEW g \in Seq(SignLines), NEW l \in SignLines PROVE ValuesAre(g, l)
<1>1. \A k \in SignLines : Scan!ValueOf(k) \in Seq(Signs)
  BY SignLineTyped DEF SignLines
<1>2. ValueIn \in [SignLines -> Seq(Seq(Signs))]
  BY <1>1 DEF ValueIn
<1>3. ASSUME NEW h \in Seq(SignLines) PROVE Scan!Values(h) = FlatMap(ValueIn, h)
  <2>1. \A k \in DOMAIN h : h[k] \in SignLines
    OBVIOUS
  <2>2. [k \in DOMAIN h |-> IF Scan!HasValue(h[k]) THEN <<Scan!ValueOf(h[k])>> ELSE <<>>]
          = [k \in DOMAIN h |-> ValueIn[h[k]]]
    BY <2>1 DEF ValueIn
  <2>3. \A x : Scan!FlattenSeq(x) = FlattenSeq(x)
    BY DEF Scan!FlattenSeq, FlattenSeq
  <2> QED BY <2>2, <2>3 DEF Scan!Values, FlatMap
<1>4. Grows(ValueIn, g, SignLines, Seq(Signs))
  BY <1>2, FlatMapGrows
<1>5. Append(g, l) \in Seq(SignLines) /\ <<>> \in Seq(SignLines)
  BY AppendProperties
<1>6. PICK vs \in Seq(Seq(Signs)), v \in Seq(Signs) : vs = Scan!Values(g) /\ v = Scan!ValueOf(l)
  BY <1>1, <1>3, <1>4 DEF Grows
<1>7. Scan!Values(Append(g, l)) = vs \o ValueIn[l]
  BY <1>3, <1>4, <1>5, <1>6 DEF Grows
<1>8. ValueIn[l] = IF Scan!HasValue(l) THEN <<v>> ELSE <<>>
  BY <1>6 DEF ValueIn
<1>9. vs \o <<v>> = Append(vs, v) /\ vs \o <<>> = vs
  BY AppendIsConcat, ConcatEmptySeq
<1>10. Scan!Values(<<>>) = <<>>
  BY <1>3, <1>4, <1>5 DEF Grows
<1> QED BY <1>6, <1>7, <1>8, <1>9, <1>10 DEF ValuesAre

PayloadGiven(g) == Scan!Joined(Scan!Values(g), "LF")
PayloadIs(g, l) ==
    /\ PayloadGiven(g) \in Seq(Signs) /\ PayloadGiven(<<>>) = <<>>
    /\ PayloadGiven(Append(g, l)) =
          IF Scan!HasValue(l)
          THEN PayloadGiven(g) \o ((IF Scan!Values(g) = <<>> THEN <<>> ELSE <<"LF">>)
                                \o Scan!ValueOf(l))
          ELSE PayloadGiven(g)
LEMMA PayloadGrows ==
    ASSUME NEW g \in Seq(SignLines), NEW l \in SignLines PROVE PayloadIs(g, l)
<1>1. ValuesAre(g, l)
  BY ValuesGrow
<1>2. PICK vs \in Seq(Seq(Signs)) : vs = Scan!Values(g)
  BY <1>1 DEF ValuesAre
<1>3. PICK v \in Seq(Signs) : v = Scan!ValueOf(l)
  BY SignLineTyped DEF SignLines
<1>4. JoinsOn(vs, v, "LF", Signs)
  <2>1. "LF" \in Signs
    BY DEF Signs
  <2> QED BY <2>1, JoinedGrows
<1>5. \A x : Scan!Joined(x, "LF") = Joined(x, "LF")
  BY ScanFormat
<1> QED BY <1>1, <1>2, <1>3, <1>4, <1>5 DEF ValuesAre, PayloadIs, PayloadGiven, JoinsOn

LEMMA SomeSigns == <<"LF">> \in SignLines
<1>1. "LF" \in Signs
  BY DEF Signs
<1> QED BY <1>1 DEF SignLines

\* A scan with a buffer or a mark set
LineSetTo(x, line) == [x EXCEPT !.state.line_buf = line]
Marked(x, much) == [x EXCEPT !.overflowed = much]
ValueAdded(x, data) == [x EXCEPT !.state.data_buf = data, !.state.has_data = TRUE]
Dispatched(x, list) ==
    [x EXCEPT !.payloads = list, !.state.data_buf = <<>>, !.state.has_data = FALSE]
Same(x, y) ==
    /\ y \in ScanLoops /\ y.state.prev_cr = x.state.prev_cr
LEMMA LineIsSet ==
    ASSUME NEW x \in ScanLoops, NEW line \in Seq(Signs)
    PROVE  /\ Same(x, LineSetTo(x, line)) /\ LineSetTo(x, line).state.line_buf = line
           /\ LineSetTo(x, line).state.data_buf = x.state.data_buf
           /\ LineSetTo(x, line).state.has_data = x.state.has_data
           /\ LineSetTo(x, line).payloads = x.payloads
<1>1. x.state \in Scanners /\ x.payloads \in Seq(Seq(Signs)) /\ x.overflowed \in BOOLEAN
  BY DEF ScanLoops
<1>2. [x.state EXCEPT !.line_buf = line] \in Scanners
  BY <1>1 DEF Scanners
<1>3. LineSetTo(x, line) \in ScanLoops
  BY <1>1, <1>2 DEF LineSetTo, ScanLoops
<1>4. /\ LineSetTo(x, line).state.line_buf = line
      /\ LineSetTo(x, line).state.data_buf = x.state.data_buf
      /\ LineSetTo(x, line).state.has_data = x.state.has_data
      /\ LineSetTo(x, line).state.prev_cr = x.state.prev_cr
      /\ LineSetTo(x, line).payloads = x.payloads
  BY <1>1 DEF LineSetTo, ScanLoops, Scanners
<1> QED BY <1>3, <1>4 DEF Same

LEMMA MarkIsSet ==
    ASSUME NEW x \in ScanLoops, NEW much \in BOOLEAN
    PROVE  /\ Same(x, Marked(x, much)) /\ Marked(x, much).state = x.state
           /\ Marked(x, much).payloads = x.payloads /\ Marked(x, much).overflowed = much
<1>1. Marked(x, much) \in ScanLoops
  BY DEF Marked, ScanLoops
<1>2. /\ Marked(x, much).state = x.state /\ Marked(x, much).payloads = x.payloads
      /\ Marked(x, much).overflowed = much
  BY DEF Marked, ScanLoops
<1> QED BY <1>1, <1>2 DEF Same

LEMMA ValueIsAdded ==
    ASSUME NEW x \in ScanLoops, NEW data \in Seq(Signs)
    PROVE  /\ Same(x, ValueAdded(x, data)) /\ ValueAdded(x, data).payloads = x.payloads
           /\ ValueAdded(x, data).state.data_buf = data
           /\ ValueAdded(x, data).state.has_data = TRUE
<1>1. x.state \in Scanners /\ x.payloads \in Seq(Seq(Signs)) /\ x.overflowed \in BOOLEAN
  BY DEF ScanLoops
<1>2. [x.state EXCEPT !.data_buf = data, !.has_data = TRUE] \in Scanners
  BY <1>1 DEF Scanners
<1>3. ValueAdded(x, data) \in ScanLoops
  BY <1>1, <1>2 DEF ValueAdded, ScanLoops, Scanners
<1>4. /\ ValueAdded(x, data).payloads = x.payloads
      /\ ValueAdded(x, data).state.data_buf = data
      /\ ValueAdded(x, data).state.has_data = TRUE
      /\ ValueAdded(x, data).state.prev_cr = x.state.prev_cr
  BY <1>1 DEF ValueAdded, ScanLoops, Scanners
<1> QED BY <1>3, <1>4 DEF Same

LEMMA PayloadIsDispatched ==
    ASSUME NEW x \in ScanLoops, NEW list \in Seq(Seq(Signs))
    PROVE  /\ Same(x, Dispatched(x, list)) /\ Dispatched(x, list).payloads = list
           /\ Dispatched(x, list).state.data_buf = <<>>
           /\ Dispatched(x, list).state.has_data = FALSE
<1>1. x.state \in Scanners /\ x.payloads \in Seq(Seq(Signs)) /\ x.overflowed \in BOOLEAN
  BY DEF ScanLoops
<1>2. [x.state EXCEPT !.data_buf = <<>>, !.has_data = FALSE] \in Scanners
  <2>1. <<>> \in Seq(Signs)
    OBVIOUS
  <2> QED BY <1>1, <2>1 DEF Scanners
<1>3. Dispatched(x, list) \in ScanLoops
  BY <1>1, <1>2 DEF Dispatched, ScanLoops, Scanners
<1>4. /\ Dispatched(x, list).payloads = list
      /\ Dispatched(x, list).state.data_buf = <<>>
      /\ Dispatched(x, list).state.has_data = FALSE
      /\ Dispatched(x, list).state.prev_cr = x.state.prev_cr
  BY <1>1 DEF Dispatched, ScanLoops, Scanners
<1> QED BY <1>3, <1>4 DEF Same

\* process_line of the scanner
Sep(x) == IF x.state.has_data THEN <<"LF">> ELSE <<>>
Scanned(x, y) ==
    /\ y \in ScanLoops /\ y.state.prev_cr = x.state.prev_cr
    /\ x.state.line_buf = <<>> /\ x.state.has_data =>
          /\ y.payloads = Append(x.payloads, x.state.data_buf)
          /\ y.state.data_buf = <<>> /\ y.state.has_data = FALSE
    /\ x.state.line_buf # <<>> /\ Scan!HasValue(x.state.line_buf) =>
          /\ y.payloads = x.payloads /\ y.state.has_data = TRUE
          /\ y.state.data_buf = x.state.data_buf \o (Sep(x) \o Scan!ValueOf(x.state.line_buf))
    /\ \/ x.state.line_buf = <<>> /\ ~x.state.has_data
       \/ x.state.line_buf # <<>> /\ ~Scan!HasValue(x.state.line_buf)
       => y = x
LEMMA LineScanned == ASSUME NEW x \in ScanLoops PROVE Scanned(x, Scan!ProcessLine(x))
<1>1. PICK line \in Seq(Signs), data \in Seq(Signs) :
         line = x.state.line_buf /\ data = x.state.data_buf
  BY DEF ScanLoops, Scanners
<1>2. x.state \in Scanners /\ x.payloads \in Seq(Seq(Signs)) /\ x.state.has_data \in BOOLEAN
  BY DEF ScanLoops, Scanners
<1>3. PICK y : y = Scan!ProcessLine(x)
  OBVIOUS
<1>4. CASE line = <<>> /\ x.state.has_data
  <2>1. PICK list \in Seq(Seq(Signs)) : list = Append(x.payloads, data)
    BY <1>2, AppendProperties
  <2>2. y = [x EXCEPT !.payloads = list, !.state.data_buf = <<>>, !.state.has_data = FALSE]
    <3>1. y = [x EXCEPT !.payloads = Append(@, x.state.data_buf),
                        !.state.data_buf = <<>>, !.state.has_data = FALSE]
      BY <1>1, <1>3, <1>4 DEF Scan!ProcessLine
    <3> QED BY <1>1, <2>1, <3>1 DEF ScanLoops
  <2>3. y = Dispatched(x, list)
    BY <2>2 DEF Dispatched
  <2>4. y \in ScanLoops /\ y.state.prev_cr = x.state.prev_cr
        /\ y.payloads = list /\ y.state.data_buf = <<>> /\ y.state.has_data = FALSE
    BY <2>3, PayloadIsDispatched DEF Same
  <2> QED BY <1>1, <1>3, <1>4, <2>1, <2>4 DEF Scanned
<1>5. CASE line # <<>> /\ Scan!HasValue(line)
  <2>1. line \in SignLines /\ Scan!IsData(line)
    <3>1. line \in SignLines
      BY <1>5 DEF SignLines
    <3> QED BY <1>5, <3>1, DataLineTold
  <2>2. PICK v \in Seq(Signs) : v = Scan!ValueOf(line) /\ v = Scan!DataValue(line)
    BY SignLineTyped
  <2>3. PICK sep \in Seq(Signs) : sep = Sep(x)
    <3>1. <<"LF">> \in Seq(Signs) /\ <<>> \in Seq(Signs)
      BY DEF Signs
    <3> QED BY <3>1 DEF Sep
  <2>4. PICK all \in Seq(Signs) : all = data \o (sep \o v)
    <3>1. sep \o v \in Seq(Signs)
      BY ConcatProperties
    <3>2. data \o (sep \o v) \in Seq(Signs)
      BY <3>1, ConcatProperties
    <3> QED BY <3>2
  <2>5. (IF x.state.has_data THEN Append(data, "LF") ELSE data) \o v = all
    <3>1. data \o sep = IF x.state.has_data THEN Append(data, "LF") ELSE data
      <4>1. data \o <<"LF">> = Append(data, "LF")
        <5>1. "LF" \in Signs
          BY DEF Signs
        <5> QED BY <5>1, AppendIsConcat
      <4>2. data \o <<>> = data
        BY ConcatEmptySeq
      <4> QED BY <2>3, <4>1, <4>2, SMTT(30) DEF Sep
    <3>2. (data \o sep) \o v = data \o (sep \o v)
      BY ConcatAssociative, SMTT(60)
    <3> QED BY <2>4, <3>1, <3>2
  <2>6. y = [x EXCEPT !.state.data_buf = all, !.state.has_data = TRUE]
    <3>1. y = [x EXCEPT !.state.data_buf =
                            (IF x.state.has_data THEN Append(@, "LF") ELSE @) \o v,
                        !.state.has_data = TRUE]
      BY <1>1, <1>3, <1>5, <2>1, <2>2 DEF Scan!ProcessLine
    <3>2. x.state.data_buf = data
      BY <1>1
    <3> QED BY <1>2, <2>5, <3>1, <3>2 DEF ScanLoops, Scanners
  <2>7. y = ValueAdded(x, all)
    BY <2>6 DEF ValueAdded
  <2>8. y \in ScanLoops /\ y.state.prev_cr = x.state.prev_cr
        /\ y.payloads = x.payloads /\ y.state.data_buf = all /\ y.state.has_data = TRUE
    BY <2>7, <1>2, ValueIsAdded DEF Same
  <2> QED BY <1>1, <1>3, <1>5, <2>2, <2>3, <2>4, <2>8 DEF Scanned
<1>6. CASE \/ line = <<>> /\ ~x.state.has_data
           \/ line # <<>> /\ ~Scan!HasValue(line)
  <2>1. line # <<>> => ~Scan!IsData(line)
    <3>1. line # <<>> => line \in SignLines
      BY DEF SignLines
    <3> QED BY <1>6, <3>1, DataLineTold
  <2>2. y = x
    BY <1>1, <1>3, <1>6, <2>1 DEF Scan!ProcessLine
  <2> QED BY <1>1, <1>3, <1>6, <2>2 DEF Scanned
<1> QED BY <1>2, <1>4, <1>5, <1>6

\* One turn of the loop
SignRead(x, b, y) ==
    /\ y \in ScanLoops /\ y.state.prev_cr = x.state.prev_cr
    /\ y.overflowed <=> Len(y.state.line_buf) + Len(y.state.data_buf) > MaxScratch
    /\ b \notin {"LF", "CR"} =>
          /\ y.state.line_buf = Append(x.state.line_buf, b) /\ y.payloads = x.payloads
          /\ y.state.data_buf = x.state.data_buf /\ y.state.has_data = x.state.has_data
    /\ b \in {"LF", "CR"} =>
          \E z \in ScanLoops :
             /\ Scanned(x, z) /\ y.state.line_buf = <<>> /\ y.payloads = z.payloads
             /\ y.state.data_buf = z.state.data_buf /\ y.state.has_data = z.state.has_data
LEMMA SignScanned ==
    ASSUME MaxScratch \in Nat, NEW x \in ScanLoops, NEW b \in Signs
    PROVE  SignRead(x, b, Scan!ScanByte(x, b))
<1>1. PICK z \in ScanLoops : z = Scan!ProcessLine(x) /\ Scanned(x, z)
  BY LineScanned DEF Scanned
<1>2. PICK line \in Seq(Signs) :
         line = IF b \in {"LF", "CR"} THEN <<>> ELSE Append(x.state.line_buf, b)
  <2>1. <<>> \in Seq(Signs) /\ x.state.line_buf \in Seq(Signs)
    BY DEF ScanLoops, Scanners
  <2>2. Append(x.state.line_buf, b) \in Seq(Signs)
    BY <2>1, AppendProperties
  <2> QED BY <2>1, <2>2
<1>3. PICK w \in ScanLoops : w = IF b \in {"LF", "CR"} THEN z ELSE x
  OBVIOUS
<1>4. w.state \in Scanners /\ w.payloads \in Seq(Seq(Signs)) /\ w.overflowed \in BOOLEAN
      /\ w.state.data_buf \in Seq(Signs) /\ w.state.has_data \in BOOLEAN
  BY DEF ScanLoops, Scanners
<1>5. PICK t \in ScanLoops :
         /\ t = LineSetTo(w, line) /\ t.state.prev_cr = w.state.prev_cr
         /\ t.state.line_buf = line /\ t.state.data_buf = w.state.data_buf
         /\ t.state.has_data = w.state.has_data /\ t.payloads = w.payloads
  BY LineIsSet DEF Same
<1>6. PICK much \in BOOLEAN :
         much <=> (Len(t.state.line_buf) + Len(t.state.data_buf) > MaxScratch)
  OBVIOUS
<1>7. PICK y \in ScanLoops :
         /\ y = Marked(t, much) /\ y.state.prev_cr = t.state.prev_cr
         /\ y.state = t.state /\ y.payloads = t.payloads /\ y.overflowed = much
  BY MarkIsSet DEF Same
<1>8. y = Scan!ScanByte(x, b)
  <2>1. t = IF b \in {"LF", "CR"} THEN [Scan!ProcessLine(x) EXCEPT !.state.line_buf = <<>>]
            ELSE [x EXCEPT !.state.line_buf = Append(@, b)]
    <3>1. CASE b \in {"LF", "CR"}
      BY <1>1, <1>2, <1>3, <1>5, <3>1 DEF LineSetTo
    <3>2. CASE b \notin {"LF", "CR"}
      BY <1>2, <1>3, <1>5, <3>2 DEF LineSetTo, ScanLoops, Scanners
    <3> QED BY <3>1, <3>2
  <2>2. y = [t EXCEPT !.overflowed =
                Len(t.state.line_buf) + Len(t.state.data_buf) > MaxScratch]
    <3>1. PICK k \in Nat, n \in Nat : k = Len(t.state.line_buf) /\ n = Len(t.state.data_buf)
      <4>1. Len(line) \in Nat /\ Len(w.state.data_buf) \in Nat
        BY <1>4
      <4> QED BY <1>5, <4>1
    <3>2. much = (Len(t.state.line_buf) + Len(t.state.data_buf) > MaxScratch)
      <4>1. much <=> k + n > MaxScratch
        BY <1>6, <3>1
      <4>2. much = (k + n > MaxScratch)
        BY <4>1
      <4> QED BY <3>1, <4>2
    <3>3. y = [t EXCEPT !.overflowed = much]
      BY <1>7 DEF Marked
    <3> QED BY <3>2, <3>3, Zenon
  <2> QED BY <2>1, <2>2 DEF Scan!ScanByte, Scan!OverScratch
<1>9. y.overflowed <=> Len(y.state.line_buf) + Len(y.state.data_buf) > MaxScratch
  BY <1>6, <1>7
<1>10. CASE b \in {"LF", "CR"}
  <2>1. w = z /\ z.state.prev_cr = x.state.prev_cr /\ line = <<>>
    BY <1>1, <1>2, <1>3, <1>10 DEF Scanned
  <2>2. /\ Scanned(x, z) /\ y.state.line_buf = <<>> /\ y.payloads = z.payloads
        /\ y.state.data_buf = z.state.data_buf /\ y.state.has_data = z.state.has_data
    BY <1>1, <1>5, <1>7, <2>1
  <2>3. y.state.prev_cr = x.state.prev_cr
    BY <1>5, <1>7, <2>1
  <2> QED BY <1>7, <1>8, <1>9, <1>10, <2>2, <2>3 DEF SignRead
<1>11. CASE b \notin {"LF", "CR"}
  BY <1>2, <1>3, <1>5, <1>7, <1>8, <1>9, <1>11 DEF SignRead
<1> QED BY <1>10, <1>11

\* The payloads of a stream, group by group, and what is held after it
ScanTip(s) == Tip(s, "CR", "LF")
ScanGroup(s) == Group(s, "CR", "LF")
PayloadsMade == [g \in Seq(SignLines) |-> Scan!PayloadOf(g)]
PayloadsSay(s) ==
    /\ Scan!Payloads(s) = FlatMap(PayloadsMade, GroupsIn(s, "CR", "LF"))
    /\ Scan!Payloads(s) \in Seq(Seq(Signs))
    /\ Scan!Held(s) = Len(ScanTip(s)) + Len(PayloadGiven(ScanGroup(s)))
    /\ Len(ScanTip(s)) \in Nat /\ Len(PayloadGiven(ScanGroup(s))) \in Nat

LEMMA PayloadTyped == ASSUME NEW g \in Seq(SignLines) PROVE Scan!PayloadOf(g) \in Seq(Seq(Signs))
<1>1. PICK pay \in Seq(Signs) : pay = PayloadGiven(g)
  <2>1. PayloadIs(g, <<"LF">>)
    BY SomeSigns, PayloadGrows
  <2> QED BY <2>1 DEF PayloadIs
<1>2. Scan!PayloadOf(g) = IF Scan!Values(g) = <<>> THEN <<>> ELSE <<pay>>
  BY <1>1 DEF Scan!PayloadOf, PayloadGiven
<1> QED BY <1>2

LEMMA ScanTyped ==
    ASSUME NEW s \in Seq(Signs)
    PROVE  /\ GroupsIn(s, "CR", "LF") \in Seq(Seq(SignLines)) /\ ScanGroup(s) \in Seq(SignLines)
           /\ ScanTip(s) \in Seq(Signs \ {"LF"})
<1>1. "LF" \in Signs
  BY DEF Signs
<1>2. StreamTyped(s, "CR", "LF", Signs)
  BY <1>1, StreamIsTyped
<1> QED BY <1>2 DEF StreamTyped, SignLines, ScanGroup, ScanTip

LEMMA PayloadsMapped == ASSUME NEW s \in Seq(Signs) PROVE PayloadsSay(s)
<1>1. PICK gs \in Seq(Seq(SignLines)) : gs = GroupsIn(s, "CR", "LF")
  BY ScanTyped
<1>2. gs = Scan!Pieces(Scan!Lines(s), <<>>)
  BY <1>1, ScanFormat DEF GroupsIn, LinesIn, Scan!Lines
<1>3. \A k \in DOMAIN gs : gs[k] \in Seq(SignLines)
  OBVIOUS
<1>4. [j \in DOMAIN gs |-> Scan!PayloadOf(gs[j])] = [j \in DOMAIN gs |-> PayloadsMade[gs[j]]]
  BY <1>3 DEF PayloadsMade
<1>5. Scan!Payloads(s) = FlatMap(PayloadsMade, gs)
  <2>1. \A x : Scan!FlattenSeq(x) = FlattenSeq(x)
    BY DEF Scan!FlattenSeq, FlattenSeq
  <2>2. Scan!Payloads(s) = Scan!FlattenSeq([j \in DOMAIN gs |-> Scan!PayloadOf(gs[j])])
    BY <1>2 DEF Scan!Payloads
  <2> QED BY <1>4, <2>1, <2>2 DEF FlatMap
<1>6. PayloadsMade \in [Seq(SignLines) -> Seq(Seq(Signs))]
  BY PayloadTyped DEF PayloadsMade
<1>7. Grows(PayloadsMade, gs, Seq(SignLines), Seq(Signs))
  BY <1>6, FlatMapGrows
<1>8. Scan!Held(s) = Len(ScanTip(s)) + Len(PayloadGiven(ScanGroup(s)))
  BY ScanFormat DEF Scan!Held, ScanTip, ScanGroup, Tip, Group, LinesIn, Scan!Lines, PayloadGiven
<1>9. PICK tip \in Seq(Signs \ {"LF"}) : tip = ScanTip(s)
  BY ScanTyped
<1>10. PICK pay \in Seq(Signs) : pay = PayloadGiven(ScanGroup(s))
  <2>1. PICK g \in Seq(SignLines) : g = ScanGroup(s)
    BY ScanTyped
  <2>2. PayloadIs(g, <<"LF">>)
    BY SomeSigns, PayloadGrows
  <2> QED BY <2>1, <2>2 DEF PayloadIs
<1>11. Len(tip) \in Nat /\ Len(pay) \in Nat
  OBVIOUS
<1> QED BY <1>1, <1>5, <1>7, <1>8, <1>9, <1>10, <1>11 DEF PayloadsSay, Grows

LEMMA PayloadsGrow ==
    ASSUME NEW s \in Seq(Signs), NEW t \in Seq(Signs)
    PROVE  /\ GroupsIn(t, "CR", "LF") = GroupsIn(s, "CR", "LF") => Scan!Payloads(t) = Scan!Payloads(s)
           /\ GroupsIn(t, "CR", "LF") = Append(GroupsIn(s, "CR", "LF"), ScanGroup(s)) =>
                 Scan!Payloads(t) = Scan!Payloads(s) \o Scan!PayloadOf(ScanGroup(s))
<1>1. PayloadsSay(s) /\ PayloadsSay(t)
  BY PayloadsMapped
<1>2. PICK gs \in Seq(Seq(SignLines)), g \in Seq(SignLines) :
         gs = GroupsIn(s, "CR", "LF") /\ g = ScanGroup(s)
  BY ScanTyped
<1>3. PayloadsMade \in [Seq(SignLines) -> Seq(Seq(Signs))]
  BY PayloadTyped DEF PayloadsMade
<1>4. Grows(PayloadsMade, gs, Seq(SignLines), Seq(Signs))
  BY <1>3, FlatMapGrows
<1>5. FlatMap(PayloadsMade, Append(gs, g)) = FlatMap(PayloadsMade, gs) \o PayloadsMade[g]
  BY <1>4 DEF Grows
<1>6. PayloadsMade[g] = Scan!PayloadOf(g)
  BY DEF PayloadsMade
<1> QED BY <1>1, <1>2, <1>5, <1>6 DEF PayloadsSay

\* Where the scanner stands after a stream
Keeps(x, s) ==
    /\ x.state.line_buf = ScanTip(s) /\ x.state.data_buf = PayloadGiven(ScanGroup(s))
    /\ x.state.has_data <=> Scan!Values(ScanGroup(s)) # <<>>
    /\ x.payloads = Scan!Payloads(s)
NoneLong(list) == \A i \in DOMAIN list : Len(list[i]) <= MaxScratch
Stays(x, y, t) ==
    /\ Keeps(y, t) /\ NoneLong(y.payloads)
    /\ y.overflowed <=> Scan!Held(t) > MaxScratch

LEMMA NeverEmpty == ASSUME NEW V, NEW s \in Seq(V), NEW x \in V PROVE Append(s, x) # <<>>
<1>1. DOMAIN Append(s, x) = 1..(Len(s) + 1) /\ Len(s) \in Nat
  OBVIOUS
<1>2. DOMAIN <<>> = {} /\ 1 \in 1..(Len(s) + 1)
  BY <1>1
<1> QED BY <1>1, <1>2

LEMMA LengthsKept ==
    ASSUME NEW list \in Seq(Seq(Signs)), NEW pay \in Seq(Signs), NoneLong(list),
           Len(pay) <= MaxScratch
    PROVE  NoneLong(Append(list, pay))
BY DEF NoneLong

LEMMA SignKept ==
    ASSUME MaxScratch \in Nat, NEW x \in ScanLoops, NEW s \in Seq(Signs), NEW b \in Signs,
           Keeps(x, s), NoneLong(x.payloads), Scan!Held(s) <= MaxScratch, ~Pairs(s, b, "CR", "LF")
    PROVE  Stays(x, Scan!ScanByte(x, b), Append(s, b))
<1>1. PICK t \in Seq(Signs) : t = Append(s, b)
  BY AppendProperties
<1>2. ByteRead(s, b, t, "CR", "LF")
  <2>1. "LF" \in Signs
    BY DEF Signs
  <2> QED BY <1>1, <2>1, StreamGrows
<1>3. PICK y \in ScanLoops : y = Scan!ScanByte(x, b) /\ SignRead(x, b, y)
  <2>1. PICK y : y = Scan!ScanByte(x, b)
    OBVIOUS
  <2>2. SignRead(x, b, y)
    BY <2>1, SignScanned
  <2> QED BY <2>1, <2>2 DEF SignRead
<1>4. PayloadsSay(s) /\ PayloadsSay(t)
  BY PayloadsMapped
<1>5. PICK g \in Seq(SignLines) : g = ScanGroup(s)
  BY ScanTyped
<1>6. Keeps(y, t) => Stays(x, y, t) \/ ~NoneLong(y.payloads)
  BY <1>3, <1>4 DEF Keeps, Stays, SignRead, PayloadsSay
<1>7. CASE b \notin {"LF", "CR"}
  <2>1. ScanTip(t) = Append(ScanTip(s), b) /\ ScanGroup(t) = ScanGroup(s)
        /\ GroupsIn(t, "CR", "LF") = GroupsIn(s, "CR", "LF")
    BY <1>2, <1>7 DEF ByteRead, ScanTip, ScanGroup
  <2>2. Scan!Payloads(t) = Scan!Payloads(s)
    BY <2>1, PayloadsGrow
  <2>3. Keeps(y, t) /\ NoneLong(y.payloads)
    BY <1>3, <1>7, <2>1, <2>2 DEF Keeps, SignRead
  <2> QED BY <1>1, <1>3, <1>6, <2>3
<1>8. CASE b \in {"LF", "CR"}
  <2>1. PICK z \in ScanLoops :
           /\ Scanned(x, z) /\ y.state.line_buf = <<>> /\ y.payloads = z.payloads
           /\ y.state.data_buf = z.state.data_buf /\ y.state.has_data = z.state.has_data
    BY <1>3, <1>8 DEF SignRead
  <2>2. ScanTip(t) = <<>>
    BY <1>2, <1>8 DEF ByteRead, ScanTip
  <2>3. CASE ScanTip(s) = <<>>
    <3>1. GroupsIn(t, "CR", "LF") = Append(GroupsIn(s, "CR", "LF"), ScanGroup(s))
          /\ ScanGroup(t) = <<>>
      BY <1>2, <1>8, <2>3 DEF ByteRead, ScanTip, ScanGroup
    <3>2. Scan!Payloads(t) = Scan!Payloads(s) \o Scan!PayloadOf(g)
      BY <1>5, <3>1, PayloadsGrow
    <3>3. PayloadGiven(<<>>) = <<>> /\ Scan!Values(<<>>) = <<>>
      <4>1. PayloadIs(g, <<"LF">>) /\ ValuesAre(g, <<"LF">>)
        BY SomeSigns, PayloadGrows, ValuesGrow
      <4> QED BY <4>1 DEF PayloadIs, ValuesAre
    <3>4. PICK pay \in Seq(Signs), list \in Seq(Seq(Signs)) :
             pay = PayloadGiven(g) /\ list = Scan!Payloads(s)
      <4>1. PayloadIs(g, <<"LF">>)
        BY SomeSigns, PayloadGrows
      <4> QED BY <1>4, <4>1 DEF PayloadIs, PayloadsSay
    <3>5. CASE Scan!Values(g) # <<>>
      <4>1. /\ x.state.line_buf = <<>> /\ x.state.has_data = TRUE
            /\ x.state.data_buf = pay /\ x.payloads = list
        BY <1>5, <2>3, <3>4, <3>5 DEF Keeps, ScanLoops, Scanners
      <4>2. /\ z.payloads = Append(list, pay) /\ z.state.data_buf = <<>>
            /\ z.state.has_data = FALSE
        BY <2>1, <4>1 DEF Scanned
      <4>3. Scan!PayloadOf(g) = <<pay>>
        BY <3>4, <3>5 DEF Scan!PayloadOf, PayloadGiven
      <4>4. list \o <<pay>> = Append(list, pay)
        BY AppendIsConcat
      <4>5. Keeps(y, t)
        BY <2>1, <2>2, <3>1, <3>2, <3>3, <3>4, <4>2, <4>3, <4>4 DEF Keeps
      <4>6. Len(pay) <= MaxScratch
        <5>1. Len(ScanTip(s)) = 0
          BY <2>3
        <5> QED BY <1>4, <1>5, <3>4, <5>1 DEF PayloadsSay
      <4>7. NoneLong(y.payloads)
        BY <2>1, <4>1, <4>2, <4>6, LengthsKept
      <4> QED BY <1>1, <1>3, <1>6, <4>5, <4>7
    <3>6. CASE Scan!Values(g) = <<>>
      <4>1. x.state.line_buf = <<>> /\ x.state.has_data = FALSE
        BY <1>5, <2>3, <3>6 DEF Keeps, ScanLoops, Scanners
      <4>2. z = x
        BY <2>1, <4>1 DEF Scanned
      <4>3. Scan!PayloadOf(g) = <<>> /\ pay = <<>>
        <5>1. Joined(<<>>, "LF") = <<>>
          <6>1. "LF" \in Signs /\ <<>> \in Seq(Seq(Signs)) /\ <<>> \in Seq(Signs)
            BY DEF Signs
          <6>2. JoinsOn(<<>>, <<>>, "LF", Signs)
            BY <6>1, JoinedGrows
          <6> QED BY <6>2 DEF JoinsOn
        <5>2. Scan!Joined(<<>>, "LF") = <<>>
          BY <5>1, ScanFormat
        <5> QED BY <3>4, <3>6, <5>2 DEF Scan!PayloadOf, PayloadGiven
      <4>4. list \o <<>> = list
        BY ConcatEmptySeq
      <4>5. Keeps(y, t)
        BY <1>5, <2>1, <2>2, <3>1, <3>2, <3>3, <3>4, <3>6, <4>1, <4>2, <4>3, <4>4 DEF Keeps
      <4>6. NoneLong(y.payloads)
        BY <2>1, <4>2
      <4> QED BY <1>1, <1>3, <1>6, <4>5, <4>6
    <3> QED BY <3>5, <3>6
  <2>4. CASE ScanTip(s) # <<>>
    <3>1. PICK l \in SignLines : l = ScanTip(s)
      <4>1. ScanTip(s) \in Seq(Signs)
        BY ScanTyped
      <4> QED BY <2>4, <4>1 DEF SignLines
    <3>2. GroupsIn(t, "CR", "LF") = GroupsIn(s, "CR", "LF") /\ ScanGroup(t) = Append(g, l)
      BY <1>2, <1>5, <1>8, <2>4, <3>1 DEF ByteRead, ScanTip, ScanGroup
    <3>3. Scan!Payloads(t) = Scan!Payloads(s)
      BY <3>2, PayloadsGrow
    <3>4. ValuesAre(g, l) /\ PayloadIs(g, l)
      BY ValuesGrow, PayloadGrows
    <3>5. x.state.line_buf = l /\ l # <<>> /\ x.state.data_buf = PayloadGiven(g)
          /\ (x.state.has_data <=> Scan!Values(g) # <<>>) /\ x.payloads = Scan!Payloads(s)
      BY <1>5, <2>4, <3>1 DEF Keeps
    <3>6. CASE Scan!HasValue(l)
      <4>1. /\ z.payloads = x.payloads /\ z.state.has_data = TRUE
            /\ z.state.data_buf = PayloadGiven(g) \o (Sep(x) \o Scan!ValueOf(l))
        BY <2>1, <3>5, <3>6 DEF Scanned
      <4>2. Sep(x) = IF Scan!Values(g) = <<>> THEN <<>> ELSE <<"LF">>
        BY <3>5 DEF Sep
      <4>3. z.state.data_buf = PayloadGiven(Append(g, l))
        BY <3>4, <3>6, <4>1, <4>2 DEF PayloadIs
      <4>4. Scan!Values(Append(g, l)) # <<>>
        <5>1. PICK vs \in Seq(Seq(Signs)), v \in Seq(Signs) :
                 vs = Scan!Values(g) /\ v = Scan!ValueOf(l)
          BY <3>4, SignLineTyped DEF ValuesAre, SignLines
        <5>2. Append(vs, v) # <<>>
          BY NeverEmpty
        <5> QED BY <3>4, <3>6, <5>1, <5>2 DEF ValuesAre
      <4>5. Keeps(y, t) /\ NoneLong(y.payloads)
        BY <2>1, <2>2, <3>2, <3>3, <3>5, <4>1, <4>3, <4>4 DEF Keeps
      <4> QED BY <1>1, <1>3, <1>6, <4>5
    <3>7. CASE ~Scan!HasValue(l)
      <4>1. z = x
        BY <2>1, <3>5, <3>7 DEF Scanned
      <4>2. PayloadGiven(Append(g, l)) = PayloadGiven(g)
            /\ Scan!Values(Append(g, l)) = Scan!Values(g)
        BY <3>4, <3>7 DEF PayloadIs, ValuesAre
      <4>3. Keeps(y, t) /\ NoneLong(y.payloads)
        BY <2>1, <2>2, <3>2, <3>3, <3>5, <4>1, <4>2 DEF Keeps
      <4> QED BY <1>1, <1>3, <1>6, <4>3
    <3> QED BY <3>6, <3>7
  <2> QED BY <2>3, <2>4
<1> QED BY <1>7, <1>8

\* Up to the first byte at which too much is held
LastIsCR(s) == s # <<>> /\ s[Len(s)] = "CR"
NoneOver(s) == \A k \in 1..Len(s) : Scan!Held(SubSeq(s, 1, k)) <= MaxScratch
FirstOver(s, j) ==
    /\ j \in 1..Len(s) /\ Scan!Held(SubSeq(s, 1, j)) > MaxScratch
    /\ \A k \in 1..(j - 1) : Scan!Held(SubSeq(s, 1, k)) <= MaxScratch
Standing(x, s) ==
    /\ NoneLong(x.payloads)
    /\ ~x.overflowed => Keeps(x, s) /\ Scan!Held(s) <= MaxScratch /\ NoneOver(s)
    /\ x.overflowed =>
          \E j \in 1..Len(s) : FirstOver(s, j) /\ x.payloads = Scan!Payloads(SubSeq(s, 1, j))

LEMMA FirstPart ==
    ASSUME NEW V, NEW s \in Seq(V), NEW k \in 1..Len(s), NEW u, u = SubSeq(s, 1, k)
    PROVE  u \in Seq(V) /\ Len(u) = k /\ \A i \in 1..k : u[i] = s[i]
<1>1. \A i \in 1..k : s[i] \in V
  OBVIOUS
<1>2. 1 \in Int /\ k \in Int
  OBVIOUS
<1>3. /\ SubSeq(s, 1, k) \in Seq(V)
      /\ Len(SubSeq(s, 1, k)) = IF 1 <= k THEN k - 1 + 1 ELSE 0
      /\ \A i \in 1..(k - 1 + 1) : SubSeq(s, 1, k)[i] = s[1 + i - 1]
  BY <1>1, <1>2, SubSeqProperties
<1>4. 1 <= k /\ k - 1 + 1 = k /\ \A i \in 1..k : 1 + i - 1 = i
  OBVIOUS
<1> QED BY <1>3, <1>4

LEMMA PrefixesKept ==
    ASSUME NEW V, NEW s \in Seq(V), NEW b \in V, NEW t, t = Append(s, b)
    PROVE  /\ Len(t) = Len(s) + 1 /\ SubSeq(t, 1, Len(s) + 1) = t
           /\ \A k \in 1..Len(s) : SubSeq(t, 1, k) = SubSeq(s, 1, k)
<1>1. PICK n \in Nat : n = Len(s)
  OBVIOUS
<1>2. /\ t \in Seq(V) /\ Len(t) = n + 1 /\ t[n + 1] = b
      /\ \A k \in 1..n : t[k] = s[k]
  BY <1>1
<1>3. SubSeq(t, 1, n + 1) = t
  <2>1. PICK u : u = SubSeq(t, 1, n + 1)
    OBVIOUS
  <2>2. n + 1 \in 1..Len(t)
    BY <1>2
  <2>3. u \in Seq(V) /\ Len(u) = n + 1 /\ \A i \in 1..(n + 1) : u[i] = t[i]
    BY <1>2, <2>1, <2>2, FirstPart
  <2>4. u = t
    BY <1>2, <2>3, SeqEqual
  <2> QED BY <2>1, <2>4
<1>4. ASSUME NEW k \in 1..n PROVE SubSeq(t, 1, k) = SubSeq(s, 1, k)
  <2>1. PICK u : u = SubSeq(t, 1, k)
    OBVIOUS
  <2>2. PICK v : v = SubSeq(s, 1, k)
    OBVIOUS
  <2>3. k \in 1..Len(t) /\ k \in 1..Len(s)
    BY <1>1, <1>2
  <2>4. u \in Seq(V) /\ Len(u) = k /\ \A i \in 1..k : u[i] = t[i]
    BY <1>2, <2>1, <2>3, FirstPart
  <2>5. v \in Seq(V) /\ Len(v) = k /\ \A i \in 1..k : v[i] = s[i]
    BY <2>2, <2>3, FirstPart
  <2>6. \A i \in 1..k : u[i] = v[i]
    <3>1. ASSUME NEW i \in 1..k PROVE u[i] = v[i]
      <4>1. i \in 1..n
        OBVIOUS
      <4>2. u[i] = t[i] /\ v[i] = s[i] /\ t[i] = s[i]
        BY <1>2, <2>4, <2>5, <4>1
      <4> QED BY <4>2
    <3> QED BY <3>1
  <2>7. u = v
    BY <2>4, <2>5, <2>6, SeqEqual
  <2> QED BY <2>1, <2>2, <2>7
<1> QED BY <1>1, <1>2, <1>3, <1>4

LEMMA OverGrows ==
    ASSUME MaxScratch \in Nat, NEW s \in Seq(Signs), NEW b \in Signs, NEW t, t = Append(s, b)
    PROVE  /\ \A j \in 1..Len(s) : FirstOver(s, j) =>
                 FirstOver(t, j) /\ SubSeq(t, 1, j) = SubSeq(s, 1, j) /\ j \in 1..Len(t)
           /\ NoneOver(s) /\ Scan!Held(t) <= MaxScratch => NoneOver(t)
           /\ NoneOver(s) /\ Scan!Held(t) > MaxScratch => FirstOver(t, Len(t))
<1>1. PICK n \in Nat : n = Len(s)
  OBVIOUS
<1>2. /\ Len(t) = n + 1 /\ SubSeq(t, 1, n + 1) = t
      /\ \A k \in 1..n : SubSeq(t, 1, k) = SubSeq(s, 1, k)
  BY <1>1, PrefixesKept
<1>3. ASSUME NEW j \in 1..n, FirstOver(s, j) PROVE FirstOver(t, j)
  <2>1. \A k \in 1..(j - 1) : k \in 1..n
    OBVIOUS
  <2>2. j \in 1..(n + 1)
    OBVIOUS
  <2> QED BY <1>1, <1>2, <1>3, <2>1, <2>2 DEF FirstOver
<1>4. ASSUME NoneOver(s), Scan!Held(t) <= MaxScratch PROVE NoneOver(t)
  <2>1. ASSUME NEW k \in 1..(n + 1) PROVE Scan!Held(SubSeq(t, 1, k)) <= MaxScratch
    <3>1. CASE k = n + 1
      BY <1>2, <1>4, <3>1
    <3>2. CASE k # n + 1
      <4>1. k \in 1..n
        BY <3>2
      <4> QED BY <1>1, <1>2, <1>4, <4>1 DEF NoneOver
    <3> QED BY <3>1, <3>2
  <2> QED BY <1>2, <2>1 DEF NoneOver
<1>5. ASSUME NoneOver(s), Scan!Held(t) > MaxScratch PROVE FirstOver(t, n + 1)
  <2>1. n + 1 \in 1..(n + 1) /\ (n + 1) - 1 = n
    OBVIOUS
  <2> QED BY <1>1, <1>2, <1>5, <2>1 DEF NoneOver, FirstOver
<1>6. \A j \in 1..n : j \in 1..(n + 1)
  OBVIOUS
<1> QED BY <1>1, <1>2, <1>3, <1>4, <1>5, <1>6

\* One turn of scan_sse_chunk
TurnStands(y, t) == y \in ScanLoops /\ Standing(y, t)
LEMMA TurnTaken ==
    ASSUME MaxScratch \in Nat, NEW x \in ScanLoops, NEW s \in Seq(Signs), NEW b \in Signs,
           Standing(x, s)
    PROVE  TurnStands(IF x.overflowed \/ Pairs(s, b, "CR", "LF") THEN x ELSE Scan!ScanByte(x, b),
                      Append(s, b))
<1>1. PICK t \in Seq(Signs) : t = Append(s, b)
  BY AppendProperties
<1>2. PICK y : y = IF x.overflowed \/ Pairs(s, b, "CR", "LF") THEN x ELSE Scan!ScanByte(x, b)
  OBVIOUS
<1>3. /\ \A j \in 1..Len(s) : FirstOver(s, j) =>
            FirstOver(t, j) /\ SubSeq(t, 1, j) = SubSeq(s, 1, j) /\ j \in 1..Len(t)
      /\ NoneOver(s) /\ Scan!Held(t) <= MaxScratch => NoneOver(t)
      /\ NoneOver(s) /\ Scan!Held(t) > MaxScratch => FirstOver(t, Len(t))
  BY <1>1, OverGrows
<1>4. CASE x.overflowed
  <2>1. PICK j \in 1..Len(s) : FirstOver(s, j) /\ x.payloads = Scan!Payloads(SubSeq(s, 1, j))
    BY <1>4 DEF Standing
  <2>2. FirstOver(t, j) /\ j \in 1..Len(t) /\ x.payloads = Scan!Payloads(SubSeq(t, 1, j))
    BY <1>3, <2>1
  <2>3. Standing(x, t)
    BY <1>4, <2>2 DEF Standing
  <2> QED BY <1>1, <1>2, <1>4, <2>3 DEF TurnStands
<1>5. CASE ~x.overflowed /\ Pairs(s, b, "CR", "LF")
  <2>1. ByteRead(s, b, t, "CR", "LF")
    <3>1. "LF" \in Signs
      BY DEF Signs
    <3> QED BY <1>1, <3>1, StreamGrows
  <2>2. /\ ScanTip(t) = ScanTip(s) /\ ScanGroup(t) = ScanGroup(s)
        /\ GroupsIn(t, "CR", "LF") = GroupsIn(s, "CR", "LF")
    BY <1>5, <2>1 DEF ByteRead, ScanTip, ScanGroup
  <2>3. Scan!Payloads(t) = Scan!Payloads(s)
    BY <2>2, PayloadsGrow
  <2>4. Scan!Held(t) = Scan!Held(s)
    <3>1. PayloadsSay(s) /\ PayloadsSay(t)
      BY PayloadsMapped
    <3> QED BY <2>2, <3>1 DEF PayloadsSay
  <2>5. Keeps(x, t) /\ Scan!Held(t) <= MaxScratch /\ NoneOver(t) /\ NoneLong(x.payloads)
    BY <1>3, <1>5, <2>2, <2>3, <2>4 DEF Standing, Keeps
  <2>6. Standing(x, t)
    BY <1>5, <2>5 DEF Standing
  <2> QED BY <1>1, <1>2, <1>5, <2>6 DEF TurnStands
<1>6. CASE ~x.overflowed /\ ~Pairs(s, b, "CR", "LF")
  <2>1. y = Scan!ScanByte(x, b)
    BY <1>2, <1>6
  <2>2. y \in ScanLoops
    <3>1. SignRead(x, b, Scan!ScanByte(x, b))
      BY SignScanned
    <3> QED BY <2>1, <3>1 DEF SignRead
  <2>3. Stays(x, y, t)
    <3>1. Keeps(x, s) /\ NoneLong(x.payloads) /\ Scan!Held(s) <= MaxScratch
      BY <1>6 DEF Standing
    <3> QED BY <1>1, <1>6, <2>1, <3>1, SignKept
  <2>4. PayloadsSay(t)
    BY PayloadsMapped
  <2>5. CASE y.overflowed
    <3>1. Scan!Held(t) > MaxScratch /\ NoneOver(s)
      BY <1>6, <2>3, <2>5 DEF Stays, Standing
    <3>2. Len(t) \in 1..Len(t) /\ SubSeq(t, 1, Len(t)) = t
      <4>1. Len(t) = Len(s) + 1 /\ SubSeq(t, 1, Len(s) + 1) = t /\ Len(s) \in Nat
        BY <1>1, PrefixesKept
      <4> QED BY <4>1
    <3>3. FirstOver(t, Len(t)) /\ y.payloads = Scan!Payloads(SubSeq(t, 1, Len(t)))
      BY <1>3, <2>3, <3>1, <3>2 DEF Stays, Keeps
    <3>4. Standing(y, t)
      BY <2>3, <2>5, <3>2, <3>3 DEF Standing, Stays
    <3> QED BY <1>1, <1>2, <2>2, <3>4 DEF TurnStands
  <2>6. CASE ~y.overflowed
    <3>1. Scan!Held(t) <= MaxScratch /\ NoneOver(s)
      BY <1>6, <2>3, <2>4, <2>6 DEF Stays, Standing, PayloadsSay
    <3>2. Standing(y, t)
      BY <1>3, <2>3, <2>6, <3>1 DEF Standing, Stays
    <3> QED BY <1>1, <1>2, <2>2, <3>2 DEF TurnStands
  <2> QED BY <2>5, <2>6
<1> QED BY <1>4, <1>5, <1>6

\* The LF of a CRLF pair is told across the cut
LEMMA PairTold ==
    ASSUME NEW s \in Seq(Signs), NEW c \in Seq(Signs), NEW i \in 1..Len(c),
           NEW cr \in BOOLEAN, cr <=> LastIsCR(s), NEW u, u = s \o SubSeq(c, 1, i - 1)
    PROVE  Scan!Paired(cr, c, i) <=> Pairs(u, c[i], "CR", "LF")
<1>1. PICK m \in Nat, n \in Nat : m = Len(s) /\ n = Len(c)
  OBVIOUS
<1>2. PICK v : v = SubSeq(c, 1, i - 1)
  OBVIOUS
<1>3. /\ v \in Seq(Signs) /\ Len(v) = i - 1
      /\ \A k \in 1..(i - 1) : v[k] = c[k]
  <2>1. \A k \in 1..(i - 1) : c[k] \in Signs
    BY <1>1
  <2>2. /\ v \in Seq(Signs) /\ Len(v) = IF 1 <= i - 1 THEN (i - 1) - 1 + 1 ELSE 0
        /\ \A k \in 1..((i - 1) - 1 + 1) : v[k] = c[1 + k - 1]
    BY <1>2, <2>1, SubSeqProperties
  <2> QED BY <2>2
<1>4. /\ u \in Seq(Signs) /\ Len(u) = m + (i - 1)
      /\ \A k \in 1..(m + (i - 1)) : u[k] = IF k <= m THEN s[k] ELSE v[k - m]
  BY <1>1, <1>2, <1>3, ConcatProperties
<1>5. CASE i = 1
  <2>1. u = s
    <3>1. v = <<>>
      BY <1>3, <1>5, EmptySeq
    <3> QED BY <1>2, <3>1, ConcatEmptySeq
  <2> QED BY <1>5, <2>1 DEF Scan!Paired, Pairs, LastIsCR
<1>6. CASE i # 1
  <2>1. i - 1 \in 1..(i - 1) /\ m + (i - 1) \in 1..(m + (i - 1)) /\ ~(m + (i - 1) <= m)
        /\ (m + (i - 1)) - m = i - 1 /\ m + (i - 1) # 0
    BY <1>6
  <2>2. u # <<>> /\ u[Len(u)] = c[i - 1]
    BY <1>3, <1>4, <2>1, EmptySeq
  <2> QED BY <1>6, <2>2 DEF Scan!Paired, Pairs
<1> QED BY <1>5, <1>6

\* The loop over a chunk
Entry == [state |-> state, payloads |-> payloads, overflowed |-> FALSE]
Turn(x, c, i) ==
    IF x.overflowed \/ Scan!Paired(state.prev_cr, c, i) THEN x ELSE Scan!ScanByte(x, c[i])
LEMMA ChunkLoop ==
    ASSUME MaxScratch \in Nat, Entry \in ScanLoops, NEW c \in Seq(Signs)
    PROVE  \E h : /\ h[0] = Entry /\ \A i \in 1..Len(c) : h[i] = Turn(h[i - 1], c, i)
                  /\ Scan!ScanChunk(c) =
                        [h[Len(c)] EXCEPT !.state.prev_cr = c # <<>> /\ Scan!Last(c) = "CR"]
<1> DEFINE n == Len(c)
           step == [kx \in (1..n) \X ScanLoops |-> Turn(kx[2], c, kx[1])]
           Takes(h) == h = [i \in 0..Len(c) |->
               IF i = 0 THEN Entry
               ELSE IF h[i - 1].overflowed \/ Scan!Paired(state.prev_cr, c, i) THEN h[i - 1]
               ELSE Scan!ScanByte(h[i - 1], c[i])]
<1>1. n \in Nat
  OBVIOUS
<1>2. \A i \in 1..n : \A x \in ScanLoops : Turn(x, c, i) \in ScanLoops
  <2>1. ASSUME NEW i \in 1..n, NEW x \in ScanLoops PROVE Turn(x, c, i) \in ScanLoops
    <3>1. PICK b \in Signs : b = c[i]
      OBVIOUS
    <3>2. SignRead(x, b, Scan!ScanByte(x, b))
      BY SignScanned
    <3> QED BY <3>1, <3>2 DEF SignRead, Turn
  <2> QED BY <2>1
<1>3. step \in Steps(n, ScanLoops) /\ \A i \in 1..n : \A x \in ScanLoops :
                                         step[<<i, x>>] = Turn(x, c, i)
  BY <1>2 DEF Steps
<1> HIDE DEF step, n
<1>4. PICK g : Unfolds(g, n, ScanLoops, Entry, step)
  BY <1>1, <1>3, RecursionDefines
<1>5. \A i \in 0..n : i = 0 \/ (i \in 1..n /\ i # 0 /\ i - 1 \in 0..n)
  BY <1>1
<1>6. Takes(g)
  <2>1. g \in [0..n -> ScanLoops] /\ g[0] = Entry /\ \A i \in 1..n : g[i] = step[<<i, g[i - 1]>>]
    BY <1>4 DEF Unfolds
  <2>2. \A i \in 1..n : g[i] = Turn(g[i - 1], c, i)
    <3>1. ASSUME NEW i \in 1..n PROVE g[i] = Turn(g[i - 1], c, i)
      <4>1. PICK x \in ScanLoops : x = g[i - 1]
        BY <1>5, <2>1
      <4>2. step[<<i, x>>] = Turn(x, c, i)
        BY <1>3
      <4> QED BY <2>1, <4>1, <4>2
    <3> QED BY <3>1
  <2>3. \A i \in 0..n : g[i] = IF i = 0 THEN Entry ELSE Turn(g[i - 1], c, i)
    BY <1>5, <2>1, <2>2
  <2>4. g = [i \in 0..n |-> IF i = 0 THEN Entry ELSE Turn(g[i - 1], c, i)]
    BY <2>1, <2>3
  <2> QED BY <2>4 DEF n, Turn
<1> DEFINE h == CHOOSE fl : Takes(fl)
<1>7. Takes(h)
  BY <1>6
<1>8. Scan!ScanChunk(c) = [h[Len(c)] EXCEPT !.state.prev_cr = c # <<>> /\ Scan!Last(c) = "CR"]
  BY Zenon DEF Scan!ScanChunk, Entry
<1> HIDE DEF h
<1>9. \A i \in 0..n : h[i] = IF i = 0 THEN Entry ELSE Turn(h[i - 1], c, i)
  BY <1>7 DEF n, Turn
<1>10. h[0] = Entry /\ \A i \in 1..n : h[i] = Turn(h[i - 1], c, i)
  <2>1. 0 \in 0..n /\ \A i \in 1..n : i \in 0..n /\ i # 0
    BY <1>1
  <2> QED BY <1>9, <2>1
<1> QED BY <1>8, <1>10 DEF n

LEMMA ChunkScanned ==
    ASSUME MaxScratch \in Nat, Entry \in ScanLoops, seen \in Seq(Signs), Standing(Entry, seen),
           state.prev_cr <=> LastIsCR(seen), NEW c \in Seq(Signs)
    PROVE  \E x : /\ TurnStands(x, seen \o c)
                  /\ Scan!ScanChunk(c) = [x EXCEPT !.state.prev_cr = c # <<>> /\ Scan!Last(c) = "CR"]
<1>1. PICK h : /\ h[0] = Entry /\ \A i \in 1..Len(c) : h[i] = Turn(h[i - 1], c, i)
               /\ Scan!ScanChunk(c) =
                     [h[Len(c)] EXCEPT !.state.prev_cr = c # <<>> /\ Scan!Last(c) = "CR"]
  BY ChunkLoop
<1>2. PICK n \in Nat : n = Len(c)
  OBVIOUS
<1>3. PICK cr \in BOOLEAN : cr = state.prev_cr
  BY DEF Entry, ScanLoops, Scanners
<1> DEFINE P == {i \in 0..n : TurnStands(h[i], seen \o SubSeq(c, 1, i))}
<1>4. 0 \in P
  <2>1. SubSeq(c, 1, 0) = <<>>
    BY SubSeqEmpty
  <2>2. seen \o <<>> = seen
    BY ConcatEmptySeq
  <2>3. TurnStands(h[0], seen \o SubSeq(c, 1, 0))
    BY <1>1, <2>1, <2>2 DEF TurnStands
  <2>4. 0 \in 0..n
    BY <1>2
  <2> QED BY <2>3, <2>4
<1>5. ASSUME NEW i \in 0..(n - 1), i \in P PROVE i + 1 \in P
  <2>1. i + 1 \in 1..Len(c) /\ (i + 1) - 1 = i /\ i + 1 \in 0..n
    BY <1>2
  <2>2. PICK b \in Signs : b = c[i + 1]
    BY <2>1
  <2>3. SubSeq(c, 1, i) \in Seq(Signs)
    <3>1. \A k \in 1..i : c[k] \in Signs
      BY <1>2
    <3> QED BY <3>1, SubSeqProperties
  <2>4. PICK s \in Seq(Signs) : s = seen \o SubSeq(c, 1, i)
    BY <2>3, ConcatProperties
  <2>5. h[i] \in ScanLoops /\ Standing(h[i], s)
    BY <1>5, <2>4 DEF TurnStands
  <2>6. Scan!Paired(cr, c, i + 1) <=> Pairs(s, b, "CR", "LF")
    BY <1>3, <2>1, <2>2, <2>4, PairTold
  <2>7. h[i + 1] = IF h[i].overflowed \/ Pairs(s, b, "CR", "LF") THEN h[i]
                   ELSE Scan!ScanByte(h[i], b)
    BY <1>1, <1>3, <2>1, <2>2, <2>6 DEF Turn
  <2>8. TurnStands(h[i + 1], Append(s, b))
    <3>1. PICK x \in ScanLoops : x = h[i]
      BY <2>5
    <3> QED BY <2>5, <2>7, <3>1, TurnTaken
  <2>9. Append(s, b) = seen \o SubSeq(c, 1, i + 1)
    <3>1. SubSeq(c, 1, i + 1) = SubSeq(c, 1, i) \o <<b>>
      BY <2>1, <2>2, SubSeqRecursiveSecond
    <3>2. SubSeq(c, 1, i) \o <<b>> = Append(SubSeq(c, 1, i), b)
      BY <2>3, AppendIsConcat
    <3>3. seen \o Append(SubSeq(c, 1, i), b) = Append(s, b)
      BY <2>3, <2>4, ConcatThenAppend
    <3> QED BY <3>1, <3>2, <3>3
  <2> QED BY <2>1, <2>8, <2>9
<1>6. n \in P
  <2> HIDE DEF P
  <2>1. \A i \in 0..n : i \in P
    BY <1>4, <1>5, BoundedInduction
  <2>2. n \in 0..n
    BY <1>2
  <2> QED BY <2>1, <2>2
<1>7. SubSeq(c, 1, n) = c
  <2>1. CASE n = 0
    <3>1. c = <<>>
      BY <1>2, <2>1, EmptySeq
    <3> QED BY <2>1, <3>1, SubSeqEmpty
  <2>2. CASE n # 0
    <3>1. n \in 1..Len(c)
      BY <1>2, <2>2
    <3>2. PICK u : u = SubSeq(c, 1, n)
      OBVIOUS
    <3>3. u \in Seq(Signs) /\ Len(u) = n /\ \A i \in 1..n : u[i] = c[i]
      BY <3>1, <3>2, FirstPart
    <3>4. u = c
      BY <1>2, <3>3, SeqEqual
    <3> QED BY <3>2, <3>4
  <2> QED BY <2>1, <2>2
<1> QED BY <1>1, <1>2, <1>6, <1>7

\* Between two chunks
ScanInv ==
    /\ state \in Scanners /\ payloads \in Seq(Seq(Signs)) /\ overflowed \in BOOLEAN
    /\ seen \in Seq(ScanBytes) /\ NoneLong(payloads)
    /\ ~overflowed => Standing(Entry, seen) /\ (state.prev_cr <=> LastIsCR(seen))
    /\ overflowed =>
          /\ state = Scan!Fresh
          /\ \E j \in 1..Len(seen) :
                FirstOver(seen, j) /\ payloads = Scan!Payloads(SubSeq(seen, 1, j))

LEMMA SignsRead == ASSUME NEW s \in Seq(ScanBytes) PROVE s \in Seq(Signs)
BY DEF Signs

LEMMA FreshScanner == Scan!Fresh \in Scanners
BY DEF Scan!Fresh, Scanners

LEMMA NothingScanned ==
    /\ ScanTip(<<>>) = <<>> /\ ScanGroup(<<>>) = <<>> /\ PayloadGiven(<<>>) = <<>>
    /\ Scan!Values(<<>>) = <<>> /\ Scan!Payloads(<<>>) = <<>> /\ Scan!Held(<<>>) = 0
<1>1. ScanTip(<<>>) = <<>> /\ ScanGroup(<<>>) = <<>> /\ GroupsIn(<<>>, "CR", "LF") = <<>>
  BY NothingRead DEF ScanTip, ScanGroup
<1>2. PayloadGiven(<<>>) = <<>> /\ Scan!Values(<<>>) = <<>>
  <2>1. <<>> \in Seq(SignLines)
    OBVIOUS
  <2>2. PayloadIs(<<>>, <<"LF">>) /\ ValuesAre(<<>>, <<"LF">>)
    BY <2>1, SomeSigns, PayloadGrows, ValuesGrow
  <2> QED BY <2>2 DEF PayloadIs, ValuesAre
<1>3. PayloadsSay(<<>>)
  <2>1. <<>> \in Seq(Signs)
    OBVIOUS
  <2> QED BY <2>1, PayloadsMapped
<1>4. FlatMap(PayloadsMade, <<>>) = <<>>
  <2>1. <<>> \in Seq(Seq(SignLines))
    OBVIOUS
  <2>2. PayloadsMade \in [Seq(SignLines) -> Seq(Seq(Signs))]
    BY PayloadTyped DEF PayloadsMade
  <2>3. Grows(PayloadsMade, <<>>, Seq(SignLines), Seq(Signs))
    BY <2>1, <2>2, FlatMapGrows
  <2> QED BY <2>3 DEF Grows
<1> QED BY <1>1, <1>2, <1>3, <1>4 DEF PayloadsSay

LEMMA ScanStarts == ASSUME ChunksNotEmpty, Scan!Init PROVE ScanInv
<1>1. state = Scan!Fresh /\ payloads = <<>> /\ overflowed = FALSE /\ seen = <<>>
  BY DEF Scan!Init
<1>2. state \in Scanners /\ payloads \in Seq(Seq(Signs)) /\ seen \in Seq(ScanBytes)
  BY <1>1, FreshScanner
<1>3. NoneLong(<<>>)
  BY DEF NoneLong
<1>4. NoneOver(<<>>)
  BY DEF NoneOver
<1>5. PICK x : x = Entry
  OBVIOUS
<1>6. x.state = Scan!Fresh /\ x.payloads = <<>> /\ x.overflowed = FALSE
  BY <1>1, <1>5 DEF Entry
<1>7. Keeps(x, <<>>)
  <2>1. /\ x.state.line_buf = <<>> /\ x.state.data_buf = <<>> /\ x.state.has_data = FALSE
    BY <1>6 DEF Scan!Fresh
  <2> QED BY <1>6, <2>1, NothingScanned DEF Keeps
<1>8. Standing(x, <<>>)
  <2>1. Scan!Held(<<>>) <= MaxScratch
    BY NothingScanned DEF ChunksNotEmpty
  <2> QED BY <1>3, <1>4, <1>6, <1>7, <2>1 DEF Standing
<1>9. state.prev_cr <=> LastIsCR(<<>>)
  BY <1>1 DEF Scan!Fresh, LastIsCR
<1> QED BY <1>1, <1>2, <1>3, <1>5, <1>8, <1>9 DEF ScanInv

LEMMA ChunkTaken ==
    ASSUME ChunksNotEmpty, ScanInv, NEW c \in Seq(ScanBytes), c # <<>>, Scan!Chunk(c)
    PROVE  ScanInv'
<1>1. PICK r : r = Scan!ScanChunk(c)
  OBVIOUS
<1>2. /\ ~overflowed /\ seen' = seen \o c /\ payloads' = r.payloads
      /\ overflowed' = r.overflowed
      /\ state' = IF r.overflowed THEN Scan!Fresh ELSE r.state
  BY <1>1 DEF Scan!Chunk
<1>3. MaxScratch \in Nat /\ seen \in Seq(Signs) /\ c \in Seq(Signs) /\ Entry \in ScanLoops
      /\ Standing(Entry, seen) /\ (state.prev_cr <=> LastIsCR(seen))
  <2>1. MaxScratch \in Nat /\ seen \in Seq(Signs) /\ c \in Seq(Signs)
    BY SignsRead DEF ScanInv, ChunksNotEmpty
  <2>2. Entry \in ScanLoops
    BY DEF Entry, ScanLoops, ScanInv
  <2> QED BY <1>2, <2>1, <2>2 DEF ScanInv
<1>4. PICK x : /\ TurnStands(x, seen \o c)
               /\ r = [x EXCEPT !.state.prev_cr = c # <<>> /\ Scan!Last(c) = "CR"]
  BY <1>1, <1>3, ChunkScanned
<1>5. PICK u \in Seq(Signs) : u = seen \o c
  BY <1>3, ConcatProperties
<1>6. PICK last \in BOOLEAN : last <=> c # <<>> /\ Scan!Last(c) = "CR"
  OBVIOUS
<1>7. r = [x EXCEPT !.state.prev_cr = last]
  BY <1>4, <1>6, Zenon
<1>8. x \in ScanLoops /\ Standing(x, u)
  BY <1>4, <1>5 DEF TurnStands
<1>9. /\ r.payloads = x.payloads /\ r.overflowed = x.overflowed /\ r.state \in Scanners
      /\ r.state.line_buf = x.state.line_buf /\ r.state.data_buf = x.state.data_buf
      /\ r.state.has_data = x.state.has_data /\ r.state.prev_cr = last
      /\ x.payloads \in Seq(Seq(Signs)) /\ x.overflowed \in BOOLEAN
  <2>1. x.state \in Scanners /\ x.payloads \in Seq(Seq(Signs)) /\ x.overflowed \in BOOLEAN
    BY <1>8 DEF ScanLoops
  <2>2. r.payloads = x.payloads /\ r.overflowed = x.overflowed
    BY <1>7, <1>8 DEF ScanLoops
  <2>3. r.state = [x.state EXCEPT !.prev_cr = last]
    BY <1>7, <1>8 DEF ScanLoops
  <2> QED BY <2>1, <2>2, <2>3 DEF Scanners
<1>10. last <=> LastIsCR(u)
  <2>1. PICK m \in Nat, k \in Nat : m = Len(seen) /\ k = Len(c)
    BY <1>3
  <2>2. k # 0
    BY <1>3, <2>1, EmptySeq
  <2>3. Len(u) = m + k /\ \A i \in 1..(m + k) : u[i] = IF i <= m THEN seen[i] ELSE c[i - m]
    BY <1>3, <1>5, <2>1, ConcatProperties
  <2>4. u # <<>> /\ u[Len(u)] = c[k]
    <3>1. m + k \in 1..(m + k) /\ ~(m + k <= m) /\ (m + k) - m = k /\ m + k # 0
      BY <2>2
    <3> QED BY <2>3, <3>1, EmptySeq
  <2> QED BY <1>6, <2>1, <2>4 DEF LastIsCR, Scan!Last
<1>11. seen' = u /\ seen' \in Seq(ScanBytes)
  BY <1>2, <1>5, ConcatProperties DEF ScanInv
<1>12. CASE x.overflowed
  <2>1. overflowed' = TRUE /\ state' = Scan!Fresh /\ payloads' = x.payloads
    BY <1>2, <1>9, <1>12
  <2>2. NoneLong(x.payloads) /\ \E j \in 1..Len(u) :
           FirstOver(u, j) /\ x.payloads = Scan!Payloads(SubSeq(u, 1, j))
    BY <1>8, <1>12 DEF Standing
  <2> QED BY <1>9, <1>11, <2>1, <2>2, FreshScanner DEF ScanInv
<1>13. CASE ~x.overflowed
  <2>1. overflowed' = FALSE /\ state' = r.state /\ payloads' = x.payloads
    BY <1>2, <1>9, <1>13
  <2>2. Keeps(x, u) /\ Scan!Held(u) <= MaxScratch /\ NoneOver(u) /\ NoneLong(x.payloads)
    BY <1>8, <1>13 DEF Standing
  <2>3. PICK y : y = [state |-> r.state, payloads |-> x.payloads, overflowed |-> FALSE]
    OBVIOUS
  <2>4. y.state = r.state /\ y.payloads = x.payloads /\ y.overflowed = FALSE
    BY <2>3
  <2>5. Keeps(y, u)
    BY <1>9, <2>2, <2>4 DEF Keeps
  <2>6. Standing(y, u)
    BY <2>2, <2>4, <2>5 DEF Standing
  <2>7. (Entry)' = y
    BY <2>1, <2>3 DEF Entry
  <2>8. state'.prev_cr <=> LastIsCR(u)
    BY <1>9, <1>10, <2>1
  <2> QED BY <1>9, <1>11, <2>1, <2>2, <2>6, <2>7, <2>8 DEF ScanInv
<1> QED BY <1>9, <1>12, <1>13

LEMMA LimitFound ==
    ASSUME MaxScratch \in Nat, NEW s \in Seq(Signs)
    PROVE  /\ NoneOver(s) => Scan!WithinLimit(s) = s
           /\ \A j \in 1..Len(s) : FirstOver(s, j) => Scan!WithinLimit(s) = SubSeq(s, 1, j)
<1>1. PICK n \in Nat : n = Len(s) /\ DOMAIN s = 1..n
  OBVIOUS
<1>2. PICK much : much = Scan!TooMuchAt(s)
  OBVIOUS
<1>3. much = {k \in 1..n : Scan!Held(SubSeq(s, 1, k)) > MaxScratch}
  BY <1>1, <1>2 DEF Scan!TooMuchAt
<1>4. \A k \in 1..n : Scan!Held(SubSeq(s, 1, k)) \in Nat
  <2>1. ASSUME NEW k \in 1..n PROVE Scan!Held(SubSeq(s, 1, k)) \in Nat
    <3>1. PICK u \in Seq(Signs) : u = SubSeq(s, 1, k)
      BY <1>1, FirstPart
    <3>2. PayloadsSay(u)
      BY PayloadsMapped
    <3> QED BY <3>1, <3>2 DEF PayloadsSay
  <2> QED BY <2>1
<1>5. ASSUME NoneOver(s) PROVE Scan!WithinLimit(s) = s
  <2>1. much = {}
    BY <1>1, <1>3, <1>4, <1>5 DEF NoneOver
  <2> QED BY <1>2, <2>1 DEF Scan!WithinLimit
<1>6. ASSUME NEW j \in 1..n, FirstOver(s, j) PROVE Scan!WithinLimit(s) = SubSeq(s, 1, j)
  <2>1. j \in much /\ \A i \in much : j <= i
    <3>1. j \in much
      BY <1>3, <1>6 DEF FirstOver
    <3>2. ASSUME NEW i \in much, i < j PROVE FALSE
      <4>1. i \in 1..(j - 1) /\ Scan!Held(SubSeq(s, 1, i)) > MaxScratch
            /\ Scan!Held(SubSeq(s, 1, i)) \in Nat
        BY <1>3, <1>4, <3>2
      <4> QED BY <1>6, <4>1 DEF FirstOver
    <3>3. \A i \in much : i \in 1..n
      BY <1>3
    <3> QED BY <3>1, <3>2, <3>3
  <2>2. PICK k : k = CHOOSE m \in much : \A i \in much : m <= i
    OBVIOUS
  <2>3. k = j
    <3>1. k \in much /\ \A i \in much : k <= i
      BY <2>1, <2>2
    <3>2. \A i \in much : i \in Int
      BY <1>3
    <3> QED BY <2>1, <3>1, <3>2
  <2> QED BY <1>2, <2>1, <2>2, <2>3 DEF Scan!WithinLimit
<1> QED BY <1>1, <1>5, <1>6

LEMMA ScanSound == ASSUME ChunksNotEmpty, ScanInv PROVE Scan!ScannerSound
<1>1. MaxScratch \in Nat /\ seen \in Seq(Signs)
  BY SignsRead DEF ChunksNotEmpty, ScanInv
<1>2. state \in Scanners /\ NoneLong(payloads) /\ overflowed \in BOOLEAN
  BY DEF ScanInv
<1>3. CASE ~overflowed
  <2>1. PICK x : x = Entry
    OBVIOUS
  <2>2. x.state = state /\ x.payloads = payloads /\ x.overflowed = FALSE
    BY <2>1 DEF Entry
  <2>3. Keeps(x, seen) /\ Scan!Held(seen) <= MaxScratch /\ NoneOver(seen)
    BY <1>3, <2>1, <2>2 DEF ScanInv, Standing
  <2>4. Scan!WithinLimit(seen) = seen
    BY <1>1, <2>3, LimitFound
  <2>5. PayloadsSay(seen)
    BY <1>1, PayloadsMapped
  <2>6. overflowed = (Scan!Held(seen) > MaxScratch)
    <3>1. PICK k \in Nat : k = Scan!Held(seen)
      BY <2>5 DEF PayloadsSay
    <3>2. overflowed <=> k > MaxScratch
      BY <1>1, <1>3, <2>3, <3>1
    <3>3. overflowed = (k > MaxScratch)
      BY <1>1, <1>2, <3>2
    <3> QED BY <3>1, <3>3
  <2>7. Len(state.line_buf) + Len(state.data_buf) <= MaxScratch
    BY <2>2, <2>3, <2>5 DEF Keeps, PayloadsSay
  <2>8. Scan!PayloadsOfStream
    BY <2>2, <2>3, <2>4, <2>6 DEF Scan!PayloadsOfStream, Keeps
  <2> QED BY <1>2, <2>7, <2>8 DEF Scan!ScannerSound, Scan!ScratchBounded, NoneLong
<1>4. CASE overflowed
  <2>1. PICK j \in 1..Len(seen) :
           FirstOver(seen, j) /\ payloads = Scan!Payloads(SubSeq(seen, 1, j))
    BY <1>4 DEF ScanInv
  <2>2. PICK u \in Seq(Signs) : u = SubSeq(seen, 1, j)
    BY <1>1, FirstPart
  <2>3. Scan!WithinLimit(seen) = u
    BY <1>1, <2>1, <2>2, LimitFound
  <2>4. overflowed = (Scan!Held(u) > MaxScratch)
    <3>1. PICK k \in Nat : k = Scan!Held(u)
      <4>1. PayloadsSay(u)
        BY PayloadsMapped
      <4> QED BY <4>1 DEF PayloadsSay
    <3>2. overflowed <=> k > MaxScratch
      BY <1>4, <2>1, <2>2, <3>1 DEF FirstOver
    <3>3. overflowed = (k > MaxScratch)
      BY <1>1, <1>2, <3>2
    <3> QED BY <3>1, <3>3
  <2>5. Scan!PayloadsOfStream
    BY <2>1, <2>2, <2>3, <2>4 DEF Scan!PayloadsOfStream
  <2>6. Len(state.line_buf) + Len(state.data_buf) <= MaxScratch
    <3>1. state.line_buf = <<>> /\ state.data_buf = <<>>
      BY <1>4 DEF ScanInv, Scan!Fresh
    <3> QED BY <1>1, <3>1
  <2> QED BY <1>2, <2>5, <2>6 DEF Scan!ScannerSound, Scan!ScratchBounded, NoneLong
<1> QED BY <1>2, <1>3, <1>4

LEMMA ScanNext ==
    ASSUME ChunksNotEmpty, ScanInv, [Scan!Next]_(Scan!vars) PROVE ScanInv'
<1>1. ASSUME NEW n \in MinChunk..MaxChunk, NEW c \in [1..n -> ScanBytes], Scan!Chunk(c)
      PROVE  ScanInv'
  <2>1. n \in Nat \ {0}
    BY DEF ChunksNotEmpty
  <2>2. c \in Seq(ScanBytes) /\ c # <<>>
    BY <2>1
  <2> QED BY <1>1, <2>2, ChunkTaken
<1>2. CASE UNCHANGED Scan!vars
  <2>1. state' = state /\ payloads' = payloads /\ overflowed' = overflowed /\ seen' = seen
    BY <1>2 DEF Scan!vars
  <2>2. (Entry)' = Entry
    BY <2>1 DEF Entry
  <2> QED BY <2>1, <2>2 DEF ScanInv
<1> QED BY <1>1, <1>2 DEF Scan!Next

\* scan_sse_chunk: whatever the chunks, none of them empty, the payloads handed
\* on are those of the stream up to the first byte at which too much is held
\* (ScannerSound)
THEOREM PayloadsAreSound == ASSUME ChunksNotEmpty PROVE Spec => []ScannerSound
<1> DEFINE Inv == reader = "scan" => ScanInv
<1>1. Init => Inv
  BY ScanStarts DEF Init
<1>2. Inv /\ [Next]_vars => Inv'
  <2> SUFFICES ASSUME Inv, [Next]_vars, reader' = "scan" PROVE ScanInv'
    OBVIOUS
  <2>1. reader = "scan" /\ [Scan!Next]_(Scan!vars)
    BY DEF Next, vars, scanVars, Scan!vars
  <2> QED BY <2>1, ScanNext
<1>3. Inv => ScannerSound
  BY ScanSound DEF ScannerSound
<1> QED BY <1>1, <1>2, <1>3, PTL DEF Spec

-----------------------------------------------------------------------------
(* Bytes and lines (StreamDecode)                                          *)

Chars == TextBytes \cup {LF}
Plain == Chars \ {CR}
CharLines == Seq(Chars) \ {<<>>}

\* The lines of the events that are complete in s, those of the one begun, and
\* the line begun
Whole(s) == FlattenSeq(GroupsIn(s, CR, LF))
Part(s) == Group(s, CR, LF)
Rest(s) == Tip(s, CR, LF)

LEMMA DecodeFormat ==
    ASSUME NEW s
    PROVE  /\ Decode!FlattenSeq(s) = FlattenSeq(s)
           /\ Decode!Pieces(s, LF) = Pieces(s, LF)
           /\ Decode!NormalizeLineEndings(s) = Normal(s, CR, LF)
           /\ Decode!CompleteLines(s) = Whole(s)
<1>1. \A x : Decode!FlattenSeq(x) = FlattenSeq(x)
  BY DEF Decode!FlattenSeq, FlattenSeq
<1>2. \A x, e, k : Decode!Before(x, e, k) = Before(x, e, k)
  BY DEF Decode!Before, Before, Decode!After, After
<1>3. \A x, e : Decode!Pieces(x, e) = Pieces(x, e)
  BY <1>1, <1>2 DEF Decode!Pieces, Pieces
<1>4. \A x : Decode!NormalizeLineEndings(x) = Normal(x, CR, LF)
  BY <1>1 DEF Decode!NormalizeLineEndings, Decode!Normal, Normal
<1> QED BY <1>1, <1>3, <1>4 DEF Decode!CompleteLines, Whole, GroupsIn, LinesIn

\* The last element of a list, and those before it
LEMMA LastApart ==
    ASSUME NEW V, NEW s \in Seq(V), s # <<>>
    PROVE  /\ SubSeq(s, 1, Len(s) - 1) \in Seq(V) /\ s[Len(s)] \in V
           /\ s = Append(SubSeq(s, 1, Len(s) - 1), s[Len(s)])
<1>1. PICK n \in Nat : n = Len(s)
  OBVIOUS
<1>2. n > 0 /\ s[n] \in V /\ \A i \in 1..(n - 1) : s[i] \in V
  BY <1>1
<1>3. PICK q : q = SubSeq(s, 1, n - 1)
  OBVIOUS
<1>4. q \in Seq(V) /\ Len(q) = n - 1 /\ \A i \in 1..(n - 1) : q[i] = s[i]
  <2>1. /\ q \in Seq(V) /\ Len(q) = IF 1 <= n - 1 THEN (n - 1) - 1 + 1 ELSE 0
        /\ \A i \in 1..((n - 1) - 1 + 1) : q[i] = s[1 + i - 1]
    BY <1>2, <1>3, SubSeqProperties
  <2> QED BY <1>2, <2>1
<1>5. PICK t \in Seq(V) : t = Append(q, s[n])
  BY <1>2, <1>4, AppendProperties
<1>6. Len(t) = n /\ \A i \in 1..n : t[i] = s[i]
  <2>1. /\ Len(t) = Len(q) + 1 /\ t[Len(q) + 1] = s[n]
        /\ \A i \in 1..Len(q) : t[i] = q[i]
    BY <1>2, <1>4, <1>5, AppendProperties
  <2> QED BY <1>2, <1>4, <2>1
<1>7. t = s
  BY <1>1, <1>5, <1>6, SeqEqual
<1> QED BY <1>1, <1>2, <1>3, <1>4, <1>5, <1>7

LEMMA EndAppended ==
    ASSUME NEW V, NEW s \in Seq(V), NEW x \in V, NEW c
    PROVE  /\ Decode!Ends(Append(s, x), c) <=> x = c
           /\ ~Decode!Ends(<<>>, c)
           /\ Decode!Front(Append(s, x)) = s
<1>1. PICK t \in Seq(V) : t = Append(s, x)
  BY AppendProperties
<1>2. /\ t # <<>> /\ Len(t) = Len(s) + 1 /\ t[Len(s) + 1] = x
      /\ \A i \in 1..Len(s) : t[i] = s[i]
  BY <1>1, AppendProperties
<1>3. SubSeq(t, 1, Len(t) - 1) \in Seq(V) /\ t = Append(SubSeq(t, 1, Len(t) - 1), t[Len(t)])
  BY <1>2, LastApart
<1>4. PICK q \in Seq(V) : q = SubSeq(t, 1, Len(t) - 1)
  BY <1>3
<1>5. t = Append(q, x)
  BY <1>2, <1>3, <1>4
<1>6. q = s
  <2>1. /\ Len(t) = Len(q) + 1 /\ \A i \in 1..Len(q) : t[i] = q[i]
    BY <1>5, AppendProperties
  <2>2. Len(q) = Len(s) /\ \A i \in 1..Len(q) : q[i] = s[i]
    BY <1>2, <2>1
  <2> QED BY <2>2, SeqEqual
<1> QED BY <1>1, <1>2, <1>4, <1>6 DEF Decode!Ends, Decode!Front

\* The text of what is read on
Letter == [c \in Chars |-> IF c \in {CR, LF} THEN <<>> ELSE <<c>>]
TextReads(s) ==
    /\ Decode!TextOf(s) \in Seq(Chars) /\ Decode!TextOf(<<>>) = <<>>
    /\ \A t \in Seq(Chars) : Decode!TextOf(s \o t) = Decode!TextOf(s) \o Decode!TextOf(t)
    /\ \A c \in Chars : Decode!TextOf(Append(s, c)) = Decode!TextOf(s) \o Letter[c]
LEMMA TextGrows ==
    ASSUME NEW s \in Seq(Chars) PROVE TextReads(s)
<1>1. Letter \in [Chars -> Seq(Chars)]
  <2>1. \A c \in Chars : <<c>> \in Seq(Chars) /\ <<>> \in Seq(Chars)
    OBVIOUS
  <2> QED BY <2>1 DEF Letter
<1>2. ASSUME NEW h \in Seq(Chars) PROVE Decode!TextOf(h) = FlatMap(Letter, h)
  <2>1. \A k \in DOMAIN h : h[k] \in Chars
    OBVIOUS
  <2>2. [k \in DOMAIN h |-> IF h[k] \in {CR, LF} THEN <<>> ELSE <<h[k]>>]
          = [k \in DOMAIN h |-> Letter[h[k]]]
    BY <2>1 DEF Letter
  <2> QED BY <2>2, DecodeFormat DEF Decode!TextOf, FlatMap
<1>3. Grows(Letter, s, Chars, Chars)
  BY <1>1, FlatMapGrows
<1>4. <<>> \in Seq(Chars) /\ \A t \in Seq(Chars) : s \o t \in Seq(Chars)
  BY ConcatProperties
<1>5. \A c \in Chars : Append(s, c) \in Seq(Chars)
  BY AppendProperties
<1> QED BY <1>2, <1>3, <1>4, <1>5 DEF Grows, TextReads

\* The lines of a stream with one byte more
ReadOn(s, b, t) ==
    /\ Pairs(s, b, CR, LF) => Whole(t) = Whole(s) /\ Part(t) = Part(s) /\ Rest(t) = Rest(s)
    /\ b \notin {CR, LF} =>
          Whole(t) = Whole(s) /\ Part(t) = Part(s) /\ Rest(t) = Append(Rest(s), b)
    /\ b \in {CR, LF} /\ ~Pairs(s, b, CR, LF) =>
          /\ Rest(t) = <<>>
          /\ Rest(s) = <<>> => Whole(t) = Whole(s) \o Part(s) /\ Part(t) = <<>>
          /\ Rest(s) # <<>> => Whole(t) = Whole(s) /\ Part(t) = Append(Part(s), Rest(s))
LinesTyped(s) ==
    /\ Whole(s) \in Seq(CharLines) /\ Part(s) \in Seq(CharLines) /\ Rest(s) \in Seq(Chars)
LEMMA LinesAreTyped == ASSUME NEW s \in Seq(Chars) PROVE LinesTyped(s)
<1>1. LF \in Chars
  BY DEF Chars
<1>2. StreamTyped(s, CR, LF, Chars)
  BY <1>1, StreamIsTyped
<1>3. GroupsIn(s, CR, LF) \in Seq(Seq(CharLines)) /\ Part(s) \in Seq(CharLines)
  BY <1>2 DEF StreamTyped, CharLines, Part
<1>4. Rest(s) \in Seq(Chars)
  BY <1>2 DEF StreamTyped, Rest
<1>5. Whole(s) \in Seq(CharLines)
  BY <1>3, FlattenType DEF Whole
<1> QED BY <1>3, <1>4, <1>5 DEF LinesTyped

LEMMA NoLines == Whole(<<>>) = <<>> /\ Part(<<>>) = <<>> /\ Rest(<<>>) = <<>>
BY NothingRead, FlattenEmpty DEF Whole, Part, Rest

LEMMA LinesGrow ==
    ASSUME NEW s \in Seq(Chars), NEW b \in Chars PROVE ReadOn(s, b, Append(s, b))
<1>1. LF \in Chars
  BY DEF Chars
<1>2. PICK t : t = Append(s, b)
  OBVIOUS
<1>3. ByteRead(s, b, t, CR, LF)
  BY <1>1, <1>2, StreamGrows
<1>4. StreamTyped(s, CR, LF, Chars)
  BY <1>1, StreamIsTyped
<1>5. GroupsIn(s, CR, LF) \in Seq(Seq(CharLines)) /\ Part(s) \in Seq(CharLines)
  BY <1>4 DEF StreamTyped, CharLines, Part
<1>6. FlattenSeq(Append(GroupsIn(s, CR, LF), Part(s))) = Whole(s) \o Part(s)
  BY <1>5, FlattenAppend DEF Whole
<1> QED BY <1>2, <1>3, <1>6 DEF ByteRead, ReadOn, Whole, Part, Rest

\* Normal line endings
LEMMA PlainIsNormal == ASSUME NEW s \in Seq(Plain) PROVE Normal(s, CR, LF) = s
<1> DEFINE P == {u \in Seq(Plain) : Normal(u, CR, LF) = u}
<1>1. <<>> \in P
  BY NormalOfNothing
<1>2. ASSUME NEW u \in Seq(Plain), NEW b \in Plain, u \in P PROVE Append(u, b) \in P
  <2>1. u \in Seq(Chars) /\ b \in Chars /\ b # CR /\ LF \in Chars
    BY DEF Plain, Chars
  <2>2. ~Pairs(u, b, CR, LF)
    <3> SUFFICES ASSUME u # <<>>, u[Len(u)] = CR PROVE FALSE
      BY DEF Pairs
    <3>1. u[Len(u)] \in Plain
      BY LastApart
    <3> QED BY <3>1 DEF Plain
  <2>3. Normal(Append(u, b), CR, LF) = Append(Normal(u, CR, LF), b)
    BY <2>1, <2>2, NormalGrows
  <2> QED BY <1>2, <2>3, AppendProperties
<1> HIDE DEF P
<1>3. s \in P
  BY <1>1, <1>2, ListInduction
<1> QED BY <1>3 DEF P

LEMMA NormalIsPlain ==
    ASSUME CR # LF, NEW s \in Seq(Chars) PROVE Normal(s, CR, LF) \in Seq(Plain)
<1> DEFINE P == {u \in Seq(Chars) : Normal(u, CR, LF) \in Seq(Plain)}
<1>1. <<>> \in P
  <2>1. <<>> \in Seq(Chars) /\ <<>> \in Seq(Plain)
    OBVIOUS
  <2>2. Normal(<<>>, CR, LF) = <<>>
    BY NormalOfNothing
  <2> QED BY <2>1, <2>2
<1>2. ASSUME NEW u \in Seq(Chars), NEW b \in Chars, u \in P PROVE Append(u, b) \in P
  <2>1. LF \in Chars
    BY DEF Chars
  <2>2. PICK n \in Seq(Plain) : n = Normal(u, CR, LF)
    BY <1>2
  <2>3. Normal(Append(u, b), CR, LF)
          = IF Pairs(u, b, CR, LF) THEN n ELSE Append(n, IF b = CR THEN LF ELSE b)
    BY <2>1, <2>2, NormalGrows
  <2>4. (IF b = CR THEN LF ELSE b) \in Plain
    BY <2>1 DEF Plain
  <2>5. Append(n, IF b = CR THEN LF ELSE b) \in Seq(Plain)
    BY <2>4, AppendProperties
  <2> QED BY <2>2, <2>3, <2>5, AppendProperties
<1> HIDE DEF P
<1>3. s \in P
  BY <1>1, <1>2, ListInduction
<1> QED BY <1>3 DEF P

LEMMA NormalReadsSame ==
    ASSUME CR # LF, NEW s \in Seq(Chars), NEW n, n = Normal(s, CR, LF)
    PROVE  n \in Seq(Plain) /\ Whole(n) = Whole(s) /\ Part(n) = Part(s) /\ Rest(n) = Rest(s)
<1>1. n \in Seq(Plain)
  BY NormalIsPlain
<1>2. Normal(n, CR, LF) = Normal(s, CR, LF)
  BY <1>1, PlainIsNormal
<1> QED BY <1>1, <1>2 DEF Whole, Part, Rest, GroupsIn, LinesIn, Group, Tip

\* The non-empty lines of a block
Kept == [l \in Seq(Chars) |-> IF l = <<>> THEN <<>> ELSE <<l>>]
LEMMA NonBlankGrows ==
    ASSUME NEW ls \in Seq(Seq(Chars)), NEW l \in Seq(Chars)
    PROVE  /\ Decode!NonBlank(<<>>) = <<>> /\ Decode!NonBlank(ls) \in Seq(CharLines)
           /\ Decode!NonBlank(Append(ls, l)) = Decode!NonBlank(ls) \o Kept[l]
<1>1. Kept \in [Seq(Chars) -> Seq(CharLines)]
  <2>1. \A k \in CharLines : <<k>> \in Seq(CharLines) /\ <<>> \in Seq(CharLines)
    OBVIOUS
  <2>2. <<>> \in Seq(CharLines)
    OBVIOUS
  <2> QED BY <2>1, <2>2 DEF Kept, CharLines
<1>2. ASSUME NEW h \in Seq(Seq(Chars)) PROVE Decode!NonBlank(h) = FlatMap(Kept, h)
  <2>1. \A k \in DOMAIN h : h[k] \in Seq(Chars)
    OBVIOUS
  <2>2. [k \in DOMAIN h |-> IF h[k] = <<>> THEN <<>> ELSE <<h[k]>>]
          = [k \in DOMAIN h |-> Kept[h[k]]]
    BY <2>1 DEF Kept
  <2> QED BY <2>2, DecodeFormat DEF Decode!NonBlank, FlatMap
<1>3. Grows(Kept, ls, Seq(Chars), CharLines)
  BY <1>1, FlatMapGrows
<1>4. <<>> \in Seq(Seq(Chars)) /\ Append(ls, l) \in Seq(Seq(Chars))
  BY AppendProperties
<1> QED BY <1>2, <1>3, <1>4 DEF Grows

GroupedLines(ls) == FlattenSeq(Pieces(ls, <<>>)) \o Unended(ls, <<>>)
LEMMA NonBlankGrouped ==
    ASSUME NEW ls \in Seq(Seq(Chars)) PROVE Decode!NonBlank(ls) = GroupedLines(ls)
<1> DEFINE P == {u \in Seq(Seq(Chars)) : Decode!NonBlank(u) = GroupedLines(u)}
<1>1. <<>> \in P
  <2>1. <<>> \in Seq(Seq(Chars)) /\ <<>> \in Seq(Chars) /\ <<>> \o <<>> = <<>>
    OBVIOUS
  <2>2. GroupedLines(<<>>) = <<>>
    BY <2>1, PiecesOfNothing, FlattenEmpty DEF GroupedLines
  <2> QED BY <2>1, <2>2, NonBlankGrows
<1>2. ASSUME NEW u \in Seq(Seq(Chars)), NEW l \in Seq(Chars), u \in P PROVE Append(u, l) \in P
  <2>1. Cut(u, <<>>, l, Append(u, l))
    BY PiecesGrow
  <2>2. PiecesOf(u, <<>>, CharLines)
    BY PiecesTyped DEF CharLines
  <2>3. PICK gs \in Seq(Seq(CharLines)), g \in Seq(CharLines) :
           gs = Pieces(u, <<>>) /\ g = Unended(u, <<>>)
    BY <2>2 DEF PiecesOf
  <2>4. PICK f \in Seq(CharLines) : f = FlattenSeq(gs)
    BY FlattenType
  <2>5. Decode!NonBlank(u) = f \o g /\ f \o g \in Seq(CharLines)
    BY <1>2, <2>3, <2>4, ConcatProperties DEF GroupedLines
  <2>6. Decode!NonBlank(Append(u, l)) = (f \o g) \o Kept[l]
    BY <2>5, NonBlankGrows
  <2>7. CASE l = <<>>
    <3>1. GroupedLines(Append(u, l)) = FlattenSeq(Append(gs, g)) \o <<>>
      BY <2>1, <2>3, <2>7 DEF Cut, GroupedLines
    <3>2. FlattenSeq(Append(gs, g)) = f \o g
      BY <2>4, FlattenAppend
    <3>3. Kept[l] = <<>>
      BY <2>7 DEF Kept
    <3> QED BY <2>6, <3>1, <3>2, <3>3, AppendProperties
  <2>8. CASE l # <<>>
    <3>1. GroupedLines(Append(u, l)) = f \o Append(g, l)
      BY <2>1, <2>3, <2>4, <2>8 DEF Cut, GroupedLines
    <3>2. Kept[l] = <<l>> /\ l \in CharLines
      BY <2>8 DEF Kept, CharLines
    <3>3. f \o Append(g, l) = Append(f \o g, l)
      BY <3>2, ConcatThenAppend
    <3>4. Append(f \o g, l) = (f \o g) \o <<l>>
      BY <2>5, <3>2, AppendIsConcat
    <3> QED BY <2>6, <3>1, <3>2, <3>3, <3>4, AppendProperties
  <2> QED BY <2>7, <2>8
<1> HIDE DEF P
<1>3. ls \in P
  BY <1>1, <1>2, ListInduction
<1> QED BY <1>3 DEF P

\* A block before a blank line holds the lines of the event, and of the events before
LEMMA BlockLines ==
    ASSUME NEW r \in Seq(Plain), Decode!Ends(r, LF)
    PROVE  Decode!LinesOf(Decode!Front(r)) = Whole(r) \o Part(r)
<1>1. PICK q \in Seq(Plain) : q = Decode!Front(r) /\ r = Append(q, LF)
  BY LastApart DEF Decode!Ends, Decode!Front
<1>2. Decode!LinesOf(q) = Decode!NonBlank(Pieces(r, LF))
  BY <1>1, DecodeFormat DEF Decode!LinesOf
<1>3. Pieces(r, LF) = LinesIn(r, CR, LF)
  BY PlainIsNormal DEF LinesIn
<1>4. r \in Seq(Chars) /\ LF \in Chars
  BY DEF Plain, Chars
<1>5. LinesIn(r, CR, LF) \in Seq(Seq(Chars))
  BY <1>4, StreamIsTyped DEF StreamTyped
<1> QED BY <1>1, <1>2, <1>3, <1>5, NonBlankGrouped
    DEF GroupedLines, Whole, Part, GroupsIn, Group

\* A line begun is empty where a line has ended
LEMMA LineBegun ==
    ASSUME NEW r \in Seq(Plain) PROVE Rest(r) = <<>> <=> r = <<>> \/ Decode!Ends(r, LF)
<1>1. CASE r = <<>>
  BY <1>1, NoLines
<1>2. CASE r # <<>>
  <2>1. PICK q \in Seq(Plain), x \in Plain : r = Append(q, x) /\ x = r[Len(r)]
    BY <1>2, LastApart
  <2>2. q \in Seq(Chars) /\ x \in Chars /\ x # CR
    BY DEF Plain
  <2>3. ReadOn(q, x, r)
    BY <2>1, <2>2, LinesGrow
  <2>4. ~Pairs(q, x, CR, LF)
    <3> SUFFICES ASSUME q # <<>>, q[Len(q)] = CR PROVE FALSE
      BY DEF Pairs
    <3>1. q[Len(q)] \in Plain
      BY LastApart
    <3> QED BY <3>1 DEF Plain
  <2>5. Append(Rest(q), x) # <<>>
    <3>1. Rest(q) \in Seq(Chars)
      BY <2>2, LinesAreTyped DEF LinesTyped
    <3> QED BY <2>2, <3>1, AppendProperties
  <2> QED BY <1>2, <2>1, <2>2, <2>3, <2>4, <2>5 DEF ReadOn, Decode!Ends
<1> QED BY <1>1, <1>2

\* The loop that splits: what is left holds no complete event, and reads as all did
Halves == [rest : Seq(Plain), lines : Seq(CharLines)]
Splits(a, n) ==
    /\ a.lines = Whole(n) /\ Whole(a.rest) = <<>>
    /\ Part(a.rest) = Part(n) /\ Rest(a.rest) = Rest(n)
LEMMA CharSplit ==
    ASSUME CR # LF, NEW a \in Halves, NEW c \in Plain
    PROVE  /\ Decode!SplitAt(a, c) \in Halves
           /\ \A n \in Seq(Plain) : Splits(a, n) => Splits(Decode!SplitAt(a, c), Append(n, c))
<1>1. PICK r \in Seq(Plain), ls \in Seq(CharLines) : r = a.rest /\ ls = a.lines
  BY DEF Halves
<1>2. r \in Seq(Chars) /\ c \in Chars /\ c # CR /\ LF \in Plain
  BY DEF Plain, Chars
<1>3. LinesTyped(r)
  BY <1>2, LinesAreTyped
<1>4. CASE c = LF /\ Decode!Ends(r, LF)
  <2>1. PICK w \in Seq(CharLines) : w = Whole(r) \o Part(r)
    BY <1>3, ConcatProperties DEF LinesTyped
  <2>2. Decode!SplitAt(a, c) = [rest |-> <<>>, lines |-> ls \o w]
    BY <1>1, <1>4, <2>1, BlockLines DEF Decode!SplitAt
  <2>3. ls \o w \in Seq(CharLines) /\ <<>> \in Seq(Plain)
    BY ConcatProperties
  <2>4. PICK b : b = Decode!SplitAt(a, c)
    OBVIOUS
  <2>5. b \in Halves /\ b.rest = <<>> /\ b.lines = ls \o w
    BY <2>2, <2>3, <2>4 DEF Halves
  <2>6. ASSUME NEW n \in Seq(Plain), Splits(a, n) PROVE Splits(b, Append(n, c))
    <3>1. n \in Seq(Chars) /\ LinesTyped(n)
      BY LinesAreTyped DEF Plain
    <3>2. ReadOn(n, c, Append(n, c))
      BY <1>2, <3>1, LinesGrow
    <3>3. ~Pairs(n, c, CR, LF)
      <4> SUFFICES ASSUME n # <<>>, n[Len(n)] = CR PROVE FALSE
        BY DEF Pairs
      <4>1. n[Len(n)] \in Plain
        BY LastApart
      <4> QED BY <4>1 DEF Plain
    <3>4. Rest(n) = <<>>
      BY <1>1, <1>4, <2>6, LineBegun DEF Splits
    <3>5. /\ Whole(Append(n, c)) = Whole(n) \o Part(n)
          /\ Part(Append(n, c)) = <<>> /\ Rest(Append(n, c)) = <<>>
      BY <1>4, <3>2, <3>3, <3>4 DEF ReadOn
    <3>6. w = Part(n)
      BY <1>1, <1>3, <2>1, <2>6, ConcatEmptySeq DEF Splits, LinesTyped
    <3> QED BY <1>1, <2>5, <2>6, <3>5, <3>6, NoLines DEF Splits
  <2> QED BY <2>4, <2>5, <2>6
<1>5. CASE ~(c = LF /\ Decode!Ends(r, LF))
  <2>1. PICK q \in Seq(Plain) : q = Append(r, c)
    BY AppendProperties
  <2>2. Decode!SplitAt(a, c) = [rest |-> q, lines |-> ls]
    BY <1>1, <1>5, <2>1 DEF Decode!SplitAt
  <2>3. PICK b : b = Decode!SplitAt(a, c)
    OBVIOUS
  <2>4. b \in Halves /\ b.rest = q /\ b.lines = ls
    BY <2>2, <2>3 DEF Halves
  <2>5. ReadOn(r, c, q)
    BY <1>2, <2>1, LinesGrow
  <2>6. ~Pairs(r, c, CR, LF)
    <3> SUFFICES ASSUME r # <<>>, r[Len(r)] = CR PROVE FALSE
      BY DEF Pairs
    <3>1. r[Len(r)] \in Plain
      BY LastApart
    <3> QED BY <3>1 DEF Plain
  <2>7. ASSUME NEW n \in Seq(Plain), Splits(a, n) PROVE Splits(b, Append(n, c))
    <3>1. n \in Seq(Chars) /\ LinesTyped(n)
      BY LinesAreTyped DEF Plain
    <3>2. ReadOn(n, c, Append(n, c))
      BY <1>2, <3>1, LinesGrow
    <3>3. ~Pairs(n, c, CR, LF)
      <4> SUFFICES ASSUME n # <<>>, n[Len(n)] = CR PROVE FALSE
        BY DEF Pairs
      <4>1. n[Len(n)] \in Plain
        BY LastApart
      <4> QED BY <4>1 DEF Plain
    <3>4. ls = Whole(n) /\ Whole(r) = <<>> /\ Part(r) = Part(n) /\ Rest(r) = Rest(n)
      BY <1>1, <2>7 DEF Splits
    <3>5. CASE c # LF
      BY <1>2, <2>4, <2>5, <3>2, <3>4, <3>5 DEF ReadOn, Splits
    <3>6. CASE c = LF /\ Rest(r) # <<>>
      BY <2>4, <2>5, <2>6, <3>2, <3>3, <3>4, <3>6 DEF ReadOn, Splits
    <3>7. CASE c = LF /\ Rest(r) = <<>>
      <4>1. r = <<>>
        BY <1>5, <3>7, LineBegun
      <4>2. Part(r) = <<>>
        BY <4>1, NoLines
      <4>3. Whole(n) \o <<>> = Whole(n) /\ <<>> \o <<>> = <<>>
        BY <3>1, ConcatEmptySeq DEF LinesTyped
      <4> QED BY <2>4, <2>5, <2>6, <3>2, <3>3, <3>4, <3>7, <4>2, <4>3 DEF ReadOn, Splits
    <3> QED BY <3>5, <3>6, <3>7
  <2> QED BY <2>3, <2>4, <2>7
<1> QED BY <1>1, <1>4, <1>5

NothingSplit == [rest |-> <<>>, lines |-> <<>>]
SplitLoop == [ac \in Halves \X Plain |-> Decode!SplitAt(ac[1], ac[2])]
LEMMA SplitsFold ==
    ASSUME CR # LF, NEW s \in Seq(Plain)
    PROVE  /\ SplitLoop \in LoopBodies(Halves, Plain) /\ NothingSplit \in Halves
           /\ Decode!SplitEvents(s) = FoldOf(Halves, NothingSplit, s, SplitLoop)
<1> DEFINE Takes(h) == h = [k \in 0..Len(s) |->
                               IF k = 0 THEN NothingSplit ELSE Decode!SplitAt(h[k - 1], s[k])]
<1>1. SplitLoop \in LoopBodies(Halves, Plain)
  BY CharSplit DEF SplitLoop, LoopBodies
<1>2. NothingSplit \in Halves
  <2>1. <<>> \in Seq(Plain) /\ <<>> \in Seq(CharLines)
    OBVIOUS
  <2> QED BY <2>1 DEF NothingSplit, Halves
<1>3. PICK g \in [0..Len(s) -> Halves] : Accumulates(g, NothingSplit, s, SplitLoop)
  BY <1>1, <1>2, FoldDefined
<1>4. \A k \in 0..Len(s) : k = 0 \/ (k \in 1..Len(s) /\ k # 0 /\ k - 1 \in 0..Len(s))
  OBVIOUS
<1>5. \A k \in 1..Len(s) : s[k] \in Plain
  OBVIOUS
<1>6. \A x \in Halves : \A k \in 1..Len(s) : SplitLoop[<<x, s[k]>>] = Decode!SplitAt(x, s[k])
  BY <1>5 DEF SplitLoop
<1>7. Takes(g)
  <2>1. \A k \in 0..Len(s) : g[k] = IF k = 0 THEN NothingSplit ELSE Decode!SplitAt(g[k - 1], s[k])
    BY <1>3, <1>4, <1>6 DEF Accumulates
  <2> QED BY <2>1
<1> DEFINE h == CHOOSE f : Takes(f)
<1>8. Takes(h)
  BY <1>7
<1>9. Decode!SplitEvents(s) = h[Len(s)]
  BY Zenon DEF Decode!SplitEvents, NothingSplit
<1> HIDE DEF h
<1>10. h[0] = NothingSplit /\ \A k \in 1..Len(s) : h[k] = Decode!SplitAt(h[k - 1], s[k])
  <2>1. \A k \in 0..Len(s) : h[k] = IF k = 0 THEN NothingSplit ELSE Decode!SplitAt(h[k - 1], s[k])
    BY <1>8
  <2> QED BY <1>4, <2>1
<1>11. \A k \in 1..Len(s) : h[k - 1] \in Halves => h[k] = SplitLoop[<<h[k - 1], s[k]>>]
  BY <1>6, <1>10
<1>12. h[Len(s)] = FoldOf(Halves, NothingSplit, s, SplitLoop)
  BY <1>1, <1>2, <1>10, <1>11, FoldUnique, ZenonT(60)
<1> QED BY <1>1, <1>2, <1>9, <1>12

LEMMA EventsSplit ==
    ASSUME CR # LF, NEW s \in Seq(Plain)
    PROVE  Decode!SplitEvents(s) \in Halves /\ Splits(Decode!SplitEvents(s), s)
<1> DEFINE after(u) == FoldOf(Halves, NothingSplit, u, SplitLoop)
           P == {u \in Seq(Plain) : after(u) \in Halves /\ Splits(after(u), u)}
<1>1. SplitLoop \in LoopBodies(Halves, Plain) /\ NothingSplit \in Halves
  BY SplitsFold
<1>2. \A u \in Seq(Plain) : /\ after(u) \in Halves /\ after(<<>>) = NothingSplit
                            /\ \A b \in Plain : after(Append(u, b)) = SplitLoop[<<after(u), b>>]
  BY <1>1, FoldAppend
<1> HIDE DEF after
<1>3. <<>> \in P
  <2>1. <<>> \in Seq(Plain)
    OBVIOUS
  <2>2. NothingSplit.rest = <<>> /\ NothingSplit.lines = <<>>
    BY DEF NothingSplit
  <2>3. Splits(NothingSplit, <<>>)
    BY <2>2, NoLines DEF Splits
  <2> QED BY <1>2, <2>1, <2>3
<1>4. ASSUME NEW u \in Seq(Plain), NEW b \in Plain, u \in P PROVE Append(u, b) \in P
  <2>1. PICK x \in Halves : x = after(u)
    BY <1>2
  <2>2. after(Append(u, b)) = Decode!SplitAt(x, b)
    BY <1>2, <2>1 DEF SplitLoop
  <2> QED BY <1>4, <2>1, <2>2, CharSplit, AppendProperties
<1> HIDE DEF P
<1>5. s \in P
  BY <1>3, <1>4, ListInduction
<1>6. Decode!SplitEvents(s) = after(s)
  BY SplitsFold DEF after
<1> QED BY <1>5, <1>6 DEF P

\* The two groupings of texts, and of lists of lines
Grouped(a, b, c) == (a \o b) \o c = a \o (b \o c)
LEMMA CharsGrouped ==
    ASSUME NEW a \in Seq(Chars), NEW b \in Seq(Chars), NEW c \in Seq(Chars)
    PROVE  Grouped(a, b, c)
BY ConcatAssociative DEF Grouped

LEMMA LinesGrouped ==
    ASSUME NEW a \in Seq(CharLines), NEW b \in Seq(CharLines), NEW c \in Seq(CharLines)
    PROVE  Grouped(a, b, c)
BY ConcatAssociative DEF Grouped

Joins(a, b) == a \o b \in Seq(Chars)
LEMMA CharsJoined == ASSUME NEW a \in Seq(Chars), NEW b \in Seq(Chars) PROVE Joins(a, b)
BY ConcatProperties DEF Joins

\* Nothing more, at the end of lines
LinesEnd(a, b) == (a \o b) \o <<>> = a \o b /\ b \o <<>> = b
LEMMA LinesEnded == ASSUME NEW a \in Seq(CharLines), NEW b \in Seq(CharLines) PROVE LinesEnd(a, b)
<1>1. a \o b \in Seq(CharLines)
  BY ConcatProperties
<1> QED BY <1>1, ConcatEmptySeq DEF LinesEnd

\* Two texts that read alike after the lines ls of the first: where they end in
\* different ways, an LF more makes no difference
SameEnd(p1, p2) ==
    (Decode!Ends(p1, CR) <=> Decode!Ends(p2, CR)) \/ (Part(p1) = <<>> /\ Rest(p1) = <<>>)
SameLines(p1, p2, ls) ==
    /\ Whole(p1) = ls \o Whole(p2)
    /\ Part(p1) = Part(p2) /\ Rest(p1) = Rest(p2)
LEMMA CharAlike ==
    ASSUME CR # LF, NEW p1 \in Seq(Chars), NEW p2 \in Seq(Chars), NEW ls \in Seq(CharLines),
           SameLines(p1, p2, ls), SameEnd(p1, p2), NEW c \in Chars
    PROVE  SameLines(Append(p1, c), Append(p2, c), ls) /\ SameEnd(Append(p1, c), Append(p2, c))
<1>1. PICK q1 \in Seq(Chars), q2 \in Seq(Chars) : q1 = Append(p1, c) /\ q2 = Append(p2, c)
  BY AppendProperties
<1>2. SameEnd(q1, q2)
  BY <1>1, EndAppended DEF SameEnd
<1>3. ReadOn(p1, c, q1) /\ ReadOn(p2, c, q2)
  BY <1>1, LinesGrow
<1>4. PICK w \in Seq(CharLines), g \in Seq(CharLines), t \in Seq(Chars) :
         /\ w = Whole(p2) /\ g = Part(p2) /\ t = Rest(p2)
         /\ Whole(p1) = ls \o w /\ Part(p1) = g /\ Rest(p1) = t
  BY LinesAreTyped DEF LinesTyped, SameLines
<1>5. (ls \o w) \o g = ls \o (w \o g) /\ (ls \o w) \o <<>> = ls \o w /\ w \o <<>> = w
  <2>1. Grouped(ls, w, g) /\ LinesEnd(ls, w)
    BY LinesGrouped, LinesEnded
  <2> QED BY <2>1, Zenon DEF Grouped, LinesEnd
<1>6. \A s : Pairs(s, c, CR, LF) <=> c = LF /\ Decode!Ends(s, CR)
  BY DEF Pairs, Decode!Ends
<1>7. CASE Pairs(p1, c, CR, LF) <=> Pairs(p2, c, CR, LF)
  <2>1. CASE Pairs(p1, c, CR, LF)
    <3>1. Whole(q1) = ls \o w /\ Part(q1) = g /\ Rest(q1) = t
      BY <1>3, <1>4, <2>1 DEF ReadOn
    <3>2. Whole(q2) = w /\ Part(q2) = g /\ Rest(q2) = t
      BY <1>3, <1>4, <1>7, <2>1 DEF ReadOn
    <3> QED BY <1>1, <1>2, <3>1, <3>2 DEF SameLines
  <2>2. CASE c \notin {CR, LF}
    <3>1. Whole(q1) = ls \o w /\ Part(q1) = g /\ Rest(q1) = Append(t, c)
      BY <1>3, <1>4, <2>2 DEF ReadOn
    <3>2. Whole(q2) = w /\ Part(q2) = g /\ Rest(q2) = Append(t, c)
      BY <1>3, <1>4, <2>2 DEF ReadOn
    <3> QED BY <1>1, <1>2, <3>1, <3>2 DEF SameLines
  <2>3. CASE c \in {CR, LF} /\ ~Pairs(p1, c, CR, LF)
    <3>1. CASE t = <<>>
      <4>1. Whole(q1) = ls \o (w \o g) /\ Part(q1) = <<>> /\ Rest(q1) = <<>>
        BY <1>3, <1>4, <1>5, <2>3, <3>1 DEF ReadOn
      <4>2. Whole(q2) = w \o g /\ Part(q2) = <<>> /\ Rest(q2) = <<>>
        BY <1>3, <1>4, <1>7, <2>3, <3>1 DEF ReadOn
      <4> QED BY <1>1, <1>2, <4>1, <4>2 DEF SameLines
    <3>2. CASE t # <<>>
      <4>1. Whole(q1) = ls \o w /\ Part(q1) = Append(g, t) /\ Rest(q1) = <<>>
        BY <1>3, <1>4, <2>3, <3>2 DEF ReadOn
      <4>2. Whole(q2) = w /\ Part(q2) = Append(g, t) /\ Rest(q2) = <<>>
        BY <1>3, <1>4, <1>7, <2>3, <3>2 DEF ReadOn
      <4> QED BY <1>1, <1>2, <4>1, <4>2 DEF SameLines
    <3> QED BY <3>1, <3>2
  <2>4. c \notin {CR, LF} \/ Pairs(p1, c, CR, LF)
          \/ (c \in {CR, LF} /\ ~Pairs(p1, c, CR, LF))
    OBVIOUS
  <2> QED BY <1>1, <1>2, <2>1, <2>2, <2>3, <2>4
<1>8. CASE ~(Pairs(p1, c, CR, LF) <=> Pairs(p2, c, CR, LF))
  <2>1. g = <<>> /\ t = <<>> /\ c = LF
    BY <1>4, <1>6, <1>8 DEF SameEnd
  <2>2. Whole(q1) = ls \o w /\ Part(q1) = <<>> /\ Rest(q1) = <<>>
    BY <1>3, <1>4, <1>5, <2>1 DEF ReadOn
  <2>3. Whole(q2) = w /\ Part(q2) = <<>> /\ Rest(q2) = <<>>
    BY <1>3, <1>4, <1>5, <2>1 DEF ReadOn
  <2> QED BY <1>1, <1>2, <2>2, <2>3 DEF SameLines
<1> QED BY <1>7, <1>8

LEMMA ReadAlike ==
    ASSUME CR # LF, NEW p1 \in Seq(Chars), NEW p2 \in Seq(Chars), NEW ls \in Seq(CharLines),
           SameLines(p1, p2, ls), SameEnd(p1, p2), NEW u \in Seq(Chars)
    PROVE  SameLines(p1 \o u, p2 \o u, ls) /\ SameEnd(p1 \o u, p2 \o u)
<1> DEFINE P == {v \in Seq(Chars) : SameLines(p1 \o v, p2 \o v, ls) /\ SameEnd(p1 \o v, p2 \o v)}
<1>1. <<>> \in P
  <2>1. p1 \o <<>> = p1 /\ p2 \o <<>> = p2 /\ <<>> \in Seq(Chars)
    BY ConcatEmptySeq
  <2> QED BY <2>1
<1>2. ASSUME NEW v \in Seq(Chars), NEW c \in Chars, v \in P PROVE Append(v, c) \in P
  <2>1. PICK q1 \in Seq(Chars), q2 \in Seq(Chars) : q1 = p1 \o v /\ q2 = p2 \o v
    BY ConcatProperties
  <2>2. p1 \o Append(v, c) = Append(q1, c) /\ p2 \o Append(v, c) = Append(q2, c)
    <3>1. p1 \o Append(v, c) = Append(q1, c)
      BY <2>1, ConcatThenAppend
    <3>2. p2 \o Append(v, c) = Append(q2, c)
      BY <2>1, ConcatThenAppend
    <3> QED BY <3>1, <3>2
  <2>3. SameLines(Append(q1, c), Append(q2, c), ls) /\ SameEnd(Append(q1, c), Append(q2, c))
    BY <1>2, <2>1, CharAlike
  <2> QED BY <2>2, <2>3, AppendProperties
<1> HIDE DEF P
<1>3. u \in P
  BY <1>1, <1>2, ListInduction
<1> QED BY <1>3 DEF P

\* Complete events stay so
LEMMA WholeGrows ==
    ASSUME NEW s \in Seq(Chars), NEW u \in Seq(Chars)
    PROVE  \E ls \in Seq(CharLines) : Whole(s \o u) = Whole(s) \o ls
<1> DEFINE P == {v \in Seq(Chars) : \E ls \in Seq(CharLines) : Whole(s \o v) = Whole(s) \o ls}
<1>1. <<>> \in P
  <2>1. s \o <<>> = s /\ <<>> \in Seq(Chars) /\ <<>> \in Seq(CharLines)
    BY ConcatEmptySeq
  <2>2. Whole(s) \o <<>> = Whole(s)
    BY LinesAreTyped, ConcatEmptySeq DEF LinesTyped
  <2> QED BY <2>1, <2>2
<1>2. ASSUME NEW v \in Seq(Chars), NEW c \in Chars, v \in P PROVE Append(v, c) \in P
  <2>1. PICK t \in Seq(Chars) : t = s \o v
    BY ConcatProperties
  <2>2. s \o Append(v, c) = Append(t, c)
    BY <2>1, ConcatThenAppend
  <2>3. PICK ls \in Seq(CharLines) : Whole(t) = Whole(s) \o ls
    BY <1>2, <2>1
  <2>4. PICK w \in Seq(CharLines), g \in Seq(CharLines) : w = Whole(s) /\ g = Part(t)
    BY LinesAreTyped DEF LinesTyped
  <2>5. ReadOn(t, c, Append(t, c))
    BY LinesGrow
  <2>6. Whole(Append(t, c)) \in {Whole(t), Whole(t) \o g}
    BY <2>4, <2>5 DEF ReadOn
  <2>7. Grouped(w, ls, g)
    BY LinesGrouped
  <2>8. ls \o g \in Seq(CharLines)
    BY ConcatProperties
  <2>9. \E more \in Seq(CharLines) : Whole(Append(t, c)) = w \o more
    BY <2>3, <2>4, <2>6, <2>7, <2>8, Zenon DEF Grouped
  <2> QED BY <2>2, <2>4, <2>9, AppendProperties
<1> HIDE DEF P
<1>3. u \in P
  BY <1>1, <1>2, ListInduction
<1> QED BY <1>3 DEF P

Regroups(a, b, c, d) == ((a \o b) \o c) \o d = a \o ((b \o c) \o d)
LEMMA FourAssociate ==
    ASSUME NEW t1 \in Seq(Chars), NEW t2 \in Seq(Chars), NEW t3 \in Seq(Chars), NEW t4 \in Seq(Chars)
    PROVE  Regroups(t1, t2, t3, t4)
<1>1. PICK t23 \in Seq(Chars) : t23 = t2 \o t3
  BY ConcatProperties
<1>2. Grouped(t1, t2, t3) /\ Grouped(t1, t23, t4)
  BY CharsGrouped
<1> QED BY <1>1, <1>2, Zenon DEF Grouped, Regroups

\* Every letter is in a line
Account(s) == (FlattenSeq(Whole(s)) \o FlattenSeq(Part(s))) \o Rest(s)
LEMMA LinesFlat == ASSUME NEW ls \in Seq(CharLines) PROVE FlattenSeq(ls) \in Seq(Chars)
<1>1. ls \in Seq(Seq(Chars))
  BY DEF CharLines
<1> QED BY <1>1, FlattenType

LEMMA AccountOfLine ==
    ASSUME NEW fw \in Seq(Chars), NEW g \in Seq(CharLines), NEW r \in Seq(Chars)
    PROVE  (fw \o FlattenSeq(Append(g, r))) \o <<>> = (fw \o FlattenSeq(g)) \o r
<1>1. PICK fg \in Seq(Chars) : fg = FlattenSeq(g)
  BY LinesFlat
<1>2. g \in Seq(Seq(Chars))
  BY DEF CharLines
<1>3. FlattenSeq(Append(g, r)) = fg \o r /\ fg \o r \in Seq(Chars)
  BY <1>1, <1>2, FlattenAppend, ConcatProperties
<1>4. PICK f \in Seq(Chars) : f = fw \o (fg \o r)
  BY <1>3, ConcatProperties
<1>5. f \o <<>> = f
  BY ConcatEmptySeq
<1>6. (fw \o fg) \o r = fw \o (fg \o r)
  BY CharsGrouped DEF Grouped
<1> QED BY <1>1, <1>3, <1>4, <1>5, <1>6

LEMMA TextAccounted ==
    ASSUME CR # LF, NEW s \in Seq(Chars) PROVE Decode!TextOf(Account(s)) = Decode!TextOf(s)
<1> DEFINE P == {v \in Seq(Chars) : Decode!TextOf(Account(v)) = Decode!TextOf(v)}
<1>1. <<>> \in P
  <2>1. <<>> \in Seq(Chars) /\ <<>> \o <<>> = <<>>
    OBVIOUS
  <2>2. Account(<<>>) = <<>>
    BY <2>1, NoLines, FlattenEmpty DEF Account
  <2> QED BY <2>1, <2>2
<1>2. ASSUME NEW v \in Seq(Chars), NEW c \in Chars, v \in P PROVE Append(v, c) \in P
  <2>1. PICK w \in Seq(CharLines), g \in Seq(CharLines), r \in Seq(Chars) :
           w = Whole(v) /\ g = Part(v) /\ r = Rest(v)
    BY LinesAreTyped DEF LinesTyped
  <2>2. PICK fw \in Seq(Chars), fg \in Seq(Chars) : fw = FlattenSeq(w) /\ fg = FlattenSeq(g)
    BY LinesFlat
  <2>3. PICK a \in Seq(Chars) : a = (fw \o fg) \o r /\ a = Account(v)
    BY <2>1, <2>2, ConcatProperties DEF Account
  <2>4. PICK t \in Seq(Chars) : t = Append(v, c)
    BY AppendProperties
  <2>5. ReadOn(v, c, t)
    BY <2>4, LinesGrow
  <2>6. w \in Seq(Seq(Chars)) /\ g \in Seq(Seq(Chars))
    BY DEF CharLines
  <2>7. TextReads(v) /\ TextReads(a)
    BY TextGrows
  <2>8. CASE c \notin {CR, LF}
    <3>1. Account(t) = (fw \o fg) \o Append(r, c)
      BY <2>1, <2>2, <2>5, <2>8 DEF ReadOn, Account
    <3>2. PICK f \in Seq(Chars) : f = fw \o fg
      BY ConcatProperties
    <3>3. f \o Append(r, c) = Append(f \o r, c)
      BY ConcatThenAppend
    <3>4. Account(t) = Append(a, c)
      BY <2>3, <3>1, <3>2, <3>3
    <3>5. Decode!TextOf(t) = Decode!TextOf(v) \o Letter[c]
      BY <2>4, <2>7, Zenon DEF TextReads
    <3>6. Decode!TextOf(Append(a, c)) = Decode!TextOf(a) \o Letter[c]
      BY <2>7, Zenon DEF TextReads
    <3>7. Decode!TextOf(a) = Decode!TextOf(v)
      BY <1>2, <2>3
    <3> QED BY <2>4, <3>4, <3>5, <3>6, <3>7
  <2>9. CASE c \in {CR, LF}
    <3>1. Account(t) = a
      <4>1. CASE Pairs(v, c, CR, LF)
        BY <2>1, <2>2, <2>3, <2>5, <4>1 DEF ReadOn, Account
      <4>2. CASE ~Pairs(v, c, CR, LF) /\ r = <<>>
        <5>1. Whole(t) = w \o g /\ Part(t) = <<>> /\ Rest(t) = <<>>
          BY <2>1, <2>5, <2>9, <4>2 DEF ReadOn
        <5>2. FlattenSeq(w \o g) = fw \o fg
          BY <2>2, <2>6, FlattenConcat
        <5>3. (fw \o fg) \o <<>> = fw \o fg
          BY ConcatProperties, ConcatEmptySeq
        <5> QED BY <2>3, <4>2, <5>1, <5>2, <5>3, FlattenEmpty DEF Account
      <4>3. CASE ~Pairs(v, c, CR, LF) /\ r # <<>>
        <5>1. Whole(t) = w /\ Part(t) = Append(g, r) /\ Rest(t) = <<>>
          BY <2>1, <2>5, <2>9, <4>3 DEF ReadOn
        <5>2. (fw \o FlattenSeq(Append(g, r))) \o <<>> = (fw \o fg) \o r
          BY <2>2, AccountOfLine
        <5> QED BY <2>2, <2>3, <5>1, <5>2, FlattenEmpty DEF Account
      <4> QED BY <4>1, <4>2, <4>3
    <3>2. Letter[c] = <<>>
      BY <2>9 DEF Letter
    <3>3. Decode!TextOf(t) = Decode!TextOf(v) \o <<>>
      BY <2>4, <2>7, <3>2 DEF TextReads
    <3>4. Decode!TextOf(v) \o <<>> = Decode!TextOf(v)
      BY <2>7, ConcatEmptySeq DEF TextReads
    <3> QED BY <1>2, <2>3, <2>4, <3>1, <3>3, <3>4
  <2> QED BY <2>8, <2>9
<1> HIDE DEF P
<1>3. s \in P
  BY <1>1, <1>2, ListInduction
<1> QED BY <1>3 DEF P

\* Texts that read alike hold the same text
LEMMA SameText ==
    ASSUME CR # LF, NEW p1 \in Seq(Chars), NEW p2 \in Seq(Chars), NEW ls \in Seq(CharLines),
           SameLines(p1, p2, ls)
    PROVE  Decode!TextOf(FlattenSeq(ls) \o p2) = Decode!TextOf(p1)
<1>1. LinesTyped(p2)
  BY LinesAreTyped
<1>2. FlattenSeq(ls \o Whole(p2)) = FlattenSeq(ls) \o FlattenSeq(Whole(p2))
  <2>1. ls \in Seq(Seq(Chars)) /\ Whole(p2) \in Seq(Seq(Chars))
    BY <1>1 DEF CharLines, LinesTyped
  <2> QED BY <2>1, FlattenConcat
<1>3. /\ FlattenSeq(ls) \in Seq(Chars) /\ FlattenSeq(Whole(p2)) \in Seq(Chars)
      /\ FlattenSeq(Part(p2)) \in Seq(Chars) /\ Rest(p2) \in Seq(Chars)
  BY <1>1, LinesFlat DEF LinesTyped
<1>4. Regroups(FlattenSeq(ls), FlattenSeq(Whole(p2)), FlattenSeq(Part(p2)), Rest(p2))
  BY <1>3, FourAssociate
<1>5. Account(p1) = FlattenSeq(ls) \o Account(p2)
  BY <1>2, <1>4 DEF Account, SameLines, Regroups
<1>6. Account(p2) \in Seq(Chars)
  BY <1>3, ConcatProperties DEF Account
<1>7. /\ Decode!TextOf(Account(p1)) = Decode!TextOf(p1)
      /\ Decode!TextOf(Account(p2)) = Decode!TextOf(p2)
  BY TextAccounted
<1>8. TextReads(FlattenSeq(ls))
  BY <1>3, TextGrows
<1>9. \A t \in Seq(Chars) :
         Decode!TextOf(FlattenSeq(ls) \o t) = Decode!TextOf(FlattenSeq(ls)) \o Decode!TextOf(t)
  BY <1>8 DEF TextReads
<1> QED BY <1>5, <1>6, <1>7, <1>9

\* A CR after a CR ends a group of lines
LEMMA BlankAtEnd ==
    ASSUME CR # LF, NEW y \in Seq(Chars), Decode!Ends(y, CR), Decode!Ends(Decode!Front(y), CR)
    PROVE  Part(y) = <<>> /\ Rest(y) = <<>>
<1>1. PICK z \in Seq(Chars) : z = Decode!Front(y) /\ y = Append(z, CR) /\ CR \in Chars
  BY LastApart DEF Decode!Ends, Decode!Front
<1>2. z # <<>> /\ z[Len(z)] = CR
  BY <1>1 DEF Decode!Ends
<1>3. PICK u \in Seq(Chars) : z = Append(u, CR)
  BY <1>2, LastApart
<1>4. ReadOn(u, CR, z) /\ ReadOn(z, CR, y)
  BY <1>1, <1>3, LinesGrow
<1>5. \A h : ~Pairs(h, CR, CR, LF)
  BY DEF Pairs
<1>6. Rest(z) = <<>>
  BY <1>4, <1>5 DEF ReadOn
<1> QED BY <1>4, <1>5, <1>6 DEF ReadOn

\* The split leaves a text that reads alike
LEMMA SplitAlike ==
    ASSUME CR # LF, NEW z \in Seq(Chars), NEW a,
           a = Decode!SplitEvents(Decode!NormalizeLineEndings(z))
    PROVE  /\ a \in Halves /\ a.rest \in Seq(Chars) /\ a.lines \in Seq(CharLines)
           /\ SameLines(z, a.rest, a.lines) /\ Whole(a.rest) = <<>>
           /\ ~Decode!Ends(a.rest, CR)
<1>1. PICK n \in Seq(Plain) :
         /\ n = Decode!NormalizeLineEndings(z)
         /\ Whole(n) = Whole(z) /\ Part(n) = Part(z) /\ Rest(n) = Rest(z)
  BY DecodeFormat, NormalReadsSame
<1>2. a \in Halves /\ Splits(a, n)
  BY <1>1, EventsSplit
<1>3. PICK r \in Seq(Plain), ls \in Seq(CharLines) : r = a.rest /\ ls = a.lines
  BY <1>2 DEF Halves
<1>4. r \in Seq(Chars)
  BY DEF Plain
<1>5. ls \o <<>> = ls
  BY ConcatEmptySeq
<1>6. SameLines(z, r, ls) /\ Whole(r) = <<>>
  BY <1>1, <1>2, <1>3, <1>5 DEF Splits, SameLines
<1>7. ~Decode!Ends(r, CR)
  <2> SUFFICES ASSUME r # <<>>, r[Len(r)] = CR PROVE FALSE
    BY DEF Decode!Ends
  <2>1. r[Len(r)] \in Plain
    BY LastApart
  <2> QED BY <2>1 DEF Plain
<1> QED BY <1>2, <1>3, <1>4, <1>6, <1>7

\* A chunk: its complete events are read, and the buffer reads as all that came
Processed(y, q, eos) ==
    /\ q.lines \in Seq(CharLines) /\ q.buffer \in Seq(Chars)
    /\ SameLines(y, q.buffer, q.lines)
    /\ ~eos => SameEnd(y, q.buffer)
    /\ eos => Whole(q.buffer) = <<>>
    /\ Decode!TextOf(FlattenSeq(q.lines) \o q.buffer) = Decode!TextOf(y)
LEMMA ChunkProcessed ==
    ASSUME CR # LF, line_buffer \in Seq(Chars), NEW c \in Seq(Chars), NEW eos \in BOOLEAN
    PROVE  Processed(line_buffer \o c, Decode!ProcessSseChunk(c, eos), eos)
<1>1. PICK y \in Seq(Chars) : y = line_buffer \o c
  BY ConcatProperties
<1>2. PICK q : q = Decode!ProcessSseChunk(c, eos)
  OBVIOUS
<1> DEFINE pending == Decode!DefersTrailingCr(y, eos)
           z == IF pending THEN Decode!Front(y) ELSE y
<1>3. PICK a : a = Decode!SplitEvents(Decode!NormalizeLineEndings(z))
  OBVIOUS
<1>4. q = [lines |-> a.lines, buffer |-> a.rest \o (IF pending THEN <<CR>> ELSE <<>>)]
  BY <1>1, <1>2, <1>3, Zenon DEF Decode!ProcessSseChunk
<1>5. q.lines = a.lines /\ q.buffer = a.rest \o (IF pending THEN <<CR>> ELSE <<>>)
  BY <1>4
<1>6. z \in Seq(Chars) /\ (pending => CR \in Chars /\ y = Append(z, CR) /\ ~Decode!Ends(z, CR) /\ ~eos)
  <2>1. CASE pending
    <3>1. Decode!Ends(y, CR) /\ ~Decode!Ends(Decode!Front(y), CR) /\ ~eos
      BY <2>1 DEF Decode!DefersTrailingCr
    <3> QED BY <2>1, <3>1, LastApart DEF Decode!Ends, Decode!Front
  <2>2. CASE ~pending
    BY <2>2
  <2> QED BY <2>1, <2>2
<1>7. PICK r \in Seq(Chars), ls \in Seq(CharLines) :
         r = a.rest /\ ls = a.lines
  BY <1>3, <1>6, SplitAlike
<1>8. SameLines(z, r, ls) /\ Whole(r) = <<>> /\ ~Decode!Ends(r, CR)
  BY <1>3, <1>6, <1>7, SplitAlike
<1> HIDE DEF z, pending
<1>9. CASE pending
  <2>1. q.lines = ls /\ q.buffer = Append(r, CR) /\ Append(r, CR) \in Seq(Chars)
    BY <1>5, <1>6, <1>7, <1>9, AppendIsConcat, AppendProperties
  <2>2. SameEnd(z, r)
    BY <1>6, <1>8, <1>9 DEF SameEnd
  <2>3. SameLines(y, Append(r, CR), ls) /\ SameEnd(y, Append(r, CR))
    BY <1>6, <1>8, <1>9, <2>2, CharAlike
  <2>4. Decode!TextOf(FlattenSeq(ls) \o Append(r, CR)) = Decode!TextOf(y)
    BY <2>1, <2>3, SameText
  <2> QED BY <1>1, <1>2, <1>6, <1>9, <2>1, <2>3, <2>4 DEF Processed
<1>10. CASE ~pending
  <2>1. r \o <<>> = r
    BY ConcatEmptySeq
  <2>2. q.lines = ls /\ q.buffer = r
    BY <1>5, <1>7, <1>10, <2>1
  <2>3. z = y
    BY <1>10 DEF z, pending
  <2>4. ~eos => SameEnd(y, r)
    <3> SUFFICES ASSUME ~eos PROVE SameEnd(y, r)
      OBVIOUS
    <3>1. ~Decode!Ends(y, CR) \/ Decode!Ends(Decode!Front(y), CR)
      BY <1>10 DEF pending, Decode!DefersTrailingCr
    <3>2. CASE ~Decode!Ends(y, CR)
      BY <1>8, <3>2 DEF SameEnd
    <3>3. CASE Decode!Ends(y, CR)
      BY <3>1, <3>3, BlankAtEnd DEF SameEnd
    <3> QED BY <3>2, <3>3
  <2>5. Decode!TextOf(FlattenSeq(ls) \o r) = Decode!TextOf(y)
    BY <1>8, <2>3, SameText
  <2> QED BY <1>1, <1>2, <1>8, <2>2, <2>3, <2>4, <2>5 DEF Processed
<1> QED BY <1>9, <1>10

LEMMA ConcatStartsWith ==
    ASSUME NEW V, NEW s \in Seq(V), NEW t \in Seq(V) PROVE Decode!IsPrefix(s, s \o t)
<1>1. PICK u \in Seq(V), n \in Nat, m \in Nat : u = s \o t /\ n = Len(s) /\ m = Len(t)
  <2>1. s \o t \in Seq(V)
    BY ConcatProperties
  <2>2. Len(s) \in Nat /\ Len(t) \in Nat
    OBVIOUS
  <2> QED BY <2>1, <2>2
<1>2. Len(u) = n + m /\ \A i \in 1..n : u[i] = s[i] /\ u[i] \in V /\ s[i] \in V
  BY <1>1, ConcatProperties
<1>3. PICK a, b : a = SubSeq(s, 1, n) /\ b = SubSeq(u, 1, n)
  OBVIOUS
<1>4. a \in Seq(V) /\ Len(a) = n /\ \A i \in 1..n : a[i] = s[i]
  <2>1. /\ a \in Seq(V) /\ Len(a) = IF 1 <= n THEN n - 1 + 1 ELSE 0
        /\ \A i \in 1..(n - 1 + 1) : a[i] = s[1 + i - 1]
    BY <1>2, <1>3, SubSeqProperties
  <2> QED BY <2>1
<1>5. b \in Seq(V) /\ Len(b) = n /\ \A i \in 1..n : b[i] = u[i]
  <2>1. /\ b \in Seq(V) /\ Len(b) = IF 1 <= n THEN n - 1 + 1 ELSE 0
        /\ \A i \in 1..(n - 1 + 1) : b[i] = u[1 + i - 1]
    BY <1>2, <1>3, SubSeqProperties
  <2> QED BY <2>1
<1>6. a = b
  BY <1>2, <1>4, <1>5, SeqEqual
<1> QED BY <1>1, <1>2, <1>3, <1>6 DEF Decode!IsPrefix

\* The stream so far is d, and the bytes of a character cut in two; the buffer
\* reads as d does after the lines acted on
ReadSoFar(d) ==
    /\ bytes = d \o utf8
    /\ SameLines(d, line_buffer, lines) /\ SameEnd(d, line_buffer)
DecodeTyped ==
    /\ utf8 \in Seq(Chars) /\ line_buffer \in Seq(Chars) /\ left \in Seq(Chars)
    /\ bytes \in Seq(Chars) /\ lines \in Seq(CharLines) /\ raw \in BOOLEAN
    /\ phase \in {"open", "ended", "failed"}
DecodeInv ==
    /\ DecodeTyped /\ Decode!NoTextLost
    /\ ~raw /\ phase = "open" => \E d \in Seq(Chars) : ReadSoFar(d)
    /\ ~raw /\ phase = "ended" => lines = Whole(bytes)

LEMMA DecodeInit == ASSUME Decode!Init PROVE DecodeInv
<1>1. /\ utf8 = <<>> /\ line_buffer = <<>> /\ lines = <<>> /\ left = <<>>
      /\ raw = FALSE /\ bytes = <<>> /\ phase = "open"
  BY DEF Decode!Init
<1>2. <<>> \in Seq(Chars) /\ <<>> \in Seq(CharLines)
  OBVIOUS
<1>3. (<<>> \o <<>>) \o <<>> = <<>> /\ <<>> \o <<>> = <<>>
  OBVIOUS
<1>4. DecodeTyped /\ Decode!NoTextLost
  BY <1>1, <1>2, <1>3 DEF DecodeTyped, Decode!NoTextLost
<1>5. ReadSoFar(<<>>)
  BY <1>1, <1>3, NoLines DEF ReadSoFar, SameLines, SameEnd
<1> QED BY <1>1, <1>2, <1>4, <1>5 DEF DecodeInv

LEMMA DecodeImplies == ASSUME DecodeInv PROVE Decode!CutsDoNotMatter /\ Decode!NoTextLost
<1>1. DecodeTyped /\ Decode!NoTextLost
  BY DEF DecodeInv
<1>2. Decode!CompleteLines(bytes) = Whole(bytes)
  BY DecodeFormat
<1>3. CASE ~raw /\ phase = "open"
  <2>1. PICK d \in Seq(Chars) : ReadSoFar(d)
    BY <1>3 DEF DecodeInv
  <2>2. PICK ls \in Seq(CharLines) : Whole(bytes) = Whole(d) \o ls
    BY <1>1, <2>1, WholeGrows DEF DecodeTyped, ReadSoFar
  <2>3. PICK w \in Seq(CharLines) : w = Whole(line_buffer)
    BY <1>1, LinesAreTyped DEF DecodeTyped, LinesTyped
  <2>4. Whole(bytes) = (lines \o w) \o ls
    BY <2>1, <2>2, <2>3 DEF ReadSoFar, SameLines
  <2>5. (lines \o w) \o ls = lines \o (w \o ls) /\ w \o ls \in Seq(CharLines)
    <3>1. lines \in Seq(CharLines)
      BY <1>1 DEF DecodeTyped
    <3>2. w \o ls \in Seq(CharLines)
      BY ConcatProperties
    <3>3. (lines \o w) \o ls = lines \o (w \o ls)
      BY <3>1, ConcatAssociative
    <3> QED BY <3>2, <3>3
  <2>6. Decode!IsPrefix(lines, Whole(bytes))
    BY <1>1, <2>4, <2>5, ConcatStartsWith DEF DecodeTyped
  <2> QED BY <1>1, <1>2, <1>3, <2>6 DEF Decode!CutsDoNotMatter
<1>4. CASE ~raw /\ phase = "ended"
  <2>1. lines = Whole(bytes)
    BY <1>4 DEF DecodeInv
  <2>2. lines \o <<>> = lines /\ <<>> \in Seq(CharLines)
    BY <1>1, ConcatEmptySeq DEF DecodeTyped
  <2>3. Decode!IsPrefix(lines, Whole(bytes))
    BY <1>1, <2>1, <2>2, ConcatStartsWith DEF DecodeTyped
  <2> QED BY <1>1, <1>2, <2>1, <2>3 DEF Decode!CutsDoNotMatter
<1>5. CASE raw \/ phase = "failed"
  BY <1>1, <1>5 DEF Decode!CutsDoNotMatter
<1> QED BY <1>1, <1>3, <1>4, <1>5 DEF DecodeTyped

\* The text of what is joined, and of a text whose middle was rewritten
TextJoins(a, b) == Decode!TextOf(a \o b) = Decode!TextOf(a) \o Decode!TextOf(b)
LEMMA TextsJoin == ASSUME NEW a \in Seq(Chars), NEW b \in Seq(Chars) PROVE TextJoins(a, b)
<1>1. TextReads(a)
  BY TextGrows
<1> QED BY <1>1 DEF TextReads, TextJoins

TextRewritten(l, b, v, t, f, q) ==
    Decode!TextOf(((l \o f) \o q) \o t) = Decode!TextOf(((l \o b) \o v) \o t)
LEMMA RewrittenText ==
    ASSUME NEW l \in Seq(Chars), NEW b \in Seq(Chars), NEW v \in Seq(Chars), NEW t \in Seq(Chars),
           NEW f \in Seq(Chars), NEW q \in Seq(Chars),
           Decode!TextOf(f \o q) = Decode!TextOf(b \o v)
    PROVE  TextRewritten(l, b, v, t, f, q)
<1>1. Grouped(l, f, q) /\ Grouped(l, b, v)
  BY CharsGrouped
<1>2. f \o q \in Seq(Chars) /\ b \o v \in Seq(Chars)
  <2>1. Joins(f, q) /\ Joins(b, v)
    BY CharsJoined
  <2> QED BY <2>1 DEF Joins
<1>3. l \o (f \o q) \in Seq(Chars) /\ l \o (b \o v) \in Seq(Chars)
  <2>1. Joins(l, f \o q) /\ Joins(l, b \o v)
    BY <1>2, CharsJoined
  <2> QED BY <2>1 DEF Joins
<1>4. /\ TextJoins(l, f \o q) /\ TextJoins(l, b \o v)
      /\ TextJoins(l \o (f \o q), t) /\ TextJoins(l \o (b \o v), t)
  BY <1>2, <1>3, TextsJoin
<1>5. Decode!TextOf(l \o (f \o q)) = Decode!TextOf(l \o (b \o v))
  BY <1>4, Zenon DEF TextJoins
<1>6. Decode!TextOf((l \o (f \o q)) \o t) = Decode!TextOf((l \o (b \o v)) \o t)
  BY <1>4, <1>5, Zenon DEF TextJoins
<1> QED BY <1>1, <1>6 DEF Grouped, TextRewritten

\* What is written after a text: the same, if its own text is the same
LEMMA TextFollows ==
    ASSUME NEW x \in Seq(Chars), NEW y \in Seq(Chars), NEW c \in Seq(Chars),
           Decode!TextOf(x) = Decode!TextOf(y)
    PROVE  Decode!TextOf(x \o c) = Decode!TextOf(y \o c)
<1>1. TextReads(x) /\ TextReads(y)
  BY TextGrows
<1> QED BY <1>1 DEF TextReads

\* A chunk, with the bytes held back before it: what is read now, and what is
\* held back
ReadNow(c) == IF Decode!CutShort(utf8 \o c) THEN Decode!Front(utf8 \o c) ELSE utf8 \o c
HeldBack(c) == IF Decode!CutShort(utf8 \o c) THEN <<Lead>> ELSE <<>>
ChunkTyped(c) ==
    /\ ReadNow(c) \in Seq(Chars) /\ HeldBack(c) \in Seq(Chars)
    /\ utf8 \o c = ReadNow(c) \o HeldBack(c)
LEMMA ChunkHeld == ASSUME DecodeTyped, NEW c \in Seq(Chars) PROVE ChunkTyped(c)
<1>1. PICK a \in Seq(Chars) : a = utf8 \o c
  BY CharsJoined DEF DecodeTyped, Joins
<1>2. CASE Decode!CutShort(a)
  <2>1. PICK v \in Seq(Chars) : v = Decode!Front(a) /\ a = Append(v, Lead) /\ Lead \in Chars
    BY <1>2, LastApart DEF Decode!CutShort, Decode!Front, Decode!Last
  <2>2. Append(v, Lead) = v \o <<Lead>> /\ <<Lead>> \in Seq(Chars)
    <3>1. <<Lead>> \in Seq(Chars)
      BY <2>1
    <3>2. Append(v, Lead) = v \o <<Lead>>
      BY <2>1, AppendIsConcat
    <3> QED BY <3>1, <3>2
  <2> QED BY <1>1, <1>2, <2>1, <2>2 DEF ChunkTyped, ReadNow, HeldBack
<1>3. CASE ~Decode!CutShort(a)
  <2>1. a \o <<>> = a /\ <<>> \in Seq(Chars)
    BY ConcatEmptySeq
  <2> QED BY <1>1, <1>3, <2>1 DEF ChunkTyped, ReadNow, HeldBack
<1> QED BY <1>2, <1>3

LEMMA BytesHeld ==
    ASSUME NEW d \in Seq(Chars), DecodeTyped, bytes = d \o utf8, NEW c \in Seq(Chars)
    PROVE  bytes \o c = (d \o ReadNow(c)) \o HeldBack(c)
<1>1. ChunkTyped(c)
  BY ChunkHeld
<1>2. Grouped(d, utf8, c) /\ Grouped(d, ReadNow(c), HeldBack(c))
  BY <1>1, CharsGrouped DEF DecodeTyped, ChunkTyped
<1> QED BY <1>1, <1>2 DEF Grouped, ChunkTyped

\* The text that left, the text held and the chunk
LEMMA TextHeld ==
    ASSUME DecodeInv, phase # "failed", NEW c \in Seq(Chars)
    PROVE  /\ Decode!TextOf((left \o line_buffer) \o (utf8 \o c)) = Decode!TextOf(bytes \o c)
           /\ Decode!TextOf(((left \o line_buffer) \o ReadNow(c)) \o HeldBack(c))
                = Decode!TextOf(bytes \o c)
<1>1. PICK v \in Seq(Chars), t \in Seq(Chars) :
         v = ReadNow(c) /\ t = HeldBack(c) /\ utf8 \o c = v \o t
  BY ChunkHeld DEF DecodeInv, ChunkTyped
<1>2. /\ left \in Seq(Chars) /\ line_buffer \in Seq(Chars) /\ utf8 \in Seq(Chars)
      /\ bytes \in Seq(Chars)
  BY DEF DecodeInv, DecodeTyped
<1>3. PICK x \in Seq(Chars) : x = left \o line_buffer
  BY <1>2, CharsJoined DEF Joins
<1>4. Grouped(x, utf8, c) /\ Grouped(x, v, t) /\ Joins(x, utf8)
  BY <1>2, CharsGrouped, CharsJoined
<1>5. Decode!TextOf(x \o utf8) = Decode!TextOf(bytes)
  BY <1>3 DEF DecodeInv, Decode!NoTextLost
<1>6. Decode!TextOf((x \o utf8) \o c) = Decode!TextOf(bytes \o c)
  <2>1. x \o utf8 \in Seq(Chars) /\ bytes \in Seq(Chars)
    BY <1>2, <1>4 DEF Joins
  <2> QED BY <1>5, <2>1, TextFollows, Zenon
<1> QED BY <1>1, <1>3, <1>4, <1>6 DEF Grouped

\* The text between the stream and the lines, over one chunk more
LEMMA ReadFurther ==
    ASSUME CR # LF, DecodeTyped, NEW d \in Seq(Chars), ReadSoFar(d), NEW v \in Seq(Chars),
           NEW ls \in Seq(CharLines), NEW b \in Seq(Chars), SameLines(line_buffer \o v, b, ls)
    PROVE  /\ SameLines(d \o v, b, lines \o ls)
           /\ SameEnd(line_buffer \o v, b) => SameEnd(d \o v, b)
<1>1. lines \in Seq(CharLines) /\ line_buffer \in Seq(Chars)
  BY DEF DecodeTyped
<1>2. SameLines(d \o v, line_buffer \o v, lines) /\ SameEnd(d \o v, line_buffer \o v)
  BY <1>1, ReadAlike DEF ReadSoFar
<1>3. Whole(b) \in Seq(CharLines)
  BY LinesAreTyped DEF LinesTyped
<1>4. Grouped(lines, ls, Whole(b))
  BY <1>1, <1>3, LinesGrouped
<1>5. SameLines(d \o v, b, lines \o ls)
  BY <1>2, <1>4, Zenon DEF SameLines, Grouped
<1>6. SameEnd(line_buffer \o v, b) => SameEnd(d \o v, b)
  BY <1>2, Zenon DEF SameEnd, SameLines
<1> QED BY <1>5, <1>6

\* A chunk that is passed through
LEMMA ChunkPassed ==
    ASSUME DecodeInv, phase = "open", NEW c \in Seq(Chars), bytes' = bytes \o c,
           Decode!PassthroughWithLineBuffer(utf8 \o c), phase' \in {"open", "ended"}
    PROVE  DecodeInv'
<1>1. /\ raw' = TRUE /\ left' = (left \o line_buffer) \o (utf8 \o c)
      /\ line_buffer' = <<>> /\ utf8' = <<>> /\ lines' = lines
  BY DEF Decode!PassthroughWithLineBuffer
<1>2. /\ left \in Seq(Chars) /\ line_buffer \in Seq(Chars) /\ utf8 \in Seq(Chars)
      /\ bytes \in Seq(Chars) /\ lines \in Seq(CharLines)
  BY DEF DecodeInv, DecodeTyped
<1>3. left \o line_buffer \in Seq(Chars) /\ utf8 \o c \in Seq(Chars) /\ bytes' \in Seq(Chars)
  <2>1. Joins(left, line_buffer) /\ Joins(utf8, c) /\ Joins(bytes, c)
    BY <1>2, CharsJoined
  <2> QED BY <2>1 DEF Joins
<1>4. left' \in Seq(Chars) /\ <<>> \in Seq(Chars)
  <2>1. Joins(left \o line_buffer, utf8 \o c)
    BY <1>3, CharsJoined
  <2> QED BY <1>1, <2>1 DEF Joins
<1>5. DecodeTyped'
  BY <1>1, <1>2, <1>3, <1>4 DEF DecodeTyped
<1>6. Decode!TextOf(left') = Decode!TextOf(bytes')
  BY <1>1, TextHeld
<1>7. (left' \o <<>>) \o <<>> = left'
  BY <1>4, ConcatEmptySeq
<1>8. Decode!NoTextLost'
  BY <1>1, <1>6, <1>7 DEF Decode!NoTextLost
<1> QED BY <1>1, <1>5, <1>8 DEF DecodeInv

\* A chunk whose bytes are all held back
LEMMA ChunkWaits ==
    ASSUME DecodeInv, phase = "open", NEW c \in Seq(Chars), bytes' = bytes \o c,
           utf8' = HeldBack(c), ReadNow(c) = <<>>,
           UNCHANGED <<raw, lines, left, line_buffer, phase>>
    PROVE  DecodeInv'
<1>1. DecodeTyped /\ ChunkTyped(c)
  BY ChunkHeld DEF DecodeInv
<1>2. bytes' \in Seq(Chars)
  BY <1>1, CharsJoined DEF DecodeTyped, Joins
<1>3. DecodeTyped'
  BY <1>1, <1>2 DEF DecodeTyped, ChunkTyped
<1>4. Decode!NoTextLost'
  <2>1. PICK x \in Seq(Chars) : x = left \o line_buffer
    BY <1>1, CharsJoined DEF DecodeTyped, Joins
  <2>2. x \o <<>> = x
    BY ConcatEmptySeq
  <2>3. Decode!TextOf((x \o <<>>) \o HeldBack(c)) = Decode!TextOf(bytes \o c)
    BY <2>1, TextHeld
  <2> QED BY <2>1, <2>2, <2>3 DEF Decode!NoTextLost
<1>5. ASSUME ~raw PROVE \E d \in Seq(Chars) : ReadSoFar(d)'
  <2>1. PICK d \in Seq(Chars) : ReadSoFar(d)
    BY <1>5 DEF DecodeInv
  <2>2. d \o <<>> = d
    BY ConcatEmptySeq
  <2>3. bytes \o c = (d \o <<>>) \o HeldBack(c)
    BY <1>1, <2>1, BytesHeld DEF ReadSoFar
  <2>4. ReadSoFar(d)'
    BY <2>1, <2>2, <2>3 DEF ReadSoFar, SameLines, SameEnd
  <2> QED BY <2>4
<1> QED BY <1>3, <1>4, <1>5 DEF DecodeInv

\* A chunk whose events are acted on
LEMMA ChunkStored ==
    ASSUME CR # LF, DecodeInv, phase = "open", NEW c \in Seq(Chars), NEW eos \in BOOLEAN,
           bytes' = bytes \o c, utf8' = HeldBack(c), raw' = raw,
           ~(Decode!CutShort(utf8 \o c) /\ eos),
           Decode!StoreLineBuffer(Decode!ProcessSseChunk(ReadNow(c), eos), eos)
    PROVE  DecodeInv'
<1>1. DecodeTyped /\ ChunkTyped(c)
  BY ChunkHeld DEF DecodeInv
<1>2. PICK v \in Seq(Chars) : v = ReadNow(c)
  BY <1>1 DEF ChunkTyped
<1>3. PICK q : q = Decode!ProcessSseChunk(v, eos)
  OBVIOUS
<1>4. Processed(line_buffer \o v, q, eos)
  BY <1>1, <1>3, ChunkProcessed DEF DecodeTyped
<1>5. PICK ls \in Seq(CharLines), b \in Seq(Chars) : ls = q.lines /\ b = q.buffer
  BY <1>4 DEF Processed
<1>6. /\ lines' = lines \o ls /\ left' = left \o FlattenSeq(ls)
      /\ line_buffer' = (IF Len(b) > MaxPartial THEN <<>> ELSE b)
      /\ phase' = (IF Len(b) > MaxPartial THEN "failed" ELSE IF eos THEN "ended" ELSE "open")
  BY <1>2, <1>3, <1>5, DecodeFormat DEF Decode!StoreLineBuffer
<1>7. DecodeTyped'
  <2>1. lines' \in Seq(CharLines)
    BY <1>1, <1>6, ConcatProperties DEF DecodeTyped
  <2>2. left' \in Seq(Chars)
    BY <1>1, <1>6, LinesFlat, CharsJoined DEF DecodeTyped, Joins
  <2>3. bytes' \in Seq(Chars)
    BY <1>1, CharsJoined DEF DecodeTyped, Joins
  <2>4. line_buffer' \in Seq(Chars)
    <3>1. <<>> \in Seq(Chars)
      OBVIOUS
    <3> QED BY <1>6, <3>1
  <2>5. phase' \in {"open", "ended", "failed"}
    BY <1>6
  <2> QED BY <1>1, <2>1, <2>2, <2>3, <2>4, <2>5 DEF DecodeTyped, ChunkTyped
<1>8. CASE phase' = "failed"
  BY <1>7, <1>8 DEF DecodeInv, Decode!NoTextLost
<1>9. CASE phase' # "failed"
  <2>1. line_buffer' = b /\ phase' = IF eos THEN "ended" ELSE "open"
    BY <1>6, <1>9
  <2>2. SameLines(line_buffer \o v, b, ls)
    BY <1>4, <1>5 DEF Processed
  <2>3. Decode!NoTextLost'
    <3>1. Decode!TextOf(FlattenSeq(ls) \o b) = Decode!TextOf(line_buffer \o v)
      BY <1>4, <1>5 DEF Processed
    <3>2. TextRewritten(left, line_buffer, v, HeldBack(c), FlattenSeq(ls), b)
      BY <1>1, <3>1, LinesFlat, RewrittenText DEF DecodeTyped, ChunkTyped
    <3>3. Decode!TextOf(((left \o line_buffer) \o v) \o HeldBack(c)) = Decode!TextOf(bytes \o c)
      BY <1>2, TextHeld
    <3> QED BY <1>6, <2>1, <3>2, <3>3 DEF Decode!NoTextLost, TextRewritten
  <2>4. ASSUME ~raw, NEW d \in Seq(Chars), ReadSoFar(d)
        PROVE  /\ bytes' = (d \o v) \o HeldBack(c) /\ d \o v \in Seq(Chars)
               /\ SameLines(d \o v, b, lines')
               /\ SameEnd(line_buffer \o v, b) => SameEnd(d \o v, b)
    <3>1. bytes' = (d \o v) \o HeldBack(c)
      BY <1>1, <1>2, <2>4, BytesHeld DEF ReadSoFar
    <3>2. Joins(d, v)
      BY CharsJoined
    <3>3. /\ SameLines(d \o v, b, lines \o ls)
          /\ SameEnd(line_buffer \o v, b) => SameEnd(d \o v, b)
      BY <1>1, <2>2, <2>4, ReadFurther
    <3> QED BY <1>6, <3>1, <3>2, <3>3 DEF Joins
  <2>5. ASSUME ~raw PROVE \E d \in Seq(Chars) : ReadSoFar(d)
    BY <2>5 DEF DecodeInv
  <2>6. ASSUME ~raw, phase' = "open" PROVE \E d \in Seq(Chars) : ReadSoFar(d)'
    <3>1. ~eos /\ SameEnd(line_buffer \o v, b)
      BY <1>4, <1>5, <2>1, <2>6 DEF Processed
    <3>2. PICK d \in Seq(Chars) : ReadSoFar(d)
      BY <2>5, <2>6
    <3>3. PICK e \in Seq(Chars) : e = d \o v
      BY <2>4, <2>6, <3>2
    <3>4. bytes' = e \o HeldBack(c) /\ SameLines(e, b, lines') /\ SameEnd(e, b)
      BY <2>4, <2>6, <3>1, <3>2, <3>3
    <3>5. ReadSoFar(e)'
      BY <2>1, <3>4 DEF ReadSoFar, SameLines, SameEnd
    <3> QED BY <3>5
  <2>7. ASSUME ~raw, phase' = "ended" PROVE (lines = Whole(bytes))'
    <3>1. eos /\ Whole(b) = <<>>
      BY <1>4, <1>5, <2>1, <2>7 DEF Processed
    <3>2. HeldBack(c) = <<>>
      BY <3>1 DEF HeldBack
    <3>3. PICK d \in Seq(Chars) : ReadSoFar(d)
      BY <2>5, <2>7
    <3>4. PICK e \in Seq(Chars) : e = d \o v /\ bytes' = e \o <<>> /\ SameLines(e, b, lines')
      BY <2>4, <2>7, <3>2, <3>3
    <3>5. e \o <<>> = e
      BY ConcatEmptySeq
    <3>6. lines' \o <<>> = lines'
      BY <1>7, ConcatEmptySeq DEF DecodeTyped
    <3>7. Whole(e) = lines'
      BY <3>1, <3>4, <3>6 DEF SameLines
    <3> QED BY <3>4, <3>5, <3>7 DEF Whole
  <2> QED BY <1>7, <2>3, <2>6, <2>7 DEF DecodeInv
<1> QED BY <1>8, <1>9

LEMMA DecodeNext ==
    ASSUME CR # LF, DecodeInv, [Decode!Next]_(Decode!vars) PROVE DecodeInv'
<1>1. ASSUME NEW c \in Decode!BoundedSeq(TextBytes, MaxChunk), NEW eos \in BOOLEAN,
             Decode!DecodeChunk(c, eos)
      PROVE  DecodeInv'
  <2>1. c \in Seq(Chars)
    BY DEF Decode!BoundedSeq, Decode!SeqOf, Chars
  <2>2. phase = "open" /\ bytes' = bytes \o c
    BY <1>1 DEF Decode!DecodeChunk
  <2>3. CASE Decode!Malformed(utf8 \o c) \/ (Decode!CutShort(utf8 \o c) /\ eos)
    <3>1. Decode!PassthroughWithLineBuffer(utf8 \o c) /\ phase' \in {"open", "ended"}
      BY <1>1, <2>3 DEF Decode!DecodeChunk
    <3> QED BY <2>1, <2>2, <3>1, ChunkPassed
  <2>4. CASE ~(Decode!Malformed(utf8 \o c) \/ (Decode!CutShort(utf8 \o c) /\ eos))
    <3>1. /\ utf8' = HeldBack(c) /\ raw' = raw
          /\ IF ReadNow(c) = <<>> /\ ~eos THEN UNCHANGED <<lines, left, line_buffer, phase>>
             ELSE Decode!StoreLineBuffer(Decode!ProcessSseChunk(ReadNow(c), eos), eos)
      BY <1>1, <2>4 DEF Decode!DecodeChunk, HeldBack, ReadNow
    <3>2. CASE ReadNow(c) = <<>> /\ ~eos
      BY <2>1, <2>2, <3>1, <3>2, ChunkWaits
    <3>3. CASE ~(ReadNow(c) = <<>> /\ ~eos)
      BY <2>1, <2>2, <2>4, <3>1, <3>3, ChunkStored
    <3> QED BY <3>2, <3>3
  <2> QED BY <2>3, <2>4
<1>2. CASE Decode!Done \/ UNCHANGED Decode!vars
  <2>1. UNCHANGED <<utf8, line_buffer, lines, left, raw, bytes, phase>>
    BY <1>2 DEF Decode!Done, Decode!vars
  <2> QED BY <2>1 DEF DecodeInv, DecodeTyped, Decode!NoTextLost, ReadSoFar, SameLines, SameEnd
<1> QED BY <1>1, <1>2 DEF Decode!Next

\* process_sse_chunk: what is buffered reads as the whole stream does after the
\* lines acted on, so these are the lines of the stream's complete events
\* wherever it was cut; and no text is lost (passthrough_with_line_buffer)
THEOREM DecodingIsSound == ASSUME FieldsTold PROVE Spec => []DecodingSound
<1> DEFINE Inv == reader = "decode" => DecodeInv
<1>1. CR # LF
  BY DEF FieldsTold
<1>2. Init => Inv
  BY DecodeInit DEF Init
<1>3. Inv /\ [Next]_vars => Inv'
  <2> SUFFICES ASSUME Inv, [Next]_vars, reader' = "decode" PROVE DecodeInv'
    OBVIOUS
  <2>1. reader = "decode" /\ [Decode!Next]_(Decode!vars)
    BY DEF Next, vars, decodeVars, Decode!vars
  <2> QED BY <1>1, <2>1, DecodeNext
<1>4. Inv => DecodingSound
  BY DecodeImplies DEF DecodingSound
<1> QED BY <1>2, <1>3, <1>4, PTL DEF Spec
=============================================================================
