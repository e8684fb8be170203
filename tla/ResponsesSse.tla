---------------------------- MODULE ResponsesSse ----------------------------
(***************************************************************************)
(* ResponsesSseParser: the frames of a Responses stream become typed       *)
(* events under an event budget and a wall-clock limit, and the end of the *)
(* stream is judged.  The caller, which stops at the first error, may ask  *)
(* for the judgement long after the last chunk.                            *)
(*                                                                         *)
(* A frame is one of "done" (the [DONE] sentinel), "bad_json", "no_type",  *)
(* "mismatch" (event: and data.type differ), "alias" (two names of one     *)
(* type), "delta", "unknown", "terminal" (completed, incomplete or         *)
(* failed) and "error".                                                    *)
(***************************************************************************)
EXTENDS Naturals, Sequences, SequencesExt

CONSTANTS
    FrameKinds,
    MaxEvents,    \* max_events
    Timeout,      \* timeout, in ticks
    MaxTime, MaxFrames, MaxChunk,   \* bounds on a behaviour
    Never

VARIABLES completion_state, event_count, started_at, completed_at, now,
          taken, frames, verdict

vars == <<completion_state, event_count, started_at, completed_at, now,
          taken, frames, verdict>>

-----------------------------------------------------------------------------
\* check_timeout
Expired(start, t) == start # Never /\ t - start > Timeout

\* from_frame and canonical_event_type: which frames are events
FromFrame(f) == f \notin {"bad_json", "no_type", "mismatch"}

\* is_terminal
IsTerminal(f) == f \in {"terminal", "error"}

\* record_completion and mark_complete for one event; a is [state, count, at,
\* events, error]
RecordAfterError(a, f) ==
    CASE f = "error" -> [a EXCEPT !.state = "Error"]
      [] a.state # "Open" -> [a EXCEPT !.error = TRUE]
      [] OTHER -> IF IsTerminal(f) THEN [a EXCEPT !.state = "TerminalLifecycle"] ELSE a
RecordCompletion(a, f) ==
    CASE f = "error" /\ a.state = "Error"  -> [a EXCEPT !.error = TRUE]
      [] f = "error" /\ a.state # "Error"  -> [a EXCEPT !.state = "Error"]
      [] f # "error" /\ a.state # "Open"   -> [a EXCEPT !.error = TRUE]
      [] f # "error" /\ a.state = "Open"   ->
            IF IsTerminal(f) THEN [a EXCEPT !.state = "TerminalLifecycle"] ELSE a

MarkComplete(before, after, at) ==
    IF before = after \/ at # Never THEN at ELSE now

\* The loop of parse_chunk over one frame
ParseFrame(a, f) ==
    CASE a.error -> a
      [] ~a.error /\ f = "done" -> a
      [] OTHER ->
           LET b == RecordCompletion([a EXCEPT !.count = @ + 1], f) IN
           IF ~FromFrame(f) THEN [a EXCEPT !.error = TRUE]
           ELSE IF b.error THEN b
           ELSE [b EXCEPT !.events = Append(@, f),
                          !.at = MarkComplete(a.state, b.state, a.at)]

\* The loop over the frames of a chunk
ParseFrames(a, fs) ==
    LET after[k \in 0..Len(fs)] == IF k = 0 THEN a ELSE ParseFrame(after[k - 1], fs[k])
    IN  after[Len(fs)]

\* The frames that count against the budget: all but the sentinel
NotDone(fs) == FlattenSeq([k \in DOMAIN fs |-> IF fs[k] = "done" THEN <<>> ELSE <<fs[k]>>])
CountedChunk(fs) == IF fs = <<>> THEN 0 ELSE 1
Counted(fs) == Len(NotDone(fs))

-----------------------------------------------------------------------------
Init ==
    /\ completion_state = "Open" /\ event_count = 0
    /\ started_at = Never /\ completed_at = Never /\ now = 0
    /\ taken = <<>> /\ frames = <<>> /\ verdict = "none"

\* parse_chunk
ParseChunk(fs) ==
    LET start == IF started_at = Never THEN now ELSE started_at
        a == ParseFrames([state |-> completion_state, count |-> event_count,
                          at |-> completed_at, events |-> <<>>, error |-> FALSE], fs) IN
    /\ verdict = "none" /\ Len(frames) + Len(fs) <= MaxFrames
    /\ started_at' = start
    /\ frames' = frames \o fs
    /\ IF Expired(start, now) \/ event_count + Counted(fs) > MaxEvents \/ a.error
       THEN /\ verdict' = "error"
            /\ UNCHANGED <<completion_state, event_count, completed_at, taken>>
       ELSE /\ completion_state' = a.state /\ event_count' = a.count
            /\ completed_at' = a.at
            /\ taken' = taken \o a.events
            /\ UNCHANGED verdict
    /\ UNCHANGED now

\* validate_complete, at the end of the stream
JudgeLate(t) == t
JudgeNow(t) == IF completed_at = Never THEN t ELSE completed_at
ValidateComplete ==
    /\ verdict = "none"
    /\ verdict' = IF Expired(started_at, JudgeNow(now)) \/ completion_state = "Open"
                  THEN "incomplete" ELSE "complete"
    /\ UNCHANGED <<completion_state, event_count, started_at, completed_at, now,
                   taken, frames>>

Tick ==
    /\ now < MaxTime /\ now' = now + 1
    /\ UNCHANGED <<completion_state, event_count, started_at, completed_at,
                   taken, frames, verdict>>

Idle == now = MaxTime /\ verdict # "none" /\ UNCHANGED vars

Next ==
    \/ \E fs \in BoundedSeq(FrameKinds, MaxChunk) : ParseChunk(fs)
    \/ ValidateComplete \/ Tick \/ Idle

Spec == Init /\ [][Next]_vars

-----------------------------------------------------------------------------
Ends == {k \in DOMAIN taken : IsTerminal(taken[k])}

\* record_completion: however the frames are spread over chunks, nothing but
\* one error event follows the event that ends the stream, and nothing at all
\* follows an error.
NothingAfterEnd ==
    \A k \in Ends : \A j \in (k + 1)..Len(taken) :
        taken[k] = "terminal" /\ taken[j] = "error" /\ j = k + 1

\* validate_complete: the judgement depends on the stream alone.  A complete
\* stream had only good frames and saw its end within the timeout of the
\* first chunk; a stream that saw its end is not called incomplete, however
\* late the judgement is asked for.
JudgementFair ==
    /\ verdict = "complete" =>
          /\ Ends # {}
          /\ taken = NotDone(frames)
          /\ completed_at - started_at <= Timeout
    /\ verdict = "incomplete" => Ends = {}

\* check_event_limit: the events taken never exceed max_events, in one chunk
\* or over many, and [DONE] is free.
BudgetHolds == Len(taken) <= MaxEvents /\ event_count = Len(taken)

\* What MCStreams checks of this component
JudgementSound == NothingAfterEnd /\ JudgementFair /\ BudgetHolds
=============================================================================
