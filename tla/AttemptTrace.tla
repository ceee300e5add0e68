---------------------------- MODULE AttemptTrace ----------------------------
(***************************************************************************)
(* The trace of one attempt (features/attempt_trace): the recorder the     *)
(* worker coroutine passes to everything the attempt calls, the reduction  *)
(* of what it captured to a stored document, and the retention of stored   *)
(* traces per attempt sequence.  Texts are model values (what they may     *)
(* show is module Redaction); sizes are small numbers, so that every cap   *)
(* of the recorder is reached.                                             *)
(***************************************************************************)
EXTENDS Integers, FiniteSets, SequencesExt

CONSTANTS
    Requests,      \* what an outbound call shows of itself
    Phases,        \* names of the steps another process reports
    Messages,      \* log lines
    MaxSteps, MaxCalls, MaxStepCalls, MaxLogs,
    Capacity,      \* trace_max_bytes less the reserved bytes, in records
    BodyBudget,    \* body_budget_bytes, in bodies
    SummarySteps,  \* summary_steps
    Retained,      \* retained_traces
    Attempts,      \* attempts of one sequence
    MaxOps, MaxTime, MaxFailures

CapsAssumption ==
    /\ {MaxSteps, MaxCalls, MaxStepCalls, MaxLogs, SummarySteps, Retained} \subseteq Nat \ {0}
    /\ {Capacity, BodyBudget, Attempts, MaxOps, MaxTime, MaxFailures} \subseteq Nat

VARIABLES
    rec,        \* the recorder of the running attempt
    scopes,     \* step_scope objects the attempt still holds
    clock,      \* time since the attempt started
    ops,        \* operations of this attempt so far
    failures,   \* exceptions inside the recorder or the database so far
    attempt,    \* number of the running attempt: its history row
    table,      \* attempts whose full trace is stored
    document    \* the trace the last finished attempt stored, or NoDocument

vars == <<rec, scopes, clock, ops, failures, attempt, table, document>>

Dropped == 0                  \* dropped_step
NoPlace == <<0, 0>>           \* last_call_ without a value
NoCall  == <<>>               \* pending_ without a value
NoPhase == "no phase"
NoDocument == <<>>
Outcomes == {"completed", "failed", "skipped"}

----------------------------------------------------------------------------
(* Records                                                                 *)

NewStep(code, offset, outcome) ==
    [code |-> code, offset |-> offset, at |-> offset, outcome |-> outcome, open |-> FALSE,
     error |-> FALSE, phase |-> NoPhase, related |-> FALSE,
     calls |-> <<>>, logs |-> <<>>, callCount |-> 0, omitted |-> 0]

NewRecorder ==
    [steps |-> <<>>, open |-> <<>>, pending |-> NoCall, last |-> NoPlace, lastMade |-> NoPlace,
     begun |-> 0, bytes |-> 0, bodies |-> 0, calls |-> 0, logs |-> 0, omittedSteps |-> 0,
     omittedCalls |-> 0, omittedLogs |-> 0, omittedBodies |-> 0,
     truncated |-> FALSE, degraded |-> FALSE, finished |-> FALSE]

SumOf(s, F(_)) == FoldLeft(LAMBDA sum, x : sum + F(x), 0, s)
Repeats(s) == SumOf(s, LAMBDA x : x.repeat)

StoredCalls(r) == SumOf(r.steps, LAMBDA s : Len(s.calls))
StoredLogs(r)  == SumOf(r.steps, LAMBDA s : Len(s.logs))

Fits(r, size) == r.bytes + size <= Capacity

CallSize(c) == 1 + IF c.body = "kept" THEN 1 ELSE 0

\* The innermost open step; outside any step, an "unscoped" step at the end.
\* StepOf is its number once WithStep made room for it, Dropped if there is none.
WithStep(r) ==
    IF r.open # <<>> \/ Len(r.steps) >= MaxSteps
                     \/ (r.steps # <<>> /\ Last(r.steps).code = "unscoped")
    THEN r
    ELSE [r EXCEPT !.steps = Append(@, NewStep("unscoped", clock, "completed")),
                   !.bytes = @ + 1]

StepOf(r) ==
    IF r.open # <<>> THEN Last(r.open)
    ELSE IF r.steps # <<>> /\ Last(r.steps).code = "unscoped" THEN Len(r.steps)
    ELSE Dropped

----------------------------------------------------------------------------
(* Calls                                                                   *)

SameCall(a, b) ==
    /\ a.kind = "http" /\ b.kind = "http"
    /\ <<a.request, a.outcome, a.body>> = <<b.request, b.outcome, b.body>>

OmitCall(r, i) ==
    [r EXCEPT !.steps[i].omitted = @ + 1, !.omittedCalls = @ + 1, !.truncated = TRUE,
              !.last = NoPlace]

\* The call among the last two of the step that shows the same, else 0.
FoldsInto(calls, c) ==
    LET n == Len(calls)
        same == {k \in (n - 1)..n : k >= 1 /\ SameCall(calls[k], c)}
    IN IF same = {} THEN 0 ELSE CHOOSE k \in same : \A j \in same : j <= k

WithoutBody(c) == IF c.body = "kept" THEN [c EXCEPT !.body = "budget"] ELSE c

KeepCall(r, i, call) ==
    LET slim == ~Fits(r, CallSize(call)) /\ call.kind = "http"
        c    == IF slim THEN WithoutBody(call) ELSE call
        q    == [r EXCEPT !.truncated = @ \/ slim,
                          !.omittedBodies = @ + IF slim /\ call.body = "kept" THEN 1 ELSE 0]
    IN IF ~Fits(q, CallSize(c)) THEN OmitCall(q, i)
       ELSE [q EXCEPT !.bytes = @ + CallSize(c), !.steps[i].calls = Append(@, c),
                      !.last = <<i, Len(q.steps[i].calls) + 1>>]

CallsFull(r, i) == StoredCalls(r) >= MaxCalls \/ Len(r.steps[i].calls) >= MaxStepCalls

\* store_call.  lastMade and begun are history: where the call made last is
\* shown, and how many calls were begun.
StoreCall(r0, call) ==
    LET r == [WithStep(r0) EXCEPT !.calls = @ + 1, !.lastMade = NoPlace]
        i == StepOf(r)
        q == [r EXCEPT !.steps[i].callCount = @ + 1]
        k == FoldsInto(q.steps[i].calls, call)
        stored == IF k # 0
                  THEN [q EXCEPT !.steps[i].calls[k].repeat = @ + 1, !.last = <<i, k>>]
                  ELSE IF CallsFull(q, i) THEN OmitCall(q, i)
                  ELSE KeepCall(q, i, call)
    IN IF i = Dropped
       THEN [r EXCEPT !.omittedCalls = @ + 1, !.truncated = TRUE]
       ELSE [stored EXCEPT !.lastMade = stored.last]

Call(kind, request, body, outcome) ==
    [kind |-> kind, request |-> request, body |-> body, outcome |-> outcome, repeat |-> 1]

AbandonPending(r) ==
    IF r.pending = NoCall THEN r
    ELSE StoreCall([r EXCEPT !.pending = NoCall], [Head(r.pending) EXCEPT !.outcome = "cancelled"])

\* capture_body: an excerpt while the attempt's budget lasts.
CaptureBody(r, sent) ==
    IF ~sent THEN [rec |-> r, body |-> "none"]
    ELSE IF r.bodies < BodyBudget
    THEN [rec |-> [r EXCEPT !.bodies = @ + 1], body |-> "kept"]
    ELSE [rec |-> [r EXCEPT !.omittedBodies = @ + 1, !.truncated = TRUE], body |-> "budget"]

----------------------------------------------------------------------------
(* Logs and steps                                                          *)

AppendLog(r, i, message) ==
    LET logs == r.steps[i].logs
    IN IF logs # <<>> /\ Last(logs).message = message
       THEN [r EXCEPT !.steps[i].logs[Len(logs)].repeat = @ + 1]
       ELSE IF StoredLogs(r) >= MaxLogs \/ ~Fits(r, 1)
       THEN [r EXCEPT !.omittedLogs = @ + 1, !.truncated = TRUE]
       ELSE [r EXCEPT !.steps[i].logs = Append(@, [message |-> message, repeat |-> 1]),
                      !.bytes = @ + 1]

CloseStep(r, i, outcome) ==
    IF r.steps[i].open THEN [r EXCEPT !.steps[i].open = FALSE, !.steps[i].outcome = outcome]
    ELSE r

\* The innermost open entry of the scope leaves the stack.
LastOpen(r, i) ==
    CHOOSE k \in 1..Len(r.open) : r.open[k] = i /\ \A j \in (k + 1)..Len(r.open) : r.open[j] # i

\* end_step: a reason given for a failure is the step's error, any other a log line.
EndStep(r, i, outcome, message) ==
    IF r.finished \/ i \notin Range(r.open) THEN r
    ELSE LET q == [r EXCEPT !.open = RemoveAt(@, LastOpen(r, i))]
             closed == CloseStep(q, i, outcome)
         IN IF i = Dropped \/ r.degraded THEN q
            ELSE IF message = "" THEN closed
            ELSE IF outcome = "failed" THEN [closed EXCEPT !.steps[i].error = TRUE]
            ELSE AppendLog([closed EXCEPT !.logs = @ + 1], i, message)

\* mark_failure: the first step that failed without an error gets the error,
\* else the open step, else a step of its own when no step shows an error.
FirstFailed(s) == CHOOSE i \in s : \A j \in s : i <= j

MarkFailure(r) ==
    LET bare == {i \in 1..Len(r.steps) :
                    r.steps[i].outcome = "failed" /\ ~r.steps[i].error /\ ~r.steps[i].open}
    IN IF bare # {} THEN [r EXCEPT !.steps[FirstFailed(bare)].error = TRUE]
       ELSE IF r.open # <<>> /\ Last(r.open) # Dropped
       THEN [r EXCEPT !.steps[Last(r.open)].error = TRUE]
       ELSE IF \E i \in 1..Len(r.steps) : r.steps[i].outcome = "failed" /\ r.steps[i].error THEN r
       ELSE IF Len(r.steps) >= MaxSteps THEN [r EXCEPT !.truncated = TRUE]
       ELSE [r EXCEPT !.steps = Append(@, [NewStep("unscoped", clock, "failed") EXCEPT !.error = TRUE]),
                      !.bytes = @ + 1]

\* The step a reported line belongs to (record_reported_log).
Reported(r) == {i \in 1..Len(r.steps) : r.steps[i].code = "reported"}
OwnerOf(r, phase, at) ==
    LET named   == {i \in Reported(r) : phase # NoPhase /\ r.steps[i].phase = phase}
        started == {i \in Reported(r) : r.steps[i].at <= at}
    IN IF named # {} THEN CHOOSE i \in named : \A j \in named : j <= i
       ELSE IF started # {} THEN CHOOSE i \in started : \A j \in started : j <= i
       ELSE IF Reported(r) # {} THEN CHOOSE i \in Reported(r) : \A j \in Reported(r) : i <= j
       ELSE Len(r.steps)

----------------------------------------------------------------------------
(* Operations of the attempt                                               *)

Init ==
    /\ rec = NewRecorder /\ scopes = <<>> /\ clock = 0 /\ ops = 0 /\ failures = 0
    /\ attempt = 1 /\ table = {} /\ document = NoDocument

Op(r) ==
    /\ ops < MaxOps /\ ops' = ops + 1
    /\ rec' = r
    /\ UNCHANGED <<clock, failures, attempt, table, document>>

Live == ~rec.finished /\ ~rec.degraded
Apply(r) == Live /\ Op(r) /\ UNCHANGED scopes

BeginStep ==
    LET full == Len(rec.steps) >= MaxSteps
        i    == IF full THEN Dropped ELSE Len(rec.steps) + 1
        r    == IF full THEN [rec EXCEPT !.omittedSteps = @ + 1, !.truncated = TRUE]
                ELSE [rec EXCEPT !.bytes = @ + 1,
                        !.steps = Append(@, [NewStep("scoped", clock, "interrupted") EXCEPT !.open = TRUE])]
    IN /\ Live
       /\ Op([r EXCEPT !.open = Append(@, i)])
       /\ scopes' = Append(scopes, i)

\* complete, skip, fail, or the destructor of a scope an exception unwinds.
LeaveScope(n, outcome, message) ==
    /\ n \in 1..Len(scopes)
    /\ scopes' = RemoveAt(scopes, n)
    /\ Op(EndStep(rec, scopes[n], outcome, message))

Log(message) ==
    LET r == WithStep(rec)
        q == [r EXCEPT !.logs = @ + 1]
    IN Apply(IF StepOf(r) = Dropped
             THEN [q EXCEPT !.omittedLogs = @ + 1, !.truncated = TRUE]
             ELSE AppendLog(q, StepOf(r), message))

AttemptFails == Apply(MarkFailure(rec))

LinkTask ==
    /\ rec.open # <<>> /\ Last(rec.open) # Dropped
    /\ Apply([rec EXCEPT !.steps[Last(rec.open)].related = TRUE])

BeginHttp(request, sent) ==
    LET captured == CaptureBody(AbandonPending(rec), sent)
    IN Apply([captured.rec EXCEPT !.begun = @ + 1, !.pending = <<Call("http", request, captured.body, "ok")>>])

\* complete_http and fail_http look at the call in flight alone.
CompleteHttp(ok) ==
    /\ rec.pending # NoCall
    /\ Op(StoreCall([rec EXCEPT !.pending = NoCall],
                    [Head(rec.pending) EXCEPT !.outcome = IF ok THEN "ok" ELSE "http_error"]))
    /\ UNCHANGED scopes

FailHttp(outcome) ==
    /\ rec.pending # NoCall
    /\ Op(StoreCall([rec EXCEPT !.pending = NoCall], [Head(rec.pending) EXCEPT !.outcome = outcome]))
    /\ UNCHANGED scopes

MarkInvalidResponse ==
    LET i == rec.last[1]
        k == rec.last[2]
    IN /\ rec.last # NoPlace
       /\ rec.steps[i].calls[k].outcome = "ok"
       /\ Apply([rec EXCEPT !.steps[i].calls[k].outcome = "invalid_response"])

RecordNodeMessage(request) ==
    Apply(StoreCall([rec EXCEPT !.begun = @ + 1], Call("node_message", request, "none", "ok")))

\* A start before the attempt's own is shown at offset 0.
RecordReportedStep(phase, at, ok, error) ==
    LET step == [NewStep("reported", IF at < 0 THEN 0 ELSE at, IF ok THEN "completed" ELSE "failed")
                    EXCEPT !.at = at, !.phase = phase, !.error = ~ok /\ error]
    IN Apply(IF Len(rec.steps) >= MaxSteps
             THEN [rec EXCEPT !.omittedSteps = @ + 1, !.truncated = TRUE]
             ELSE [rec EXCEPT !.steps = Append(@, step), !.bytes = @ + 1])

RecordReportedLog(phase, at, message) ==
    LET r == [rec EXCEPT !.logs = @ + 1]
    IN Apply(IF rec.steps = <<>>
             THEN [r EXCEPT !.omittedLogs = @ + 1, !.truncated = TRUE]
             ELSE AppendLog(r, OwnerOf(r, phase, at), message))

\* An exception inside any operation: capture stops, the attempt goes on.
\* One inside begin_http loses the call in flight.
Degrade ==
    /\ failures < MaxFailures /\ failures' = failures + 1
    /\ Live
    /\ \E pending \in {rec.pending, NoCall} :
          rec' = [rec EXCEPT !.degraded = TRUE, !.pending = pending]
    /\ UNCHANGED <<scopes, clock, ops, attempt, table, document>>

Tick ==
    /\ clock < MaxTime /\ clock' = clock + 1
    /\ ~rec.finished
    /\ UNCHANGED <<rec, scopes, ops, failures, attempt, table, document>>

----------------------------------------------------------------------------
(* The finished attempt                                                    *)

\* Steps in the order of their offsets, equal ones as recorded (stable_sort).
ByOffset(steps) ==
    SelectSeq([n \in 1..(Len(steps) * (MaxTime + 1)) |->
                 [offset |-> (n - 1) \div Len(steps), step |-> steps[((n - 1) % Len(steps)) + 1]]],
              LAMBDA x : x.step.offset = x.offset)

Ordered(steps) == IF steps = <<>> THEN <<>>
                  ELSE LET s == ByOffset(steps) IN [n \in 1..Len(s) |-> s[n].step]

\* Mutant: open steps keep the outcome they started with.
LeaveOpen(r) == r

CloseOpen(r) ==
    FoldLeft(LAMBDA q, i : IF i = Dropped THEN q ELSE CloseStep(q, i, "completed"), r, r.open)

FinishedRecorder(r) ==
    LET q == CloseOpen(AbandonPending([r EXCEPT !.finished = TRUE]))
    IN [q EXCEPT !.open = <<>>, !.steps = Ordered(@), !.last = NoPlace, !.lastMade = NoPlace]

\* Adjacent steps of one code are one entry with the worst outcome and all
\* their calls.
Severity(outcome) ==
    CASE outcome = "completed" -> 0 [] outcome = "skipped" -> 1
      [] outcome = "interrupted" -> 2 [] OTHER -> 3

Merged(steps) ==
    LET merge(entries, s) ==
            IF entries # <<>> /\ Last(entries).code = s.code
            THEN LET e == Last(entries)
                 IN Append(Front(entries),
                       [e EXCEPT !.calls = @ + s.callCount,
                                 !.outcome = IF Severity(s.outcome) > Severity(@) THEN s.outcome ELSE @])
            ELSE Append(entries, [code |-> s.code, outcome |-> s.outcome, calls |-> s.callCount])
    IN FoldLeft(merge, <<>>, steps)

\* summary_json: at most SummarySteps entries, and of them the first ones that
\* fit into summary_max_bytes; a summary that leaves entries out says so.
Summary(r, fitting) ==
    LET entries == Merged(r.steps)
        shown   == Min({Len(entries), SummarySteps, fitting})
        bad     == {i \in 1..Len(r.steps) : r.steps[i].outcome = "failed"}
    IN [steps |-> SubSeq(entries, 1, shown), truncated |-> r.truncated \/ shown < Len(entries),
        stepCount |-> Len(r.steps) + r.omittedSteps, callCount |-> r.calls,
        failed |-> IF bad = {} THEN "none" ELSE r.steps[FirstFailed(bad)].code]

\* document_json: reductions drop bodies and logs, then calls.
ShownStep(s, reduction) ==
    [s EXCEPT !.outcome = IF s.open THEN "interrupted" ELSE @,
              !.calls = CASE reduction = "full" -> @
                          [] reduction = "without_bodies" -> [k \in DOMAIN @ |-> WithoutBody(@[k])]
                          [] OTHER -> <<>>,
              !.omitted = @ + IF reduction = "without_calls" THEN Len(s.calls) ELSE 0,
              !.logs = IF reduction = "full" THEN @ ELSE <<>>]

Document(r, reduction, fitting) ==
    [attempt |-> attempt, reduction |-> reduction, summary |-> Summary(r, fitting),
     callCount |-> r.calls, logCount |-> r.logs,
     steps |-> [n \in DOMAIN r.steps |-> ShownStep(r.steps[n], reduction)],
     omittedSteps |-> r.omittedSteps,
     omittedCalls |-> r.omittedCalls + IF reduction = "without_calls" THEN StoredCalls(r) ELSE 0,
     omittedLogs |-> r.omittedLogs + IF reduction = "full" THEN 0 ELSE StoredLogs(r),
     truncated |-> r.truncated \/ reduction # "full", degraded |-> r.degraded]

\* Retention: the newest traces of the sequence and its first attempt.
Pruned(stored) == {a \in stored : attempt - a < Retained \/ a = 1}

\* The attempt's row committed; its trace is stored when a reduction fits
\* and the database accepts it.  JSON sizes are abstracted to the choice of
\* the reduction and of the summary entries that fit.
StoreAttemptTrace ==
    /\ ~rec.finished
    /\ rec' = FinishedRecorder(rec)
    /\ \/ \E reduction \in {"full", "without_bodies", "without_calls"}, fitting \in 0..SummarySteps :
             /\ document' = <<Document(FinishedRecorder(rec), reduction, fitting)>>
             /\ table' = Pruned(table \cup {attempt})
             /\ UNCHANGED failures
       \/ /\ failures < MaxFailures /\ failures' = failures + 1
          /\ document' = NoDocument /\ UNCHANGED table
    /\ UNCHANGED <<scopes, clock, ops, attempt>>

NextAttempt ==
    /\ rec.finished /\ scopes = <<>> /\ attempt < Attempts
    /\ attempt' = attempt + 1
    /\ rec' = NewRecorder /\ clock' = 0 /\ ops' = 0
    /\ UNCHANGED <<scopes, failures, table, document>>

Next ==
    \/ BeginStep
    \/ \E n \in 1..Len(scopes), outcome \in Outcomes, message \in {""} \cup Messages :
          LeaveScope(n, outcome, message)
    \/ \E message \in Messages : Log(message)
    \/ AttemptFails \/ LinkTask \/ MarkInvalidResponse
    \/ \E request \in Requests, sent \in BOOLEAN : BeginHttp(request, sent)
    \/ \E ok \in BOOLEAN : CompleteHttp(ok)
    \/ \E outcome \in {"cancelled", "transport_error"} : FailHttp(outcome)
    \/ \E request \in Requests : RecordNodeMessage(request)
    \/ \E phase \in Phases, at \in -1..MaxTime, ok \in BOOLEAN, error \in BOOLEAN :
          RecordReportedStep(phase, at, ok, error)
    \/ \E phase \in Phases \cup {NoPhase}, at \in -1..MaxTime, message \in Messages :
          RecordReportedLog(phase, at, message)
    \/ Degrade \/ Tick \/ StoreAttemptTrace \/ NextAttempt

Spec == Init /\ [][Next]_vars

----------------------------------------------------------------------------
(* Properties                                                              *)

\* The recorder's caps hold together: steps, calls, calls per step, logs and
\* the byte estimate of calls and logs beside the steps' own overhead
\* (recorder.h fits, store_call, append_log).
TypeOK ==
    /\ Len(rec.steps) <= MaxSteps
    /\ StoredCalls(rec) <= MaxCalls
    /\ \A n \in 1..Len(rec.steps) : Len(rec.steps[n].calls) <= MaxStepCalls
    /\ StoredLogs(rec) <= MaxLogs
    /\ rec.bytes <= Capacity + MaxSteps
    /\ rec.bodies <= BodyBudget
    /\ Range(rec.open) \subseteq 0..Len(rec.steps)
    /\ rec.last # NoPlace => rec.last[2] \in 1..Len(rec.steps[rec.last[1]].calls)

\* Nothing captured is silently lost: every call and log line the attempt
\* began is in flight or is shown, counted into a repeat, or counted as omitted, and a trace
\* that omits anything says that it is truncated (store_call, append_log,
\* current_step: "so nothing captured is silently lost").
NothingSilentlyLost ==
    /\ ~rec.degraded => rec.begun = rec.calls + Len(rec.pending)
    /\ rec.calls = SumOf(rec.steps, LAMBDA s : Repeats(s.calls)) + rec.omittedCalls
    /\ rec.logs = SumOf(rec.steps, LAMBDA s : Repeats(s.logs)) + rec.omittedLogs
    /\ \A n \in 1..Len(rec.steps) :
          rec.steps[n].callCount = Repeats(rec.steps[n].calls) + rec.steps[n].omitted
    /\ (rec.omittedSteps + rec.omittedCalls + rec.omittedLogs + rec.omittedBodies > 0)
          => rec.truncated

\* A stored document agrees with itself: a summary that leaves something out
\* says so and one that does not counts every call of the attempt, names a
\* failed step exactly when the document shows one, an untruncated document
\* shows every call and line, its steps are in the order of their offsets,
\* and only a degraded capture leaves a step interrupted (summary_json,
\* document_json, finish).
DocumentAgrees ==
    \A d \in Range(document) :
        /\ ~d.summary.truncated =>
              /\ SumOf(d.summary.steps, LAMBDA e : e.calls) = d.callCount
              /\ d.summary.stepCount = Len(d.steps)
        /\ SumOf(d.summary.steps, LAMBDA e : e.calls) <= d.callCount
        /\ d.summary.failed # "none" <=>
              \E n \in DOMAIN d.steps : d.steps[n].outcome = "failed"
        /\ ~d.truncated =>
              /\ d.callCount = SumOf(d.steps, LAMBDA s : Repeats(s.calls))
              /\ d.logCount = SumOf(d.steps, LAMBDA s : Repeats(s.logs))
        /\ \A m, n \in DOMAIN d.steps :
              m < n => d.steps[m].offset <= d.steps[n].offset
        /\ \A n \in DOMAIN d.steps :
              d.steps[n].outcome = "interrupted" => d.degraded

\* A scope's end closes its own step and no other, and what a closed step
\* ended with never changes, however scopes, reported steps and failures
\* interleave (end_step, close_step, mark_failure).
EndsStepOnce ==
    \A i \in 1..Len(rec.steps) :
       (~rec'.finished /\ rec'.steps # <<>>) =>
           /\ ~rec.steps[i].open =>
                 <<rec'.steps[i].outcome, rec'.steps[i].open>> = <<rec.steps[i].outcome, FALSE>>
           /\ (rec.steps[i].open /\ ~rec'.steps[i].open) =>
                 \E n \in 1..Len(scopes) : scopes[n] = i /\ scopes' = RemoveAt(scopes, n)

\* The error of a failed attempt goes to the step that failed first without
\* one of its own (mark_failure).
NamesFirstFailure ==
    \A i \in 1..Len(rec.steps) :
       (/\ AttemptFails /\ rec.steps[i].outcome = "failed"
        /\ ~rec.steps[i].error /\ ~rec.steps[i].open)
          => \E j \in 1..i : ~rec.steps[j].error /\ rec'.steps[j].error

\* A reported line that names a phase is shown with the most recent step of
\* that phase, whatever its timestamp (record_reported_log).
JoinsItsPhase ==
    \A phase \in Phases, at \in -1..MaxTime, message \in Messages :
       RecordReportedLog(phase, at, message) =>
         \A i \in Reported(rec) :
            (rec'.steps[i].logs # rec.steps[i].logs) =>
               \A j \in Reported(rec) : rec.steps[j].phase = phase => j <= i

\* The first attempt of a sequence and its newest attempts keep their traces
\* whatever failed in between: a stored trace goes away only when it is
\* neither (insert_attempt_trace).
RetainsTraces ==
    \A a \in table : a \notin table' => a # 1 /\ attempt' - a >= Retained

\* mark_invalid_response blames the call made last: the place it would mark
\* is that call's (recorder.h:342 "a successful response of the last call").
BlamesLastCall == rec.last # NoPlace => rec.last = rec.lastMade

============================================================================
