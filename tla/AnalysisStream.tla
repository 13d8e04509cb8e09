--------------------------- MODULE AnalysisStream ---------------------------
(***************************************************************************)
(* One streamed analysis, from Ollama to the client.                       *)
(*                                                                         *)
(* A worker thread (`_run` in app/main.py) drives the generator chain      *)
(* analyze_text_streaming <- generate_analysis_with_ollama_stream and puts *)
(* its events on a queue; the bridge and ndjson_stream, coroutines of the  *)
(* event loop, take them off and send them to the client.  The worker      *)
(* wakes the loop through call_soon_threadsafe, the loop stops the worker  *)
(* through StreamCancelController, which closes the response the worker    *)
(* reads.  Steps of the two interleave at every queue, event and lock      *)
(* operation.  Ollama and `requests` are modelled by what they may answer. *)
(***************************************************************************)
EXTENDS Integers, Sequences, FiniteSets

CONSTANTS
    FieldCount,   \* Len(_STREAM_FIELD_ORDER); a field is its index there
    DeltaFields,  \* _STREAM_DELTA_FIELDS
    Forwarded,    \* fields analyze_text_streaming forwards: all, or only `meaning`
    MaxLines      \* bound: lines of one Ollama response

Fields == 1..FieldCount

ASSUME StreamAssumption ==
    /\ FieldCount \in Nat \ {0}
    /\ DeltaFields \in SUBSET Fields
    /\ Forwarded \in {Fields, {1}}
    /\ MaxLines \in Nat

VARIABLES
    wpc,         \* where the worker thread is
    try,         \* attempt of generate_analysis_with_ollama_stream
    count,       \* its `seq`
    lines,       \* lines read of this response
    complete,    \* fields completed in `buffer`
    emitted,     \* number of fields in `emitted_fields`
    out,         \* events the generator yields before it goes on
    after,       \* where it goes on then
    outcome,     \* outcome of the attempt
    cancelled,   \* StreamCancelController._cancelled
    registered,  \* attempts whose response.close is in _close_callbacks
    open,        \* attempts whose response is open
    queue,       \* the SimpleQueue
    wake,        \* asyncio.Event of the bridge
    signals,     \* call_soon_threadsafe callbacks not run yet
    cpc,         \* where bridge and ndjson_stream are
    callbacks,   \* callbacks cancel() has copied and not yet called
    attempt, seq, partial, shown, end  \* what the client saw, see StreamProtocol

genVars == <<try, count, lines, complete, emitted, outcome>>
cancelVars == <<cancelled, registered, open>>
bridgeVars == <<queue, wake, signals>>
viewVars == <<attempt, seq, partial, shown, end>>
consumerVars == <<wake, cpc, callbacks, viewVars>>
vars == <<wpc, genVars, out, after, cancelVars, queue, signals, consumerVars>>

Tries == {1, 2}

Events ==
    [type : {"delta"}, field : Forwarded, attempt : Tries, seq : Nat]
        \cup [type : {"field"}, field : Forwarded, attempt : Tries]
        \cup [type : {"reset", "final", "sentinel", "exception"}]

Outcomes == {"none", "valid", "retryable", "failed", "cancelled"}

\* The loop is free to run callbacks while the response generator is suspended.
Suspended == {"start", "yielded", "yieldedFinal", "await", "dropped", "closed"}

TypeOK ==
    /\ wpc \in {"none", "begin", "check", "post", "register", "closeNow", "read",
                "decide", "put", "signal", "exit"}
    /\ try \in Tries
    /\ count \in 0..(2 * MaxLines * FieldCount)
    /\ lines \in 0..MaxLines
    /\ complete \in SUBSET Fields
    /\ emitted \in 0..FieldCount
    /\ out \in Seq(Events)
    /\ after \in {"none", "check", "read", "exit"}
    /\ outcome \in Outcomes
    /\ cancelled \in BOOLEAN
    /\ registered \in SUBSET Tries
    /\ open \in SUBSET Tries
    /\ queue \in Seq(Events)
    /\ wake \in BOOLEAN
    /\ signals \in Nat
    /\ cpc \in Suspended \cup {"drain", "recheck", "cancel", "callBack"}
    /\ callbacks \in SUBSET Tries
    /\ attempt \in Tries
    /\ seq \in 0..count
    /\ partial \in SUBSET [field : Forwarded, attempt : Tries]
    /\ shown \in Seq([field : Forwarded, attempt : Tries])
    /\ end \in {"open", "final", "done", "broken", "left"}

Init ==
    /\ wpc = "none" /\ try = 1 /\ count = 0 /\ lines = 0
    /\ complete = {} /\ emitted = 0 /\ out = <<>> /\ after = "none" /\ outcome = "none"
    /\ cancelled = FALSE /\ registered = {} /\ open = {}
    /\ queue = <<>> /\ wake = FALSE /\ signals = 0
    /\ cpc = "start" /\ callbacks = {}
    /\ attempt = 1 /\ seq = 0 /\ partial = {} /\ shown = <<>> /\ end = "open"

Final == [type |-> "final"]
Reset == [type |-> "reset"]
Sentinel == [type |-> "sentinel"]
Exception == [type |-> "exception"]

-----------------------------------------------------------------------------
(* The generator chain, on the worker thread.                              *)

\* The generator yields `events` one by one and then goes on at `label`.
Yield(events, label) ==
    /\ out' = events
    /\ IF events = <<>>
       THEN wpc' = label /\ after' = "none"
       ELSE wpc' = "put" /\ after' = label

Continue(label) == Yield(<<>>, label)

\* Mutant: an exception is let through, and the thread dies silently.
BeginDies ==
    /\ wpc = "begin"
    /\ Continue("exit") \/ Continue("check")
    /\ UNCHANGED <<genVars, cancelVars, queue, signals, consumerVars>>

\* analyze_text_streaming ends without the model: validation error, cache hit,
\* deadline, or an exception; or it turns to Ollama.
Begin ==
    /\ wpc = "begin"
    /\ Yield(<<Final, Sentinel>>, "exit") \/ Continue("check")
    /\ UNCHANGED <<genVars, cancelVars, queue, signals, consumerVars>>

\* "pre-open": a cancelled stream opens no response.
CheckCancelled ==
    /\ wpc = "check"
    /\ IF cancelled
       THEN outcome' = "cancelled" /\ Continue("decide")
       ELSE Continue("post") /\ UNCHANGED outcome
    /\ UNCHANGED <<try, count, lines, complete, emitted, cancelVars, queue, signals, consumerVars>>

\* The POST times out, fails or answers another status, or opens a response.
Post ==
    /\ wpc = "post"
    /\ \/ outcome' = "failed" /\ Continue("decide") /\ UNCHANGED open
       \/ open' = open \cup {try} /\ Continue("register") /\ UNCHANGED outcome
    /\ UNCHANGED <<try, count, lines, complete, emitted, cancelled, registered,
                   queue, signals, consumerVars>>

\* Mutant: a controller that has fired already is not noticed.
RegisterOnly ==
    /\ wpc = "register"
    /\ registered' = registered \cup {try}
    /\ Continue("read")
    /\ UNCHANGED <<genVars, cancelled, open, queue, signals, consumerVars>>

\* add_close_callback, under its lock.
Register ==
    /\ wpc = "register"
    /\ registered' = registered \cup {try}
    /\ Continue(IF cancelled THEN "closeNow" ELSE "read")
    /\ UNCHANGED <<genVars, cancelled, open, queue, signals, consumerVars>>

\* The controller had fired already: the callback is called at once.
CloseNow ==
    /\ wpc = "closeNow"
    /\ open' = open \ {try}
    /\ Continue("read")
    /\ UNCHANGED <<genVars, cancelled, registered, queue, signals, consumerVars>>

\* The events of one line: a delta for each string that grew, numbered whether it is
\* passed on or not, then each completed field whose predecessors are complete; only
\* the forwarded ones are passed on.
Rank(fields, f) == Cardinality({g \in fields : g <= f})
InOrder(fields) == [i \in 1..Cardinality(fields) |-> CHOOSE f \in fields : Rank(fields, f) = i]

DeltaEvents(grown) ==
    LET texts == InOrder(grown \cap Forwarded)
    IN  [i \in DOMAIN texts |->
            [type |-> "delta", field |-> texts[i], attempt |-> try, seq |-> count + Rank(grown, texts[i])]]

FieldEvents(prefix) ==
    LET fields == InOrder(((emitted + 1)..prefix) \cap Forwarded)
    IN  [i \in DOMAIN fields |-> [type |-> "field", field |-> fields[i], attempt |-> try]]

\* Mutant: a field goes out as soon as it is complete, `continue` for `break`.
LineSkipsMissing(grown, done) ==
    LET fields == InOrder((done \ complete) \cap Forwarded)
    IN  [events |-> DeltaEvents(grown) \o
                    [i \in DOMAIN fields |-> [type |-> "field", field |-> fields[i], attempt |-> try]],
         prefix |-> emitted]

LineEvents(grown, done) ==
    LET prefix == CHOOSE n \in 0..FieldCount :
                      1..n \subseteq done /\ (n = FieldCount \/ n + 1 \notin done)
    IN  [events |-> DeltaEvents(grown) \o FieldEvents(prefix), prefix |-> prefix]

\* A line arrives and the stream is not cancelled.
Line ==
    /\ wpc = "read" /\ try \in open /\ ~cancelled /\ lines < MaxLines
    /\ \E grown \in SUBSET DeltaFields, more \in SUBSET Fields :
          LET line == LineEvents(grown, complete \cup more) IN
          /\ complete' = complete \cup more
          /\ emitted' = line.prefix
          /\ count' = count + Cardinality(grown)
          /\ Yield(line.events, "read")
    /\ lines' = lines + 1
    /\ UNCHANGED <<try, outcome, cancelVars, queue, signals, consumerVars>>

\* How reading ends, and what the attempt is found to be.  `finally` closes the
\* response.  A response closed under the reader ends, or its read raises.
ReadEnds ==
    /\ wpc = "read"
    /\ \/ \* a line arrives and finds the controller fired
          try \in open /\ cancelled /\ outcome' = "cancelled"
       \/ \* RequestException, Timeout, deadline
          outcome' = "failed"
       \/ \* any other exception
          outcome' = IF cancelled THEN "cancelled" ELSE "failed"
       \/ \* the lines end, nothing was received: empty_response
          lines = 0 /\ outcome' = "failed"
       \/ \* the lines end, what was received is parsed and validated
          lines > 0 /\ outcome' \in {"valid", "retryable", "failed"}
    /\ open' = open \ {try}
    /\ lines' = 0 /\ complete' = {} /\ emitted' = 0
    /\ Continue("decide")
    /\ UNCHANGED <<try, count, cancelled, registered, queue, signals, consumerVars>>

\* generate_analysis_with_ollama_stream looks at the outcome.  A valid result may
\* be refused for being what is to be regenerated, and the deadline may be over.
Decide ==
    /\ wpc = "decide"
    /\ \/ /\ outcome = "cancelled" \/ (outcome = "retryable" /\ try = 1 /\ cancelled)
          /\ Yield(<<Exception>>, "exit")
          /\ UNCHANGED try
       \/ /\ outcome \in {"valid", "retryable", "failed"}
          /\ Yield(<<Final, Sentinel>>, "exit")
          /\ UNCHANGED try
       \/ /\ try = 1
          /\ outcome = "valid" \/ (outcome = "retryable" /\ ~cancelled)
          /\ try' = 2
          /\ Yield(<<Reset>>, "check")
    /\ outcome' = "none"
    /\ UNCHANGED <<count, lines, complete, emitted, cancelVars, queue, signals, consumerVars>>

\* _run puts the event it was yielded (or the sentinel, or the exception) ...
Put ==
    /\ wpc = "put"
    /\ queue' = Append(queue, Head(out))
    /\ wpc' = "signal"
    /\ UNCHANGED <<genVars, out, after, cancelVars, signals, consumerVars>>

\* Mutant: the last event of a batch does not wake the loop.
SignalUnlessLast ==
    /\ wpc = "signal"
    /\ signals' = signals + (IF Len(out) > 1 THEN 1 ELSE 0)
    /\ Yield(Tail(out), after)
    /\ UNCHANGED <<genVars, cancelVars, queue, consumerVars>>

\* ... and schedules wake.set() on the loop.
Signal ==
    /\ wpc = "signal"
    /\ signals' = signals + 1
    /\ Yield(Tail(out), after)
    /\ UNCHANGED <<genVars, cancelVars, queue, consumerVars>>

WorkerStep ==
    \/ Begin \/ CheckCancelled \/ Post \/ Register \/ CloseNow
    \/ Line \/ ReadEnds \/ Decide \/ Put \/ Signal

-----------------------------------------------------------------------------
(* The bridge and the response generator, on the event loop.               *)

workerVars == <<wpc, genVars, out, after>>

\* The stream ends for the client, which sees nothing else change.
EndsAs(how) == end' = how /\ UNCHANGED <<attempt, seq, partial, shown>>

\* The client has been sent `start`; the bridge starts the worker.
BridgeStarts ==
    /\ cpc = "start"
    /\ cpc' = "drain"
    /\ wpc' = "begin"
    /\ UNCHANGED <<genVars, out, after, cancelVars, bridgeVars, callbacks, viewVars>>

\* What a client that takes the event as it is puts on its screen.
ItemOf(e) == [field |-> e.field, attempt |-> e.attempt]

\* get_nowait takes an event and ndjson_stream sends it to the client; the sentinel
\* or an exception ends the bridge, and the stream breaks off without `done`.
TakeEvent ==
    LET e == Head(queue) IN
    /\ cpc = "drain"
    /\ queue # <<>>
    /\ queue' = Tail(queue)
    /\ attempt' = IF e.type = "reset" THEN 2 ELSE attempt
    /\ seq' = IF e.type = "delta" THEN e.seq ELSE seq
    /\ partial' = IF e.type = "reset" THEN {}
                  ELSE IF e.type = "delta" THEN partial \cup {ItemOf(e)} ELSE partial
    /\ shown' = IF e.type = "reset" THEN <<>>
                ELSE IF e.type = "field" THEN Append(shown, ItemOf(e)) ELSE shown
    /\ end' = IF e = Final THEN "final" ELSE IF e \in {Sentinel, Exception} THEN "broken" ELSE end
    /\ cpc' = IF e = Final THEN "yieldedFinal"
              ELSE IF e \in {Sentinel, Exception} THEN "cancel" ELSE "yielded"
    /\ UNCHANGED <<workerVars, cancelVars, wake, signals, callbacks>>

\* The queue is drained: wake.clear().
ClearWake ==
    /\ cpc = "drain"
    /\ queue = <<>>
    /\ wake' = FALSE
    /\ cpc' = "recheck"
    /\ UNCHANGED <<workerVars, cancelVars, queue, signals, callbacks, viewVars>>

\* "signal landed between the drain and the clear": look again, else wait.
Recheck ==
    /\ cpc = "recheck"
    /\ cpc' = IF queue # <<>> THEN "drain" ELSE "await"
    /\ UNCHANGED <<workerVars, cancelVars, bridgeVars, callbacks, viewVars>>

WakeUp ==
    /\ cpc = "await"
    /\ wake
    /\ cpc' = "drain"
    /\ UNCHANGED <<workerVars, cancelVars, bridgeVars, callbacks, viewVars>>

\* The client has taken the event and asks for the next.
Resume ==
    /\ cpc = "yielded"
    /\ cpc' = "drain"
    /\ UNCHANGED <<workerVars, cancelVars, bridgeVars, callbacks, viewVars>>

\* After `final`: the loop over the bridge is left, `done` is sent, and the bridge,
\* which nobody refers to any more, waits to be closed by the event loop.
Finish ==
    /\ cpc = "yieldedFinal"
    /\ cpc' = "dropped"
    /\ EndsAs("done")
    /\ UNCHANGED <<workerVars, cancelVars, bridgeVars, callbacks>>

\* The client disconnects while the response generator is suspended.  At `start`
\* there is no worker yet; in `await` the bridge itself is cancelled and runs its
\* `finally`; at a yield the bridge is dropped and closed later.
ClientLeaves ==
    /\ \/ cpc = "start" /\ cpc' = "closed"
       \/ cpc = "await" /\ cpc' = "cancel"
       \/ cpc \in {"yielded", "yieldedFinal"} /\ cpc' = "dropped"
    /\ EndsAs("left")
    /\ UNCHANGED <<workerVars, cancelVars, bridgeVars, callbacks>>

\* The event loop closes the dropped bridge: GeneratorExit, then its `finally`.
CloseDropped ==
    /\ cpc = "dropped"
    /\ cpc' = "cancel"
    /\ UNCHANGED <<workerVars, cancelVars, bridgeVars, callbacks, viewVars>>

\* cancel(), under the lock: the flag, and a copy of the callbacks ...
Cancel ==
    /\ cpc = "cancel"
    /\ cancelled' = TRUE
    /\ callbacks' = registered
    /\ cpc' = "callBack"
    /\ UNCHANGED <<workerVars, registered, open, bridgeVars, viewVars>>

\* ... and the calls, outside it.
CallBack ==
    /\ cpc = "callBack"
    /\ IF callbacks = {}
       THEN cpc' = "closed" /\ UNCHANGED <<open, callbacks>>
       ELSE \E t \in callbacks :
               /\ open' = open \ {t}
               /\ callbacks' = callbacks \ {t}
               /\ UNCHANGED cpc
    /\ UNCHANGED <<workerVars, cancelled, registered, bridgeVars, viewVars>>

\* The loop runs one scheduled wake.set().
RunSignal ==
    /\ cpc \in Suspended
    /\ signals > 0
    /\ signals' = signals - 1
    /\ wake' = TRUE
    /\ UNCHANGED <<workerVars, cancelVars, queue, cpc, callbacks, viewVars>>

LoopStep ==
    \/ BridgeStarts \/ TakeEvent \/ ClearWake \/ Recheck \/ WakeUp \/ Resume
    \/ Finish \/ CloseDropped \/ Cancel \/ CallBack

Next == WorkerStep \/ LoopStep \/ RunSignal \/ ClientLeaves

Spec == Init /\ [][Next]_vars

\* The thread runs, and its reads and its POST end (they carry a timeout); the
\* loop runs what is ready.  The client may read on for ever or leave.
FairSpec == Spec /\ WF_vars(WorkerStep) /\ WF_vars(LoopStep) /\ WF_vars(RunSignal)

-----------------------------------------------------------------------------
(* Properties.                                                             *)

\* The bridge never sleeps on a queue that has something for it: a wake-up is on
\* its way, has arrived, or is about to be sent by the worker.
NoLostWakeup ==
    cpc = "await" /\ queue # <<>> => wake \/ signals > 0 \/ wpc = "signal"

\* cancel() and add_close_callback may meet in any order: once cancel() is over,
\* the worker is never left reading a response that nobody will close.
CancelReachesReader ==
    cancelled /\ cpc = "closed" /\ wpc = "read" => try \notin open

\* What the client sees follows the protocol: seq grows over both attempts, with no
\* gap if everything is forwarded; the fields shown complete are the first ones of the
\* order, one after the other; all that is shown, text and fields, is of the attempt the
\* client was last told of; and nothing comes after `final` but `done`.
Protocol == INSTANCE StreamProtocol
            WITH Order <- InOrder(Forwarded), Gapless <- (Forwarded = Fields)
ClientSeesProtocol == Protocol!Spec

\* A client that stays is always sent a `final`, of a failed analysis if need be: the
\* generator chain never ends, and never raises, before it has yielded one.
AlwaysFinal == end # "broken"

\* Stream and thread come to an end, whatever Ollama does and whenever the client
\* leaves: neither waits for ever for the other, and no response stays open.
BothEnd == <>[](cpc = "closed" /\ wpc \in {"none", "exit"} /\ open = {})

\* "Closing the response from the disconnect watcher may make the active socket
\* read raise. Classify that as cancellation" (ollama_example.py): a response the
\* controller closed never makes the attempt a failed analysis.
ClosedByCancelIsCancelled ==
    [][wpc = "read" /\ try \notin open /\ wpc' = "decide" => outcome' # "failed"]_vars

=============================================================================
