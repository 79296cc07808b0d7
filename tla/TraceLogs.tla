----------------------------- MODULE TraceLogs -----------------------------
(***************************************************************************)
(* collect_logs of capture/monad_execbench_capture/capture.py: from        *)
(* callTracer's answer back to the logs of the call.                       *)
(*                                                                         *)
(* callTracer hands over a tree of frames: each holds its child calls, its *)
(* own logs with the number of calls that came before each, and whether it *)
(* failed.  `journal' is what the RPC's machine keeps while it runs: the   *)
(* logs in the order they were emitted, set back to where a frame began    *)
(* when the frame fails.                                                   *)
(***************************************************************************)
EXTENDS Integers, Sequences, SequencesExt

CONSTANTS
    MaxFrames, MaxLogs   \* bounds: frames and logs of one call

ASSUME TraceAssumption == MaxFrames \in Nat \ {0} /\ MaxLogs \in Nat

VARIABLES
    frames,   \* the tree: [parent, mark, calls, logs, error], root first
    current,  \* the running frame, 0 once the root has ended
    emitted,  \* logs emitted so far; log i is the i-th of them
    journal   \* the logs that stand

trace == <<frames, current, emitted, journal>>

NewFrame(parent) ==
    [parent |-> parent, mark |-> Len(journal), calls |-> <<>>, logs |-> <<>>, error |-> FALSE]

TraceInit ==
    /\ journal = <<>>
    /\ frames = <<NewFrame(0)>>
    /\ current = 1
    /\ emitted = 0

Running == current # 0

\* LOG: the tracer notes how many calls the frame has made.
Emit ==
    /\ Running /\ emitted < MaxLogs
    /\ emitted' = emitted + 1
    /\ journal' = Append(journal, emitted')
    /\ frames' = [frames EXCEPT ![current].logs =
                    Append(@, [log |-> emitted',
                               position |-> Len(frames[current].calls)])]
    /\ UNCHANGED current

\* CALL or CREATE.
Enter ==
    /\ Running /\ Len(frames) < MaxFrames
    /\ frames' = [Append(frames, NewFrame(current)) EXCEPT
                    ![current].calls = Append(@, Len(frames) + 1)]
    /\ current' = Len(frames) + 1
    /\ UNCHANGED <<emitted, journal>>

\* A frame ends; a failed one takes the logs since it began with it.
Leave(error) ==
    /\ Running
    /\ frames' = [frames EXCEPT ![current].error = error]
    /\ journal' = IF error THEN SubSeq(journal, 1, frames[current].mark) ELSE journal
    /\ current' = frames[current].parent
    /\ UNCHANGED emitted

TraceNext == Emit \/ Enter \/ \E error \in BOOLEAN : Leave(error)

TraceSpec == TraceInit /\ [][TraceNext]_trace

(***************************************************************************)
(* collect_logs                                                            *)
(***************************************************************************)
\* The bug of listing a frame's own logs before those of its calls.
FaultyLogsAt(frame, position) ==
    IF position = 0 THEN [i \in DOMAIN frame.logs |-> frame.logs[i].log] ELSE <<>>

\* logs_by_position[position].
LogsAt(frame, position) ==
    FlattenSeq([i \in DOMAIN frame.logs |->
                  IF frame.logs[i].position = position THEN <<frame.logs[i].log>>
                  ELSE <<>>])

\* `ordered', given what `visit' returns for the frame's calls.
Ordered(frame, visit) ==
    FlattenSeq([i \in 1 .. (Len(frame.calls) + 1) |->
                  LogsAt(frame, i - 1) \o
                    (IF i \in DOMAIN frame.calls THEN visit[frame.calls[i]] ELSE <<>>)])

\* A failed frame's logs, and those of all it called, did not happen.
Visit(frame, visit) == IF frame.error THEN <<>> ELSE Ordered(frame, visit)

\* A frame's calls have greater indices than the frame.
CollectLogs ==
    LET visit[f \in DOMAIN frames] == Visit(frames[f], visit) IN visit[1]

(***************************************************************************)
(* Properties.                                                             *)
(***************************************************************************)
\* The expected logs of a case (docs/capture.md:113-116) are those the call
\* emitted, in that order and without the ones a failed frame undid, however
\* deep the nesting and whatever came before, between and after calls.
CollectedLogsAreTheJournal == ~Running => CollectLogs = journal
=============================================================================
