---------------------------- MODULE StreamCapture ----------------------------
(***************************************************************************)
(* One drained pipe of a run: the target that writes into it, the thread   *)
(* of _drain_stream that feeds a _BoundedHeadTailBuffer, and the caller    *)
(* that joins the thread for a bounded time and then renders the buffer.   *)
(*                                                                         *)
(* The join may time out, so render may run beside feed.  Each statement   *)
(* of the two is a step, as the interpreter lock makes it.  The code never *)
(* looks at a byte, so a byte is named by its position in the stream.  The *)
(* source is src/src/r_sandbox/tools/execution_supervisor/supervisor.py.   *)
(***************************************************************************)
EXTENDS Integers, Sequences

CONSTANTS
  Limits,     \* the values of max_output_chars considered
  ChunkSize,  \* the most bytes one read returns
  PipeSize,   \* the bytes the pipe holds
  Length      \* bound on the bytes the target writes

ASSUME LimitsAssumption == Limits \subseteq Nat
ASSUME ChunkSizeAssumption == ChunkSize \in Nat \ {0}
ASSUME PipeSizeAssumption == PipeSize \in Nat \ {0}
ASSUME LengthAssumption == Length \in Nat

VARIABLES
  limit,              \* _limit
  written, eof,       \* bytes written so far; the write end is closed
  taken,              \* bytes the drainer has read
  drainer,            \* the statement the drainer is at
  chunk,              \* its local chunk
  head, tail, total,  \* _head, _tail, _total_bytes
  failed,             \* a drain error is queued
  caller,             \* the statement the caller is at
  late,               \* the join found the drainer alive
  errored,            \* the caller has collected a drain error
  retained, omitted,  \* locals of render
  text                \* the bytes rendered so far

pipeVars    == <<written, eof>>
bufferVars  == <<limit, head, tail, total>>
drainerVars == <<taken, drainer, chunk, failed>>
callerVars  == <<caller, late, errored, retained, omitted, text>>
vars == <<pipeVars, bufferVars, drainerVars, callerVars>>

HeadLimit == limit \div 2
TailLimit == limit - HeadLimit

Least(a, b) == IF a <= b THEN a ELSE b
Most(a, b)  == IF a <= b THEN b ELSE a

\* The bytes a + 1 .. b of the stream.
Bytes(a, b) == [i \in 1 .. b - a |-> a + i]

Init ==
  /\ limit \in Limits
  /\ written = 0 /\ eof = FALSE
  /\ taken = 0 /\ drainer = "read" /\ chunk = <<>> /\ failed = FALSE
  /\ head = <<>> /\ tail = <<>> /\ total = 0
  /\ caller = "join" /\ late = FALSE /\ errored = FALSE
  /\ retained = 0 /\ omitted = 0 /\ text = <<>>

---------------------------------------------------------------------------
(* The target and its client: external to the source *)

TargetWrites ==
  /\ ~eof
  /\ written < Length
  /\ written - taken < PipeSize
  /\ written' = written + 1
  /\ UNCHANGED <<eof, bufferVars, drainerVars, callerVars>>

PipeCloses ==
  /\ ~eof
  /\ eof' = TRUE
  /\ UNCHANGED <<written, bufferVars, drainerVars, callerVars>>

---------------------------------------------------------------------------
(* _drain_stream *)

\* Mutant: the drainer stops reading when the buffer is full.
ReadUntilFull ==
  /\ drainer = "read"
  /\ total < limit
  /\ \E n \in 1 .. Least(ChunkSize, written - taken) :
       /\ chunk' = Bytes(taken, taken + n)
       /\ taken' = taken + n
  /\ drainer' = "count"
  /\ UNCHANGED <<failed, pipeVars, bufferVars, callerVars>>

\* An unbuffered read: at least one byte, at most a chunk.
Read ==
  /\ drainer = "read"
  /\ \E n \in 1 .. Least(ChunkSize, written - taken) :
       /\ chunk' = Bytes(taken, taken + n)
       /\ taken' = taken + n
  /\ drainer' = "count"
  /\ UNCHANGED <<failed, pipeVars, bufferVars, callerVars>>

\* An empty read at EOF, or an exception, which is queued.
DrainEnds ==
  /\ drainer = "read"
  /\ \/ eof /\ taken = written /\ UNCHANGED failed
     \/ failed' = TRUE
  /\ drainer' = "done"
  /\ UNCHANGED <<taken, chunk, pipeVars, bufferVars, callerVars>>

---------------------------------------------------------------------------
(* feed *)

CountChunk ==
  /\ drainer = "count"
  /\ total' = total + Len(chunk)
  /\ drainer' = "fill"
  /\ UNCHANGED <<limit, head, tail, taken, chunk, failed, pipeVars, callerVars>>

\* Mutant: the chunk is not advanced past what the head took.
FillHeadTwice ==
  /\ drainer = "fill"
  /\ head' = head \o SubSeq(chunk, 1, Least(HeadLimit - Len(head), Len(chunk)))
  /\ drainer' = IF TailLimit = 0 THEN "read" ELSE "keep"
  /\ UNCHANGED <<limit, tail, total, taken, chunk, failed, pipeVars, callerVars>>

\* The head takes what it has room for; the rest, if any, goes to the tail.
FillHead ==
  /\ drainer = "fill"
  /\ LET take == Least(HeadLimit - Len(head), Len(chunk))
     IN /\ head' = head \o SubSeq(chunk, 1, take)
        /\ chunk' = SubSeq(chunk, take + 1, Len(chunk))
  /\ drainer' = IF chunk' = <<>> \/ TailLimit = 0 THEN "read" ELSE "keep"
  /\ UNCHANGED <<limit, tail, total, taken, failed, pipeVars, callerVars>>

\* A chunk as long as the tail replaces it; a shorter one pushes the oldest
\* bytes out, and is appended in the next statement.
KeepTail ==
  /\ drainer = "keep"
  /\ LET overflow == Len(tail) + Len(chunk) - TailLimit
     IN IF Len(chunk) >= TailLimit
        THEN /\ tail' = SubSeq(chunk, Len(chunk) - TailLimit + 1, Len(chunk))
             /\ drainer' = "read"
        ELSE /\ tail' = SubSeq(tail, Most(overflow, 0) + 1, Len(tail))
             /\ drainer' = "extend"
  /\ UNCHANGED <<limit, head, total, taken, chunk, failed, pipeVars, callerVars>>

ExtendTail ==
  /\ drainer = "extend"
  /\ tail' = tail \o chunk
  /\ drainer' = "read"
  /\ UNCHANGED <<limit, head, total, taken, chunk, failed, pipeVars, callerVars>>

---------------------------------------------------------------------------
(* _join_stream_drainers, _collect_drain_errors and render *)

CallerGoes(here, next) ==
  /\ caller = here
  /\ caller' = next
  /\ UNCHANGED <<pipeVars, bufferVars, drainerVars>>

\* Mutant: the join does not ask whether the drainer ended.
JoinUnchecked ==
  /\ CallerGoes("join", "collect")
  /\ UNCHANGED <<late, errored, retained, omitted, text>>

\* A bounded join: it returns when the drainer has ended or the time is up.
Join ==
  /\ CallerGoes("join", "collect")
  /\ late' = (drainer # "done")
  /\ UNCHANGED <<errored, retained, omitted, text>>

\* Mutant: the queued drain errors are not collected.
CollectNothing ==
  /\ CallerGoes("collect", "sizeHead")
  /\ UNCHANGED <<late, errored, retained, omitted, text>>

CollectErrors ==
  /\ CallerGoes("collect", "sizeHead")
  /\ errored' = failed
  /\ UNCHANGED <<late, retained, omitted, text>>

SizeHead ==
  /\ CallerGoes("sizeHead", "sizeTail")
  /\ retained' = Len(head)
  /\ UNCHANGED <<late, errored, omitted, text>>

SizeTail ==
  /\ CallerGoes("sizeTail", "compare")
  /\ retained' = retained + Len(tail)
  /\ UNCHANGED <<late, errored, omitted, text>>

Compare ==
  /\ CallerGoes("compare", IF total <= retained THEN "whole" ELSE "omit")
  /\ UNCHANGED <<late, errored, retained, omitted, text>>

RenderWhole ==
  /\ CallerGoes("whole", "rendered")
  /\ text' = head \o tail
  /\ UNCHANGED <<late, errored, retained, omitted>>

CountOmitted ==
  /\ CallerGoes("omit", "copyHead")
  /\ omitted' = total - retained
  /\ UNCHANGED <<late, errored, retained, text>>

RenderHead ==
  /\ CallerGoes("copyHead", "copyTail")
  /\ text' = head
  /\ UNCHANGED <<late, errored, retained, omitted>>

RenderTail ==
  /\ CallerGoes("copyTail", "rendered")
  /\ text' = text \o tail
  /\ UNCHANGED <<late, errored, retained, omitted>>

---------------------------------------------------------------------------
Feed == CountChunk \/ FillHead \/ KeepTail \/ ExtendTail
DrainerStep == Read \/ DrainEnds \/ Feed
Render == SizeHead \/ SizeTail \/ Compare \/ RenderWhole
            \/ CountOmitted \/ RenderHead \/ RenderTail
CallerStep == Join \/ CollectErrors \/ Render

Next == TargetWrites \/ PipeCloses \/ DrainerStep \/ CallerStep

Spec == Init /\ [][Next]_vars

\* The drainer runs whenever a read would not block; no read owes a failure.
FairSpec == Spec /\ WF_vars(Read \/ Feed)

---------------------------------------------------------------------------
(* Properties *)

Positions == Seq(1 .. Length)

TypeOK ==
  /\ limit \in Limits
  /\ written \in 0 .. Length /\ eof \in BOOLEAN
  /\ taken \in 0 .. written
  /\ drainer \in {"read", "count", "fill", "keep", "extend", "done"}
  /\ chunk \in Positions /\ head \in Positions /\ tail \in Positions
  /\ total \in 0 .. taken
  /\ failed \in BOOLEAN
  /\ caller \in {"join", "collect", "sizeHead", "sizeTail", "compare", "whole",
                 "omit", "copyHead", "copyTail", "rendered"}
  /\ late \in BOOLEAN /\ errored \in BOOLEAN
  /\ retained \in Nat /\ omitted \in Nat
  /\ text \in Positions

\* No more than the limit is retained, in the middle of a feed too.
\* (_BoundedHeadTailBuffer.feed, "without retaining more than the configured limit")
RetentionIsBounded == Len(head) + Len(tail) <= limit

\* What a buffer of this limit keeps of a stream of n bytes.
KeptHead(n) == Bytes(0, Least(HeadLimit, n))
KeptTail(n) == Bytes(Most(Least(HeadLimit, n), n - TailLimit), n)

\* Between two feeds the buffer holds the first and the last bytes of the
\* stream, however it was cut into chunks.  (_BoundedHeadTailBuffer.feed)
KeepsBothEnds ==
  drainer \in {"read", "done"} => head = KeptHead(total) /\ tail = KeptTail(total)

\* A capture without a drain diagnostic is the whole stream the target wrote,
\* or both of its ends with the exact number of the bytes between them.
\* (_join_stream_drainers, _collect_drain_errors, render)
CleanCaptureIsExact ==
  caller = "rendered" /\ ~late /\ ~errored =>
    /\ eof
    /\ text = KeptHead(written) \o KeptTail(written)
    /\ omitted = written - Len(text)

\* A capture rendered while its drainer still feeds may miss bytes, but never
\* shows one twice or out of order.
Increasing(s) == \A i, j \in 1 .. Len(s) : i < j => s[i] < s[j]
NothingIsReordered == caller = "rendered" => Increasing(text)

\* A full buffer never blocks the target: the pipe always gets room again.
\* (_BoundedHeadTailBuffer, "while counting and draining every byte")
TargetIsNotBlocked ==
  [](written - taken = PipeSize => <>(written - taken < PipeSize \/ drainer = "done"))

\* The strengthening that makes these properties inductive.

\* The bytes of the stream that the feed under way has not stored yet begin
\* after this position.
Stored == taken - Len(chunk)

\* The buffer at each statement of the drainer.
BufferInv ==
  /\ drainer \in {"read", "done"} =>
       total = taken /\ head = KeptHead(taken) /\ tail = KeptTail(taken)
  /\ drainer \in {"count", "fill"} =>
       /\ Stored \in Nat /\ Stored < taken
       /\ chunk = Bytes(Stored, taken)
       /\ total = IF drainer = "count" THEN Stored ELSE taken
       /\ head = KeptHead(Stored) /\ tail = KeptTail(Stored)
  /\ drainer \in {"keep", "extend"} =>
       /\ Stored \in Nat /\ HeadLimit <= Stored /\ Stored < taken
       /\ chunk = Bytes(Stored, taken)
       /\ total = taken
       /\ head = Bytes(0, HeadLimit)
       /\ TailLimit > 0
  /\ drainer = "keep" => tail = KeptTail(Stored)
  /\ drainer = "extend" =>
       /\ taken - Stored < TailLimit
       /\ tail = Bytes(Most(HeadLimit, taken - TailLimit), Stored)

\* The stream: what is read was written, and a drainer that ended without an
\* error has read everything.
StreamInv ==
  /\ limit \in Limits
  /\ written \in Nat /\ taken \in Nat /\ taken <= written /\ written <= Length
  /\ drainer \in {"read", "count", "fill", "keep", "extend", "done"}
  /\ failed \in BOOLEAN /\ eof \in BOOLEAN
  /\ drainer = "done" /\ ~failed => eof /\ taken = written

\* What the caller has computed, once it knows that the drainer ended.
Joined == caller # "join" /\ ~late
CallerInv ==
  /\ caller \in {"join", "collect", "sizeHead", "sizeTail", "compare", "whole",
                 "omit", "copyHead", "copyTail", "rendered"}
  /\ caller \in {"join", "collect", "sizeHead", "sizeTail", "compare", "whole", "omit"}
       => omitted = 0
  /\ Joined => drainer = "done"
  /\ Joined /\ caller # "collect" => errored = failed
  /\ Joined /\ caller = "sizeTail" => retained = Len(head)
  /\ Joined /\ caller \in {"compare", "whole", "omit", "copyHead", "copyTail", "rendered"}
       => retained = Len(head) + Len(tail)
  /\ Joined /\ caller = "whole" => total <= retained
  /\ Joined /\ caller = "omit" => total > retained
  /\ Joined /\ caller \in {"copyHead", "copyTail"} => omitted = total - retained
  /\ Joined /\ caller = "copyTail" => text = head
  /\ Joined /\ caller = "rendered" =>
       text = head \o tail /\ (omitted = total - retained \/ (omitted = 0 /\ total <= retained))

CaptureInv == StreamInv /\ BufferInv /\ CallerInv

=============================================================================
