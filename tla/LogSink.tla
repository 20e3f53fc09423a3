------------------------------- MODULE LogSink -------------------------------
(***************************************************************************)
(* NdjsonFileSink behind the Logger's teeSink: a bounded queue of lines,   *)
(* flushed when it is long enough and by a timer, into a file that is      *)
(* rotated when it is full.  A write to the disk may fail, and the process *)
(* may die between any two steps of a rotation.  Lines are numbered as     *)
(* they are logged and are of one length; a file that does not exist is    *)
(* one without lines.                                                      *)
(***************************************************************************)
EXTENDS Integers, Sequences, SequencesExt

CONSTANTS
    MaxQueue,    \* maxQueueLines
    MaxBatch,    \* maxBatchLines
    MaxBytes,    \* maxBytes, in lines
    MaxFiles,    \* rotated files that are kept
    MaxLines     \* lines logged (a bound of the model)

VARIABLES
    next,      \* the line that is logged next
    queue,
    files,     \* 0: the file; 1..MaxFiles: the rotated ones
    bytes,     \* bytesWritten
    dropped,   \* droppedLines
    process    \* up, or what it died of

vars == <<next, queue, files, bytes, dropped, process>>

Slots == 0..MaxFiles

\* rotate, after the files from slot i upwards were moved: the last one is
\* deleted, the others are renamed, and 0 becomes 1 at the end.
RotatedFrom(i) == [s \in Slots |-> IF s > i THEN files[s - 1] ELSE IF s = i THEN << >> ELSE files[s]]

Full(batch) == bytes + Len(batch) > MaxBytes

\* The files when n lines of the batch were written.
Appended(batch, n) == [(IF Full(batch) THEN RotatedFrom(0) ELSE files) EXCEPT ![0] = @ \o SubSeq(batch, 1, n)]
Base(batch) == IF Full(batch) THEN 0 ELSE bytes

\* flushNow.  The queue is emptied first: what is not written is lost.  The
\* write, or a step of the rotation before it, may fail.
Flush(batch, ok) ==
    /\ queue' = << >> /\ dropped' = 0
    /\ \/ /\ ok
          /\ files' = Appended(batch, Len(batch)) /\ bytes' = Base(batch) + Len(batch)
       \/ /\ ~ok
          /\ \E n \in 0..Len(batch) : files' = Appended(batch, n)
          /\ bytes' = Base(batch)
       \/ /\ ~ok /\ Full(batch)
          /\ \E i \in 1..MaxFiles + 1 : files' = RotatedFrom(i)
          /\ bytes' = bytes

\* write: the oldest line makes room.
Pushed == Append(IF Len(queue) >= MaxQueue THEN Tail(queue) ELSE queue, next)

\* The line that completes a batch flushes it, and teeSink catches a failure.
Log ==
    /\ process = "up" /\ next <= MaxLines
    /\ next' = next + 1
    /\ IF Len(Pushed) < MaxBatch
       THEN queue' = Pushed /\ dropped' = dropped + (IF Len(queue) >= MaxQueue THEN 1 ELSE 0) /\ UNCHANGED <<files, bytes>>
       ELSE \E ok \in BOOLEAN : Flush(Pushed, ok)
    /\ UNCHANGED process

\* flushTimer: nothing catches a failure, and the process ends.
TimerFlushes ==
    /\ process = "up" /\ queue # << >>
    /\ \E ok \in BOOLEAN : Flush(queue, ok) /\ process' = IF ok THEN "up" ELSE "failed"
    /\ UNCHANGED next

\* The process is killed, perhaps in the middle of a rotation.
Killed ==
    /\ process = "up"
    /\ process' = "killed"
    /\ \/ files' = files
       \/ \E batch \in {queue, Pushed}, i \in Slots : Full(batch) /\ files' = RotatedFrom(i)
    /\ queue' = << >>
    /\ UNCHANGED <<next, bytes, dropped>>

\* The constructor takes the size of the file over.
Restart ==
    /\ process # "up"
    /\ process' = "up"
    /\ bytes' = Len(files[0]) /\ dropped' = 0 /\ queue' = << >>
    /\ UNCHANGED <<next, files>>

Init ==
    /\ next = 1 /\ queue = << >> /\ bytes = 0 /\ dropped = 0 /\ process = "up"
    /\ files = [s \in Slots |-> << >>]

Next == Log \/ TimerFlushes \/ Killed \/ Restart

Spec == Init /\ [][Next]_vars

-----------------------------------------------------------------------------
(* Properties                                                              *)

OnDisk(fs) == UNION {Range(fs[s]) : s \in Slots}
Newer(s, t) == \A x \in Range(files[s]), y \in Range(files[t]) : x > y

\* Whatever fails and whenever the process dies, the lines are in the files in
\* the order they were logged, each once, the newest in the file.
LinesAreInOrder ==
    /\ \A s \in Slots : \A i, j \in DOMAIN files[s] : i < j => files[s][i] < files[s][j]
    /\ \A s, t \in Slots : s < t => Newer(s, t)

\* Only the lines of the oldest file are ever deleted.
EvictionStep == OnDisk(files) \ Range(files[MaxFiles]) \subseteq OnDisk(files')

OnlyOldestIsEvicted == [][EvictionStep]_vars
=============================================================================
