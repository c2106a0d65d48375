----------------------------- MODULE Transcript -----------------------------
(***************************************************************************)
(* The transcript of one terminal session (tools/nocturne-terminal-agent,   *)
(* daemon.go): the goroutine that reads the PTY appends output chunks       *)
(* through a buffered writer, timers and full buffers flush it, a screen    *)
(* clear empties it, a cap trims it, `history' requests read the file and   *)
(* the exit waiter flushes it a last time.                                 *)
(*                                                                         *)
(* transcriptMu is held by one thread at a time, but the file is changed in *)
(* several writes, and a `history' request reads it without the lock.       *)
(***************************************************************************)
EXTENDS Integers, FiniteSets, SequencesExt

CONSTANTS Readers,      \* history requests
          MaxOut,       \* bound on the chunks read from the PTY
          Sizes,        \* the sizes of a transcript line
          FlushBytes,   \* transcriptFlushBytes, also the size of the buffer
          Cap,          \* transcriptMaxBytes
          Clears,       \* whether the output may hold a screen clear
          Failures      \* the file operations that may fail

ASSUME TranscriptAssumption ==
    /\ MaxOut \in Nat
    /\ Sizes \subseteq Nat \ {0}
    /\ FlushBytes \in Nat \ {0}
    /\ Cap \in Nat \ {0}
    /\ Clears \in BOOLEAN
    /\ Failures \subseteq {"write", "sync", "trim"}
    /\ Readers \cap {"free", "pty", "timer", "waiter"} = {}

VARIABLES out,         \* chunks read from the PTY
          rec,         \* where recordOutput is
          cur,         \* the line it writes
          file,        \* the lines of <id>.ndjson
          torn,        \* the file ends within a line that is still in the buffer
          buf,         \* the lines in the buffered writer
          broken,      \* the buffered writer keeps an error
          unflushed,   \* unflushedBytes
          scheduled,   \* flushScheduled
          timers,      \* pending timers
          lock,        \* who holds transcriptMu
          step,        \* what the holder does next
          keep,        \* the lines it is about to write back
          hist,        \* the history requests
          daemon,
          lost,        \* the chunks that a failed rewrite or clear has dropped
          lapsed       \* the last flush or clear ended in an error

vars == <<out, rec, cur, file, torn, buf, broken, unflushed, scheduled, timers,
          lock, step, keep, hist, daemon, lost, lapsed>>

\* A line that is not whole is the beginning of one, without its newline.
Lines == [n : Nat, size : Nat, tail : BOOLEAN, whole : BOOLEAN]

\* A request has read up to pos: the lines got, then fill bytes, which begin line head.
\* A head or a line 0 is put together from two lines or cut off.
Reads == [pc : {"idle", "flush", "read", "done", "failed"}, pos : Nat, got : Seq(Nat),
          head : Nat, fill : Nat]

TypeOK ==
    /\ out \in 0..MaxOut
    /\ rec \in {"read", "append", "flush", "clear", "wipe"}
    /\ cur \in Lines
    /\ file \in Seq(Lines) /\ buf \in Seq(Lines) /\ keep \in Seq(Lines)
    /\ torn \in BOOLEAN /\ broken \in BOOLEAN /\ scheduled \in BOOLEAN
    /\ unflushed \in Nat /\ timers \in Nat
    /\ lock \in Readers \cup {"free", "pty", "timer", "waiter"}
    /\ step \in {"flush", "spill", "sync", "cap", "truncate", "rewrite", "resync"}
    /\ hist \in [Readers -> Reads]
    /\ daemon \in {"up", "flushed", "exited", "dead"}
    /\ lost \in SUBSET Nat /\ lapsed \in BOOLEAN

NoLine == [n |-> 0, size |-> 0, tail |-> FALSE, whole |-> TRUE]
NoRead == [pc |-> "idle", pos |-> 0, got |-> <<>>, head |-> 0, fill |-> 0]

Init ==
    /\ out = 0 /\ rec = "read" /\ cur = NoLine
    /\ file = <<>> /\ torn = FALSE /\ buf = <<>> /\ broken = FALSE
    /\ unflushed = 0 /\ scheduled = FALSE /\ timers = 0
    /\ lock = "free" /\ step = "flush" /\ keep = <<>>
    /\ hist = [h \in Readers |-> NoRead]
    /\ daemon = "up" /\ lost = {} /\ lapsed = FALSE

\* The sizes of the lines added up: the places within each line, counted.
Bytes(s) == Cardinality(UNION { {i} \X (1..s[i].size) : i \in 1..Len(s) })

Running == daemon \in {"up", "flushed"}
Fails(op) == op \in Failures

-----------------------------------------------------------------------------
(* flushTranscriptLocked and what follows it in each of its callers.        *)

\* The lock goes to t for a flush; with nothing to flush t goes on at once.
Acquire(t) == lock = "free" /\ unflushed > 0 /\ lock' = t /\ step' = "flush"

\* The holder has flushed, or has given up and dropped the chunks `gone': a clear goes on
\* to empty the file or drops its own chunk, a history request goes on to read, and the
\* exit waiter to mark the exit in any case.
AfterFlush(ok, gone) ==
    /\ IF ok /\ lock = "pty" /\ rec = "clear"
       THEN /\ rec' = "wipe" /\ step' = "truncate" /\ keep' = <<>> /\ UNCHANGED lock
       ELSE /\ lock' = "free"
            /\ rec' = IF lock = "pty" THEN "read" ELSE rec
            /\ UNCHANGED <<step, keep>>
    /\ hist' = IF lock \in Readers
               THEN [hist EXCEPT ![lock].pc = IF ok THEN "read" ELSE "failed"] ELSE hist
    /\ daemon' = IF lock = "waiter" THEN "flushed" ELSE daemon
    /\ lapsed' = ~ok
    /\ lost' = lost \cup gone
                    \cup (IF ~ok /\ lock = "pty" /\ rec \in {"clear", "wipe"} THEN {cur.n} ELSE {})

\* The buffered writer writes what does not fit while the last line is appended.
Spill ==
    /\ Running /\ lock # "free" /\ step = "spill" /\ buf # <<>>
    /\ file' = file \o Front(buf)
    /\ buf' = <<Last(buf)>>
    /\ torn' = TRUE
    /\ step' = "flush"
    /\ UNCHANGED <<out, rec, cur, broken, unflushed, scheduled, timers, lock, keep, hist,
                   daemon, lost, lapsed>>

Flush ==
    /\ Running /\ lock # "free" /\ step = "flush"
    /\ \/ /\ ~broken
          /\ file' = file \o buf
          /\ buf' = <<>>
          /\ torn' = FALSE
          /\ step' = "sync"
          /\ UNCHANGED <<broken, rec, lock, keep, hist, daemon, lost, lapsed>>
       \/ /\ ~broken /\ Fails("write")
          /\ broken' = TRUE
          /\ \E k \in 0..Len(buf) : /\ file' = file \o SubSeq(buf, 1, k)
                                    /\ buf' = SubSeq(buf, k + 1, Len(buf))
          /\ torn' \in {torn, buf' # <<>>}
          /\ AfterFlush(FALSE, {})
       \/ /\ broken
          /\ AfterFlush(FALSE, {})
          /\ UNCHANGED <<file, buf, torn, broken>>
    /\ UNCHANGED <<out, cur, unflushed, scheduled, timers>>

\* Fault: a flush leaves the timer marked as scheduled.
StillScheduled == scheduled

\* What a flush and a rewrite set flushScheduled to.
NoneScheduled == FALSE

\* Sync and the two counters; a failure leaves them as they are.
Sync ==
    /\ Running /\ lock # "free" /\ step = "sync"
    /\ \/ /\ unflushed' = 0
          /\ scheduled' = NoneScheduled
          /\ step' = "cap"
          /\ UNCHANGED <<rec, lock, keep, hist, daemon, lost, lapsed>>
       \/ /\ Fails("sync")
          /\ AfterFlush(FALSE, {})
          /\ UNCHANGED <<unflushed, scheduled>>
    /\ UNCHANGED <<out, cur, file, torn, buf, broken, timers>>

\* Fault: the cap is compared with the lines instead of their bytes.
TooManyLines == Len(file) > Cap

OverCap == Bytes(file) > Cap

\* Fault: the oldest lines are kept.
RetainOldest(s) == SubSeq(s, 1, 1)

\* retainTranscriptTail: what comes before the excess bytes goes, and what follows up to
\* the next newline; the last line is whole, since a flush has just written it.
Retained(s) ==
    LET before == { i \in 1..Len(s) :
                      \A j \in 1..i : Bytes(SubSeq(s, 1, j)) <= Bytes(s) - Cap \/ ~s[j].whole }
    IN  SubSeq(s, Cardinality(before) + 2, Len(s))

\* enforceTranscriptCapLocked; its Stat may fail.
EnforceCap ==
    /\ Running /\ lock # "free" /\ step = "cap"
    /\ \/ /\ OverCap
          /\ keep' = Retained(file)
          /\ step' = "truncate"
          /\ UNCHANGED <<rec, lock, hist, daemon, lost, lapsed>>
       \/ /\ ~OverCap
          /\ AfterFlush(TRUE, {})
       \/ /\ Fails("trim")
          /\ AfterFlush(FALSE, {})
    /\ UNCHANGED <<out, cur, file, torn, buf, broken, unflushed, scheduled, timers>>

-----------------------------------------------------------------------------
(* rewriteTranscriptLocked, for the cap and for a clear.                    *)

\* Fault: the kept lines are appended to what is there.
NotTruncated == file

Truncated == <<>>

Truncate ==
    /\ Running /\ lock # "free" /\ step = "truncate"
    /\ \/ /\ file' = Truncated
          /\ torn' = FALSE
          /\ step' = "rewrite"
          /\ UNCHANGED <<rec, lock, keep, hist, daemon, lost, lapsed>>
       \/ /\ Fails("trim")
          /\ AfterFlush(FALSE, {})
          /\ UNCHANGED <<file, torn>>
    /\ UNCHANGED <<out, cur, buf, broken, unflushed, scheduled, timers>>

\* What a write that fails within a line leaves of it.
Pieces(line) == {<<>>} \cup { <<[line EXCEPT !.size = b, !.whole = FALSE]>> : b \in 1..(line.size - 1) }

\* The write of the kept lines may fail half way: the rest of them is gone, and what is
\* recorded later is appended to what there is.
Rewrite ==
    /\ Running /\ lock # "free" /\ step = "rewrite"
    /\ \/ /\ file' = file \o keep
          /\ step' = "resync"
          /\ UNCHANGED <<rec, lock, keep, hist, daemon, lost, lapsed>>
       \/ /\ Fails("write")
          /\ \E k \in 1..Len(keep) :
               /\ \E piece \in Pieces(keep[k]) : file' = file \o SubSeq(keep, 1, k - 1) \o piece
               /\ AfterFlush(FALSE, keep[k].n .. Last(keep).n)
    /\ UNCHANGED <<out, cur, torn, buf, broken, unflushed, scheduled, timers>>

\* The sync after the rewrite, and the new buffered writer.  The clear that has emptied
\* the file goes on to append what followed it.
Resync ==
    /\ Running /\ lock # "free" /\ step = "resync"
    /\ \/ /\ buf' = <<>> /\ broken' = FALSE
          /\ unflushed' = 0 /\ scheduled' = NoneScheduled
          /\ IF rec = "wipe" /\ lock = "pty"
             THEN /\ lock' = "free"
                  /\ rec' = IF cur.tail THEN "append" ELSE "read"
                  /\ lapsed' = FALSE
                  /\ UNCHANGED <<step, keep, hist, daemon, lost>>
             ELSE AfterFlush(TRUE, {})
       \/ /\ Fails("sync")
          /\ AfterFlush(FALSE, {})
          /\ UNCHANGED <<buf, broken, unflushed, scheduled>>
    /\ UNCHANGED <<out, cur, file, torn, timers>>

-----------------------------------------------------------------------------
(* The threads.                                                             *)

\* readPtyOutput gets a chunk, which may clear the screen and go on behind it.
Record ==
    /\ Running /\ rec = "read" /\ out < MaxOut
    /\ out' = out + 1
    /\ \E size \in Sizes, clear \in IF Clears THEN BOOLEAN ELSE {FALSE}, tail \in BOOLEAN :
         /\ clear \/ tail
         /\ cur' = [n |-> out + 1, size |-> size, tail |-> tail, whole |-> TRUE]
         /\ rec' = IF clear THEN "clear" ELSE "append"
    /\ UNCHANGED <<file, torn, buf, broken, unflushed, scheduled, timers, lock, step, keep,
                   hist, daemon, lost, lapsed>>

\* clearTranscript.
Clear ==
    /\ Running /\ rec = "clear"
    /\ \/ /\ Acquire("pty")
          /\ UNCHANGED <<rec, keep>>
       \/ /\ lock = "free" /\ unflushed = 0
          /\ lock' = "pty" /\ rec' = "wipe" /\ step' = "truncate" /\ keep' = <<>>
    /\ UNCHANGED <<out, cur, file, torn, buf, broken, unflushed, scheduled, timers, hist,
                   daemon, lost, lapsed>>

\* appendTranscript: the line goes to the buffer, and a full buffer to the file;
\* otherwise a timer will flush it.
AppendLine ==
    /\ Running /\ rec = "append" /\ lock = "free"
    /\ IF broken
       THEN /\ rec' = "read"
            /\ UNCHANGED <<buf, unflushed, scheduled, timers, lock, step>>
       ELSE /\ buf' = Append(buf, cur)
            /\ unflushed' = unflushed + cur.size
            /\ IF unflushed' >= FlushBytes
               THEN /\ lock' = "pty" /\ rec' = "flush"
                    /\ step' = IF Bytes(buf') > FlushBytes THEN "spill" ELSE "flush"
                    /\ UNCHANGED <<scheduled, timers>>
               ELSE /\ rec' = "read"
                    /\ scheduled' = TRUE
                    /\ timers' = IF scheduled THEN timers ELSE timers + 1
                    /\ UNCHANGED <<lock, step>>
    /\ UNCHANGED <<out, cur, file, torn, broken, keep, hist, daemon, lost, lapsed>>

Timer ==
    /\ Running /\ timers > 0 /\ lock = "free"
    /\ timers' = timers - 1
    /\ Acquire("timer") \/ (unflushed = 0 /\ UNCHANGED <<lock, step>>)
    /\ UNCHANGED <<out, rec, cur, file, torn, buf, broken, unflushed, scheduled, keep, hist,
                   daemon, lost, lapsed>>

\* writeHistory in the daemon; WriteSessionHistory in the helper once it has exited.
HistoryBegin(h) ==
    /\ hist[h].pc = "idle"
    /\ \/ /\ Running /\ Acquire(h)
          /\ hist' = [hist EXCEPT ![h].pc = "flush"]
       \/ /\ daemon = "exited" \/ (Running /\ lock = "free" /\ unflushed = 0)
          /\ hist' = [hist EXCEPT ![h].pc = "read"]
          /\ UNCHANGED <<lock, step>>
    /\ UNCHANGED <<out, rec, cur, file, torn, buf, broken, unflushed, scheduled, timers,
                   keep, daemon, lost, lapsed>>

\* The line that holds byte p of the file, if there is one, and the place of p within it.
LineAt(p) == { i \in 1..Len(file) : Bytes(SubSeq(file, 1, i - 1)) <= p /\ p < Bytes(SubSeq(file, 1, i)) }
Within(i, p) == p - Bytes(SubSeq(file, 1, i - 1))

\* The line that begins with what request h has read since the last newline and with the
\* byte it reads now, which line i holds; 0 when the file was rewritten in between.
Begun(h, i) ==
    IF Within(i, hist[h].pos) = hist[h].fill /\ (hist[h].fill = 0 \/ hist[h].head = file[i].n)
    THEN file[i].n ELSE 0

\* The scanner takes the next byte; with a newline it has a line.  One that was put
\* together from two may be decoded, or not.
ReadByte(h, i) ==
    LET read == [hist[h] EXCEPT !.pos = @ + 1]
        line == [read EXCEPT !.got = Append(@, Begun(h, i)), !.head = 0, !.fill = 0]
    IN  IF Within(i, hist[h].pos) = file[i].size - 1 /\ file[i].whole
        THEN \/ hist' = [hist EXCEPT ![h] = line]
             \/ Begun(h, i) = 0 /\ hist' = [hist EXCEPT ![h].pc = "failed"]
        ELSE hist' = [hist EXCEPT ![h] = [read EXCEPT !.head = Begun(h, i),
                                                      !.fill = IF Begun(h, i) = 0 THEN 1 ELSE @ + 1]]

\* At the end of the file what has no newline is a line too, and is rarely decoded: it
\* may lack no more than the newline.
ReadEnd(h) ==
    \/ /\ hist[h].fill = 0 /\ (torn => hist[h].pos > Bytes(file))
       /\ hist' = [hist EXCEPT ![h].pc = "done"]
    \/ /\ hist[h].fill > 0 \/ torn
       /\ \/ hist' = [hist EXCEPT ![h].pc = "failed"]
          \/ hist' = [hist EXCEPT ![h].pc = "done", ![h].got = Append(@, hist[h].head),
                                   ![h].head = 0]

\* bufio.Scanner reads in blocks, and the file may change before each byte.
HistoryRead(h) ==
    /\ hist[h].pc = "read"
    /\ \/ \E i \in LineAt(hist[h].pos) : ReadByte(h, i)
       \/ LineAt(hist[h].pos) = {} /\ ReadEnd(h)
    /\ UNCHANGED <<out, rec, cur, file, torn, buf, broken, unflushed, scheduled, timers,
                   lock, step, keep, daemon, lost, lapsed>>

\* waitForExit: the last flush, whatever it returns.
ExitFlush ==
    /\ daemon = "up"
    /\ \/ /\ Acquire("waiter")
          /\ UNCHANGED daemon
       \/ /\ lock = "free" /\ unflushed = 0
          /\ daemon' = "flushed"
          /\ UNCHANGED <<lock, step>>
    /\ UNCHANGED <<out, rec, cur, file, torn, buf, broken, unflushed, scheduled, timers,
                   keep, hist, lost, lapsed>>

\* The program returns, or it is killed: the requests it serves fail.
Stop(how) ==
    /\ Running
    /\ how = "exited" => daemon = "flushed"
    /\ daemon' = how
    /\ hist' = [h \in Readers |-> IF hist[h].pc \in {"flush", "read"}
                                  THEN [hist[h] EXCEPT !.pc = "failed"] ELSE hist[h]]
    /\ UNCHANGED <<out, rec, cur, file, torn, buf, broken, unflushed, scheduled, timers,
                   lock, step, keep, lost, lapsed>>

-----------------------------------------------------------------------------

LockedStep == Spill \/ Flush \/ Sync \/ EnforceCap \/ Truncate \/ Rewrite \/ Resync

Next ==
    \/ Record \/ Clear \/ AppendLine \/ Timer \/ ExitFlush \/ LockedStep
    \/ Stop("exited") \/ Stop("dead")
    \/ \E h \in Readers : HistoryBegin(h) \/ HistoryRead(h)

Spec == Init /\ [][Next]_vars

\* A goroutine that holds the lock goes on, and an expired timer gets it in the end.
FairSpec == Spec /\ WF_vars(LockedStep) /\ SF_vars(Timer)

-----------------------------------------------------------------------------
(* Safety.                                                                  *)

\* The transcript: what a rewrite in progress or the buffer will add to the file.
Contents == (IF lock # "free" /\ step \in {"truncate", "rewrite"} THEN keep ELSE file) \o buf

\* The transcript is the output in its order, and without a hole but for the chunks that a
\* clear or a rewrite dropped when it failed: no interleaving of flushes, clears and trims
\* loses another chunk between two (appendTranscript, clearTranscript,
\* rewriteTranscriptLocked).
NoHole ==
    \A i \in 1..Len(Contents) - 1 :
        /\ Contents[i].n < Contents[i + 1].n
        /\ (Contents[i].n + 1)..(Contents[i + 1].n - 1) \subseteq lost

\* Whenever the lock is free, what the buffer holds has a timer that will flush it
\* (flushScheduled in appendTranscript, whoever flushed since).
BufferedIsTimed == lock = "free" /\ ~broken /\ buf # <<>> => timers > 0

\* File, buffer and timers fit together, whoever flushes, clears or trims.
TranscriptIsSound == TypeOK /\ NoHole /\ BufferedIsTimed

\* Whenever the lock is free the file is within its cap, unless the last flush ended in an
\* error (enforceTranscriptCapLocked): a failed trim lasts until the next flush.
WithinCap == lock = "free" /\ ~lapsed => Bytes(file) <= Cap

\* A history request reads without the lock, beside trims and clears; the lines it delivers
\* are in the order of the output and never twice (writeHistory), but for those that a
\* rewrite put together from two.
HistoryOrdered ==
    \A h \in Readers : \A i, j \in DOMAIN hist[h].got :
        i < j /\ hist[h].got[i] # 0 /\ hist[h].got[j] # 0 => hist[h].got[i] < hist[h].got[j]

(* Liveness.                                                                *)

\* docs/terminal-daemon.md, "Transcript appends are flushed after 2 seconds or 64 KiB":
\* an appended chunk leaves the buffer, unless the daemon stops or a write fails before.
Buffered(n) == \E i \in 1..Len(buf) : buf[i].n = n

BufferedIsFlushed == \A n \in 1..MaxOut : Buffered(n) ~> (~Running \/ broken \/ ~Buffered(n))
=============================================================================
