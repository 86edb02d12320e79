--------------------------- MODULE AuditPipeline ---------------------------
(***************************************************************************)
(* The path of an audit event out of the process: the ring buffer          *)
(* (_LogBuffer), the background flusher and the threads that call          *)
(* flush_all when a task exits or the client closes (_Flusher), the        *)
(* overflow files on disk and their replay (_OverflowWriter), and the      *)
(* log_batch request.  The server answers, fails, or accepts and the       *)
(* answer is lost; a write may be cut short; the process may die and start *)
(* again.                                                                  *)
(*                                                                         *)
(* Abstracted: an event is a model value, a file the sequence of its       *)
(* lines, each an event or unreadable, a day's file name the day.  Sizes   *)
(* count lines.                                                            *)
(***************************************************************************)
EXTENDS Naturals, Sequences, FiniteSets, Functions

CONSTANTS
    Events,         \* the audit events the calls produce
    Poison,         \* those requests refuses to encode as JSON (NaN): never sent
    Workers,        \* the threads that flush or write to the overflow
    Flusher,        \* the background thread among them
    RingCap,        \* _RING_CAP
    FlushThreshold, \* _FLUSH_THRESHOLD
    MaxSendBatch,   \* _MAX_SEND_BATCH, the most that log_batch takes
    ReplayChunk,    \* how many lines of a file a replay sends at a time
    FileCap,        \* _MAX_OVERFLOW_FILE_BYTES, in events
    Days,           \* bound: the days 1..Days
    CrashesMax,     \* bound: how often the process dies
    ShortWritesMax, \* bound: how often the system writes only part of a line
    Torn,           \* a line that is no JSON
    None            \* no file

ASSUME ThreadsAssumption == Flusher \in Workers /\ IsFiniteSet(Workers)
ASSUME SizesAssumption ==
    /\ RingCap \in Nat \ {0} /\ FlushThreshold \in Nat \ {0}
    /\ MaxSendBatch \in Nat \ {0} /\ ReplayChunk \in 1..MaxSendBatch /\ FileCap \in Nat \ {0}
    /\ Days \in Nat \ {0} /\ CrashesMax \in Nat /\ ShortWritesMax \in Nat
ASSUME EventsAssumption ==
    Poison \subseteq Events /\ Torn \notin Events /\ None \notin 1..Days

VARIABLES
    buf,        \* the ring, oldest first
    flushNow,   \* the _flush_now event
    stop,       \* the flusher's _stop event
    pc,         \* where each thread is
    batch,      \* the events a thread has drained or is about to write
    todo,       \* the files a replay has yet to finish
    lines,      \* the lines it read from the first of them
    left,       \* the positions in lines it has yet to send
    fd,         \* the file a thread has open for append
    disk,       \* the lines of each day's overflow file
    files,      \* the overflow files that exist, empty ones included
    ragged,     \* those whose last line has no newline
    today,      \* the current day
    accepted,   \* the events sigil-core has stored
    crashes,    \* how often the process died
    shorts,     \* how often a write was cut short
    fate,       \* history: how an event left the process without being stored
    owed        \* history: the events in the ring since before the client was closed

ringVars == <<buf, flushNow>>
replayVars == <<todo, lines, left>>
diskVars == <<disk, files, ragged, fd, shorts>>
vars == <<buf, flushNow, stop, pc, batch, todo, lines, left, fd, disk, files, ragged,
          today, accepted, crashes, shorts, fate, owed>>

Losses == {"evicted", "rejected", "capped", "io", "torn", "raced", "crashed"}
Fates == {"fresh", "kept"} \cup Losses

Lowest(a, b) == IF a <= b THEN a ELSE b

Init == /\ buf = <<>> /\ flushNow = FALSE /\ stop = FALSE
        /\ pc = [w \in Workers |-> "idle"]
        /\ batch = [w \in Workers |-> <<>>]
        /\ todo = [w \in Workers |-> {}]
        /\ lines = [w \in Workers |-> <<>>]
        /\ left = [w \in Workers |-> {}]
        /\ fd = [w \in Workers |-> None]
        /\ disk = [d \in 1..Days |-> <<>>] /\ files = {} /\ ragged = {}
        /\ today = 1 /\ accepted = {} /\ crashes = 0 /\ shorts = 0
        /\ fate = [e \in Events |-> "fresh"] /\ owed = {}

Goto(w, next) == pc' = [pc EXCEPT ![w] = next]

\* The events of the set S leave the process, those already stored excepted.
Lose(S, how) ==
    fate' = [e \in Events |-> IF e \in S \ accepted THEN how ELSE fate[e]]

(***************************************************************************)
(* The ring: push and drain, each under the lock.                          *)
(***************************************************************************)

\* Mutant: a deque without maxlen.
PushUnbounded(e) ==
    /\ fate[e] = "fresh"
    /\ buf' = Append(buf, e)
    /\ flushNow' = (flushNow \/ Len(buf') >= FlushThreshold)
    /\ fate' = [fate EXCEPT ![e] = "kept"]
    /\ UNCHANGED <<stop, pc, batch, replayVars, diskVars, today, accepted, crashes, owed>>

\* Mutant: room is made for one event too many.
PushEvictsEarly(e) ==
    LET full == Len(buf) >= RingCap - 1 /\ buf # <<>> IN
    /\ fate[e] = "fresh"
    /\ buf' = Append(IF full THEN Tail(buf) ELSE buf, e)
    /\ flushNow' = (flushNow \/ Len(buf') >= FlushThreshold)
    /\ fate' = [fate EXCEPT ![e] = "kept",
                            ![IF full THEN Head(buf) ELSE e] = IF full THEN "evicted" ELSE "kept"]
    /\ owed' = owed \cap Range(buf')
    /\ UNCHANGED <<stop, pc, batch, replayVars, diskVars, today, accepted, crashes>>

\* Appending to a full deque drops its oldest element.
Push(e) ==
    /\ fate[e] = "fresh"
    /\ buf' = Append(IF Len(buf) = RingCap THEN Tail(buf) ELSE buf, e)
    /\ flushNow' = (flushNow \/ Len(buf') >= FlushThreshold)
    /\ fate' = [fate EXCEPT ![e] = "kept",
                            ![IF Len(buf) = RingCap THEN Head(buf) ELSE e] =
                                IF Len(buf) = RingCap THEN "evicted" ELSE "kept"]
    /\ owed' = owed \cap Range(buf')
    /\ UNCHANGED <<stop, pc, batch, replayVars, diskVars, today, accepted, crashes>>

\* Mutant: a drained batch stays in the ring until it has been sent.
DrainByCopy(w) ==
    LET count == Lowest(MaxSendBatch, Len(buf)) IN
    /\ pc[w] = "drain"
    /\ batch' = [batch EXCEPT ![w] = SubSeq(buf, 1, count)]
    /\ Goto(w, IF count = 0 THEN "idle" ELSE "send")
    /\ UNCHANGED <<ringVars, stop, replayVars, diskVars, today, accepted, crashes,
                   fate, owed>>

\* One turn of _do_flush: up to a batch of events, or the end of the flush.
Drain(w) ==
    LET count == Lowest(MaxSendBatch, Len(buf)) IN
    /\ pc[w] = "drain"
    /\ batch' = [batch EXCEPT ![w] = SubSeq(buf, 1, count)]
    /\ buf' = SubSeq(buf, count + 1, Len(buf))
    /\ Goto(w, IF count = 0 THEN "idle" ELSE "send")
    /\ owed' = owed \cap Range(buf')
    /\ UNCHANGED <<flushNow, stop, replayVars, diskVars, today, accepted, crashes, fate>>

(***************************************************************************)
(* Who flushes, and when.                                                  *)
(***************************************************************************)

\* Mutant: a wait without a timer.
FlusherWakesOnSignal == /\ pc[Flusher] = "idle" /\ ~stop /\ flushNow
                        /\ Goto(Flusher, "clear")
                        /\ UNCHANGED <<ringVars, stop, batch, replayVars, diskVars, today,
                                       accepted, crashes, fate, owed>>

\* The flusher's wait ends: woken by the event, or by the timer.
FlusherWakes == /\ pc[Flusher] = "idle" /\ ~stop
                /\ Goto(Flusher, IF flushNow THEN "clear" ELSE "drain")
                /\ UNCHANGED <<ringVars, stop, batch, replayVars, diskVars, today,
                               accepted, crashes, fate, owed>>

FlusherClears == /\ pc[Flusher] = "clear"
                 /\ flushNow' = FALSE
                 /\ Goto(Flusher, "drain")
                 /\ UNCHANGED <<buf, stop, batch, replayVars, diskVars, today,
                                accepted, crashes, fate, owed>>

\* Mutant: the thread ends only when it finds the ring empty.
FlusherExitsEmpty == /\ pc[Flusher] = "idle" /\ stop /\ buf = <<>>
                     /\ Goto(Flusher, "exited")
                     /\ UNCHANGED <<ringVars, stop, batch, replayVars, diskVars, today,
                                    accepted, crashes, fate, owed>>

FlusherExits == /\ pc[Flusher] = "idle" /\ stop
                /\ Goto(Flusher, "exited")
                /\ UNCHANGED <<ringVars, stop, batch, replayVars, diskVars, today,
                               accepted, crashes, fate, owed>>

\* A task exits: flush_all in the thread that leaves it.
FlushAll(w) == /\ w # Flusher /\ pc[w] = "idle"
               /\ Goto(w, "drain")
               /\ UNCHANGED <<ringVars, stop, batch, replayVars, diskVars, today,
                              accepted, crashes, fate, owed>>

\* The client closes: stop and wake the flusher, then flush_all.
Close(w) == /\ w # Flusher /\ pc[w] = "idle" /\ ~stop
            /\ stop' = TRUE /\ flushNow' = TRUE
            /\ owed' = Range(buf)
            /\ Goto(w, "drain")
            /\ UNCHANGED <<buf, batch, replayVars, diskVars, today, accepted, crashes, fate>>

\* A fail-closed denial goes to the overflow without passing the ring.
WriteDenial(w, e) == /\ w # Flusher /\ pc[w] = "idle" /\ fate[e] = "fresh"
                     /\ batch' = [batch EXCEPT ![w] = <<e>>]
                     /\ fate' = [fate EXCEPT ![e] = "kept"]
                     /\ Goto(w, "spill")
                     /\ UNCHANGED <<ringVars, stop, replayVars, diskVars, today,
                                    accepted, crashes, owed>>

(***************************************************************************)
(* log_batch.                                                              *)
(***************************************************************************)

Encodable(S) == S \cap Poison = {}

Store(S) == accepted' = accepted \cup S

SendUnchanged == UNCHANGED <<ringVars, stop, replayVars, diskVars, today, crashes, owed>>

SendAccepted(w) == /\ pc[w] = "send" /\ Encodable(Range(batch[w]))
                   /\ Store(Range(batch[w]))
                   /\ batch' = [batch EXCEPT ![w] = <<>>]
                   /\ Goto(w, "list")
                   /\ SendUnchanged /\ UNCHANGED fate

\* SigilTransportError: the batch could not be sent, or its answer was lost.
SendFails(w) == /\ pc[w] = "send"
                /\ \/ UNCHANGED accepted
                   \/ Encodable(Range(batch[w])) /\ Store(Range(batch[w]))
                /\ Goto(w, "spill")
                /\ SendUnchanged /\ UNCHANGED <<batch, fate>>

\* SigilAPIError: refused, or stored with an answer the client cannot read;
\* the batch is dropped and the flush ends.
SendRefused(w) == /\ pc[w] = "send" /\ Encodable(Range(batch[w]))
                  /\ \/ UNCHANGED accepted /\ Lose(Range(batch[w]), "rejected")
                     \/ Store(Range(batch[w])) /\ UNCHANGED fate
                  /\ batch' = [batch EXCEPT ![w] = <<>>]
                  /\ Goto(w, "idle")
                  /\ SendUnchanged

(***************************************************************************)
(* _OverflowWriter.write, once for each event of the batch.                *)
(***************************************************************************)

WriteUnchanged == UNCHANGED <<ringVars, stop, replayVars, today, accepted, crashes, owed>>

\* The write of the first event is over: the next one, or the end of the flush.
NextWrite(w) == /\ batch' = [batch EXCEPT ![w] = Tail(@)]
                /\ Goto(w, IF Len(batch[w]) = 1 THEN "idle" ELSE "spill")

\* Mutant: a file at its cap is still opened.
OpenFullFile(w) == /\ pc[w] = "spill" /\ Len(disk[today]) <= FileCap
                   /\ fd' = [fd EXCEPT ![w] = today]
                   /\ files' = files \cup {today}
                   /\ Goto(w, "write")
                   /\ WriteUnchanged /\ UNCHANGED <<batch, disk, ragged, shorts, fate>>

\* The size is checked, the file opened (and created) for append.
OpenFile(w) == /\ pc[w] = "spill" /\ Len(disk[today]) < FileCap
               /\ fd' = [fd EXCEPT ![w] = today]
               /\ files' = files \cup {today}
               /\ Goto(w, "write")
               /\ WriteUnchanged /\ UNCHANGED <<batch, disk, ragged, shorts, fate>>

FileFull(w) == /\ pc[w] = "spill" /\ Len(disk[today]) >= FileCap
               /\ Lose({Head(batch[w])}, "capped")
               /\ NextWrite(w)
               /\ WriteUnchanged /\ UNCHANGED diskVars

\* The directory is not writable, or the system refuses: swallowed.
WriteFails(w) == /\ pc[w] \in {"spill", "write"}
                 /\ Lose({Head(batch[w])}, "io")
                 /\ fd' = [fd EXCEPT ![w] = None]
                 /\ NextWrite(w)
                 /\ WriteUnchanged /\ UNCHANGED <<disk, files, ragged, shorts>>

\* The last line of the file grows by what is written and is no JSON any more.
Spoil(d, e) == /\ disk' = [disk EXCEPT ![d][Len(disk[d])] = Torn]
               /\ Lose({e, disk[d][Len(disk[d])]}, "torn")

\* Mutant: lines without a newline at their end.
AppendNoNewline(w) ==
    LET e == Head(batch[w])
        d == fd[w]
    IN  /\ pc[w] = "write"
        /\ \/ d = None /\ Lose({e}, "raced") /\ UNCHANGED <<disk, ragged>>
           \/ /\ d # None
              /\ \/ d \in ragged /\ Spoil(d, e)
                 \/ /\ d \notin ragged
                    /\ disk' = [disk EXCEPT ![d] = Append(@, e)] /\ UNCHANGED fate
              /\ ragged' = ragged \cup {d}
        /\ fd' = [fd EXCEPT ![w] = None]
        /\ NextWrite(w)
        /\ WriteUnchanged /\ UNCHANGED <<files, shorts>>

\* A file unlinked since it was opened takes the line with it; a line without a
\* newline is glued to this one.
AppendLine(w) ==
    LET e == Head(batch[w])
        d == fd[w]
    IN  /\ pc[w] = "write"
        /\ \/ d = None /\ Lose({e}, "raced") /\ UNCHANGED <<disk, ragged>>
           \/ /\ d \in ragged
              /\ Spoil(d, e) /\ ragged' = ragged \ {d}
           \/ /\ d \notin ragged \cup {None}
              /\ disk' = [disk EXCEPT ![d] = Append(@, e)] /\ UNCHANGED <<fate, ragged>>
        /\ fd' = [fd EXCEPT ![w] = None]
        /\ NextWrite(w)
        /\ WriteUnchanged /\ UNCHANGED <<files, shorts>>

\* os.write writes less than the line (the disk is full) and nobody looks at its
\* result: the newline is missing, or more.
ShortWrite(w) ==
    LET e == Head(batch[w])
        d == fd[w]
    IN  /\ pc[w] = "write" /\ d # None /\ shorts < ShortWritesMax
        /\ \/ d \in ragged /\ Spoil(d, e)
           \/ /\ d \notin ragged
              /\ \/ disk' = [disk EXCEPT ![d] = Append(@, e)] /\ UNCHANGED fate
                 \/ disk' = [disk EXCEPT ![d] = Append(@, Torn)] /\ Lose({e}, "torn")
        /\ ragged' = ragged \cup {d}
        /\ shorts' = shorts + 1
        /\ fd' = [fd EXCEPT ![w] = None]
        /\ NextWrite(w)
        /\ WriteUnchanged /\ UNCHANGED files

(***************************************************************************)
(* _OverflowWriter.replay, after a batch was accepted.                     *)
(***************************************************************************)

ReplayUnchanged == UNCHANGED <<ringVars, stop, batch, today, crashes, owed>>

\* The files are taken in the order of their days.
AtHand(w, d) == d \in todo[w] /\ \A c \in todo[w] : d <= c

\* The next file, or the next turn of _do_flush.
NextFile(w, rest) == /\ todo' = [todo EXCEPT ![w] = rest]
                     /\ lines' = [lines EXCEPT ![w] = <<>>]
                     /\ left' = [left EXCEPT ![w] = {}]
                     /\ Goto(w, IF rest = {} THEN "drain" ELSE "read")

\* The listing may fail, and then there is nothing to replay.
ListFiles(w) == /\ pc[w] = "list"
                /\ \E rest \in {files, {}} : NextFile(w, rest)
                /\ ReplayUnchanged /\ UNCHANGED <<diskVars, accepted, fate>>

\* Lines that are no JSON are skipped.
ReadFile(w) == \E d \in files :
    /\ pc[w] = "read" /\ AtHand(w, d)
    /\ lines' = [lines EXCEPT ![w] = disk[d]]
    /\ left' = [left EXCEPT ![w] = {i \in DOMAIN disk[d] : disk[d][i] # Torn}]
    /\ Goto(w, "resend")
    /\ ReplayUnchanged /\ UNCHANGED <<todo, diskVars, accepted, fate>>

\* Another thread's replay has unlinked the file since it was listed, or the
\* system refuses to open it.
ReadFails(w) == \E d \in todo[w] :
    /\ pc[w] = "read" /\ AtHand(w, d)
    /\ NextFile(w, todo[w] \ {d})
    /\ ReplayUnchanged /\ UNCHANGED <<diskVars, accepted, fate>>

\* A file that is no UTF-8 raises what replay does not expect: the other files wait,
\* and so does the rest of the ring, for this flush is over.
ReplayAborts(w) ==
    /\ pc[w] = "read"
    /\ todo' = [todo EXCEPT ![w] = {}]
    /\ Goto(w, "idle")
    /\ ReplayUnchanged /\ UNCHANGED <<lines, left, diskVars, accepted, fate>>

\* The first of the lines left, as many as one request may take.
Chunk(w) == {i \in left[w] : Cardinality({j \in left[w] : j <= i}) <= ReplayChunk}

ChunkEvents(w) == {lines[w][i] : i \in Chunk(w)}

ResendAccepted(w) == /\ pc[w] = "resend" /\ left[w] # {} /\ Encodable(ChunkEvents(w))
                     /\ Store(ChunkEvents(w))
                     /\ left' = [left EXCEPT ![w] = @ \ Chunk(w)]
                     /\ ReplayUnchanged
                     /\ UNCHANGED <<pc, todo, lines, diskVars, fate>>

\* Mutant: a chunk that fails is skipped, and the file goes all the same.
ResendSkips(w) == /\ pc[w] = "resend" /\ left[w] # {}
                  /\ left' = [left EXCEPT ![w] = @ \ Chunk(w)]
                  /\ ReplayUnchanged
                  /\ UNCHANGED <<pc, todo, lines, diskVars, accepted, fate>>

\* Any error leaves the file for the next replay, and goes on with the others.
ResendFails(w) == \E d \in todo[w] :
    /\ pc[w] = "resend" /\ AtHand(w, d) /\ left[w] # {}
    /\ \/ UNCHANGED accepted
       \/ Encodable(ChunkEvents(w)) /\ Store(ChunkEvents(w))
    /\ NextFile(w, todo[w] \ {d})
    /\ ReplayUnchanged /\ UNCHANGED <<diskVars, fate>>

\* Everything read has been accepted: the file goes, with what came since.
Unlink(w) == \E d \in todo[w] :
    /\ pc[w] = "resend" /\ AtHand(w, d) /\ left[w] = {}
    /\ Lose(Range(disk[d]) \ Range(lines[w]), "raced")
    /\ disk' = [disk EXCEPT ![d] = <<>>]
    /\ files' = files \ {d} /\ ragged' = ragged \ {d}
    /\ fd' = [v \in Workers |-> IF fd[v] = d THEN None ELSE fd[v]]
    /\ NextFile(w, todo[w] \ {d})
    /\ ReplayUnchanged /\ UNCHANGED <<accepted, shorts>>

\* The system refuses: the file stays, and is sent again by the next replay.
UnlinkFails(w) == \E d \in todo[w] :
    /\ pc[w] = "resend" /\ AtHand(w, d) /\ left[w] = {}
    /\ NextFile(w, todo[w] \ {d})
    /\ ReplayUnchanged /\ UNCHANGED <<diskVars, accepted, fate>>

(***************************************************************************)
(* The day and the process.                                                *)
(***************************************************************************)

Midnight == /\ today < Days
            /\ today' = today + 1
            /\ UNCHANGED <<ringVars, stop, pc, batch, replayVars, diskVars, accepted,
                           crashes, fate, owed>>

InHand == {e \in Events : e \in Range(buf) \/ \E w \in Workers : e \in Range(batch[w])}

\* The process dies, or exits (the flusher is a daemon thread), and a new one
\* starts on the same files.
Restart == /\ crashes < CrashesMax
           /\ crashes' = crashes + 1
           /\ Lose(InHand, "crashed")
           /\ buf' = <<>> /\ flushNow' = FALSE /\ stop' = FALSE
           /\ pc' = [w \in Workers |-> "idle"]
           /\ batch' = [w \in Workers |-> <<>>]
           /\ todo' = [w \in Workers |-> {}]
           /\ lines' = [w \in Workers |-> <<>>]
           /\ left' = [w \in Workers |-> {}]
           /\ fd' = [w \in Workers |-> None]
           /\ owed' = {}
           /\ UNCHANGED <<disk, files, ragged, today, accepted, shorts>>

Work(w) == \/ Drain(w) \/ SendAccepted(w) \/ SendFails(w) \/ SendRefused(w)
           \/ OpenFile(w) \/ FileFull(w) \/ WriteFails(w) \/ AppendLine(w)
           \/ ShortWrite(w)
           \/ ListFiles(w) \/ ReadFile(w) \/ ReadFails(w) \/ ReplayAborts(w)
           \/ ResendAccepted(w) \/ ResendFails(w) \/ Unlink(w) \/ UnlinkFails(w)

FlusherLoop == FlusherWakes \/ FlusherClears \/ FlusherExits

Next == \/ \E e \in Events : Push(e) \/ \E w \in Workers : WriteDenial(w, e)
        \/ \E w \in Workers : Work(w) \/ FlushAll(w) \/ Close(w)
        \/ FlusherLoop \/ Midnight \/ Restart

Spec == Init /\ [][Next]_vars

\* The flusher's wait has a timeout and requests have one too; a thread that
\* flushes goes on.
Fairness == WF_vars(FlusherLoop) /\ \A w \in Workers : WF_vars(Work(w))

LiveSpec == Spec /\ Fairness

(***************************************************************************)
(* Properties.                                                             *)
(***************************************************************************)

TypeOK == /\ buf \in Seq(Events) /\ Len(buf) <= RingCap
          /\ flushNow \in BOOLEAN /\ stop \in BOOLEAN
          /\ pc \in [Workers -> {"idle", "clear", "drain", "send", "spill", "write",
                                 "list", "read", "resend", "exited"}]
          /\ batch \in [Workers -> Seq(Events)]
          /\ \A w \in Workers : Len(batch[w]) <= MaxSendBatch
          /\ todo \in [Workers -> SUBSET (1..Days)]
          /\ lines \in [Workers -> Seq(Events \cup {Torn})]
          /\ left \in [Workers -> SUBSET Nat]
          /\ \A w \in Workers : left[w] \subseteq DOMAIN lines[w]
          /\ fd \in [Workers -> 1..Days \cup {None}]
          /\ disk \in [1..Days -> Seq(Events \cup {Torn})]
          /\ files \subseteq 1..Days /\ ragged \subseteq files
          /\ today \in 1..Days
          /\ accepted \subseteq Events
          /\ crashes \in 0..CrashesMax /\ shorts \in 0..ShortWritesMax
          /\ fate \in [Events -> Fates]
          /\ owed \subseteq Range(buf)

OnDisk == {e \in Events : \E d \in 1..Days : e \in Range(disk[d])}

\* No event vanishes: until sigil-core has stored it, an event that was recorded
\* is in the ring, in a flushing thread's hands or on disk, or it left in one of
\* the ways the code drops events (ring eviction, a refused batch, a full file, a failing
\* disk, a line torn, a file unlinked under its writer, the end of the process).
NothingVanishes ==
    \A e \in Events : fate[e] = "kept" => e \in InHand \cup OnDisk \cup accepted

Distinct(s) == \A i, j \in DOMAIN s : s[i] = s[j] => i = j \/ s[i] = Torn

\* An event is in one place at a time: once in the ring, in one thread's batch or
\* in one line of one file.  Two threads never flush the same event.
OnePlace ==
    /\ Distinct(buf)
    /\ \A w \in Workers : Distinct(batch[w]) /\ Range(batch[w]) \cap Range(buf) = {}
    /\ \A d \in 1..Days : Distinct(disk[d]) /\ Range(disk[d]) \cap Range(buf) = {}
    /\ \A w \in Workers, d \in 1..Days : Range(batch[w]) \cap Range(disk[d]) = {}
    /\ \A v, w \in Workers : v # w => Range(batch[v]) \cap Range(batch[w]) = {}
    /\ \A c, d \in 1..Days : c # d => Range(disk[c]) \cap Range(disk[d]) \subseteq {Torn}

\* A write cut short costs two events at most: its own, and the one that is then
\* glued to it, or to which it was glued.
TearsBounded == Cardinality({e \in Events : fate[e] = "torn"}) <= 2 * shorts

\* The size check and the append are two steps, so a file may pass its cap, by
\* less than one line for each thread that may be between them.
FileBounded ==
    \A d \in 1..Days : Len(disk[d]) < FileCap + Cardinality(Workers)

\* Where each event is, or how it was lost.
Ledger == [e \in Events |-> IF e \in accepted THEN "stored"
                            ELSE IF fate[e] # "kept" THEN fate[e]
                            ELSE IF e \in OnDisk THEN "spilled" ELSE "held"]

AuditLedger == INSTANCE AuditLedger WITH ledger <- Ledger

\* The pipeline keeps the ledger: what is on disk outlives the process and leaves it
\* by being stored, torn or unlinked under a writer; events are only evicted from a
\* full memory; what was stored stays stored.
ImplementsLedger == AuditLedger!LedgerSpec

\* While the client is open, whatever is in the ring leaves it, threshold
\* reached or not, server up or down.
RingDrains == buf # <<>> ~> buf = <<>> \/ stop

\* After close the flusher thread comes to its end.
FlusherEnds == stop ~> pc[Flusher] = "exited" \/ ~stop

(***************************************************************************)
(* What the documentation says and the code does not do.                   *)
(***************************************************************************)

\* "Files are only deleted when ALL their events have been accepted." (replay)
DeletedOnlyWhenAccepted == \A e \in Events : fate[e] # "raced"

\* "Synchronously drain all buffered events. ... so that events are delivered
\* before the context exits or the process shuts down." (flush_all, called by
\* close): once close has returned nothing it found in the ring is left there.
CloseDrainsAll ==
    stop /\ (\A w \in Workers \ {Flusher} : pc[w] = "idle") => owed = {}

=============================================================================
