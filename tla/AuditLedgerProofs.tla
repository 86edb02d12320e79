------------------------- MODULE AuditLedgerProofs -------------------------
(***************************************************************************)
(* AuditPipeline implements AuditLedger.  Beside the invariant of          *)
(* AuditPipelineProofs the argument needs three facts about the history of *)
(* an event (Past): what is stored was recorded, what is in the ring was   *)
(* never sent, and what a replay has read has since at most been torn or   *)
(* unlinked.  A request carries no more than log_batch takes, because the  *)
(* lines of a chunk can be numbered.                                       *)
(***************************************************************************)
EXTENDS AuditPipelineProofs

USE DEF ringVars, replayVars, diskVars

(***************************************************************************)
(* The history of an event.                                                *)
(***************************************************************************)

StoredKnown == \A e \in accepted : fate[e] # "fresh"

RingUnsent == \A e \in accepted : e \notin Range(buf)

ReadKept == \A w \in Workers, e \in Events :
                e \in Range(lines[w]) => fate[e] \in {"kept", "torn", "raced"}

Past == StoredKnown /\ RingUnsent /\ ReadKept

\* Nothing is forgotten by a step that sends nothing from the ring, writes off as torn
\* or unlinked what a replay may have read, and as anything else only what is in memory.
LEMMA PastKept ==
    ASSUME TypeOK, TypeOK', Places, Past,
           \A e \in accepted' : e \in accepted \/ (fate[e] # "fresh" /\ e \notin Range(buf)),
           \A e \in Range(buf') : e \in Range(buf) \/ fate[e] = "fresh",
           \A e \in Events : \/ fate'[e] = fate[e] \/ fate'[e] \in {"kept", "torn", "raced"}
                             \/ fate'[e] # "fresh" /\ e \in InHand,
           \A w \in Workers, e \in Events :
               e \in Range(lines'[w]) => e \in Range(lines[w]) \cup OnDisk
    PROVE  Past'
<1>1. accepted' \subseteq Events
    BY DEF TypeOK
<1>2. StoredKnown'
    BY <1>1 DEF Past, StoredKnown
<1>3. RingUnsent'
    BY DEF Past, StoredKnown, RingUnsent
<1>4. ASSUME NEW w \in Workers, NEW e \in Events, e \in Range(lines'[w])
      PROVE  fate'[e] \in {"kept", "torn", "raced"}
    <2>1. fate[e] \in {"kept", "torn", "raced"} /\ e \notin InHand
        <3>1. CASE e \in Range(lines[w])
            BY <3>1 DEF Past, ReadKept, Places, ReadOut
        <3>2. CASE e \in OnDisk
            BY <3>2 DEF Places, Kept, OnePlace, OnDisk, InHand
        <3> QED
            BY <1>4, <3>1, <3>2
    <2> QED
        BY <2>1
<1> QED
    BY <1>2, <1>3, <1>4 DEF Past, ReadKept

\* What a thread holds is in memory, and not in the ring.
LEMMA HeldByThread ==
    ASSUME TypeOK, Places, NEW w \in Workers
    PROVE  /\ Range(batch[w]) \subseteq Events /\ Range(batch[w]) \subseteq InHand
           /\ \A e \in Range(batch[w]) : e \notin Range(buf) /\ e \notin OnDisk /\ fate[e] = "kept"
<1>1. Range(batch[w]) \subseteq Events
    BY RangeOfSeq DEF TypeOK
<1>2. Range(batch[w]) \subseteq InHand
    BY <1>1 DEF InHand
<1> QED
    BY <1>1, <1>2 DEF Places, OnePlace, Kept, OnDisk

\* A chunk is made of events that the replay has read.
LEMMA ChunkRead ==
    ASSUME TypeOK, Shape, NEW w \in Workers
    PROVE  ChunkEvents(w) \subseteq Events /\ ChunkEvents(w) \subseteq Range(lines[w])
<1>1. Chunk(w) \subseteq left[w] /\ left[w] \subseteq DOMAIN lines[w]
    BY DEF Chunk, TypeOK
<1>2. ChunkEvents(w) \subseteq Range(lines[w])
    BY <1>1 DEF ChunkEvents, Range
<1>3. Range(lines[w]) \subseteq Events \cup {Torn}
    BY RangeOfSeq DEF TypeOK
<1>4. \A i \in Chunk(w) : lines[w][i] # Torn
    BY <1>1 DEF Shape
<1>5. Torn \notin ChunkEvents(w)
    BY <1>4 DEF ChunkEvents
<1> QED
    BY <1>2, <1>3, <1>5

\* What a replay reads is on disk.
LEMMA ReadFromDisk ==
    ASSUME TypeOK, TypeOK', NEW w \in Workers,
           \/ ListFiles(w) \/ ReadFile(w) \/ ReadFails(w) \/ ReplayAborts(w)
           \/ ResendAccepted(w) \/ ResendFails(w) \/ Unlink(w) \/ UnlinkFails(w)
    PROVE  \A v \in Workers, e \in Events :
               e \in Range(lines'[v]) => e \in Range(lines[v]) \cup OnDisk
<1> SUFFICES ASSUME NEW v \in Workers, NEW e \in Events, e \in Range(lines'[v])
             PROVE  e \in Range(lines[v]) \cup OnDisk
    OBVIOUS
<1>1. \/ lines'[v] = lines[v] \/ lines'[v] = <<>>
      \/ \E d \in 1..Days : lines'[v] = disk[d]
    <2>1. CASE ReadFile(w)
        <3>1. PICK d \in files : lines' = [lines EXCEPT ![w] = disk[d]]
            BY <2>1 DEF ReadFile
        <3>2. d \in 1..Days
            BY DEF TypeOK
        <3> QED
            BY <3>1, <3>2 DEF TypeOK
    <2>2. CASE ResendAccepted(w) \/ ReplayAborts(w)
        BY <2>2 DEF ResendAccepted, ReplayAborts
    <2>3. CASE ListFiles(w) \/ ReadFails(w) \/ ResendFails(w) \/ Unlink(w) \/ UnlinkFails(w)
        <3>1. lines' = [lines EXCEPT ![w] = <<>>]
            BY <2>3 DEF ListFiles, ReadFails, ResendFails, Unlink, UnlinkFails, NextFile
        <3> QED
            BY <3>1 DEF TypeOK
    <2> QED
        BY <2>1, <2>2, <2>3
<1> QED
    BY <1>1, EmptyHolds DEF OnDisk

\* Nothing that is gone is in a thread's hands again, and only the ring is not yet sent.
LEMMA PastStep ==
    ASSUME IInv, TypeOK', Past, [Next]_vars
    PROVE  Past'
<1> USE DEF IInv
<1>1. ASSUME UNCHANGED <<accepted, fate, lines>>, Range(buf') \subseteq Range(buf)
      PROVE  Past'
    BY <1>1, PastKept
<1>2. ASSUME NEW w \in Workers, Drain(w)
      PROVE  Past'
    <2>1. PICK count : count = Lowest(MaxSendBatch, Len(buf))
        OBVIOUS
    <2>2. buf \in Seq(Events) /\ count \in 0..Len(buf)
        BY <2>1, LenProperties, SizesAssumption DEF Lowest, TypeOK
    <2>3. Range(buf') \subseteq Range(buf)
        BY <1>2, <2>1, <2>2, CutHolds DEF Drain
    <2> QED
        BY <1>1, <1>2, <2>3 DEF Drain
<1>3. ASSUME \/ \E w \in Workers : FlushAll(w) \/ Close(w) \/ OpenFile(w)
             \/ FlusherLoop \/ Midnight \/ UNCHANGED vars
      PROVE  Past'
    BY <1>1, <1>3 DEF FlushAll, Close, OpenFile, WriteUnchanged, FlusherLoop, FlusherWakes,
                      FlusherClears, FlusherExits, Midnight, vars
<1>4. ASSUME NEW x \in Events, Push(x)
      PROVE  Past'
    <2>1. buf \in Seq(Events) /\ Len(buf) \in Nat /\ fate \in [Events -> Fates]
        BY LenProperties DEF TypeOK
    <2>2. ASSUME Len(buf) = RingCap
          PROVE  /\ Head(buf) \in Range(buf) /\ Tail(buf) \in Seq(Events)
                 /\ Range(Tail(buf)) \subseteq Range(buf)
        <3>1. buf # <<>>
            BY <2>1, <2>2, EmptyLength, SizesAssumption
        <3> QED
            BY <2>1, <3>1, HeadTailHold
    <2>3. \A e \in Range(buf') : e \in Range(buf) \/ fate[e] = "fresh"
        <3>1. PICK rest \in Seq(Events) : buf' = Append(rest, x) /\ Range(rest) \subseteq Range(buf)
            BY <1>4, <2>1, <2>2 DEF Push
        <3>2. Range(buf') = Range(rest) \cup {x}
            BY <3>1, AppendHolds
        <3> QED
            BY <1>4, <3>1, <3>2 DEF Push
    <2>4. ASSUME NEW e \in Events
          PROVE  \/ fate'[e] = fate[e] \/ fate'[e] = "kept"
                 \/ fate'[e] # "fresh" /\ e \in InHand
        BY <1>4, <2>1, <2>2 DEF Push, InHand
    <2> QED
        BY <1>4, <2>3, <2>4, PastKept DEF Push
<1>5. ASSUME NEW x \in Events, NEW w \in Workers, WriteDenial(w, x)
      PROVE  Past'
    <2>1. \A e \in Events : fate'[e] = fate[e] \/ fate'[e] = "kept"
        BY <1>5 DEF WriteDenial, TypeOK
    <2> QED
        BY <1>5, <2>1, PastKept DEF WriteDenial
<1>6. ASSUME NEW S, NEW how, Lose(S, how), how # "fresh", UNCHANGED <<accepted, lines>>,
             Range(buf') \subseteq Range(buf),
             \A e \in S : e \in InHand \/ how \in {"torn", "raced"}
      PROVE  Past'
    <2>1. \A e \in Events : fate'[e] = IF e \in S /\ e \notin accepted THEN how ELSE fate[e]
        BY <1>6, WrittenOff
    <2> QED
        BY <1>6, <2>1, PastKept
<1>7. ASSUME NEW w \in Workers, SendAccepted(w) \/ SendFails(w) \/ SendRefused(w)
      PROVE  Past'
    <2>1. UNCHANGED <<buf, lines>>
        BY <1>7 DEF SendAccepted, SendFails, SendRefused, SendUnchanged
    <2>2. CASE UNCHANGED fate /\ accepted' \in {accepted, accepted \cup Range(batch[w])}
        <3>1. \A e \in accepted' : e \in accepted \/ (fate[e] # "fresh" /\ e \notin Range(buf))
            BY <2>2, HeldByThread
        <3> QED
            BY <2>1, <2>2, <3>1, PastKept
    <2>3. CASE UNCHANGED accepted /\ Lose(Range(batch[w]), "rejected")
        BY <1>6, <2>1, <2>3, HeldByThread
    <2> QED
        BY <1>7, <2>2, <2>3 DEF SendAccepted, SendFails, SendRefused, Store
<1>8. ASSUME NEW w \in Workers, FileFull(w) \/ WriteFails(w) \/ AppendLine(w) \/ ShortWrite(w)
      PROVE  Past'
    <2>1. UNCHANGED <<buf, lines, accepted>> /\ pc[w] \in Busy /\ NextWrite(w)
        BY <1>8 DEF FileFull, WriteFails, AppendLine, ShortWrite, WriteUnchanged, Busy
    <2>2. Head(batch[w]) \in InHand
        BY <2>1, HeadTaken
    <2>3. CASE FileFull(w) \/ WriteFails(w)
        <3>1. \E how \in {"capped", "io"} : Lose({Head(batch[w])}, how)
            BY <2>3 DEF FileFull, WriteFails
        <3> QED
            BY <1>6, <2>1, <2>2, <3>1
    <2>4. CASE AppendLine(w) \/ ShortWrite(w)
        <3>1. UNCHANGED fate \/ \E S : Lose(S, "raced") \/ Lose(S, "torn")
            BY <2>4 DEF AppendLine, ShortWrite, Spoil
        <3> QED
            BY <1>1, <1>6, <2>1, <3>1
    <2> QED
        BY <1>8, <2>3, <2>4
<1>9. ASSUME NEW w \in Workers,
             \/ ListFiles(w) \/ ReadFile(w) \/ ReadFails(w) \/ ReplayAborts(w)
             \/ ResendAccepted(w) \/ ResendFails(w) \/ Unlink(w) \/ UnlinkFails(w)
      PROVE  Past'
    <2>1. UNCHANGED buf /\ accepted' \in {accepted, accepted \cup ChunkEvents(w)}
        BY <1>9 DEF ListFiles, ReadFile, ReadFails, ReplayAborts, ResendAccepted, ResendFails, Unlink,
                    UnlinkFails, ReplayUnchanged, Store
    <2>2. \A e \in accepted' : e \in accepted \/ (fate[e] # "fresh" /\ e \notin Range(buf))
        BY <2>1, ChunkRead DEF Places, ReadOut, InHand
    <2>3. UNCHANGED fate \/ \E S : Lose(S, "raced")
        BY <1>9 DEF ListFiles, ReadFile, ReadFails, ReplayAborts, ResendAccepted, ResendFails, Unlink,
                    UnlinkFails
    <2>4. \A e \in Events : fate'[e] = fate[e] \/ fate'[e] = "raced"
        BY <2>3, WrittenOff
    <2>5. \A v \in Workers, e \in Events :
              e \in Range(lines'[v]) => e \in Range(lines[v]) \cup OnDisk
        BY <1>9, ReadFromDisk
    <2> QED
        BY <2>1, <2>2, <2>4, <2>5, PastKept
<1>10. CASE Restart
    <2>1. Range(buf') = {} /\ \A w \in Workers : Range(lines'[w]) = {}
        BY <1>10, EmptyHolds DEF Restart
    <2>2. \A e \in Events : fate'[e] = IF e \in InHand /\ e \notin accepted
                                       THEN "crashed" ELSE fate[e]
        BY <1>10, WrittenOff DEF Restart
    <2> QED
        BY <1>10, <2>1, <2>2, PastKept DEF Restart
<1> QED
    BY <1>2, <1>3, <1>4, <1>5, <1>7, <1>8, <1>9, <1>10 DEF Next, Work

(***************************************************************************)
(* The ledger entry of an event.                                           *)
(***************************************************************************)

\* What each entry of the ledger says of the state.
LEMMA Entry ==
    ASSUME TypeOK, Places, StoredKnown, NEW e \in Events
    PROVE  /\ Ledger[e] = "stored" <=> e \in accepted
           /\ Ledger[e] = "held" <=> e \in InHand /\ e \notin accepted
           /\ Ledger[e] = "spilled" <=> e \in OnDisk /\ e \notin accepted
           /\ \A how \in Losses \cup {"fresh"} :
                  Ledger[e] = how <=> fate[e] = how /\ e \notin accepted
<1>1. Ledger[e] = IF e \in accepted THEN "stored"
                  ELSE IF fate[e] # "kept" THEN fate[e]
                  ELSE IF e \in OnDisk THEN "spilled" ELSE "held"
    BY DEF Ledger
<1>2. fate[e] \in Fates
    BY DEF TypeOK
<1>3. e \in InHand => e \notin OnDisk
    BY DEF Places, OnePlace, InHand, OnDisk
<1>4. e \in InHand \cup OnDisk => fate[e] = "kept"
    BY DEF Places, Kept
<1>5. fate[e] = "kept" => e \in InHand \cup OnDisk \cup accepted
    BY DEF Places, NothingVanishes
<1> QED
    BY <1>1, <1>2, <1>3, <1>4, <1>5 DEF Fates, Losses

\* Nothing is entered when nothing is stored, written off, or put on disk.
LEMMA NothingEntered ==
    ASSUME UNCHANGED <<accepted, fate>>, \A e \in Events \ accepted : e \in OnDisk' <=> e \in OnDisk
    PROVE  Ledger' = Ledger
BY DEF Ledger

\* An entry is made for each event of S when the others keep theirs.
LEMMA Entering ==
    ASSUME NEW S, NEW state,
           \A e \in Events : Ledger'[e] = IF e \in S THEN state ELSE Ledger[e]
    PROVE  AuditLedger!Enter(S, state)
<1>1. Ledger' = [e \in Events |-> Ledger'[e]]
    BY DEF Ledger
<1> QED
    BY <1>1 DEF AuditLedger!Enter

\* Writing events off enters their loss, if nothing else changes its place.
LEMMA LossEntered ==
    ASSUME TypeOK, NEW S, NEW how \in Losses, Lose(S, how), UNCHANGED accepted,
           \A e \in Events : e \in S \cup accepted \/ (e \in OnDisk' <=> e \in OnDisk)
    PROVE  AuditLedger!Enter((S \cap Events) \ accepted, how)
<1>1. \A e \in Events : fate'[e] = IF e \in S /\ e \notin accepted THEN how ELSE fate[e]
    BY WrittenOff
<1>2. ASSUME NEW e \in Events
      PROVE  Ledger'[e] = IF e \in (S \cap Events) \ accepted THEN how ELSE Ledger[e]
    BY <1>1 DEF Ledger, Losses
<1> QED
    BY <1>2, Entering

\* What sigil-core stores is entered as stored.
LEMMA StoreEntered ==
    ASSUME NEW S, Store(S), UNCHANGED fate, OnDisk' = OnDisk
    PROVE  AuditLedger!Enter(S \ accepted, "stored")
<1>1. ASSUME NEW e \in Events
      PROVE  Ledger'[e] = IF e \in S \ accepted THEN "stored" ELSE Ledger[e]
    BY DEF Ledger, Store
<1> QED
    BY <1>1, Entering

(***************************************************************************)
(* Counting.                                                               *)
(***************************************************************************)

\* A sequence holds at most as many events as it is long, and as many if no two are
\* the same.
LEMMA HeldCount ==
    ASSUME NEW S, NEW s \in Seq(S)
    PROVE  /\ IsFiniteSet(Range(s)) /\ Cardinality(Range(s)) <= Len(s)
           /\ Distinct(s) /\ Torn \notin Range(s) => Len(s) <= Cardinality(Range(s))
<1>1. Len(s) \in Nat /\ DOMAIN s = 1..Len(s) /\ s \in [1..Len(s) -> Range(s)]
    BY LenProperties DEF Range
<1>2. IsFiniteSet(1..Len(s)) /\ Cardinality(1..Len(s)) = Len(s)
    BY <1>1, FS_Interval
<1>3. s \in Surjection(1..Len(s), Range(s))
    BY <1>1 DEF Surjection, Range
<1>4. IsFiniteSet(Range(s)) /\ Cardinality(Range(s)) <= Len(s)
    BY <1>2, <1>3, FS_Surjection
<1>5. ASSUME Distinct(s), Torn \notin Range(s)
      PROVE  Len(s) <= Cardinality(Range(s))
    <2>1. s \in Injection(1..Len(s), Range(s))
        BY <1>1, <1>5 DEF Injection, IsInjective, Distinct, Range
    <2> QED
        BY <1>2, <1>4, <2>1, FS_Injection
<1> QED
    BY <1>4, <1>5

\* The abstract specification counts alike.
LEMMA SameCount ==
    ASSUME NEW S
    PROVE  AuditLedger!Cardinality(S) = Cardinality(S)
BY DEF AuditLedger!Cardinality, Cardinality

LEMMA SmallerSet ==
    ASSUME NEW S, IsFiniteSet(S), NEW n \in Nat, Cardinality(S) <= n, NEW R \in SUBSET S
    PROVE  IsFiniteSet(R) /\ Cardinality(R) <= n
<1>1. IsFiniteSet(R) /\ Cardinality(R) <= Cardinality(S)
    BY FS_Subset
<1>2. Cardinality(R) \in Nat /\ Cardinality(S) \in Nat
    BY <1>1, FS_CardinalityType
<1> QED
    BY <1>1, <1>2

\* Memory is finite: the ring, and what each of finitely many threads holds.
LEMMA MemoryFinite ==
    ASSUME TypeOK
    PROVE  IsFiniteSet(InHand)
<1> DEFINE f == [w \in Workers |-> Range(batch[w])]
           H == {Range(batch[w]) : w \in Workers}
<1>1. IsFiniteSet(Workers)
    BY ThreadsAssumption
<1>2. f \in Surjection(Workers, H)
    BY DEF Surjection
<1>3. IsFiniteSet(H)
    BY <1>1, <1>2, FS_Surjection
<1>4. \A w \in Workers : IsFiniteSet(Range(batch[w]))
    BY HeldCount DEF TypeOK
<1>5. IsFiniteSet(UNION H)
    BY <1>3, <1>4, FS_UNION
<1>6. IsFiniteSet(Range(buf))
    BY HeldCount DEF TypeOK
<1>7. IsFiniteSet(Range(buf) \cup UNION H)
    BY <1>5, <1>6, FS_Union
<1>8. InHand \subseteq Range(buf) \cup UNION H
    BY DEF InHand
<1> QED
    BY <1>7, <1>8, FS_Subset

\* The lines of a chunk are numbered from 1 to ReplayChunk at most, so it has no more.
LEMMA ChunkCount ==
    ASSUME TypeOK, NEW w \in Workers
    PROVE  IsFiniteSet(ChunkEvents(w)) /\ Cardinality(ChunkEvents(w)) <= MaxSendBatch
<1> DEFINE UpTo(i) == {j \in left[w] : j <= i}
           number == [i \in Chunk(w) |-> Cardinality(UpTo(i))]
           line == [i \in Chunk(w) |-> lines[w][i]]
<1>1. IsFiniteSet(left[w]) /\ left[w] \subseteq Nat
    <2>1. Len(lines[w]) \in Nat /\ DOMAIN lines[w] = 1..Len(lines[w])
        BY LenProperties DEF TypeOK
    <2>2. IsFiniteSet(1..Len(lines[w])) /\ left[w] \subseteq 1..Len(lines[w])
        <3>1. IsFiniteSet(1..Len(lines[w]))
            BY <2>1, FS_Interval
        <3> QED
            BY <2>1, <3>1 DEF TypeOK
    <2> QED
        BY <2>2, FS_Subset DEF TypeOK
<1>2. ASSUME NEW i \in left[w]
      PROVE  IsFiniteSet(UpTo(i)) /\ Cardinality(UpTo(i)) \in Nat \ {0}
    <2>1. IsFiniteSet(UpTo(i)) /\ i \in UpTo(i)
        BY <1>1, FS_Subset
    <2> QED
        BY <2>1, FS_EmptySet, FS_CardinalityType
<1>3. ASSUME NEW i \in left[w], NEW j \in left[w], i < j
      PROVE  Cardinality(UpTo(i)) # Cardinality(UpTo(j))
    <2>1. UpTo(i) \subseteq UpTo(j) \ {j} /\ j \in UpTo(j)
        BY <1>1, <1>3
    <2> HIDE DEF UpTo
    <2>2. IsFiniteSet(UpTo(j) \ {j}) /\ Cardinality(UpTo(j) \ {j}) = Cardinality(UpTo(j)) - 1
        BY <1>2, <2>1, FS_RemoveElement
    <2>3. Cardinality(UpTo(i)) <= Cardinality(UpTo(j) \ {j})
        BY <2>1, <2>2, FS_Subset
    <2> QED
        BY <1>2, <2>2, <2>3
<1>4. ReplayChunk \in Nat /\ ReplayChunk <= MaxSendBatch /\ MaxSendBatch \in Nat
    BY SizesAssumption
<1>5. \A i \in Chunk(w) : i \in left[w] /\ Cardinality(UpTo(i)) \in 1..ReplayChunk
    BY <1>2, <1>4 DEF Chunk
<1> HIDE DEF UpTo
<1>6. number \in Injection(Chunk(w), 1..ReplayChunk)
    <2>1. ASSUME NEW i \in Chunk(w), NEW j \in Chunk(w), number[i] = number[j]
          PROVE  i = j
        <3>1. i \in Nat /\ j \in Nat
            BY <1>1, <1>5
        <3>2. ~(i < j) /\ ~(j < i)
            BY <1>3, <1>5, <2>1
        <3> QED
            BY <3>1, <3>2
    <2> QED
        BY <1>5, <2>1 DEF Injection, IsInjective
<1>7. IsFiniteSet(Chunk(w)) /\ Cardinality(Chunk(w)) <= ReplayChunk
    <2>1. IsFiniteSet(1..ReplayChunk) /\ Cardinality(1..ReplayChunk) = ReplayChunk
        BY <1>4, FS_Interval
    <2> HIDE DEF number
    <2> QED
        BY <1>6, <2>1, FS_Injection
<1>8. line \in Surjection(Chunk(w), ChunkEvents(w))
    BY DEF Surjection, ChunkEvents
<1>9. IsFiniteSet(ChunkEvents(w)) /\ Cardinality(ChunkEvents(w)) <= Cardinality(Chunk(w))
    BY <1>7, <1>8, FS_Surjection
<1> QED
    BY <1>4, <1>7, <1>9, FS_CardinalityType

(***************************************************************************)
(* What each step enters.                                                  *)
(***************************************************************************)

LedgerStep == AuditLedger!LedgerNext \/ UNCHANGED Ledger

\* A request that sigil-core has stored delivers what it carried.
LEMMA Delivery ==
    ASSUME TypeOK, Places, Past, NEW S, S \subseteq Events, Encodable(S),
           IsFiniteSet(S), Cardinality(S) <= MaxSendBatch,
           \A e \in S : e \in InHand \cup OnDisk \cup accepted \/ fate[e] \in {"torn", "raced"},
           Store(S), UNCHANGED fate, OnDisk' = OnDisk
    PROVE  LedgerStep
<1>1. AuditLedger!Enter(S \ accepted, "stored")
    BY StoreEntered
<1>2. (S \ accepted) \cap Poison = {} /\ Cardinality(S \ accepted) <= MaxSendBatch
    BY SmallerSet, SizesAssumption DEF Encodable
<1>3. \A e \in S \ accepted : Ledger[e] \in {"held", "spilled", "torn", "raced"}
    BY Entry DEF Past, Losses
<1>4. S \ accepted \in SUBSET {e \in Events : Ledger[e] \in {"held", "spilled", "torn", "raced"}}
    BY <1>3
<1>5. AuditLedger!Deliver(S \ accepted)
    BY <1>1, <1>2, SameCount DEF AuditLedger!Deliver
<1> QED
    BY <1>4, <1>5 DEF LedgerStep, AuditLedger!LedgerNext

LEMMA SendEnters ==
    ASSUME IInv, Past, NEW w \in Workers, SendAccepted(w) \/ SendFails(w) \/ SendRefused(w)
    PROVE  LedgerStep
<1> USE DEF IInv
<1>1. OnDisk' = OnDisk
    BY DEF SendAccepted, SendFails, SendRefused, SendUnchanged, OnDisk
<1>2. /\ IsFiniteSet(Range(batch[w])) /\ Cardinality(Range(batch[w])) <= MaxSendBatch
      /\ Range(batch[w]) \subseteq Events /\ Range(batch[w]) \subseteq InHand
    <2>1. batch[w] \in Seq(Events) /\ Len(batch[w]) \in Nat /\ Len(batch[w]) <= MaxSendBatch
        BY LenProperties DEF TypeOK
    <2>2. IsFiniteSet(Range(batch[w])) /\ Cardinality(Range(batch[w])) <= Len(batch[w])
        BY <2>1, HeldCount
    <2>3. Cardinality(Range(batch[w])) \in Nat
        BY <2>2, FS_CardinalityType
    <2> QED
        BY <2>1, <2>2, <2>3, HeldByThread, SizesAssumption
<1>3. CASE UNCHANGED <<accepted, fate>>
    BY <1>1, <1>3, NothingEntered DEF LedgerStep
<1>4. CASE Encodable(Range(batch[w])) /\ Store(Range(batch[w])) /\ UNCHANGED fate
    BY <1>1, <1>2, <1>4, Delivery
<1>5. CASE /\ Encodable(Range(batch[w])) /\ UNCHANGED accepted
           /\ Lose(Range(batch[w]), "rejected")
    <2> DEFINE S == (Range(batch[w]) \cap Events) \ accepted
    <2>1. AuditLedger!Enter(S, "rejected")
        BY <1>1, <1>5, LossEntered DEF Losses
    <2>2. S \cap Poison = {} /\ Cardinality(S) <= MaxSendBatch
        BY <1>2, <1>5, SmallerSet, SizesAssumption DEF Encodable
    <2>3. \A e \in S : Ledger[e] = "held"
        BY <1>2, Entry DEF Past
    <2>4. S \in SUBSET AuditLedger!In("held")
        BY <2>3 DEF AuditLedger!In
    <2> HIDE DEF S
    <2> QED
        BY <2>1, <2>2, <2>4, SameCount DEF LedgerStep, AuditLedger!Reject, AuditLedger!LedgerNext
<1> QED
    BY <1>3, <1>4, <1>5 DEF SendAccepted, SendFails, SendRefused

\* Losing the event at hand, unless it was stored by a request whose answer was lost.
LEMMA LossInWrite ==
    ASSUME TypeOK, Places, Past, NEW e \in Events, e \in InHand, OnDisk' = OnDisk,
           UNCHANGED accepted, NEW how \in {"capped", "io", "raced"}, Lose({e}, how)
    PROVE  LedgerStep
<1>1. how \in Losses
    BY DEF Losses
<1>2. AuditLedger!Enter(({e} \cap Events) \ accepted, how)
    BY <1>1, LossEntered
<1>3. CASE e \in accepted
    <2>1. UNCHANGED fate
        BY <1>3 DEF Lose, TypeOK
    <2> QED
        BY <2>1, NothingEntered DEF LedgerStep
<1>4. CASE e \notin accepted
    <2>1. AuditLedger!Enter({e}, how)
        <3>1. ({e} \cap Events) \ accepted = {e}
            BY <1>4
        <3> QED
            BY <1>2, <3>1
    <2>2. Ledger[e] = "held"
        BY <1>4, Entry DEF Past
    <2> QED
        BY <2>1, <2>2 DEF LedgerStep, AuditLedger!LoseInWrite, AuditLedger!LedgerNext
<1> QED
    BY <1>3, <1>4

\* A line that is torn costs the event at hand, and one on disk at most.
LEMMA LossByTearing ==
    ASSUME TypeOK, Places, Past, NEW e \in Events, e \in InHand, NEW last,
           last \in Events => last \in OnDisk, UNCHANGED accepted,
           NEW S \in {{e}, {e, last}}, Lose(S, "torn"),
           \A x \in Events : x \in S \/ (x \in OnDisk' <=> x \in OnDisk)
    PROVE  LedgerStep
<1> DEFINE R == (S \cap Events) \ accepted
<1>1. AuditLedger!Enter(R, "torn")
    BY LossEntered DEF Losses
<1>2. ASSUME NEW x \in R
      PROVE  \/ x = e /\ Ledger[x] = "held"
             \/ x = last /\ Ledger[x] = "spilled"
    BY Entry DEF Past
<1>3. /\ R \in SUBSET (AuditLedger!In("held") \cup AuditLedger!In("spilled"))
      /\ R \cap AuditLedger!In("held") \in SUBSET {e}
      /\ R \cap AuditLedger!In("spilled") \in SUBSET {last}
    BY <1>2 DEF AuditLedger!In
<1> HIDE DEF R
<1>4. /\ IsFiniteSet({e}) /\ Cardinality({e}) = 1
      /\ IsFiniteSet({last}) /\ Cardinality({last}) = 1
    BY FS_Singleton
<1>5. /\ Cardinality(R \cap AuditLedger!In("held")) <= 1
      /\ Cardinality(R \cap AuditLedger!In("spilled")) <= 1
    BY <1>3, <1>4, SmallerSet
<1>6. AuditLedger!Tear(R)
    BY <1>1, <1>5, SameCount DEF AuditLedger!Tear
<1> QED
    BY <1>3, <1>6 DEF LedgerStep, AuditLedger!LedgerNext

LEMMA WriteEnters ==
    ASSUME IInv, Past, NEW w \in Workers,
           FileFull(w) \/ WriteFails(w) \/ AppendLine(w) \/ ShortWrite(w)
    PROVE  LedgerStep
<1> USE DEF IInv
<1> DEFINE e == Head(batch[w])
           d == fd[w]
<1>1. UNCHANGED <<buf, accepted>> /\ pc[w] \in Busy /\ NextWrite(w)
    BY DEF FileFull, WriteFails, AppendLine, ShortWrite, WriteUnchanged, Busy
<1>2. e \in Events /\ e \in InHand /\ e \notin OnDisk
    BY <1>1, HeadTaken
<1>3. ASSUME UNCHANGED disk, NEW how \in {"capped", "io", "raced"}, Lose({e}, how)
      PROVE  LedgerStep
    <2>1. OnDisk' = OnDisk
        BY <1>3 DEF OnDisk
    <2> QED
        BY <1>1, <1>2, <1>3, <2>1, LossInWrite
<1>4. \A line : disk' = [disk EXCEPT ![d] = line] /\ d \in 1..Days =>
          \A c \in 1..Days : disk'[c] = IF c = d THEN line ELSE disk[c]
    BY DEF TypeOK
<1>5. CASE d \in 1..Days /\ disk' = [disk EXCEPT ![d] = Append(disk[d], e)] /\ UNCHANGED fate
    <2>1. Range(Append(disk[d], e)) = Range(disk[d]) \cup {e}
        <3>1. disk[d] \in Seq(Events \cup {Torn}) /\ e \in Events \cup {Torn}
            BY <1>2, <1>5 DEF TypeOK
        <3> QED
            BY <3>1, AppendHolds
    <2>2. \A c \in 1..Days : disk'[c] = IF c = d THEN Append(disk[d], e) ELSE disk[c]
        BY <1>4, <1>5
    <2> HIDE DEF e
    <2>3. OnDisk' = OnDisk \cup {e}
        BY <1>2, <1>5, <2>1, <2>2 DEF OnDisk
    <2>4. CASE e \in accepted
        BY <1>1, <1>5, <2>3, <2>4, NothingEntered DEF LedgerStep
    <2>5. CASE e \notin accepted
        <3>1. Ledger[e] = "held" /\ fate[e] = "kept"
            BY <1>2, <2>5, Entry DEF Past, Places, Kept
        <3>2. \A x \in Events : Ledger'[x] = IF x \in {e} THEN "spilled" ELSE Ledger[x]
            BY <1>1, <1>5, <2>3, <2>5, <3>1 DEF Ledger
        <3>3. AuditLedger!Enter({e}, "spilled")
            BY <3>2, Entering
        <3> QED
            BY <1>2, <3>1, <3>3 DEF LedgerStep, AuditLedger!Spill, AuditLedger!LedgerNext
    <2> QED
        BY <2>4, <2>5
<1>6. CASE d \in 1..Days /\ disk' = [disk EXCEPT ![d] = Append(disk[d], Torn)] /\ Lose({e}, "torn")
    <2>1. Range(Append(disk[d], Torn)) = Range(disk[d]) \cup {Torn}
        <3>1. disk[d] \in Seq(Events \cup {Torn})
            BY <1>6 DEF TypeOK
        <3> QED
            BY <3>1, AppendHolds
    <2>2. \A c \in 1..Days : disk'[c] = IF c = d THEN Append(disk[d], Torn) ELSE disk[c]
        BY <1>4, <1>6
    <2> HIDE DEF e
    <2>3. OnDisk' = OnDisk
        BY <2>1, <2>2, EventsAssumption DEF OnDisk
    <2> QED
        BY <1>1, <1>2, <1>6, <2>3, EventsAssumption, LossByTearing
<1>7. CASE /\ d \in 1..Days /\ disk[d] # <<>>
           /\ disk' = [disk EXCEPT ![d] = [disk[d] EXCEPT ![Len(disk[d])] = Torn]]
           /\ Lose({e, disk[d][Len(disk[d])]}, "torn")
    <2> DEFINE t == [disk[d] EXCEPT ![Len(disk[d])] = Torn]
    <2>1. disk[d] \in Seq(Events \cup {Torn}) /\ Distinct(disk[d])
        BY <1>7 DEF TypeOK, Places, OnePlace
    <2>2. PICK last : last = disk[d][Len(disk[d])]
        OBVIOUS
    <2>3. /\ Range(t) \subseteq Range(disk[d]) \cup {Torn}
          /\ Range(disk[d]) \subseteq Range(t) \cup {last}
        BY <1>7, <2>1, <2>2, SpoilHolds
    <2>4. \A c \in 1..Days : disk'[c] = IF c = d THEN t ELSE disk[c]
        BY <1>4, <1>7
    <2>5. last \in Range(disk[d])
        <3>1. Len(disk[d]) \in DOMAIN disk[d]
            BY <1>7, <2>1, EmptySeq, LenProperties
        <3> QED
            BY <2>2, <3>1 DEF Range
    <2> HIDE DEF t, e
    <2>6. last \in Events => last \in OnDisk
        BY <1>7, <2>5 DEF OnDisk
    <2>7. \A x \in Events : x = last \/ (x \in OnDisk' <=> x \in OnDisk)
        BY <2>3, <2>4, EventsAssumption DEF OnDisk
    <2>8. Lose({e, last}, "torn")
        BY <1>7, <2>2
    <2> QED
        BY <1>1, <1>2, <2>6, <2>7, <2>8, LossByTearing
<1>8. CASE FileFull(w) \/ WriteFails(w)
    BY <1>3, <1>8 DEF FileFull, WriteFails
<1>9. CASE AppendLine(w) \/ ShortWrite(w)
    <2> HIDE DEF e
    <2> QED
        BY <1>3, <1>5, <1>6, <1>7, <1>9, LineWritten DEF e
<1> QED
    BY <1>8, <1>9

\* A replay delivers what it read, and unlinks with the file what came since.
LEMMA ReplayEnters ==
    ASSUME IInv, Past, NEW w \in Workers,
           \/ ListFiles(w) \/ ReadFile(w) \/ ReadFails(w) \/ ReplayAborts(w)
           \/ ResendAccepted(w) \/ ResendFails(w) \/ Unlink(w) \/ UnlinkFails(w)
    PROVE  LedgerStep
<1> USE DEF IInv
<1>1. CASE UNCHANGED <<disk, fate, accepted>>
    BY <1>1, NothingEntered DEF LedgerStep, OnDisk
<1>2. CASE UNCHANGED <<disk, fate>> /\ Encodable(ChunkEvents(w)) /\ Store(ChunkEvents(w))
    <2>1. OnDisk' = OnDisk
        BY <1>2 DEF OnDisk
    <2>2. \A e \in ChunkEvents(w) : e \in InHand \cup OnDisk \cup accepted \/ fate[e] \in {"torn", "raced"}
        BY ChunkRead DEF Past, ReadKept, Places, NothingVanishes
    <2>3. ChunkEvents(w) \subseteq Events
        BY ChunkRead
    <2> QED
        BY <1>2, <2>1, <2>2, <2>3, ChunkCount, Delivery
<1>3. CASE Unlink(w)
    <2>1. PICK d \in todo[w] : Unlink(w)!(d)
        BY <1>3 DEF Unlink
    <2>2. d \in 1..Days /\ \A c \in 1..Days : disk'[c] = IF c = d THEN <<>> ELSE disk[c]
        BY <2>1 DEF TypeOK
    <2> DEFINE S == Range(disk[d]) \ Range(lines[w])
               R == (S \cap Events) \ accepted
    <2>3. \A e \in Events : e \in Range(lines[w]) => e \in accepted
        <3> SUFFICES ASSUME NEW i \in DOMAIN lines[w], lines[w][i] \in Events
                     PROVE  lines[w][i] \in accepted
            BY DEF Range
        <3>1. left[w] = {}
            BY <2>1
        <3> QED
            BY <3>1, EventsAssumption DEF Replayed
    <2>4. ASSUME NEW e \in Events
          PROVE  e \in S \cup accepted \/ (e \in OnDisk' <=> e \in OnDisk)
        BY <2>2, <2>3, EmptyHolds DEF OnDisk
    <2>5. Lose(S, "raced") /\ UNCHANGED accepted
        BY <2>1
    <2>6. AuditLedger!Enter(R, "raced")
        BY <2>4, <2>5, LossEntered DEF Losses
    <2>7. \A e \in R : Ledger[e] = "spilled"
        BY <2>2, Entry DEF Past, OnDisk
    <2>8. R \in SUBSET AuditLedger!In("spilled")
        BY <2>7 DEF AuditLedger!In
    <2> HIDE DEF R
    <2> QED
        BY <2>6, <2>8 DEF LedgerStep, AuditLedger!Unlinked, AuditLedger!LedgerNext
<1> QED
    BY <1>1, <1>2, <1>3 DEF ListFiles, ReadFile, ReadFails, ReplayAborts, ResendAccepted, ResendFails, UnlinkFails

\* The end of the process costs what was in memory.
LEMMA RestartEnters ==
    ASSUME IInv, Past, Restart
    PROVE  LedgerStep
<1> USE DEF IInv
<1>1. OnDisk' = OnDisk /\ UNCHANGED accepted /\ Lose(InHand, "crashed")
    BY DEF Restart, OnDisk
<1>2. AuditLedger!Enter((InHand \cap Events) \ accepted, "crashed")
    BY <1>1, LossEntered DEF Losses
<1>3. (InHand \cap Events) \ accepted = AuditLedger!In("held")
    <2>1. \A e \in Events : Ledger[e] = "held" <=> e \in InHand /\ e \notin accepted
        BY Entry DEF Past
    <2> QED
        BY <2>1 DEF AuditLedger!In
<1> QED
    BY <1>2, <1>3 DEF LedgerStep, AuditLedger!Crash, AuditLedger!LedgerNext

\* A ring that is full holds RingCap events that were never sent.
LEMMA FullRing ==
    ASSUME TypeOK, Places, Past, Len(buf) = RingCap
    PROVE  Cardinality(AuditLedger!In("held")) >= RingCap
<1>1. buf \in Seq(Events) /\ Range(buf) \subseteq Events /\ Torn \notin Range(buf)
    BY RangeOfSeq, EventsAssumption DEF TypeOK
<1>2. RingCap <= Cardinality(Range(buf))
    BY <1>1, HeldCount DEF Places, OnePlace
<1>3. AuditLedger!In("held") \subseteq InHand
    BY Entry DEF Past, AuditLedger!In
<1>4. IsFiniteSet(AuditLedger!In("held"))
    BY <1>3, MemoryFinite, FS_Subset
<1>5. Range(buf) \subseteq AuditLedger!In("held")
    BY <1>1, Entry DEF Past, RingUnsent, InHand, AuditLedger!In
<1>6. Cardinality(Range(buf)) <= Cardinality(AuditLedger!In("held"))
    BY <1>4, <1>5, FS_Subset
<1>7. /\ RingCap \in Nat /\ Cardinality(AuditLedger!In("held")) \in Nat
      /\ Cardinality(Range(buf)) \in Nat
    <2>1. IsFiniteSet(Range(buf))
        BY <1>1, HeldCount
    <2> QED
        BY <1>4, <2>1, FS_CardinalityType, SizesAssumption
<1> QED
    BY <1>2, <1>6, <1>7

\* An event is recorded, and the oldest one makes room if the ring is full.
LEMMA RecordEnters ==
    ASSUME IInv, Past, NEW x \in Events, Push(x) \/ \E w \in Workers : WriteDenial(w, x)
    PROVE  LedgerStep
<1> USE DEF IInv
<1>1. /\ fate[x] = "fresh" /\ fate \in [Events -> Fates] /\ UNCHANGED accepted
      /\ OnDisk' = OnDisk
    BY DEF Push, WriteDenial, TypeOK, OnDisk
<1>2. x \notin accepted /\ x \notin OnDisk /\ x \notin InHand /\ Ledger[x] = "fresh"
    BY <1>1, Entry, FreshNowhere DEF Past, StoredKnown, InHand, OnDisk
<1>3. CASE \A e \in Events : fate'[e] = IF e = x THEN "kept" ELSE fate[e]
    <2>1. \A e \in Events : Ledger'[e] = IF e \in {x} THEN "held" ELSE Ledger[e]
        BY <1>1, <1>2, <1>3 DEF Ledger
    <2>2. AuditLedger!Enter({x}, "held")
        BY <2>1, Entering
    <2> QED
        BY <1>2, <2>2 DEF LedgerStep, AuditLedger!Record, AuditLedger!LedgerNext
<1>4. CASE Push(x) /\ Len(buf) = RingCap
    <2>1. buf \in Seq(Events) /\ buf # <<>>
        BY <1>4, EmptyLength, SizesAssumption DEF TypeOK
    <2>2. PICK old \in Events : old = Head(buf) /\ old \in Range(buf)
        BY <2>1, HeadTailHold
    <2>3. old # x /\ old \notin accepted /\ Ledger[old] = "held"
        BY <1>2, <2>2, Entry DEF Past, RingUnsent, InHand
    <2>4. fate' = [fate EXCEPT ![x] = "kept", ![old] = "evicted"]
        BY <1>4, <2>2 DEF Push
    <2>5. \A e \in Events : fate'[e] = IF e = old THEN "evicted" ELSE IF e = x THEN "kept" ELSE fate[e]
        BY <1>1, <2>4
    <2>6. \A e \in Events : Ledger'[e] = IF e = old THEN "evicted" ELSE IF e = x THEN "held" ELSE Ledger[e]
        BY <1>1, <1>2, <2>3, <2>5 DEF Ledger
    <2>7. Ledger' = [Ledger EXCEPT ![x] = "held", ![old] = "evicted"]
        <3>1. Ledger = [e \in Events |-> Ledger[e]] /\ Ledger' = [e \in Events |-> Ledger'[e]]
            BY DEF Ledger
        <3> QED
            BY <2>3, <2>6, <3>1
    <2>8. Cardinality(AuditLedger!In("held")) >= RingCap
        BY <1>4, FullRing
    <2>9. AuditLedger!RecordOver(x, old)
        BY <1>2, <2>3, <2>7, <2>8, SameCount DEF AuditLedger!RecordOver
    <2> QED
        BY <2>9 DEF LedgerStep, AuditLedger!LedgerNext
<1>5. CASE Push(x) /\ Len(buf) # RingCap
    <2>1. fate' = [fate EXCEPT ![x] = "kept", ![x] = "kept"]
        BY <1>5 DEF Push
    <2> QED
        BY <1>1, <1>3, <2>1
<1>6. CASE \E w \in Workers : WriteDenial(w, x)
    BY <1>1, <1>3, <1>6 DEF WriteDenial
<1> QED
    BY <1>4, <1>5, <1>6

\* Every step of the pipeline is a step of the ledger, or does not show in it.
LEMMA LedgerSimulation ==
    ASSUME IInv, Past, [Next]_vars
    PROVE  LedgerStep
<1>1. ASSUME \/ \E w \in Workers : Drain(w) \/ FlushAll(w) \/ Close(w) \/ OpenFile(w)
             \/ FlusherLoop \/ Midnight \/ UNCHANGED vars
      PROVE  LedgerStep
    <2>1. UNCHANGED <<disk, fate, accepted>>
        BY <1>1 DEF Drain, FlushAll, Close, OpenFile, WriteUnchanged, FlusherLoop, FlusherWakes,
                    FlusherClears, FlusherExits, Midnight, vars
    <2> QED
        BY <2>1, NothingEntered DEF LedgerStep, OnDisk
<1> QED
    BY <1>1, RecordEnters, SendEnters, WriteEnters, ReplayEnters, RestartEnters DEF Next, Work

\* Whatever the threads do, the audit pipeline keeps the ledger: what is on disk is not
\* lost with the process, what was stored stays stored, and every loss has its cause.
THEOREM LedgerImplemented == Spec => ImplementsLedger
<1>1. Init => AuditLedger!LedgerInit
    <2> SUFFICES ASSUME Init
                 PROVE  \A e \in Events : Ledger[e] = "fresh"
        BY DEF AuditLedger!LedgerInit, Ledger
    <2> QED
        BY DEF Init, Ledger
<1>2. Init => Past
    BY EmptyHolds DEF Init, Past, StoredKnown, RingUnsent, ReadKept
<1>3. IInv /\ IInv' /\ Past /\ [Next]_vars => Past'
    BY PastStep DEF IInv
<1>4. IInv /\ Past /\ [Next]_vars => [AuditLedger!LedgerNext]_Ledger
    BY LedgerSimulation DEF LedgerStep
<1> QED
    BY <1>1, <1>2, <1>3, <1>4, Inductive, PTL DEF Spec, ImplementsLedger, AuditLedger!LedgerSpec

=============================================================================
