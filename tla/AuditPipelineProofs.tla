------------------------ MODULE AuditPipelineProofs ------------------------
(***************************************************************************)
(* Theorems about AuditPipeline, for any number of threads, events, days   *)
(* and crashes.  The argument: an event is on its way in one place only,   *)
(* and is kept there (Places); a replay that has the file's lines to send  *)
(* has sent every line it took off its list (Replayed); so whatever is     *)
(* taken from its place goes to another one, is stored, or is written off. *)
(* A short write pays for two torn events; a file without a newline at its *)
(* end holds back what it has not used (Tears).                            *)
(***************************************************************************)
EXTENDS AuditPipeline, SequenceTheorems, FiniteSetTheorems, TLAPS

USE DEF ringVars, replayVars, diskVars

(***************************************************************************)
(* What the operations on sequences do to the events they hold.            *)
(***************************************************************************)

\* Appending adds one element, and keeps a sequence distinct that lacks it.
LEMMA AppendHolds ==
    ASSUME NEW S, NEW s \in Seq(S), NEW e \in S
    PROVE  /\ Append(s, e) \in Seq(S) /\ Len(Append(s, e)) = Len(s) + 1
           /\ Range(Append(s, e)) = Range(s) \cup {e}
           /\ Distinct(s) /\ (e \notin Range(s) \/ e = Torn) => Distinct(Append(s, e))
<1>1. /\ Append(s, e) \in Seq(S) /\ Len(Append(s, e)) = Len(s) + 1
      /\ DOMAIN Append(s, e) = 1..Len(s) + 1 /\ DOMAIN s = 1..Len(s)
      /\ \A i \in 1..Len(s) : Append(s, e)[i] = s[i]
      /\ Append(s, e)[Len(s) + 1] = e
    OBVIOUS
<1>2. DOMAIN Append(s, e) = DOMAIN s \cup {Len(s) + 1}
    BY <1>1, LenProperties
<1>3. Range(Append(s, e)) = Range(s) \cup {e}
    BY <1>1, <1>2 DEF Range
<1>4. ASSUME Distinct(s), e \notin Range(s) \/ e = Torn
      PROVE  Distinct(Append(s, e))
    BY <1>1, <1>2, <1>4 DEF Distinct, Range
<1> QED
    BY <1>1, <1>3, <1>4

\* A sequence that is not empty is its head and its tail.
LEMMA HeadTailHold ==
    ASSUME NEW S, NEW s \in Seq(S), s # <<>>
    PROVE  /\ Head(s) \in S /\ Tail(s) \in Seq(S) /\ Len(Tail(s)) = Len(s) - 1
           /\ Range(s) = {Head(s)} \cup Range(Tail(s))
           /\ Distinct(s) => Distinct(Tail(s)) /\ (Head(s) \notin Range(Tail(s)) \/ Head(s) = Torn)
<1>1. /\ Head(s) \in S /\ Tail(s) \in Seq(S) /\ Len(Tail(s)) = Len(s) - 1
      /\ \A i \in 1..Len(Tail(s)) : Tail(s)[i] = s[i + 1]
      /\ Head(s) = s[1] /\ Len(s) \in Nat \ {0}
    BY HeadTailProperties, EmptySeq
<1>2. DOMAIN s = 1..Len(s) /\ DOMAIN Tail(s) = 1..Len(Tail(s))
    BY <1>1, LenProperties
<1>3. ASSUME NEW x \in Range(s)
      PROVE  x = Head(s) \/ x \in Range(Tail(s))
    <2>1. PICK i \in 1..Len(s) : x = s[i]
        BY <1>2 DEF Range
    <2>2. CASE i = 1
        BY <1>1, <2>1, <2>2
    <2>3. CASE i # 1
        <3>1. i - 1 \in 1..Len(Tail(s)) /\ Tail(s)[i - 1] = s[i]
            BY <1>1, <2>3
        <3> QED
            BY <1>2, <2>1, <3>1 DEF Range
    <2> QED
        BY <2>2, <2>3
<1>4. ASSUME NEW x \in Range(Tail(s))
      PROVE  \E i \in 2..Len(s) : x = s[i] /\ x = Tail(s)[i - 1]
    BY <1>1, <1>2 DEF Range
<1>5. Range(s) = {Head(s)} \cup Range(Tail(s))
    <2>1. Range(Tail(s)) \subseteq Range(s)
        BY <1>2, <1>4 DEF Range
    <2>2. Head(s) \in Range(s)
        BY <1>1, <1>2 DEF Range
    <2> QED
        BY <1>3, <2>1, <2>2
<1>6. ASSUME Distinct(s)
      PROVE  Distinct(Tail(s)) /\ (Head(s) \notin Range(Tail(s)) \/ Head(s) = Torn)
    <2>1. Distinct(Tail(s))
        <3> SUFFICES ASSUME NEW i \in 1..Len(Tail(s)), NEW j \in 1..Len(Tail(s)),
                            Tail(s)[i] = Tail(s)[j]
                     PROVE  i = j \/ Tail(s)[i] = Torn
            BY <1>2 DEF Distinct
        <3>1. i + 1 \in DOMAIN s /\ j + 1 \in DOMAIN s /\ s[i + 1] = s[j + 1]
            BY <1>1, <1>2
        <3>2. i + 1 = j + 1 \/ s[i + 1] = Torn
            BY <1>6, <3>1 DEF Distinct
        <3> QED
            BY <1>1, <1>2, <3>2
    <2>2. ASSUME Head(s) \in Range(Tail(s))
          PROVE  Head(s) = Torn
        <3>1. PICK i \in 2..Len(s) : Head(s) = s[i]
            BY <1>4, <2>2
        <3>2. 1 \in DOMAIN s /\ i \in DOMAIN s /\ s[1] = s[i]
            BY <1>1, <1>2, <3>1
        <3> QED
            BY <1>1, <1>6, <3>1, <3>2 DEF Distinct
    <2> QED
        BY <2>1, <2>2
<1> QED
    BY <1>1, <1>5, <1>6

\* Cutting a sequence in two parts its elements.
LEMMA CutHolds ==
    ASSUME NEW S, NEW s \in Seq(S), NEW k \in 0..Len(s)
    PROVE  /\ SubSeq(s, 1, k) \in Seq(S) /\ SubSeq(s, k + 1, Len(s)) \in Seq(S)
           /\ Len(SubSeq(s, 1, k)) = k /\ Len(SubSeq(s, k + 1, Len(s))) = Len(s) - k
           /\ Range(s) = Range(SubSeq(s, 1, k)) \cup Range(SubSeq(s, k + 1, Len(s)))
           /\ Distinct(s) =>
                /\ Distinct(SubSeq(s, 1, k)) /\ Distinct(SubSeq(s, k + 1, Len(s)))
                /\ Range(SubSeq(s, 1, k)) \cap Range(SubSeq(s, k + 1, Len(s))) \subseteq {Torn}
<1>0. PICK n \in Nat : n = Len(s)
    BY LenProperties
<1>d. DOMAIN s = 1..n /\ k \in 0..n /\ \A i \in 1..n : s[i] \in S
    BY <1>0, LenProperties, ElementOfSeq
<1>1. /\ SubSeq(s, 1, k) \in Seq(S) /\ Len(SubSeq(s, 1, k)) = k
      /\ \A i \in 1..k : SubSeq(s, 1, k)[i] = s[i]
    <2>1. \A i \in 1..k : s[i] \in S
        BY <1>d
    <2> QED
        BY <2>1, SubSeqProperties, <1>d
<1>2. /\ SubSeq(s, k + 1, n) \in Seq(S) /\ Len(SubSeq(s, k + 1, n)) = n - k
      /\ \A i \in 1..n - k : SubSeq(s, k + 1, n)[i] = s[k + i]
    <2>1. \A i \in k + 1..n : s[i] \in S
        BY <1>d
    <2>2. /\ SubSeq(s, k + 1, n) \in Seq(S)
          /\ Len(SubSeq(s, k + 1, n)) = IF k + 1 <= n THEN n - (k + 1) + 1 ELSE 0
          /\ \A i \in 1..n - (k + 1) + 1 : SubSeq(s, k + 1, n)[i] = s[k + 1 + i - 1]
        BY <2>1, <1>d, SubSeqProperties
    <2> QED
        BY <2>2, <1>d
<1>3. /\ DOMAIN SubSeq(s, 1, k) = 1..k
      /\ DOMAIN SubSeq(s, k + 1, n) = 1..n - k
    BY <1>1, <1>2, LenProperties
<1>4. ASSUME NEW x
      PROVE  /\ x \in Range(SubSeq(s, 1, k)) <=> \E i \in 1..k : x = s[i]
             /\ x \in Range(SubSeq(s, k + 1, n)) <=> \E i \in k + 1..n : x = s[i]
    <2>1. x \in Range(SubSeq(s, 1, k)) <=> \E i \in 1..k : x = s[i]
        BY <1>1, <1>3 DEF Range
    <2>2. ASSUME NEW i \in k + 1..n, x = s[i]
          PROVE  x \in Range(SubSeq(s, k + 1, n))
        <3>1. i - k \in 1..n - k /\ SubSeq(s, k + 1, n)[i - k] = s[i]
            BY <1>2, <1>d
        <3> QED
            BY <1>3, <2>2, <3>1 DEF Range
    <2>3. ASSUME x \in Range(SubSeq(s, k + 1, n))
          PROVE  \E i \in k + 1..n : x = s[i]
        <3>1. PICK i \in 1..n - k : x = SubSeq(s, k + 1, n)[i]
            BY <1>3, <2>3 DEF Range
        <3>2. k + i \in k + 1..n /\ x = s[k + i]
            BY <1>2, <1>d, <3>1
        <3> QED
            BY <3>2
    <2> QED
        BY <2>1, <2>2, <2>3
<1>5. Range(s) = Range(SubSeq(s, 1, k)) \cup Range(SubSeq(s, k + 1, n))
    <2>1. \A x : x \in Range(s) <=> \E i \in 1..n : x = s[i]
        BY <1>d DEF Range
    <2>2. 1..n = (1..k) \cup (k + 1..n)
        BY <1>d
    <2> QED
        BY <1>4, <2>1, <2>2
<1>6. ASSUME Distinct(s)
      PROVE  /\ Distinct(SubSeq(s, 1, k)) /\ Distinct(SubSeq(s, k + 1, n))
             /\ Range(SubSeq(s, 1, k)) \cap Range(SubSeq(s, k + 1, n)) \subseteq {Torn}
    <2>1. \A i, j \in 1..n : s[i] = s[j] => i = j \/ s[i] = Torn
        BY <1>6, <1>d DEF Distinct
    <2>2. Distinct(SubSeq(s, 1, k))
        BY <2>1, <1>1, <1>3, <1>d DEF Distinct
    <2>3. Distinct(SubSeq(s, k + 1, n))
        <3> SUFFICES ASSUME NEW i \in 1..n - k, NEW j \in 1..n - k,
                            SubSeq(s, k + 1, n)[i] = SubSeq(s, k + 1, n)[j]
                     PROVE  i = j \/ SubSeq(s, k + 1, n)[i] = Torn
            BY <1>3 DEF Distinct
        <3>1. k + i \in 1..n /\ k + j \in 1..n /\ s[k + i] = s[k + j]
              /\ SubSeq(s, k + 1, n)[i] = s[k + i]
            BY <1>2, <1>d
        <3>2. k + i = k + j \/ s[k + i] = Torn
            BY <2>1, <3>1
        <3> QED
            BY <3>1, <3>2, <1>d
    <2>4. ASSUME NEW x \in Range(SubSeq(s, 1, k)) \cap Range(SubSeq(s, k + 1, n))
          PROVE  x = Torn
        <3>1. PICK i \in 1..k : x = s[i]
            BY <1>4, <2>4
        <3>2. PICK j \in k + 1..n : x = s[j]
            BY <1>4, <2>4
        <3>3. i \in 1..n /\ j \in 1..n /\ i # j
            BY <1>d
        <3> QED
            BY <2>1, <3>1, <3>2, <3>3
    <2> QED
        BY <2>2, <2>3, <2>4
<1> QED
    BY <1>0, <1>1, <1>2, <1>5, <1>6

\* Spoiling the last line takes one element away and adds an unreadable one.
LEMMA SpoilHolds ==
    ASSUME NEW S, NEW s \in Seq(S \cup {Torn}), s # <<>>
    PROVE  LET t == [s EXCEPT ![Len(s)] = Torn] IN
           /\ t \in Seq(S \cup {Torn}) /\ Len(t) = Len(s) /\ t # <<>>
           /\ s[Len(s)] \in S \cup {Torn}
           /\ Range(t) \subseteq Range(s) \cup {Torn}
           /\ Range(s) \subseteq Range(t) \cup {s[Len(s)]}
           /\ Distinct(s) => Distinct(t) /\ (s[Len(s)] \notin Range(t) \/ s[Len(s)] = Torn)
<1> DEFINE t == [s EXCEPT ![Len(s)] = Torn]
<1>0. PICK n \in Nat \ {0} : n = Len(s)
    BY EmptySeq
<1>1. DOMAIN s = 1..n /\ n \in 1..n /\ s[n] \in S \cup {Torn} /\ n \in 1..Len(s)
    BY <1>0, LenProperties, ElementOfSeq
<1>2. /\ t \in Seq(S \cup {Torn}) /\ Len(t) = n
      /\ \A j \in 1..n : t[j] = IF j = n THEN Torn ELSE s[j]
    BY <1>0, <1>1, ExceptSeq
<1>3. DOMAIN t = 1..n
    BY <1>1
<1>4. t # <<>>
    BY <1>2, EmptySeq
<1> HIDE DEF t
<1>5. /\ Range(t) \subseteq Range(s) \cup {Torn}
      /\ Range(s) \subseteq Range(t) \cup {s[n]}
    BY <1>1, <1>2, <1>3 DEF Range
<1>6. ASSUME Distinct(s)
      PROVE  Distinct(t) /\ (s[n] \notin Range(t) \/ s[n] = Torn)
    BY <1>1, <1>2, <1>3, <1>6 DEF Distinct, Range
<1> QED
    BY <1>0, <1>1, <1>2, <1>4, <1>5, <1>6 DEF t

LEMMA EmptyHolds ==
    Range(<<>>) = {} /\ Distinct(<<>>) /\ \A S : <<>> \in Seq(S)
BY EmptySeq DEF Range, Distinct

LEMMA EmptyLength ==
    ASSUME NEW S, NEW s \in Seq(S)
    PROVE  s = <<>> <=> Len(s) = 0
BY EmptySeq

LEMMA OneHolds ==
    ASSUME NEW S, NEW e \in S
    PROVE  <<e>> \in Seq(S) /\ <<e>> # <<>> /\ Len(<<e>>) = 1 /\ Range(<<e>>) = {e} /\ Distinct(<<e>>)
BY DEF Range, Distinct

(***************************************************************************)
(* Types and shapes.                                                       *)
(***************************************************************************)

Busy == {"send", "spill", "write"}

\* A thread holds a batch exactly while it is to be sent or written; a file open for
\* append exists; a line without a newline is a line; what is left to send is events.
Shape ==
    /\ \A w \in Workers : pc[w] \in Busy <=> batch[w] # <<>>
    /\ \A w \in Workers : fd[w] # None => fd[w] \in files
    /\ \A d \in ragged : disk[d] # <<>>
    /\ \A w \in Workers : \A i \in left[w] : lines[w][i] # Torn

LEMMA InitTyped == Init => TypeOK /\ Shape
<1> SUFFICES ASSUME Init
             PROVE  TypeOK /\ Shape
    OBVIOUS
<1> USE SizesAssumption, EmptyHolds, EmptySeq
<1>1. \A d \in 1..Days : disk[d] = <<>>
    BY DEF Init
<1>2. 1 \in 1..Days /\ 0 \in 0..CrashesMax /\ 0 \in 0..ShortWritesMax
    OBVIOUS
<1>3. /\ buf \in Seq(Events) /\ Len(buf) <= RingCap
      /\ batch \in [Workers -> Seq(Events)]
      /\ \A w \in Workers : Len(batch[w]) <= MaxSendBatch
      /\ lines \in [Workers -> Seq(Events \cup {Torn})]
      /\ disk \in [1..Days -> Seq(Events \cup {Torn})]
    BY DEF Init
<1>4. \A w \in Workers : left[w] \subseteq DOMAIN lines[w]
    BY DEF Init
<1>5. TypeOK
    BY <1>2, <1>3, <1>4 DEF Init, TypeOK, Fates
<1>6. Shape
    BY DEF Init, Shape, Busy
<1> QED
    BY <1>5, <1>6

\* An event written off keeps the history well formed.
LEMMA LoseTyped ==
    ASSUME fate \in [Events -> Fates], NEW S, NEW how \in Fates, Lose(S, how)
    PROVE  fate' \in [Events -> Fates]
BY DEF Lose

\* What a step of the writer does to the thread's batch.
LEMMA NextWriteTyped ==
    ASSUME TypeOK, Shape, NEW w \in Workers, pc[w] \in Busy, NextWrite(w)
    PROVE  /\ Head(batch[w]) \in Events
           /\ batch' \in [Workers -> Seq(Events)]
           /\ \A v \in Workers : Len(batch'[v]) <= MaxSendBatch
           /\ pc' \in [Workers -> {"idle", "clear", "drain", "send", "spill", "write",
                                   "list", "read", "resend", "exited"}]
           /\ \A v \in Workers : pc'[v] \in Busy <=> batch'[v] # <<>>
           /\ \A v \in Workers : batch'[v] = IF v = w THEN Tail(batch[w]) ELSE batch[v]
<1>1. batch[w] \in Seq(Events) /\ batch[w] # <<>> /\ Len(batch[w]) \in Nat
      /\ Len(batch[w]) <= MaxSendBatch
    BY EmptySeq DEF TypeOK, Shape
<1>2. /\ Head(batch[w]) \in Events /\ Tail(batch[w]) \in Seq(Events)
      /\ Len(Tail(batch[w])) = Len(batch[w]) - 1
    BY <1>1, HeadTailHold
<1>3. Tail(batch[w]) = <<>> <=> Len(batch[w]) = 1
    <2>1. Tail(batch[w]) = <<>> <=> Len(Tail(batch[w])) = 0
        BY <1>2, EmptyLength
    <2> QED
        BY <1>1, <1>2, <2>1
<1>4. /\ batch' \in [Workers -> Seq(Events)]
      /\ \A v \in Workers : batch'[v] = IF v = w THEN Tail(batch[w]) ELSE batch[v]
    BY <1>2 DEF NextWrite, TypeOK
<1>5. \A v \in Workers : Len(batch'[v]) <= MaxSendBatch
    BY <1>1, <1>2, <1>4, SizesAssumption DEF TypeOK
<1>6. /\ pc' \in [Workers -> {"idle", "clear", "drain", "send", "spill", "write",
                              "list", "read", "resend", "exited"}]
      /\ \A v \in Workers : pc'[v] = IF v # w THEN pc[v]
                                     ELSE IF Len(batch[w]) = 1 THEN "idle" ELSE "spill"
    BY DEF NextWrite, Goto, TypeOK
<1>7. \A v \in Workers : pc'[v] \in Busy <=> batch'[v] # <<>>
    BY <1>3, <1>4, <1>6 DEF Busy, Shape
<1> QED
    BY <1>2, <1>4, <1>5, <1>6, <1>7

\* A replay that goes on to the next file has read nothing of it.
LEMMA NextFileTyped ==
    ASSUME TypeOK, Shape, NEW w \in Workers, pc[w] \notin Busy,
           NEW rest \in SUBSET (1..Days), NextFile(w, rest), UNCHANGED batch
    PROVE  /\ todo' \in [Workers -> SUBSET (1..Days)]
           /\ lines' \in [Workers -> Seq(Events \cup {Torn})]
           /\ left' \in [Workers -> SUBSET Nat]
           /\ \A v \in Workers : left'[v] \subseteq DOMAIN lines'[v]
           /\ pc' \in [Workers -> {"idle", "clear", "drain", "send", "spill", "write",
                                   "list", "read", "resend", "exited"}]
           /\ \A v \in Workers : pc'[v] \in Busy <=> batch'[v] # <<>>
           /\ \A v \in Workers : lines'[v] = IF v = w THEN <<>> ELSE lines[v]
           /\ \A v \in Workers : left'[v] = IF v = w THEN {} ELSE left[v]
           /\ \A v \in Workers : \A i \in left'[v] : lines'[v][i] # Torn
<1>1. /\ lines' \in [Workers -> Seq(Events \cup {Torn})]
      /\ \A v \in Workers : lines'[v] = IF v = w THEN <<>> ELSE lines[v]
    BY EmptyHolds DEF NextFile, TypeOK
<1>2. /\ left' \in [Workers -> SUBSET Nat]
      /\ \A v \in Workers : left'[v] = IF v = w THEN {} ELSE left[v]
    BY DEF NextFile, TypeOK
<1>3. todo' \in [Workers -> SUBSET (1..Days)]
    BY DEF NextFile, TypeOK
<1>4. /\ pc' \in [Workers -> {"idle", "clear", "drain", "send", "spill", "write",
                              "list", "read", "resend", "exited"}]
      /\ \A v \in Workers : pc'[v] = IF v # w THEN pc[v]
                                     ELSE IF rest = {} THEN "drain" ELSE "read"
    BY DEF NextFile, Goto, TypeOK
<1>5. \A v \in Workers : pc'[v] \in Busy <=> batch'[v] # <<>>
    BY <1>4 DEF Busy, Shape
<1>6. \A v \in Workers : left'[v] \subseteq DOMAIN lines'[v]
    BY <1>1, <1>2 DEF TypeOK
<1>7. \A v \in Workers : \A i \in left'[v] : lines'[v][i] # Torn
    BY <1>1, <1>2 DEF Shape
<1> QED
    BY <1>1, <1>2, <1>3, <1>4, <1>5, <1>6, <1>7


\* Every step keeps the state well formed.  First the ring and those who flush it.
LEMMA RingTyped ==
    ASSUME TypeOK, Shape,
           \/ \E e \in Events : Push(e) \/ \E w \in Workers : WriteDenial(w, e)
           \/ \E w \in Workers : Drain(w) \/ FlushAll(w) \/ Close(w)
           \/ FlusherLoop \/ Midnight \/ Restart
    PROVE  TypeOK' /\ Shape'
<1> USE SizesAssumption, ThreadsAssumption
<1>1. ASSUME NEW e \in Events, Push(e)
      PROVE  TypeOK' /\ Shape'
    <2> DEFINE rest == IF Len(buf) = RingCap THEN Tail(buf) ELSE buf
    <2>1. buf \in Seq(Events) /\ Len(buf) \in Nat /\ Len(buf) <= RingCap
        BY LenProperties DEF TypeOK
    <2>2. rest \in Seq(Events) /\ Len(rest) + 1 <= RingCap
        <3>1. CASE Len(buf) = RingCap
            <4>1. buf # <<>>
                BY <3>1, EmptySeq
            <4> QED
                BY <2>1, <3>1, <4>1, HeadTailHold
        <3>2. CASE Len(buf) # RingCap
            BY <2>1, <3>2
        <3> QED
            BY <3>1, <3>2
    <2> HIDE DEF rest
    <2>3. buf' = Append(rest, e)
        BY <1>1 DEF Push, rest
    <2>4. buf' \in Seq(Events) /\ Len(buf') <= RingCap
        BY <2>2, <2>3, AppendHolds
    <2>5. fate' \in [Events -> Fates]
        BY <1>1 DEF Push, TypeOK, Fates, Losses
    <2>6. flushNow' \in BOOLEAN /\ owed' \subseteq Range(buf')
        BY <1>1 DEF Push, TypeOK
    <2> QED
        BY <1>1, <2>4, <2>5, <2>6 DEF Push, TypeOK, Shape
<1>2. ASSUME NEW e \in Events, NEW w \in Workers, WriteDenial(w, e)
      PROVE  TypeOK' /\ Shape'
    <2>1. <<e>> \in Seq(Events) /\ <<e>> # <<>> /\ Len(<<e>>) = 1
        BY OneHolds
    <2>2. /\ batch' \in [Workers -> Seq(Events)]
          /\ \A v \in Workers : batch'[v] = IF v = w THEN <<e>> ELSE batch[v]
        BY <1>2, <2>1 DEF WriteDenial, TypeOK
    <2>3. ASSUME NEW v \in Workers
          PROVE  Len(batch'[v]) <= MaxSendBatch
        <3>1. Len(<<e>>) <= MaxSendBatch
            BY <2>1
        <3> QED
            BY <2>2, <3>1 DEF TypeOK
    <2>4. \A v \in Workers : pc'[v] = IF v = w THEN "spill" ELSE pc[v]
        BY <1>2 DEF WriteDenial, Goto, TypeOK
    <2>5. fate' \in [Events -> Fates]
        BY <1>2 DEF WriteDenial, TypeOK, Fates
    <2>6. TypeOK'
        BY <1>2, <2>2, <2>3, <2>5 DEF WriteDenial, Goto, TypeOK
    <2> QED
        BY <1>2, <2>1, <2>2, <2>4, <2>6 DEF WriteDenial, Shape, Busy
<1>3. ASSUME NEW w \in Workers, Drain(w)
      PROVE  TypeOK' /\ Shape'
    <2>1. buf \in Seq(Events) /\ Len(buf) \in Nat /\ Len(buf) <= RingCap
        BY LenProperties DEF TypeOK
    <2>2. PICK count : count = Lowest(MaxSendBatch, Len(buf))
        OBVIOUS
    <2>3. count \in 0..Len(buf) /\ count <= MaxSendBatch
        BY <2>1, <2>2 DEF Lowest
    <2>4. /\ SubSeq(buf, 1, count) \in Seq(Events) /\ SubSeq(buf, count + 1, Len(buf)) \in Seq(Events)
          /\ Len(SubSeq(buf, 1, count)) = count
          /\ Len(SubSeq(buf, count + 1, Len(buf))) = Len(buf) - count
        BY <2>1, <2>3, CutHolds
    <2>5. count = 0 <=> SubSeq(buf, 1, count) = <<>>
        <3>1. Len(<<>>) = 0 /\ \A s \in Seq(Events) : s # <<>> => Len(s) \in Nat \ {0}
            BY EmptySeq
        <3> QED
            BY <2>3, <2>4, <3>1
    <2>6. /\ batch' \in [Workers -> Seq(Events)]
          /\ \A v \in Workers : batch'[v] = IF v = w THEN SubSeq(buf, 1, count) ELSE batch[v]
        BY <1>3, <2>2, <2>4 DEF Drain, TypeOK
    <2>7. \A v \in Workers : Len(batch'[v]) <= MaxSendBatch
        BY <2>3, <2>4, <2>6 DEF TypeOK
    <2>8. buf' \in Seq(Events) /\ Len(buf') <= RingCap
        BY <1>3, <2>1, <2>2, <2>3, <2>4 DEF Drain
    <2>9. \A v \in Workers : pc'[v] = IF v # w THEN pc[v]
                                      ELSE IF count = 0 THEN "idle" ELSE "send"
        BY <1>3, <2>2 DEF Drain, Goto, TypeOK
    <2>10. TypeOK'
        BY <1>3, <2>6, <2>7, <2>8 DEF Drain, Goto, TypeOK
    <2> QED
        BY <1>3, <2>5, <2>6, <2>9, <2>10 DEF Drain, Shape, Busy
<1>4. ASSUME NEW w \in Workers, FlushAll(w)
      PROVE  TypeOK' /\ Shape'
    BY <1>4 DEF FlushAll, Goto, TypeOK, Shape, Busy
<1>5. ASSUME NEW w \in Workers, Close(w)
      PROVE  TypeOK' /\ Shape'
    BY <1>5 DEF Close, Goto, TypeOK, Shape, Busy
<1>6. ASSUME FlusherLoop
      PROVE  TypeOK' /\ Shape'
    BY <1>6 DEF FlusherLoop, FlusherWakes, FlusherClears, FlusherExits, Goto, TypeOK, Shape, Busy
<1>7. ASSUME Midnight
      PROVE  TypeOK' /\ Shape'
    BY <1>7 DEF Midnight, TypeOK, Shape
<1>8. ASSUME Restart
      PROVE  TypeOK' /\ Shape'
    <2>1. fate' \in [Events -> Fates]
        BY <1>8, LoseTyped DEF Restart, TypeOK, Fates, Losses
    <2>2. /\ buf' \in Seq(Events) /\ Len(buf') <= RingCap
          /\ batch' \in [Workers -> Seq(Events)] /\ \A w \in Workers : Len(batch'[w]) <= MaxSendBatch
          /\ lines' \in [Workers -> Seq(Events \cup {Torn})]
        BY <1>8, EmptyHolds, EmptySeq DEF Restart
    <2>3. \A w \in Workers : left'[w] \subseteq DOMAIN lines'[w]
        BY <1>8 DEF Restart
    <2>4. crashes' \in 0..CrashesMax
        BY <1>8 DEF Restart, TypeOK
    <2>5. TypeOK'
        BY <1>8, <2>1, <2>2, <2>3, <2>4 DEF Restart, TypeOK
    <2> QED
        BY <1>8, <2>5 DEF Restart, Shape, Busy
<1> QED
    BY <1>1, <1>2, <1>3, <1>4, <1>5, <1>6, <1>7, <1>8


\* A thread that sends a batch.
LEMMA SendTyped ==
    ASSUME TypeOK, Shape, NEW w \in Workers,
           SendAccepted(w) \/ SendFails(w) \/ SendRefused(w)
    PROVE  TypeOK' /\ Shape'
<1>1. Range(batch[w]) \subseteq Events
    BY RangeOfSeq DEF TypeOK
<1>2. ASSUME SendAccepted(w) \/ SendRefused(w)
      PROVE  /\ batch' \in [Workers -> Seq(Events)]
             /\ \A v \in Workers : Len(batch'[v]) <= MaxSendBatch
             /\ \A v \in Workers : batch'[v] = IF v = w THEN <<>> ELSE batch[v]
    <2>1. /\ batch' \in [Workers -> Seq(Events)]
          /\ \A v \in Workers : batch'[v] = IF v = w THEN <<>> ELSE batch[v]
        <3>1. batch' = [batch EXCEPT ![w] = <<>>]
            BY <1>2 DEF SendAccepted, SendRefused
        <3>2. <<>> \in Seq(Events) /\ batch \in [Workers -> Seq(Events)]
            BY EmptyHolds DEF TypeOK
        <3> QED
            BY <3>1, <3>2
    <2>2. Len(<<>>) <= MaxSendBatch
        BY EmptyLength, EmptyHolds, SizesAssumption
    <2> QED
        BY <2>1, <2>2 DEF TypeOK
<1>3. CASE SendAccepted(w)
    <2>1. accepted' \subseteq Events
        BY <1>1, <1>3 DEF SendAccepted, Store, TypeOK
    <2>2. TypeOK'
        BY <1>2, <1>3, <2>1 DEF SendAccepted, SendUnchanged, Goto, TypeOK
    <2>3. \A v \in Workers : pc'[v] = IF v = w THEN "list" ELSE pc[v]
        BY <1>3 DEF SendAccepted, Goto, TypeOK
    <2> QED
        BY <1>2, <1>3, <2>2, <2>3 DEF SendAccepted, SendUnchanged, Shape, Busy
<1>4. CASE SendFails(w)
    <2>1. accepted' \subseteq Events
        BY <1>1, <1>4 DEF SendFails, Store, TypeOK
    <2>2. TypeOK'
        BY <1>4, <2>1 DEF SendFails, SendUnchanged, Goto, TypeOK
    <2>3. \A v \in Workers : pc'[v] = IF v = w THEN "spill" ELSE pc[v]
        BY <1>4 DEF SendFails, Goto, TypeOK
    <2> QED
        BY <1>4, <2>2, <2>3 DEF SendFails, SendUnchanged, Shape, Busy
<1>5. CASE SendRefused(w)
    <2>1. accepted' \subseteq Events
        BY <1>1, <1>5 DEF SendRefused, Store, TypeOK
    <2>2. fate' \in [Events -> Fates]
        BY <1>5, LoseTyped DEF SendRefused, TypeOK, Fates, Losses
    <2>3. TypeOK'
        BY <1>2, <1>5, <2>1, <2>2 DEF SendRefused, SendUnchanged, Goto, TypeOK
    <2>4. \A v \in Workers : pc'[v] = IF v = w THEN "idle" ELSE pc[v]
        BY <1>5 DEF SendRefused, Goto, TypeOK
    <2> QED
        BY <1>2, <1>5, <2>3, <2>4 DEF SendRefused, SendUnchanged, Shape, Busy
<1> QED
    BY <1>3, <1>4, <1>5

\* One more line in a file, or its last line spoilt.
LEMMA LineTyped ==
    ASSUME TypeOK, Shape, NEW d \in 1..Days, NEW line \in Events \cup {Torn},
           \/ disk' = [disk EXCEPT ![d] = Append(@, line)]
           \/ d \in ragged /\ disk' = [disk EXCEPT ![d][Len(disk[d])] = Torn]
    PROVE  /\ disk' \in [1..Days -> Seq(Events \cup {Torn})]
           /\ disk'[d] # <<>> /\ \A c \in 1..Days : c # d => disk'[c] = disk[c]
<1>1. disk[d] \in Seq(Events \cup {Torn})
    BY DEF TypeOK
<1>2. CASE disk' = [disk EXCEPT ![d] = Append(@, line)]
    <2>1. Append(disk[d], line) \in Seq(Events \cup {Torn}) /\ Append(disk[d], line) # <<>>
        <3>1. Append(disk[d], line) \in Seq(Events \cup {Torn})
              /\ Len(Append(disk[d], line)) = Len(disk[d]) + 1 /\ Len(disk[d]) \in Nat
            BY <1>1, AppendHolds, LenProperties
        <3>2. Append(disk[d], line) = <<>> <=> Len(Append(disk[d], line)) = 0
            BY <3>1, EmptyLength
        <3> QED
            BY <3>1, <3>2
    <2> QED
        BY <1>2, <2>1 DEF TypeOK
<1>3. CASE d \in ragged /\ disk' = [disk EXCEPT ![d][Len(disk[d])] = Torn]
    <2>1. [disk[d] EXCEPT ![Len(disk[d])] = Torn] \in Seq(Events \cup {Torn})
          /\ [disk[d] EXCEPT ![Len(disk[d])] = Torn] # <<>>
        BY <1>1, <1>3, SpoilHolds DEF Shape
    <2>2. disk' = [disk EXCEPT ![d] = [disk[d] EXCEPT ![Len(disk[d])] = Torn]]
        BY <1>3 DEF TypeOK
    <2> QED
        BY <2>1, <2>2 DEF TypeOK
<1> QED
    BY <1>2, <1>3

\* A thread that writes to the overflow.
LEMMA WriteTyped ==
    ASSUME TypeOK, Shape, NEW w \in Workers,
           \/ OpenFile(w) \/ FileFull(w) \/ WriteFails(w) \/ AppendLine(w) \/ ShortWrite(w)
    PROVE  TypeOK' /\ Shape'
<1>1. CASE OpenFile(w)
    <2>1. today \in 1..Days /\ today # None
        BY EventsAssumption DEF TypeOK
    <2>2. /\ fd' \in [Workers -> 1..Days \cup {None}] /\ files' \subseteq 1..Days
          /\ \A v \in Workers : fd'[v] = IF v = w THEN today ELSE fd[v]
        BY <1>1, <2>1 DEF OpenFile, TypeOK
    <2>3. TypeOK'
        BY <1>1, <2>2 DEF OpenFile, WriteUnchanged, Goto, TypeOK
    <2>4. \A v \in Workers : pc'[v] = IF v = w THEN "write" ELSE pc[v]
        BY <1>1 DEF OpenFile, Goto, TypeOK
    <2> QED
        BY <1>1, <2>2, <2>3, <2>4 DEF OpenFile, WriteUnchanged, Shape, Busy
<1>2. CASE FileFull(w)
    <2>1. fate' \in [Events -> Fates]
        BY <1>2, LoseTyped DEF FileFull, TypeOK, Fates, Losses
    <2>2. pc[w] \in Busy /\ NextWrite(w)
        BY <1>2 DEF FileFull, Busy
    <2>3. TypeOK'
        BY <1>2, <2>1, <2>2, NextWriteTyped DEF FileFull, WriteUnchanged, TypeOK
    <2> QED
        BY <1>2, <2>2, <2>3, NextWriteTyped DEF FileFull, WriteUnchanged, Shape
<1>3. CASE WriteFails(w)
    <2>1. fate' \in [Events -> Fates]
        BY <1>3, LoseTyped DEF WriteFails, TypeOK, Fates, Losses
    <2>2. pc[w] \in Busy /\ NextWrite(w)
        BY <1>3 DEF WriteFails, Busy
    <2>3. /\ fd' \in [Workers -> 1..Days \cup {None}]
          /\ \A v \in Workers : fd'[v] = IF v = w THEN None ELSE fd[v]
        BY <1>3 DEF WriteFails, TypeOK
    <2>4. TypeOK'
        BY <1>3, <2>1, <2>2, <2>3, NextWriteTyped DEF WriteFails, WriteUnchanged, TypeOK
    <2> QED
        BY <1>3, <2>2, <2>3, <2>4, NextWriteTyped DEF WriteFails, WriteUnchanged, Shape
<1>4. ASSUME AppendLine(w) \/ ShortWrite(w)
      PROVE  TypeOK' /\ Shape'
    <2>1. pc[w] \in Busy /\ NextWrite(w) /\ Head(batch[w]) \in Events
        BY <1>4, NextWriteTyped DEF AppendLine, ShortWrite, Busy
    <2>2. fate' \in [Events -> Fates]
        <3>1. \/ UNCHANGED fate
              \/ \E S : Lose(S, "raced") \/ Lose(S, "torn")
            BY <1>4 DEF AppendLine, ShortWrite, Spoil
        <3> QED
            BY <3>1, LoseTyped DEF TypeOK, Fates, Losses
    <2>3. /\ fd' \in [Workers -> 1..Days \cup {None}]
          /\ \A v \in Workers : fd'[v] = IF v = w THEN None ELSE fd[v]
        BY <1>4 DEF AppendLine, ShortWrite, TypeOK
    <2>4. fd[w] = None \/ (fd[w] \in 1..Days /\ fd[w] \in files)
        BY DEF TypeOK, Shape
    <2>5. \/ fd[w] = None /\ UNCHANGED <<disk, ragged>>
          \/ /\ fd[w] \in 1..Days /\ fd[w] \in files
             /\ \E line \in Events \cup {Torn} :
                  \/ disk' = [disk EXCEPT ![fd[w]] = Append(@, line)]
                  \/ fd[w] \in ragged /\ disk' = [disk EXCEPT ![fd[w]][Len(disk[fd[w]])] = Torn]
             /\ ragged' \in {ragged, ragged \ {fd[w]}, ragged \cup {fd[w]}}
        <3>1. CASE AppendLine(w)
            BY <3>1, <2>1, <2>4 DEF AppendLine, Spoil, TypeOK
        <3>2. CASE ShortWrite(w)
            BY <3>2, <2>1, <2>4 DEF ShortWrite, Spoil, TypeOK
        <3> QED
            BY <1>4, <3>1, <3>2
    <2>6. /\ disk' \in [1..Days -> Seq(Events \cup {Torn})]
          /\ ragged' \subseteq files
          /\ \A d \in ragged' : disk'[d] # <<>>
        <3>1. CASE fd[w] = None /\ UNCHANGED <<disk, ragged>>
            BY <3>1 DEF TypeOK, Shape
        <3>2. CASE ~(fd[w] = None /\ UNCHANGED <<disk, ragged>>)
            <4>1. /\ disk' \in [1..Days -> Seq(Events \cup {Torn})]
                  /\ disk'[fd[w]] # <<>> /\ \A c \in 1..Days : c # fd[w] => disk'[c] = disk[c]
                BY <2>5, <3>2, LineTyped
            <4> QED
                BY <2>5, <3>2, <4>1 DEF TypeOK, Shape
        <3> QED
            BY <3>1, <3>2
    <2>7. shorts' \in 0..ShortWritesMax
        BY <1>4, SizesAssumption DEF AppendLine, ShortWrite, TypeOK
    <2>8. UNCHANGED <<ringVars, stop, replayVars, today, accepted, crashes, owed, files>>
        BY <1>4 DEF AppendLine, ShortWrite, WriteUnchanged
    <2>9. TypeOK'
        BY <2>1, <2>2, <2>3, <2>6, <2>7, <2>8, NextWriteTyped DEF TypeOK
    <2> QED
        BY <2>1, <2>3, <2>6, <2>8, <2>9, NextWriteTyped DEF Shape
<1> QED
    BY <1>1, <1>2, <1>3, <1>4


\* A replay.
LEMMA ReplayTyped ==
    ASSUME TypeOK, Shape, NEW w \in Workers,
           \/ ListFiles(w) \/ ReadFile(w) \/ ReadFails(w) \/ ReplayAborts(w)
           \/ ResendAccepted(w) \/ ResendFails(w) \/ Unlink(w) \/ UnlinkFails(w)
    PROVE  TypeOK' /\ Shape'
<1>1. Chunk(w) \subseteq left[w] /\ ChunkEvents(w) \subseteq Events
    <2>1. \A i \in left[w] : lines[w][i] \in Events
        <3>1. lines[w] \in Seq(Events \cup {Torn}) /\ left[w] \subseteq DOMAIN lines[w]
            BY DEF TypeOK
        <3>2. \A i \in left[w] : lines[w][i] \in Events \cup {Torn}
            BY <3>1, ElementOfSeq, LenProperties
        <3> QED
            BY <3>2 DEF Shape
    <2> QED
        BY <2>1 DEF Chunk, ChunkEvents
<1>2. CASE ListFiles(w)
    <2>1. pc[w] \notin Busy /\ UNCHANGED batch
        BY <1>2 DEF ListFiles, ReplayUnchanged, Busy
    <2>2. PICK rest \in SUBSET (1..Days) : NextFile(w, rest)
        BY <1>2 DEF ListFiles, TypeOK
    <2>3. TypeOK'
        BY <1>2, <2>1, <2>2, NextFileTyped DEF ListFiles, ReplayUnchanged, TypeOK
    <2> QED
        BY <1>2, <2>1, <2>2, <2>3, NextFileTyped DEF ListFiles, ReplayUnchanged, Shape
<1>3. CASE ReadFile(w)
    <2>1. PICK d \in files : ReadFile(w)!(d)
        BY <1>3 DEF ReadFile
    <2>2. disk[d] \in Seq(Events \cup {Torn}) /\ DOMAIN disk[d] \subseteq Nat
        <3>1. disk[d] \in Seq(Events \cup {Torn})
            BY DEF TypeOK
        <3>2. Len(disk[d]) \in Nat /\ DOMAIN disk[d] = 1..Len(disk[d])
            BY <3>1, LenProperties
        <3> QED
            BY <3>1, <3>2
    <2>3. /\ lines' \in [Workers -> Seq(Events \cup {Torn})]
          /\ \A v \in Workers : lines'[v] = IF v = w THEN disk[d] ELSE lines[v]
        BY <2>1, <2>2 DEF TypeOK
    <2>4. /\ left' \in [Workers -> SUBSET Nat]
          /\ \A v \in Workers : left'[v] = IF v = w THEN {i \in DOMAIN disk[d] : disk[d][i] # Torn}
                                                    ELSE left[v]
        BY <2>1, <2>2 DEF TypeOK
    <2>5. \A v \in Workers : left'[v] \subseteq DOMAIN lines'[v]
        BY <2>3, <2>4 DEF TypeOK
    <2>6. TypeOK'
        BY <2>1, <2>3, <2>4, <2>5 DEF ReplayUnchanged, Goto, TypeOK
    <2>7. \A v \in Workers : pc'[v] = IF v = w THEN "resend" ELSE pc[v]
        BY <2>1 DEF Goto, TypeOK
    <2> QED
        BY <2>1, <2>3, <2>4, <2>6, <2>7 DEF ReplayUnchanged, Shape, Busy
<1>4. CASE ReadFails(w) \/ UnlinkFails(w)
    <2>1. PICK d \in todo[w] : ReadFails(w)!(d) \/ UnlinkFails(w)!(d)
        BY <1>4 DEF ReadFails, UnlinkFails
    <2>2. /\ pc[w] \notin Busy /\ NextFile(w, todo[w] \ {d}) /\ todo[w] \ {d} \in SUBSET (1..Days)
          /\ UNCHANGED <<ringVars, stop, batch, today, crashes, owed, diskVars, accepted, fate>>
        BY <2>1 DEF ReplayUnchanged, Busy, TypeOK
    <2>3. TypeOK'
        BY <2>2, NextFileTyped DEF TypeOK
    <2> QED
        BY <2>2, <2>3, NextFileTyped DEF Shape
<1>5. CASE ResendAccepted(w)
    <2>1. accepted' \subseteq Events
        BY <1>1, <1>5 DEF ResendAccepted, Store, TypeOK
    <2>2. /\ left' \in [Workers -> SUBSET Nat]
          /\ \A v \in Workers : left'[v] \subseteq left[v]
        BY <1>5 DEF ResendAccepted, TypeOK
    <2>3. TypeOK'
        BY <1>5, <2>1, <2>2 DEF ResendAccepted, ReplayUnchanged, TypeOK
    <2> QED
        BY <1>5, <2>2, <2>3 DEF ResendAccepted, ReplayUnchanged, Shape
<1>6. CASE ResendFails(w)
    <2>1. PICK d \in todo[w] : ResendFails(w)!(d)
        BY <1>6 DEF ResendFails
    <2>2. accepted' \subseteq Events
        BY <1>1, <2>1 DEF Store, TypeOK
    <2>3. /\ pc[w] \notin Busy /\ NextFile(w, todo[w] \ {d}) /\ todo[w] \ {d} \in SUBSET (1..Days)
          /\ UNCHANGED <<ringVars, stop, batch, today, crashes, owed, diskVars, fate>>
        BY <2>1 DEF ReplayUnchanged, Busy, TypeOK
    <2>4. TypeOK'
        BY <2>2, <2>3, NextFileTyped DEF TypeOK
    <2> QED
        BY <2>3, <2>4, NextFileTyped DEF Shape
<1>7. CASE Unlink(w)
    <2>1. PICK d \in todo[w] : Unlink(w)!(d)
        BY <1>7 DEF Unlink
    <2>2. d \in 1..Days /\ d # None /\ pc[w] \notin Busy /\ todo[w] \ {d} \in SUBSET (1..Days)
        BY <2>1, EventsAssumption DEF TypeOK, Busy
    <2>3. fate' \in [Events -> Fates]
        BY <2>1, LoseTyped DEF TypeOK, Fates, Losses
    <2>4. /\ disk' \in [1..Days -> Seq(Events \cup {Torn})]
          /\ \A c \in 1..Days : disk'[c] = IF c = d THEN <<>> ELSE disk[c]
        <3>1. <<>> \in Seq(Events \cup {Torn}) /\ disk \in [1..Days -> Seq(Events \cup {Torn})]
            BY EmptyHolds DEF TypeOK
        <3> QED
            BY <2>1, <3>1
    <2>5. /\ fd' \in [Workers -> 1..Days \cup {None}]
          /\ \A v \in Workers : fd'[v] = IF fd[v] = d THEN None ELSE fd[v]
        BY <2>1 DEF TypeOK
    <2>6. files' \subseteq 1..Days /\ ragged' \subseteq files'
        BY <2>1 DEF TypeOK
    <2>7. TypeOK'
        BY <2>1, <2>2, <2>3, <2>4, <2>5, <2>6, NextFileTyped DEF ReplayUnchanged, TypeOK
    <2> QED
        BY <2>1, <2>2, <2>4, <2>5, <2>7, NextFileTyped DEF ReplayUnchanged, Shape, TypeOK
<1>8. CASE ReplayAborts(w)
    <2>1. todo' \in [Workers -> SUBSET (1..Days)]
        BY <1>8 DEF ReplayAborts, TypeOK
    <2>2. /\ pc[w] \notin Busy
          /\ \A v \in Workers : pc'[v] = IF v = w THEN "idle" ELSE pc[v]
        BY <1>8 DEF ReplayAborts, Goto, Busy, TypeOK
    <2>3. TypeOK'
        BY <1>8, <2>1 DEF ReplayAborts, ReplayUnchanged, Goto, TypeOK
    <2> QED
        BY <1>8, <2>2, <2>3 DEF ReplayAborts, ReplayUnchanged, Shape, Busy
<1> QED
    BY <1>2, <1>3, <1>4, <1>5, <1>6, <1>7, <1>8

LEMMA StepTyped ==
    ASSUME TypeOK, Shape, [Next]_vars
    PROVE  TypeOK' /\ Shape'
<1>1. CASE UNCHANGED vars
    BY <1>1 DEF vars, TypeOK, Shape
<1> QED
    BY <1>1, RingTyped, SendTyped, WriteTyped, ReplayTyped DEF Next, Work

\* The state stays well formed: the ring, a batch and the history hold what they may.
THEOREM TypeCorrect == Spec => []TypeOK
<1>1. Init => TypeOK /\ Shape
    BY InitTyped
<1>2. TypeOK /\ Shape /\ [Next]_vars => TypeOK' /\ Shape'
    BY StepTyped
<1> QED
    BY <1>1, <1>2, PTL DEF Spec

(***************************************************************************)
(* The cap of a file.                                                      *)
(***************************************************************************)

Openers(d) == {w \in Workers : fd[w] = d}

\* Each thread with the file open may still add a line.
Bounded ==
    \A d \in 1..Days :
        Len(disk[d]) + Cardinality(Openers(d)) < FileCap + Cardinality(Workers)

\* Of a set of threads, those that stay in a smaller one are no more.
LEMMA FewerWorkers ==
    ASSUME NEW S \in SUBSET Workers, NEW R \in SUBSET S
    PROVE  /\ Cardinality(R) \in Nat /\ Cardinality(S) \in Nat /\ Cardinality(R) <= Cardinality(S)
           /\ \A w \in S \ R : Cardinality(R) + 1 <= Cardinality(S)
<1>1. IsFiniteSet(S) /\ IsFiniteSet(R)
    BY FS_Subset, ThreadsAssumption
<1>2. Cardinality(R) \in Nat /\ Cardinality(S) \in Nat /\ Cardinality(R) <= Cardinality(S)
    BY <1>1, FS_Subset, FS_CardinalityType
<1>3. ASSUME NEW w \in S \ R
      PROVE  Cardinality(R) + 1 <= Cardinality(S)
    <2>1. R \in SUBSET (S \ {w}) /\ IsFiniteSet(S \ {w})
        BY <1>1, FS_RemoveElement
    <2>2. Cardinality(S \ {w}) = Cardinality(S) - 1
        BY <1>1, FS_RemoveElement
    <2>3. Cardinality(R) <= Cardinality(S \ {w})
        BY <2>1, FS_Subset
    <2> QED
        BY <1>2, <2>2, <2>3
<1> QED
    BY <1>2, <1>3

\* What a write does to the files: the line is lost with its file, appended, cut
\* short, or glued to the line before it.
LEMMA LineWritten ==
    ASSUME TypeOK, Shape, NEW w \in Workers, AppendLine(w) \/ ShortWrite(w)
    PROVE  LET e == Head(batch[w])
               d == fd[w]
           IN  /\ pc[w] \in Busy /\ e \in Events /\ NextWrite(w)
               /\ \/ d = None /\ UNCHANGED disk /\ Lose({e}, "raced")
                  \/ /\ d \in 1..Days
                     /\ \/ disk' = [disk EXCEPT ![d] = Append(disk[d], e)] /\ UNCHANGED fate
                        \/ disk' = [disk EXCEPT ![d] = Append(disk[d], Torn)] /\ Lose({e}, "torn")
                        \/ /\ disk[d] # <<>>
                           /\ disk' = [disk EXCEPT ![d] = [disk[d] EXCEPT ![Len(disk[d])] = Torn]]
                           /\ Lose({e, disk[d][Len(disk[d])]}, "torn")
<1> DEFINE e == Head(batch[w])
           d == fd[w]
<1>1. pc[w] \in Busy /\ NextWrite(w) /\ e \in Events
    BY NextWriteTyped DEF AppendLine, ShortWrite, Busy
<1>2. d = None \/ d \in 1..Days
    BY DEF TypeOK
<1>3. ASSUME d \in 1..Days, d \in ragged, Spoil(d, e)
      PROVE  /\ disk[d] # <<>>
             /\ disk' = [disk EXCEPT ![d] = [disk[d] EXCEPT ![Len(disk[d])] = Torn]]
             /\ Lose({e, disk[d][Len(disk[d])]}, "torn")
    BY <1>3 DEF Spoil, Shape, TypeOK
<1>4. ASSUME NEW line, disk' = [disk EXCEPT ![d] = Append(@, line)]
      PROVE  disk' = [disk EXCEPT ![d] = Append(disk[d], line)]
    BY <1>4
<1>5. CASE AppendLine(w)
    <2>1. CASE d = None /\ Lose({e}, "raced") /\ UNCHANGED <<disk, ragged>>
        BY <1>1, <2>1
    <2>2. CASE d \in ragged /\ Spoil(d, e)
        <3>1. d \in 1..Days
            BY <2>2 DEF TypeOK
        <3> QED
            BY <1>1, <1>3, <2>2, <3>1
    <2>3. CASE d \notin ragged \cup {None} /\ disk' = [disk EXCEPT ![d] = Append(@, e)]
               /\ UNCHANGED <<fate, ragged>>
        BY <1>1, <1>2, <1>4, <2>3
    <2> QED
        BY <1>5, <2>1, <2>2, <2>3 DEF AppendLine
<1>6. CASE ShortWrite(w)
    <2>0. d \in 1..Days
        BY <1>2, <1>6 DEF ShortWrite
    <2>1. CASE d \in ragged /\ Spoil(d, e)
        BY <1>1, <1>3, <2>0, <2>1
    <2>2. CASE disk' = [disk EXCEPT ![d] = Append(@, e)] /\ UNCHANGED fate
        BY <1>1, <1>4, <2>0, <2>2
    <2>3. CASE disk' = [disk EXCEPT ![d] = Append(@, Torn)] /\ Lose({e}, "torn")
        BY <1>1, <1>4, <2>0, <2>3
    <2> QED
        BY <1>6, <2>1, <2>2, <2>3 DEF ShortWrite
<1> QED
    BY <1>5, <1>6

LEMMA BoundedStep ==
    ASSUME TypeOK, Shape, TypeOK', Bounded, [Next]_vars
    PROVE  Bounded'
<1> USE SizesAssumption
<1>1. ASSUME NEW d \in 1..Days, disk'[d] = disk[d], Openers(d)' \subseteq Openers(d)
      PROVE  Len(disk'[d]) + Cardinality(Openers(d)') < FileCap + Cardinality(Workers)
    <2>1. Len(disk[d]) \in Nat
        BY LenProperties DEF TypeOK
    <2>2. Openers(d) \subseteq Workers
        BY DEF Openers
    <2>3. Cardinality(Openers(d)') \in Nat /\ Cardinality(Openers(d)) \in Nat
          /\ Cardinality(Openers(d)') <= Cardinality(Openers(d))
        BY <1>1, <2>2, FewerWorkers
    <2>4. Cardinality(Workers) \in Nat
        BY FewerWorkers
    <2> QED
        BY <1>1, <2>1, <2>3, <2>4 DEF Bounded
<1>2. CASE UNCHANGED <<disk, fd>>
    BY <1>1, <1>2 DEF Bounded, Openers
<1>3. ASSUME NEW w \in Workers, OpenFile(w)
      PROVE  Bounded'
    <2>1. \A v \in Workers : fd'[v] = IF v = w THEN today ELSE fd[v]
        BY <1>3 DEF OpenFile, TypeOK
    <2>2. ASSUME NEW d \in 1..Days
          PROVE  Len(disk'[d]) + Cardinality(Openers(d)') < FileCap + Cardinality(Workers)
        <3>1. CASE d = today
            <4>1. Len(disk'[d]) < FileCap /\ Len(disk'[d]) \in Nat
                BY <1>3, <3>1, LenProperties DEF OpenFile, TypeOK
            <4>2. Openers(d)' \subseteq Workers
                BY DEF Openers
            <4>3. Cardinality(Openers(d)') \in Nat /\ Cardinality(Workers) \in Nat
                  /\ Cardinality(Openers(d)') <= Cardinality(Workers)
                BY <4>2, FewerWorkers
            <4> QED
                BY <4>1, <4>3
        <3>2. CASE d # today
            <4>1. disk'[d] = disk[d] /\ Openers(d)' \subseteq Openers(d)
                BY <1>3, <2>1, <3>2 DEF OpenFile, Openers
            <4> QED
                BY <1>1, <4>1
        <3> QED
            BY <3>1, <3>2
    <2> QED
        BY <2>2 DEF Bounded
<1>4. ASSUME NEW w \in Workers, AppendLine(w) \/ ShortWrite(w)
      PROVE  Bounded'
    <2>1. \A v \in Workers : fd'[v] = IF v = w THEN None ELSE fd[v]
        BY <1>4 DEF AppendLine, ShortWrite, TypeOK
    <2>2. ASSUME NEW d \in 1..Days
          PROVE  Len(disk'[d]) + Cardinality(Openers(d)') < FileCap + Cardinality(Workers)
        <3>0. d # None
            BY EventsAssumption
        <3>1. CASE fd[w] # d
            <4>1. disk'[d] = disk[d]
                BY <1>4, <3>1 DEF AppendLine, ShortWrite, Spoil, TypeOK
            <4>2. Openers(d)' \subseteq Openers(d)
                BY <2>1, <3>0, <3>1 DEF Openers
            <4> QED
                BY <1>1, <4>1, <4>2
        <3>2. CASE fd[w] = d
            <4>1. disk[d] \in Seq(Events \cup {Torn}) /\ Len(disk[d]) \in Nat
                BY LenProperties DEF TypeOK
            <4>2. \/ \E line \in Events \cup {Torn} : disk'[d] = Append(disk[d], line)
                  \/ disk'[d] = [disk[d] EXCEPT ![Len(disk[d])] = Torn] /\ disk[d] # <<>>
                <5>1. \/ disk' = [disk EXCEPT ![d] = Append(disk[d], Head(batch[w]))]
                      \/ disk' = [disk EXCEPT ![d] = Append(disk[d], Torn)]
                      \/ /\ disk' = [disk EXCEPT ![d] = [disk[d] EXCEPT ![Len(disk[d])] = Torn]]
                         /\ disk[d] # <<>>
                    BY <1>4, <3>0, <3>2, LineWritten
                <5>2. \A line : disk' = [disk EXCEPT ![d] = line] => disk'[d] = line
                    BY DEF TypeOK
                <5>3. Head(batch[w]) \in Events
                    BY <1>4, LineWritten
                <5> QED
                    BY <5>1, <5>2, <5>3
            <4>3. Len(disk'[d]) \in Nat /\ Len(disk'[d]) <= Len(disk[d]) + 1
                BY <4>1, <4>2, AppendHolds, SpoilHolds
            <4>4. w \in Openers(d) \ Openers(d)' /\ Openers(d)' \subseteq Openers(d)
                  /\ Openers(d) \subseteq Workers
                BY <2>1, <3>0, <3>2 DEF Openers
            <4>5. Cardinality(Openers(d)') + 1 <= Cardinality(Openers(d))
                  /\ Cardinality(Openers(d)') \in Nat /\ Cardinality(Openers(d)) \in Nat
                BY <4>4, FewerWorkers
            <4>6. Cardinality(Workers) \in Nat
                BY FewerWorkers
            <4> QED
                BY <4>1, <4>3, <4>5, <4>6 DEF Bounded
        <3> QED
            BY <3>1, <3>2
    <2> QED
        BY <2>2 DEF Bounded
<1>5. ASSUME NEW w \in Workers, Unlink(w)
      PROVE  Bounded'
    <2>1. PICK d \in todo[w] : Unlink(w)!(d)
        BY <1>5 DEF Unlink
    <2>2. d \in 1..Days /\ d # None
        BY EventsAssumption DEF TypeOK
    <2>3. ASSUME NEW c \in 1..Days
          PROVE  Len(disk'[c]) + Cardinality(Openers(c)') < FileCap + Cardinality(Workers)
        <3>1. CASE c = d
            <4>1. Openers(c)' = {} /\ disk'[c] = <<>>
                BY <2>1, <2>2, <3>1 DEF Openers, TypeOK
            <4>2. Cardinality(Openers(c)') = 0 /\ Len(disk'[c]) = 0
                BY <4>1, FS_EmptySet
            <4>3. Cardinality(Workers) \in Nat
                BY FewerWorkers
            <4> QED
                BY <4>2, <4>3
        <3>2. CASE c # d
            <4>1. disk'[c] = disk[c]
                BY <2>1, <2>2, <3>2 DEF TypeOK
            <4>2. Openers(c)' \subseteq Openers(c)
                <5>1. c # None
                    BY EventsAssumption
                <5> QED
                    BY <2>1, <3>2, <5>1 DEF Openers
            <4> QED
                BY <1>1, <4>1, <4>2
        <3> QED
            BY <3>1, <3>2
    <2> QED
        BY <2>3 DEF Bounded
<1>6. ASSUME UNCHANGED disk, \A w \in Workers : fd'[w] \in {fd[w], None}
      PROVE  Bounded'
    <2>1. ASSUME NEW d \in 1..Days
          PROVE  Openers(d)' \subseteq Openers(d)
        BY <1>6, EventsAssumption DEF Openers
    <2> QED
        BY <1>1, <1>6, <2>1 DEF Bounded
<1>7. ASSUME NEW w \in Workers, WriteFails(w)
      PROVE  Bounded'
    BY <1>6, <1>7 DEF WriteFails, TypeOK
<1>8. CASE Restart
    BY <1>6, <1>8 DEF Restart
<1>9. ASSUME NEW w \in Workers,
             \/ SendAccepted(w) \/ SendFails(w) \/ SendRefused(w) \/ FileFull(w)
             \/ ListFiles(w) \/ ReadFile(w) \/ ReadFails(w) \/ ReplayAborts(w)
             \/ ResendAccepted(w) \/ ResendFails(w) \/ UnlinkFails(w) \/ Drain(w) \/ FlushAll(w) \/ Close(w)
      PROVE  UNCHANGED <<disk, fd>>
    BY <1>9 DEF SendAccepted, SendFails, SendRefused, SendUnchanged, FileFull, ListFiles, ReadFile,
                ReadFails, ReplayAborts, ResendAccepted, ResendFails, UnlinkFails, Drain, FlushAll, Close
<1>10. ASSUME \/ \E e \in Events : Push(e) \/ \E w \in Workers : WriteDenial(w, e)
              \/ FlusherLoop \/ Midnight \/ UNCHANGED vars
       PROVE  UNCHANGED <<disk, fd>>
    BY <1>10 DEF Push, WriteDenial, FlusherLoop, FlusherWakes, FlusherClears, FlusherExits,
                 Midnight, vars
<1> QED
    BY <1>2, <1>3, <1>4, <1>5, <1>7, <1>8, <1>9, <1>10 DEF Next, Work

\* A file passes its cap by less than one line for each thread.
THEOREM FilesBounded == Spec => []FileBounded
<1>1. Init => TypeOK /\ Shape /\ Bounded
    <2> SUFFICES ASSUME Init
                 PROVE  Bounded
        BY InitTyped
    <2>1. ASSUME NEW d \in 1..Days
          PROVE  Len(disk[d]) = 0 /\ Openers(d) = {}
        BY EventsAssumption DEF Init, Openers
    <2>2. Cardinality(Workers) \in Nat
        BY FewerWorkers
    <2>3. \A d \in 1..Days : Cardinality(Openers(d)) = 0
        BY <2>1, FS_EmptySet
    <2>4. \A d \in 1..Days : Len(disk[d]) + Cardinality(Openers(d)) = 0
        BY <2>1, <2>3
    <2>5. 0 < FileCap + Cardinality(Workers)
        BY <2>2, SizesAssumption
    <2> QED
        BY <2>4, <2>5 DEF Bounded
<1>2. TypeOK /\ Shape /\ Bounded /\ [Next]_vars => TypeOK' /\ Shape' /\ Bounded'
    BY StepTyped, BoundedStep
<1>3. TypeOK /\ Bounded => FileBounded
    <2> SUFFICES ASSUME TypeOK, Bounded, NEW d \in 1..Days
                 PROVE  Len(disk[d]) < FileCap + Cardinality(Workers)
        BY DEF FileBounded
    <2>1. Len(disk[d]) \in Nat /\ Openers(d) \subseteq Workers
        BY LenProperties DEF TypeOK, Openers
    <2>2. Cardinality(Openers(d)) \in Nat /\ Cardinality(Workers) \in Nat
        BY <2>1, FewerWorkers
    <2> QED
        BY <2>1, <2>2, SizesAssumption DEF Bounded
<1> QED
    BY <1>1, <1>2, <1>3, PTL DEF Spec

(***************************************************************************)
(* Where the events are.                                                   *)
(***************************************************************************)

\* What is on its way is kept, and what a replay has read is not in hand again.
Kept == \A e \in InHand \cup OnDisk : fate[e] = "kept"

ReadOut == \A w \in Workers, e \in Events :
               e \in Range(lines[w]) => fate[e] # "fresh" /\ e \notin InHand

Places == OnePlace /\ Kept /\ ReadOut /\ NothingVanishes

\* What a replay took off its list has been stored.
Replayed == \A w \in Workers : \A i \in DOMAIN lines[w] :
                i \in left[w] \/ lines[w][i] = Torn \/ lines[w][i] \in accepted

\* A step that only takes events away keeps every event in its place, if it stores
\* or writes off what it takes, and nothing else.
LEMMA TakenAway ==
    ASSUME TypeOK, TypeOK', Places,
           Range(buf') \subseteq Range(buf), Distinct(buf'),
           \A w \in Workers : Range(batch'[w]) \subseteq Range(batch[w]) /\ Distinct(batch'[w]),
           \A d \in 1..Days : Range(disk'[d]) \subseteq Range(disk[d]) \cup {Torn} /\ Distinct(disk'[d]),
           accepted \subseteq accepted',
           \A e \in Events : \/ fate'[e] = fate[e]
                             \/ fate'[e] \notin {"fresh", "kept"} /\ e \notin InHand' \cup OnDisk',
           \A e \in InHand \cup OnDisk :
               e \in InHand' \cup OnDisk' \cup accepted' \/ fate'[e] # "kept",
           \A w \in Workers, e \in Events :
               e \in Range(lines'[w]) => e \in Range(lines[w]) \cup OnDisk
    PROVE  Places'
<1>1. /\ Torn \notin Range(buf) /\ Torn \notin Events
      /\ \A w \in Workers : Torn \notin Range(batch[w])
    BY EventsAssumption, RangeOfSeq DEF TypeOK
<1>2. InHand' \subseteq InHand /\ OnDisk' \subseteq OnDisk
    BY <1>1 DEF InHand, OnDisk
<1>3. OnePlace'
    <2>1. \A w \in Workers : Distinct(batch'[w]) /\ Range(batch'[w]) \cap Range(buf') = {}
        BY DEF Places, OnePlace
    <2>2. \A d \in 1..Days : Distinct(disk'[d]) /\ Range(disk'[d]) \cap Range(buf') = {}
        BY <1>1 DEF Places, OnePlace
    <2>3. \A w \in Workers, d \in 1..Days : Range(batch'[w]) \cap Range(disk'[d]) = {}
        BY <1>1 DEF Places, OnePlace
    <2>4. \A v, w \in Workers : v # w => Range(batch'[v]) \cap Range(batch'[w]) = {}
        BY DEF Places, OnePlace
    <2>5. \A c, d \in 1..Days : c # d => Range(disk'[c]) \cap Range(disk'[d]) \subseteq {Torn}
        BY DEF Places, OnePlace
    <2> QED
        BY <2>1, <2>2, <2>3, <2>4, <2>5 DEF OnePlace, Distinct
<1>4. Kept'
    <2> SUFFICES ASSUME NEW e \in Events, e \in InHand' \cup OnDisk'
                 PROVE  fate'[e] = "kept"
        BY DEF Kept, InHand, OnDisk
    <2> QED
        BY <1>2 DEF Places, Kept
<1>5. ReadOut'
    <2> SUFFICES ASSUME NEW w \in Workers, NEW e \in Events, e \in Range(lines'[w])
                 PROVE  fate'[e] # "fresh" /\ e \notin InHand'
        BY DEF ReadOut
    <2>1. fate[e] # "fresh" /\ e \notin InHand
        <3>1. CASE e \in Range(lines[w])
            BY <3>1 DEF Places, ReadOut
        <3>2. CASE e \in OnDisk
            BY <3>2 DEF Places, Kept, OnePlace, OnDisk, InHand
        <3> QED
            BY <3>1, <3>2
    <2> QED
        BY <1>2, <2>1
<1>6. NothingVanishes'
    <2> SUFFICES ASSUME NEW e \in Events, fate'[e] = "kept"
                 PROVE  e \in InHand' \cup OnDisk' \cup accepted'
        BY DEF NothingVanishes
    <2>1. fate[e] = "kept"
        OBVIOUS
    <2>2. e \in InHand \cup OnDisk \cup accepted
        BY <2>1 DEF Places, NothingVanishes
    <2> QED
        BY <2>2
<1> QED
    BY <1>3, <1>4, <1>5, <1>6 DEF Places

\* A step that moves events between the ring, the batches and the files: each event
\* is in one place afterwards too, and no event appears or disappears.
LEMMA Moved ==
    ASSUME TypeOK, TypeOK', Places, OnePlace', InHand' \subseteq InHand,
           InHand' \cup OnDisk' = InHand \cup OnDisk,
           UNCHANGED <<lines, accepted, fate>>
    PROVE  Places'
<1>1. Kept'
    BY DEF Places, Kept
<1>2. ReadOut'
    BY DEF Places, ReadOut
<1>3. NothingVanishes'
    BY DEF Places, NothingVanishes
<1> QED
    BY <1>1, <1>2, <1>3 DEF Places


\* A step that records an event, in the ring or in a batch.
LEMMA Entered ==
    ASSUME TypeOK, TypeOK', Places, OnePlace', NEW x \in Events,
           fate[x] = "fresh", fate'[x] = "kept",
           x \in InHand', InHand' \subseteq InHand \cup {x}, OnDisk' = OnDisk,
           \A e \in Events \ {x} :
               \/ fate'[e] = fate[e] /\ (e \in InHand => e \in InHand')
               \/ fate'[e] \notin {"fresh", "kept"} /\ e \notin InHand' \cup OnDisk,
           UNCHANGED <<lines, accepted>>
    PROVE  Places'
<1>1. Kept'
    <2> SUFFICES ASSUME NEW e \in Events, e \in InHand' \cup OnDisk
                 PROVE  fate'[e] = "kept"
        BY DEF Kept, InHand, OnDisk
    <2> QED
        BY DEF Places, Kept
<1>2. ReadOut'
    BY DEF Places, ReadOut
<1>3. NothingVanishes'
    BY DEF Places, NothingVanishes
<1> QED
    BY <1>1, <1>2, <1>3 DEF Places

\* A fresh event is nowhere.
LEMMA FreshNowhere ==
    ASSUME Places, NEW e \in Events, fate[e] = "fresh"
    PROVE  /\ e \notin Range(buf)
           /\ \A w \in Workers : e \notin Range(batch[w])
           /\ \A d \in 1..Days : e \notin Range(disk[d])
BY DEF Places, Kept, InHand, OnDisk

LEMMA PushPlaces ==
    ASSUME TypeOK, TypeOK', Places, NEW x \in Events, Push(x)
    PROVE  Places'
<1> DEFINE full == Len(buf) = RingCap
           rest == IF full THEN Tail(buf) ELSE buf
<1>1. buf \in Seq(Events) /\ fate[x] = "fresh" /\ fate \in [Events -> Fates] /\ Len(buf) \in Nat
    BY LenProperties DEF Push, TypeOK
<1>2. full => /\ Head(buf) \in Events /\ Range(buf) = {Head(buf)} \cup Range(rest)
              /\ Head(buf) \notin Range(rest)
    <2> SUFFICES ASSUME full
                 PROVE  /\ Head(buf) \in Events /\ Range(buf) = {Head(buf)} \cup Range(rest)
                        /\ Head(buf) \notin Range(rest)
        OBVIOUS
    <2>1. buf # <<>>
        BY <1>1, EmptyLength, SizesAssumption
    <2> QED
        BY <1>1, <2>1, HeadTailHold, EventsAssumption DEF Places, OnePlace
<1>3. ~full => rest = buf
    OBVIOUS
<1>4. rest \in Seq(Events) /\ Distinct(rest) /\ Range(rest) \subseteq Range(buf)
    <2>1. CASE full
        <3>1. buf # <<>>
            BY <1>1, <2>1, EmptyLength, SizesAssumption
        <3> QED
            BY <1>1, <2>1, <3>1, HeadTailHold DEF Places, OnePlace
    <2>2. CASE ~full
        BY <1>1, <2>2 DEF Places, OnePlace
    <2> QED
        BY <2>1, <2>2
<1>5. /\ x \notin Range(buf)
      /\ \A w \in Workers : x \notin Range(batch[w])
      /\ \A d \in 1..Days : x \notin Range(disk[d])
    BY <1>1, FreshNowhere
<1>6. buf' = Append(rest, x)
    BY DEF Push
<1> HIDE DEF rest
<1>7. Range(buf') = Range(rest) \cup {x} /\ Distinct(buf')
    BY <1>4, <1>5, <1>6, AppendHolds
<1>8. OnePlace'
    <2>1. UNCHANGED <<batch, disk>>
        BY DEF Push
    <2>2. \A w \in Workers : Range(batch[w]) \cap Range(buf') = {}
        BY <1>4, <1>5, <1>7 DEF Places, OnePlace
    <2>3. \A d \in 1..Days : Range(disk[d]) \cap Range(buf') = {}
        BY <1>4, <1>5, <1>7 DEF Places, OnePlace
    <2> QED
        BY <1>7, <2>1, <2>2, <2>3 DEF Places, OnePlace
<1>9. \A e \in Events : fate'[e] = IF full THEN IF e = Head(buf) THEN "evicted"
                                               ELSE IF e = x THEN "kept" ELSE fate[e]
                                   ELSE IF e = x THEN "kept" ELSE fate[e]
    <2>1. CASE full
        <3>1. fate' = [fate EXCEPT ![x] = "kept", ![Head(buf)] = "evicted"]
            BY <2>1 DEF Push
        <3> QED
            BY <1>1, <2>1, <3>1
    <2>2. CASE ~full
        <3>1. fate' = [fate EXCEPT ![x] = "kept", ![x] = "kept"]
            BY <2>2 DEF Push
        <3> QED
            BY <1>1, <2>2, <3>1
    <2> QED
        BY <2>1, <2>2
<1>10. full => Head(buf) # x /\ Head(buf) \in Range(buf)
    BY <1>2, <1>5
<1>11. fate'[x] = "kept"
    BY <1>9, <1>10
<1>12. OnDisk' = OnDisk /\ x \in InHand' /\ InHand' \subseteq InHand \cup {x}
    BY <1>4, <1>7 DEF Push, InHand, OnDisk
<1>13. ASSUME NEW e \in Events \ {x}
       PROVE  \/ fate'[e] = fate[e] /\ (e \in InHand => e \in InHand')
              \/ fate'[e] \notin {"fresh", "kept"} /\ e \notin InHand' \cup OnDisk
    <2>1. CASE full /\ e = Head(buf)
        <3>1. fate'[e] = "evicted"
            BY <1>9, <2>1
        <3>2. e \in Range(buf) /\ e \notin Range(rest)
            BY <1>2, <1>10, <2>1
        <3>3. e \notin InHand' \cup OnDisk
            BY <1>7, <3>2 DEF Push, InHand, OnDisk, Places, OnePlace
        <3> QED
            BY <3>1, <3>3
    <2>2. CASE ~(full /\ e = Head(buf))
        <3>1. fate'[e] = fate[e]
            BY <1>9, <2>2
        <3>2. e \in Range(buf) => e \in Range(buf')
            BY <1>2, <1>3, <1>7, <2>2
        <3>3. e \in InHand => e \in InHand'
            BY <3>2 DEF Push, InHand
        <3> QED
            BY <3>1, <3>3
    <2> QED
        BY <2>1, <2>2
<1> HIDE DEF full
<1>14. UNCHANGED <<lines, accepted>>
    BY DEF Push
<1> QED
    BY <1>1, <1>8, <1>11, <1>12, <1>13, <1>14, Entered

LEMMA DenialPlaces ==
    ASSUME TypeOK, TypeOK', Shape, Places, NEW x \in Events, NEW w \in Workers, WriteDenial(w, x)
    PROVE  Places'
<1>1. <<x>> \in Seq(Events) /\ Range(<<x>>) = {x} /\ Distinct(<<x>>) /\ Range(<<>>) = {}
    BY OneHolds, EmptyHolds
<1>2. /\ batch[w] = <<>> /\ fate[x] = "fresh"
      /\ \A v \in Workers : batch'[v] = IF v = w THEN <<x>> ELSE batch[v]
      /\ \A e \in Events : fate'[e] = IF e = x THEN "kept" ELSE fate[e]
    BY DEF WriteDenial, TypeOK, Shape, Busy
<1>3. /\ x \notin Range(buf)
      /\ \A v \in Workers : x \notin Range(batch[v])
      /\ \A d \in 1..Days : x \notin Range(disk[d])
    BY <1>2, FreshNowhere
<1>4. \A v \in Workers : Range(batch'[v]) = (IF v = w THEN {x} ELSE Range(batch[v]))
                         /\ Distinct(batch'[v])
    BY <1>1, <1>2 DEF Places, OnePlace
<1>5. UNCHANGED <<buf, disk, lines, accepted>>
    BY DEF WriteDenial
<1>6. OnePlace'
    <2>1. \A v \in Workers : Distinct(batch'[v]) /\ Range(batch'[v]) \cap Range(buf') = {}
        BY <1>3, <1>4, <1>5 DEF Places, OnePlace
    <2>2. \A v \in Workers, d \in 1..Days : Range(batch'[v]) \cap Range(disk'[d]) = {}
        BY <1>3, <1>4, <1>5 DEF Places, OnePlace
    <2>3. \A u, v \in Workers : u # v => Range(batch'[u]) \cap Range(batch'[v]) = {}
        BY <1>3, <1>4 DEF Places, OnePlace
    <2> QED
        BY <1>5, <2>1, <2>2, <2>3 DEF Places, OnePlace
<1>7. OnDisk' = OnDisk /\ InHand' = InHand \cup {x}
    <2>1. Range(batch[w]) = {}
        BY <1>1, <1>2
    <2> QED
        BY <1>4, <1>5, <2>1 DEF InHand, OnDisk
<1> QED
    BY <1>2, <1>5, <1>6, <1>7, Entered

LEMMA DrainPlaces ==
    ASSUME TypeOK, TypeOK', Shape, Places, NEW w \in Workers, Drain(w)
    PROVE  Places'
<1>1. PICK count : count = Lowest(MaxSendBatch, Len(buf))
    OBVIOUS
<1>2. buf \in Seq(Events) /\ count \in 0..Len(buf)
    BY <1>1, LenProperties, SizesAssumption DEF Lowest, TypeOK
<1>3. /\ \A v \in Workers : batch'[v] = IF v = w THEN SubSeq(buf, 1, count) ELSE batch[v]
      /\ buf' = SubSeq(buf, count + 1, Len(buf))
      /\ UNCHANGED <<disk, lines, accepted, fate>>
    BY <1>1 DEF Drain, TypeOK
<1>4. /\ Range(buf) = Range(batch'[w]) \cup Range(buf')
      /\ Distinct(batch'[w]) /\ Distinct(buf')
      /\ Range(batch'[w]) \cap Range(buf') \subseteq {Torn}
    BY <1>2, <1>3, CutHolds DEF Places, OnePlace
<1>5. Torn \notin Range(buf)
    BY RangeOfSeq, EventsAssumption DEF TypeOK
<1>6. batch[w] = <<>> /\ Range(batch[w]) = {}
    BY EmptyHolds DEF Drain, Shape, Busy
<1>7. OnePlace'
    <2>1. \A v \in Workers : v # w => batch'[v] = batch[v]
        BY <1>3
    <2>2. \A v \in Workers : Distinct(batch'[v]) /\ Range(batch'[v]) \cap Range(buf') = {}
        BY <1>4, <1>5, <2>1 DEF Places, OnePlace
    <2>3. \A d \in 1..Days : Distinct(disk'[d]) /\ Range(disk'[d]) \cap Range(buf') = {}
        BY <1>3, <1>4 DEF Places, OnePlace
    <2>4. \A v \in Workers, d \in 1..Days : Range(batch'[v]) \cap Range(disk'[d]) = {}
        BY <1>3, <1>4, <2>1 DEF Places, OnePlace
    <2>5. \A u, v \in Workers : u # v => Range(batch'[u]) \cap Range(batch'[v]) = {}
        BY <1>4, <2>1 DEF Places, OnePlace
    <2> QED
        BY <1>3, <1>4, <2>2, <2>3, <2>4, <2>5 DEF Places, OnePlace
<1>8. InHand' = InHand /\ OnDisk' = OnDisk
    BY <1>3, <1>4, <1>6 DEF InHand, OnDisk
<1> QED
    BY <1>3, <1>7, <1>8, Moved


\* Writing an event off leaves the others' history as it is.
LEMMA WrittenOff ==
    ASSUME TypeOK, NEW S, NEW how, Lose(S, how)
    PROVE  \A e \in Events : fate'[e] = IF e \in S /\ e \notin accepted THEN how ELSE fate[e]
BY DEF Lose, TypeOK

\* A thread that sends takes the batch out of its hands, or leaves it there.
LEMMA SendPlaces ==
    ASSUME TypeOK, TypeOK', Shape, Places, NEW w \in Workers,
           SendAccepted(w) \/ SendFails(w) \/ SendRefused(w)
    PROVE  Places'
<1>1. UNCHANGED <<buf, disk, lines>>
    BY DEF SendAccepted, SendFails, SendRefused, SendUnchanged
<1>2. \A v \in Workers : v # w => batch'[v] = batch[v]
    BY DEF SendAccepted, SendFails, SendRefused, TypeOK
<1>3. batch'[w] = batch[w] \/ (Range(batch'[w]) = {} /\ Distinct(batch'[w]))
    BY EmptyHolds DEF SendAccepted, SendFails, SendRefused, TypeOK
<1>4. /\ \A v \in Workers : Range(batch'[v]) \subseteq Range(batch[v]) /\ Distinct(batch'[v])
      /\ Distinct(buf) /\ \A d \in 1..Days : Distinct(disk[d])
    BY <1>2, <1>3 DEF Places, OnePlace
<1>5. accepted \subseteq accepted'
    BY DEF SendAccepted, SendFails, SendRefused, Store
<1>6. OnDisk' = OnDisk /\ \A e \in InHand : e \in InHand' \/ e \in Range(batch[w]) \ Range(batch'[w])
    BY <1>1, <1>2 DEF OnDisk, InHand
<1>7. CASE Range(batch[w]) \subseteq accepted' /\ UNCHANGED fate
    <2> HIDE DEF Lose
    <2> QED
        BY <1>1, <1>4, <1>5, <1>6, <1>7, TakenAway
<1>8. CASE batch'[w] = batch[w] /\ UNCHANGED fate
    BY <1>1, <1>4, <1>5, <1>6, <1>8, TakenAway
<1>9. CASE Lose(Range(batch[w]), "rejected") /\ Range(batch'[w]) = {} /\ UNCHANGED accepted
    <2>1. \A e \in Events : fate'[e] = IF e \in Range(batch[w]) /\ e \notin accepted
                                       THEN "rejected" ELSE fate[e]
        BY <1>9, WrittenOff
    <2>2. \A e \in Events : e \in Range(batch[w]) => e \notin InHand' \cup OnDisk'
        BY <1>1, <1>2, <1>9 DEF InHand, OnDisk, Places, OnePlace
    <2>3. \A e \in Events : \/ fate'[e] = fate[e]
                            \/ fate'[e] \notin {"fresh", "kept"} /\ e \notin InHand' \cup OnDisk'
        BY <2>1, <2>2
    <2>4. \A e \in InHand \cup OnDisk :
              e \in InHand' \cup OnDisk' \cup accepted' \/ fate'[e] # "kept"
        BY <1>5, <1>6, <2>1 DEF InHand
    <2> QED
        BY <1>1, <1>4, <1>5, <2>3, <2>4, TakenAway
<1> QED
    <2>1. CASE SendAccepted(w)
        BY <1>7, <2>1 DEF SendAccepted, Store
    <2>2. CASE SendFails(w)
        BY <1>8, <2>2 DEF SendFails
    <2>3. CASE SendRefused(w)
        <3>1. Range(batch'[w]) = {}
            BY <2>3, EmptyHolds DEF SendRefused, TypeOK
        <3> QED
            BY <1>7, <1>9, <2>3, <3>1 DEF SendRefused, Store
    <2> QED
        BY <2>1, <2>2, <2>3

\* Writing takes the first event out of the batch.
LEMMA HeadTaken ==
    ASSUME TypeOK, Shape, Places, NEW w \in Workers, pc[w] \in Busy, NextWrite(w), UNCHANGED buf
    PROVE  LET e == Head(batch[w]) IN
           /\ e \in Events /\ e \in InHand /\ e \notin InHand' /\ e \notin OnDisk
           /\ InHand' \cup {e} = InHand
           /\ \A v \in Workers : Range(batch'[v]) \subseteq Range(batch[v]) /\ Distinct(batch'[v])
           /\ \A v \in Workers : e \notin Range(batch'[v])
<1> DEFINE e == Head(batch[w])
<1>1. batch[w] \in Seq(Events) /\ batch[w] # <<>> /\ Distinct(batch[w]) /\ e # Torn
    BY EventsAssumption, NextWriteTyped DEF TypeOK, Shape, Places, OnePlace
<1>2. /\ e \in Events /\ Range(batch[w]) = {e} \cup Range(Tail(batch[w]))
      /\ Distinct(Tail(batch[w])) /\ e \notin Range(Tail(batch[w]))
    BY <1>1, HeadTailHold
<1>3. \A v \in Workers : batch'[v] = IF v = w THEN Tail(batch[w]) ELSE batch[v]
    BY NextWriteTyped
<1> HIDE DEF e
<1>4. \A v \in Workers : Range(batch'[v]) \subseteq Range(batch[v]) /\ Distinct(batch'[v])
    BY <1>2, <1>3 DEF Places, OnePlace
<1>5. \A v \in Workers : e \notin Range(batch'[v])
    BY <1>2, <1>3 DEF Places, OnePlace
<1>6. e \in InHand /\ e \notin InHand' /\ e \notin OnDisk
    BY <1>2, <1>5 DEF InHand, OnDisk, Places, OnePlace
<1>7. InHand' \cup {e} = InHand
    BY <1>2, <1>3, <1>6 DEF InHand
<1> QED
    BY <1>2, <1>4, <1>5, <1>6, <1>7 DEF e


\* A write that loses the event, or leaves it in the file; one that spoils a line
\* loses that line's event too.
LEMMA WritePlaces ==
    ASSUME TypeOK, TypeOK', Shape, Places, NEW w \in Workers,
           \/ OpenFile(w) \/ FileFull(w) \/ WriteFails(w) \/ AppendLine(w) \/ ShortWrite(w)
    PROVE  Places'
<1> DEFINE e == Head(batch[w])
<1>1. UNCHANGED <<buf, lines, accepted>>
    BY DEF OpenFile, FileFull, WriteFails, AppendLine, ShortWrite, WriteUnchanged
<1>2. Distinct(buf) /\ \A d \in 1..Days : Distinct(disk[d])
    BY DEF Places, OnePlace
<1>3. CASE OpenFile(w)
    <2>1. UNCHANGED <<batch, disk, fate>> /\ \A v \in Workers : Distinct(batch[v])
        BY <1>3 DEF OpenFile, Places, OnePlace
    <2>2. InHand' = InHand /\ OnDisk' = OnDisk
        BY <1>1, <2>1 DEF InHand, OnDisk
    <2> QED
        BY <1>1, <1>2, <2>1, <2>2, TakenAway
<1>4. ASSUME pc[w] \in Busy, NextWrite(w), NEW how \in {"capped", "io", "raced"},
             Lose({e}, how), UNCHANGED disk
      PROVE  Places'
    <2>1. /\ e \in Events /\ e \in InHand /\ e \notin InHand' /\ e \notin OnDisk
          /\ InHand' \cup {e} = InHand
          /\ \A v \in Workers : Range(batch'[v]) \subseteq Range(batch[v]) /\ Distinct(batch'[v])
        BY <1>1, <1>4, HeadTaken
    <2>2. OnDisk' = OnDisk
        BY <1>4 DEF OnDisk
    <2>3. \A x \in Events : fate'[x] = IF x = e /\ x \notin accepted THEN how ELSE fate[x]
        <3>1. \A x \in Events : fate'[x] = IF x \in {e} /\ x \notin accepted THEN how ELSE fate[x]
            BY <1>4, WrittenOff
        <3> QED
            BY <3>1
    <2> HIDE DEF e
    <2>4. \A x \in Events : \/ fate'[x] = fate[x]
                            \/ fate'[x] \notin {"fresh", "kept"} /\ x \notin InHand' \cup OnDisk'
        BY <2>1, <2>2, <2>3
    <2>5. \A x \in InHand \cup OnDisk :
              x \in InHand' \cup OnDisk' \cup accepted' \/ fate'[x] # "kept"
        BY <1>1, <2>1, <2>2, <2>3
    <2> QED
        BY <1>1, <1>2, <1>4, <2>1, <2>4, <2>5, TakenAway
<1>5. CASE FileFull(w)
    BY <1>4, <1>5 DEF FileFull, Busy
<1>6. CASE WriteFails(w)
    BY <1>4, <1>6 DEF WriteFails, Busy
<1>7. ASSUME AppendLine(w) \/ ShortWrite(w)
      PROVE  Places'
    <2> DEFINE d == fd[w]
    <2>0. pc[w] \in Busy /\ NextWrite(w)
        BY <1>7, LineWritten
    <2>1. /\ e \in Events /\ e \in InHand /\ e \notin InHand' /\ e \notin OnDisk
          /\ InHand' \cup {e} = InHand
          /\ \A v \in Workers : Range(batch'[v]) \subseteq Range(batch[v]) /\ Distinct(batch'[v])
          /\ \A v \in Workers : e \notin Range(batch'[v])
        BY <1>1, <2>0, HeadTaken
    <2>2. e \notin Range(buf) /\ \A c \in 1..Days : e \notin Range(disk[c])
        <3>1. PICK v \in Workers : e \in Range(batch[v])
            <4>1. e \in Range(buf) => e \in InHand'
                BY <1>1, <2>1 DEF InHand
            <4> QED
                BY <2>1, <4>1 DEF InHand
        <3> QED
            BY <3>1 DEF Places, OnePlace
    <2>3. \A line : disk' = [disk EXCEPT ![d] = line] /\ d \in 1..Days =>
              \A c \in 1..Days : disk'[c] = IF c = d THEN line ELSE disk[c]
        BY DEF TypeOK
    <2>4. CASE d = None /\ UNCHANGED disk /\ Lose({e}, "raced")
        BY <1>4, <2>0, <2>4
    <2>5. CASE d \in 1..Days /\ disk' = [disk EXCEPT ![d] = Append(disk[d], e)] /\ UNCHANGED fate
        <3>1. disk[d] \in Seq(Events \cup {Torn}) /\ Distinct(disk[d])
            BY <2>5 DEF TypeOK, Places, OnePlace
        <3>2. Range(Append(disk[d], e)) = Range(disk[d]) \cup {e} /\ Distinct(Append(disk[d], e))
            BY <2>1, <2>2, <2>5, <3>1, AppendHolds
        <3>3. \A c \in 1..Days : disk'[c] = IF c = d THEN Append(disk[d], e) ELSE disk[c]
            BY <2>3, <2>5
        <3> HIDE DEF e
        <3>4. OnePlace'
            <4>1. \A c \in 1..Days : Distinct(disk'[c]) /\ Range(disk'[c]) \cap Range(buf) = {}
                BY <2>2, <3>2, <3>3 DEF Places, OnePlace
            <4>2. \A v \in Workers, c \in 1..Days : Range(batch'[v]) \cap Range(disk'[c]) = {}
                BY <2>1, <3>2, <3>3 DEF Places, OnePlace
            <4>3. \A b, c \in 1..Days : b # c => Range(disk'[b]) \cap Range(disk'[c]) \subseteq {Torn}
                BY <2>2, <3>2, <3>3 DEF Places, OnePlace
            <4>4. \A v \in Workers : Distinct(batch'[v]) /\ Range(batch'[v]) \cap Range(buf) = {}
                BY <2>1 DEF Places, OnePlace
            <4>5. \A u, v \in Workers : u # v => Range(batch'[u]) \cap Range(batch'[v]) = {}
                BY <2>1 DEF Places, OnePlace
            <4> QED
                BY <1>1, <4>1, <4>2, <4>3, <4>4, <4>5 DEF Places, OnePlace
        <3>5. OnDisk' = OnDisk \cup {e}
            BY <2>1, <2>5, <3>2, <3>3 DEF OnDisk
        <3>6. InHand' \subseteq InHand /\ InHand' \cup OnDisk' = InHand \cup OnDisk
            BY <2>1, <3>5
        <3> QED
            BY <1>1, <2>5, <3>4, <3>6, Moved
    <2>6. CASE d \in 1..Days /\ disk' = [disk EXCEPT ![d] = Append(disk[d], Torn)] /\ Lose({e}, "torn")
        <3>1. disk[d] \in Seq(Events \cup {Torn}) /\ Distinct(disk[d])
            BY <2>6 DEF TypeOK, Places, OnePlace
        <3>2. Range(Append(disk[d], Torn)) = Range(disk[d]) \cup {Torn}
              /\ Distinct(Append(disk[d], Torn))
            BY <3>1, AppendHolds
        <3>3. \A c \in 1..Days : disk'[c] = IF c = d THEN Append(disk[d], Torn) ELSE disk[c]
            BY <2>3, <2>6
        <3>4. \A c \in 1..Days : Range(disk'[c]) \subseteq Range(disk[c]) \cup {Torn}
                                 /\ Distinct(disk'[c])
            BY <1>2, <3>2, <3>3
        <3>5. \A x \in Events : fate'[x] = IF x \in {e} /\ x \notin accepted THEN "torn" ELSE fate[x]
            BY <2>6, WrittenOff
        <3> HIDE DEF e
        <3>6. OnDisk' = OnDisk
            BY <3>2, <3>3, EventsAssumption DEF OnDisk
        <3>7. \A x \in Events : \/ fate'[x] = fate[x]
                                \/ fate'[x] \notin {"fresh", "kept"} /\ x \notin InHand' \cup OnDisk'
            BY <2>1, <3>5, <3>6
        <3>8. \A x \in InHand \cup OnDisk :
                  x \in InHand' \cup OnDisk' \cup accepted' \/ fate'[x] # "kept"
            BY <1>1, <2>1, <3>5, <3>6
        <3> QED
            BY <1>1, <1>2, <2>1, <3>4, <3>7, <3>8, TakenAway
    <2>7. CASE /\ d \in 1..Days /\ disk[d] # <<>>
               /\ disk' = [disk EXCEPT ![d] = [disk[d] EXCEPT ![Len(disk[d])] = Torn]]
               /\ Lose({e, disk[d][Len(disk[d])]}, "torn")
        <3> DEFINE t == [disk[d] EXCEPT ![Len(disk[d])] = Torn]
        <3>1. disk[d] \in Seq(Events \cup {Torn}) /\ Distinct(disk[d])
            BY <2>7 DEF TypeOK, Places, OnePlace
        <3>2. PICK last : last = disk[d][Len(disk[d])]
            OBVIOUS
        <3>3. /\ Range(t) \subseteq Range(disk[d]) \cup {Torn}
              /\ Range(disk[d]) \subseteq Range(t) \cup {last}
              /\ Distinct(t) /\ (last \notin Range(t) \/ last = Torn)
            BY <2>7, <3>1, <3>2, SpoilHolds
        <3>4. \A c \in 1..Days : disk'[c] = IF c = d THEN t ELSE disk[c]
            BY <2>3, <2>7
        <3> HIDE DEF t, e
        <3>5. \A c \in 1..Days : Range(disk'[c]) \subseteq Range(disk[c]) \cup {Torn}
                                 /\ Distinct(disk'[c])
            BY <1>2, <3>3, <3>4
        <3>6. \A x \in Events : fate'[x] = IF x \in {e, last} /\ x \notin accepted
                                           THEN "torn" ELSE fate[x]
            <4>1. Lose({e, last}, "torn")
                BY <2>7, <3>2
            <4> QED
                BY <4>1, WrittenOff
        <3>7. last \in Range(disk[d])
            <4>1. Len(disk[d]) \in DOMAIN disk[d]
                BY <2>7, <3>1, EmptySeq, LenProperties
            <4> QED
                BY <3>2, <4>1 DEF Range
        <3>8. \A x \in OnDisk : x \in OnDisk' \/ x = last
            BY <3>3, <3>4 DEF OnDisk
        <3>9. ASSUME NEW x \in Events, x = last
              PROVE  x \notin InHand' \cup OnDisk'
            <4>1. x # Torn
                BY EventsAssumption
            <4>2. x \notin Range(buf) /\ \A v \in Workers : x \notin Range(batch'[v])
                BY <2>1, <2>7, <3>7, <3>9 DEF Places, OnePlace
            <4>3. \A c \in 1..Days : x \notin Range(disk'[c])
                <5>1. x \notin Range(disk'[d])
                    BY <2>7, <3>3, <3>4, <3>9, <4>1
                <5>2. ASSUME NEW c \in 1..Days, c # d
                      PROVE  x \notin Range(disk'[c])
                    <6>1. Range(disk[c]) \cap Range(disk[d]) \subseteq {Torn}
                        BY <2>7, <5>2 DEF Places, OnePlace
                    <6> QED
                        BY <3>4, <3>7, <3>9, <4>1, <5>2, <6>1
                <5> QED
                    BY <5>1, <5>2
            <4> QED
                BY <1>1, <4>2, <4>3 DEF InHand, OnDisk
        <3>10. e \notin InHand' \cup OnDisk'
            <4>1. \A c \in 1..Days : e \notin Range(disk'[c])
                BY <2>1, <2>2, <3>5, EventsAssumption
            <4> QED
                BY <2>1, <4>1 DEF OnDisk
        <3>11. \A x \in Events : \/ fate'[x] = fate[x]
                                 \/ fate'[x] \notin {"fresh", "kept"} /\ x \notin InHand' \cup OnDisk'
            BY <3>6, <3>9, <3>10
        <3>12. \A x \in InHand \cup OnDisk :
                  x \in InHand' \cup OnDisk' \cup accepted' \/ fate'[x] # "kept"
            BY <1>1, <2>1, <3>6, <3>8 DEF OnDisk
        <3> QED
            BY <1>1, <1>2, <2>1, <3>5, <3>11, <3>12, TakenAway
    <2> HIDE DEF e
    <2> QED
        BY <1>7, <2>4, <2>5, <2>6, <2>7, LineWritten DEF e
<1> QED
    BY <1>3, <1>5, <1>6, <1>7


\* A replay moves nothing; what it reads is on disk.  The file it unlinks held what
\* it has sent, and what it writes off.
LEMMA ReplayPlaces ==
    ASSUME TypeOK, TypeOK', Shape, Places, Replayed, NEW w \in Workers,
           \/ ListFiles(w) \/ ReadFile(w) \/ ReadFails(w) \/ ReplayAborts(w)
           \/ ResendAccepted(w) \/ ResendFails(w) \/ Unlink(w) \/ UnlinkFails(w)
    PROVE  Places'
<1>1. UNCHANGED <<buf, batch>> /\ InHand' = InHand
    BY DEF ListFiles, ReadFile, ReadFails, ReplayAborts, ResendAccepted, ResendFails, Unlink, UnlinkFails,
           ReplayUnchanged, InHand
<1>2. Distinct(buf) /\ (\A v \in Workers : Distinct(batch[v])) /\ \A d \in 1..Days : Distinct(disk[d])
    BY DEF Places, OnePlace
<1>3. accepted \subseteq accepted'
    BY DEF ListFiles, ReadFile, ReadFails, ReplayAborts, ResendAccepted, ResendFails, Unlink, UnlinkFails, Store
<1>4. ASSUME NEW v \in Workers, NEW e \in Events, e \in Range(lines'[v])
      PROVE  e \in Range(lines[v]) \cup OnDisk
    <2>1. \/ lines'[v] = lines[v] \/ lines'[v] = <<>>
          \/ \E d \in 1..Days : lines'[v] = disk[d]
        <3>1. CASE ReadFile(w)
            <4>1. PICK d \in files : lines' = [lines EXCEPT ![w] = disk[d]]
                BY <3>1 DEF ReadFile
            <4> QED
                BY <4>1 DEF TypeOK
        <3>2. CASE ResendAccepted(w)
            BY <3>2 DEF ResendAccepted
        <3>3. ASSUME NEW rest, NextFile(w, rest)
              PROVE  lines'[v] = lines[v] \/ lines'[v] = <<>>
            BY <3>3 DEF NextFile, TypeOK
        <3> QED
            BY <3>1, <3>2, <3>3 DEF ListFiles, ReadFails, ReplayAborts, ResendFails, Unlink, UnlinkFails
    <2> QED
        BY <1>4, <2>1, EmptyHolds DEF OnDisk
<1>5. CASE UNCHANGED <<disk, fate>>
    <2>1. OnDisk' = OnDisk
        BY <1>5 DEF OnDisk
    <2> QED
        BY <1>1, <1>2, <1>3, <1>4, <1>5, <2>1, TakenAway
<1>6. CASE Unlink(w)
    <2>1. PICK d \in todo[w] : Unlink(w)!(d)
        BY <1>6 DEF Unlink
    <2>2. d \in 1..Days /\ \A c \in 1..Days : disk'[c] = IF c = d THEN <<>> ELSE disk[c]
        BY <2>1 DEF TypeOK
    <2>3. \A c \in 1..Days : Range(disk'[c]) \subseteq Range(disk[c]) \cup {Torn} /\ Distinct(disk'[c])
        BY <1>2, <2>2, EmptyHolds
    <2>4. \A e \in Events : fate'[e] = IF e \in Range(disk[d]) \ Range(lines[w]) /\ e \notin accepted
                                       THEN "raced" ELSE fate[e]
        BY <2>1, WrittenOff
    <2>5. \A e \in Events : e \in Range(disk[d]) => e \notin InHand' \cup OnDisk'
        <3> SUFFICES ASSUME NEW e \in Events, e \in Range(disk[d])
                     PROVE  e \notin InHand \cup OnDisk'
            BY <1>1
        <3>1. e \notin InHand
            BY <2>2 DEF InHand, Places, OnePlace
        <3>2. ASSUME NEW c \in 1..Days
              PROVE  e \notin Range(disk'[c])
            <4>1. CASE c = d
                BY <2>2, <4>1, EmptyHolds
            <4>2. CASE c # d
                <5>1. Range(disk[c]) \cap Range(disk[d]) \subseteq {Torn}
                    BY <2>2, <4>2 DEF Places, OnePlace
                <5> QED
                    BY <2>2, <4>2, <5>1, EventsAssumption
            <4> QED
                BY <4>1, <4>2
        <3> QED
            BY <3>1, <3>2 DEF OnDisk
    <2>6. \A e \in Events : e \in Range(lines[w]) => e \in accepted
        <3> SUFFICES ASSUME NEW i \in DOMAIN lines[w], lines[w][i] \in Events
                     PROVE  lines[w][i] \in accepted
            BY DEF Range
        <3>1. left[w] = {}
            BY <2>1
        <3> QED
            BY <3>1, EventsAssumption DEF Replayed
    <2>7. \A e \in Events : \/ fate'[e] = fate[e]
                            \/ fate'[e] \notin {"fresh", "kept"} /\ e \notin InHand' \cup OnDisk'
        BY <2>4, <2>5
    <2>8. \A e \in OnDisk : e \in OnDisk' \/ e \in Range(disk[d])
        BY <2>2 DEF OnDisk
    <2>9. \A e \in InHand \cup OnDisk :
              e \in InHand' \cup OnDisk' \cup accepted' \/ fate'[e] # "kept"
        BY <1>1, <1>3, <2>4, <2>6, <2>8 DEF OnDisk
    <2> QED
        BY <1>1, <1>2, <1>3, <1>4, <2>3, <2>7, <2>9, TakenAway
<1> QED
    BY <1>5, <1>6 DEF ListFiles, ReadFile, ReadFails, ReplayAborts, ResendAccepted, ResendFails, UnlinkFails

\* The death of the process takes what was in memory, and leaves the files.
LEMMA RestartPlaces ==
    ASSUME TypeOK, TypeOK', Places, Restart
    PROVE  Places'
<1>1. /\ Range(buf') = {} /\ Distinct(buf')
      /\ \A w \in Workers : Range(batch'[w]) = {} /\ Distinct(batch'[w])
      /\ \A w \in Workers : Range(lines'[w]) = {}
    BY EmptyHolds DEF Restart
<1>2. UNCHANGED <<disk, accepted>> /\ \A d \in 1..Days : Distinct(disk[d])
    BY DEF Restart, Places, OnePlace
<1>3. InHand' = {} /\ OnDisk' = OnDisk
    BY <1>1, <1>2 DEF InHand, OnDisk
<1>4. \A e \in Events : fate'[e] = IF e \in InHand /\ e \notin accepted THEN "crashed" ELSE fate[e]
    BY WrittenOff DEF Restart
<1>5. \A e \in InHand : e \notin OnDisk
    BY DEF InHand, OnDisk, Places, OnePlace
<1>6. \A e \in Events : \/ fate'[e] = fate[e]
                        \/ fate'[e] \notin {"fresh", "kept"} /\ e \notin InHand' \cup OnDisk'
    BY <1>3, <1>4, <1>5
<1>7. \A e \in InHand \cup OnDisk :
          e \in InHand' \cup OnDisk' \cup accepted' \/ fate'[e] # "kept"
    BY <1>2, <1>3, <1>4 DEF InHand
<1> QED
    BY <1>1, <1>2, <1>6, <1>7, TakenAway

LEMMA PlacesStep ==
    ASSUME TypeOK, TypeOK', Shape, Places, Replayed, [Next]_vars
    PROVE  Places'
<1>1. ASSUME UNCHANGED <<buf, batch, disk, lines, accepted, fate>>
      PROVE  Places'
    BY <1>1 DEF Places, OnePlace, Kept, ReadOut, NothingVanishes, InHand, OnDisk, Distinct
<1>2. ASSUME \/ \E w \in Workers : FlushAll(w) \/ Close(w)
             \/ FlusherLoop \/ Midnight \/ UNCHANGED vars
      PROVE  Places'
    BY <1>1, <1>2 DEF FlushAll, Close, FlusherLoop, FlusherWakes, FlusherClears, FlusherExits,
                      Midnight, vars
<1> QED
    BY <1>2, PushPlaces, DenialPlaces, DrainPlaces, SendPlaces, WritePlaces, ReplayPlaces,
       RestartPlaces DEF Next, Work

LEMMA ReplayedStep ==
    ASSUME TypeOK, Shape, Replayed, [Next]_vars
    PROVE  Replayed'
<1> DEFINE Sent(v) == \A i \in DOMAIN lines[v] :
                          i \in left[v] \/ lines[v][i] = Torn \/ lines[v][i] \in accepted
<1>1. accepted \subseteq accepted'
    BY DEF Next, Work, Push, WriteDenial, Drain, FlushAll, Close, FlusherLoop, FlusherWakes,
           FlusherClears, FlusherExits, Midnight, Restart, SendAccepted, SendFails, SendRefused,
           SendUnchanged, OpenFile, FileFull, WriteFails, AppendLine, ShortWrite, WriteUnchanged,
           ListFiles, ReadFile, ReadFails, ReplayAborts, ResendAccepted, ResendFails, Unlink, UnlinkFails,
           Store, vars
<1>2. ASSUME NEW v \in Workers, lines'[v] = lines[v] /\ left'[v] = left[v]
      PROVE  Sent(v)'
    BY <1>1, <1>2 DEF Replayed
<1>3. ASSUME NEW v \in Workers, lines'[v] = <<>>
      PROVE  Sent(v)'
    BY <1>3
<1>4. CASE UNCHANGED <<lines, left>>
    BY <1>2, <1>4 DEF Replayed
<1>5. CASE Restart
    BY <1>3, <1>5 DEF Restart, Replayed
<1>6. ASSUME NEW w \in Workers, NEW rest, NextFile(w, rest)
      PROVE  Replayed'
    <2>1. \A v \in Workers : \/ lines'[v] = lines[v] /\ left'[v] = left[v]
                             \/ lines'[v] = <<>>
        BY <1>6 DEF NextFile, TypeOK
    <2> QED
        BY <1>2, <1>3, <2>1 DEF Replayed
<1>7. ASSUME NEW w \in Workers, ReadFile(w)
      PROVE  Replayed'
    <2>1. PICK d \in files : ReadFile(w)!(d)
        BY <1>7 DEF ReadFile
    <2>2. /\ lines'[w] = disk[d]
          /\ left'[w] = {i \in DOMAIN disk[d] : disk[d][i] # Torn}
          /\ \A v \in Workers \ {w} : lines'[v] = lines[v] /\ left'[v] = left[v]
        BY <2>1 DEF TypeOK
    <2> QED
        BY <1>2, <2>2 DEF Replayed
<1>8. ASSUME NEW w \in Workers, ResendAccepted(w)
      PROVE  Replayed'
    <2>1. /\ lines' = lines /\ left'[w] = left[w] \ Chunk(w)
          /\ \A v \in Workers \ {w} : left'[v] = left[v]
          /\ accepted' = accepted \cup ChunkEvents(w)
        BY <1>8 DEF ResendAccepted, Store, TypeOK
    <2>2. Sent(w)'
        BY <2>1 DEF ChunkEvents, Replayed
    <2> QED
        BY <1>2, <2>1, <2>2 DEF Replayed
<1>9. ASSUME NEW w \in Workers,
             ListFiles(w) \/ ReadFails(w) \/ ResendFails(w) \/ Unlink(w) \/ UnlinkFails(w)
      PROVE  Replayed'
    BY <1>6, <1>9 DEF ListFiles, ReadFails, ResendFails, Unlink, UnlinkFails
<1>10. ASSUME \/ \E e \in Events : Push(e) \/ \E w \in Workers : WriteDenial(w, e)
              \/ \E w \in Workers : \/ SendAccepted(w) \/ SendFails(w) \/ SendRefused(w)
                                    \/ OpenFile(w) \/ FileFull(w) \/ WriteFails(w)
                                    \/ AppendLine(w) \/ ShortWrite(w) \/ ReplayAborts(w)
                                    \/ Drain(w) \/ FlushAll(w) \/ Close(w)
              \/ FlusherLoop \/ Midnight \/ UNCHANGED vars
       PROVE  UNCHANGED <<lines, left>>
    BY <1>10 DEF Push, WriteDenial, SendAccepted, SendFails, SendRefused, SendUnchanged, OpenFile,
                 FileFull, WriteFails, AppendLine, ShortWrite, WriteUnchanged, ReplayAborts, Drain,
                 FlushAll, Close, FlusherLoop, FlusherWakes, FlusherClears, FlusherExits, Midnight, vars
<1> QED
    BY <1>4, <1>5, <1>7, <1>8, <1>9, <1>10 DEF Next, Work

IInv == TypeOK /\ Shape /\ Places /\ Replayed

LEMMA Inductive == Spec => []IInv
<1>1. Init => IInv
    <2> SUFFICES ASSUME Init
                 PROVE  Places /\ Replayed
        BY InitTyped DEF IInv
    <2>1. /\ Range(buf) = {} /\ Distinct(buf)
          /\ \A w \in Workers : Range(batch[w]) = {} /\ Distinct(batch[w]) /\ Range(lines[w]) = {}
          /\ \A d \in 1..Days : Range(disk[d]) = {} /\ Distinct(disk[d])
        BY EmptyHolds DEF Init
    <2>2. InHand = {} /\ OnDisk = {}
        BY <2>1 DEF InHand, OnDisk
    <2>3. Places
        BY <2>1, <2>2 DEF Init, Places, OnePlace, Kept, ReadOut, NothingVanishes
    <2>4. Replayed
        BY DEF Init, Replayed
    <2> QED
        BY <2>3, <2>4
<1>2. IInv /\ [Next]_vars => IInv'
    BY StepTyped, PlacesStep, ReplayedStep DEF IInv
<1> QED
    BY <1>1, <1>2, PTL DEF Spec

\* An event that was recorded is in the ring, a batch or a file, is stored, or left
\* in one of the ways the code drops events.
THEOREM EventsAccounted == Spec => []NothingVanishes
<1>1. IInv => NothingVanishes
    BY DEF IInv, Places
<1> QED
    BY <1>1, Inductive, PTL

\* No event is in two places, so no two threads flush it.
THEOREM EventsOnce == Spec => []OnePlace
<1>1. IInv => OnePlace
    BY DEF IInv, Places
<1> QED
    BY <1>1, Inductive, PTL

(***************************************************************************)
(* The price of a short write: every one allows for two torn events, of    *)
(* which a line that has no newline yet has used up none, or one if it is  *)
(* unreadable already.                                                     *)
(***************************************************************************)

TornEvents == {e \in Events : fate[e] = "torn"}

\* The files whose last line is an event without its newline.
Unfinished == {d \in ragged : disk[d][Len(disk[d])] # Torn}

Tears ==
    /\ IsFiniteSet(TornEvents)
    /\ Cardinality(TornEvents) + Cardinality(ragged) + Cardinality(Unfinished) <= 2 * shorts

\* A set that grows by at most one element, or by none.
LEMMA OneMore ==
    ASSUME NEW S, IsFiniteSet(S), NEW x, NEW R, R \subseteq S \cup {x}
    PROVE  /\ IsFiniteSet(R) /\ Cardinality(R) \in Nat /\ Cardinality(S) \in Nat
           /\ Cardinality(R) <= Cardinality(S) + 1
           /\ R \subseteq S => Cardinality(R) <= Cardinality(S)
           /\ x \in S /\ R \subseteq S \ {x} => Cardinality(R) <= Cardinality(S) - 1
<1>1. IsFiniteSet(S \cup {x}) /\ Cardinality(S \cup {x}) <= Cardinality(S) + 1
      /\ Cardinality(S) \in Nat
    BY FS_AddElement, FS_CardinalityType
<1>2. IsFiniteSet(R) /\ Cardinality(R) <= Cardinality(S \cup {x}) /\ Cardinality(R) \in Nat
    BY <1>1, FS_Subset, FS_CardinalityType
<1>3. R \subseteq S => Cardinality(R) <= Cardinality(S)
    BY FS_Subset
<1>4. ASSUME x \in S, R \subseteq S \ {x}
      PROVE  Cardinality(R) <= Cardinality(S) - 1
    <2>1. IsFiniteSet(S \ {x}) /\ Cardinality(S \ {x}) = Cardinality(S) - 1
        BY <1>4, FS_RemoveElement
    <2>2. Cardinality(R) <= Cardinality(S \ {x})
        BY <1>4, <2>1, FS_Subset
    <2> QED
        BY <2>1, <2>2
<1>5. Cardinality(S \cup {x}) \in Nat
    BY <1>1, FS_CardinalityType
<1> QED
    BY <1>1, <1>2, <1>3, <1>4, <1>5

LEMMA RaggedFinite ==
    ASSUME TypeOK
    PROVE  IsFiniteSet(ragged) /\ IsFiniteSet(Unfinished)
<1>1. IsFiniteSet(1..Days)
    BY SizesAssumption, FS_Interval
<1>2. ragged \in SUBSET (1..Days) /\ Unfinished \in SUBSET (1..Days)
    BY DEF TypeOK, Unfinished
<1> QED
    BY <1>1, <1>2, FS_Subset

\* A step that tears nothing.
LEMMA NothingTorn ==
    ASSUME TypeOK, Tears, TornEvents' \subseteq TornEvents, ragged' \subseteq ragged,
           Unfinished' \subseteq Unfinished, shorts' = shorts
    PROVE  Tears'
<1>1. /\ IsFiniteSet(TornEvents') /\ Cardinality(TornEvents') <= Cardinality(TornEvents)
      /\ Cardinality(TornEvents') \in Nat /\ Cardinality(TornEvents) \in Nat
    BY OneMore DEF Tears
<1>2. /\ Cardinality(ragged') <= Cardinality(ragged)
      /\ Cardinality(ragged') \in Nat /\ Cardinality(ragged) \in Nat
    BY RaggedFinite, OneMore
<1>3. /\ Cardinality(Unfinished') <= Cardinality(Unfinished)
      /\ Cardinality(Unfinished') \in Nat /\ Cardinality(Unfinished) \in Nat
    BY RaggedFinite, OneMore
<1>4. shorts \in Nat
    BY SizesAssumption DEF TypeOK
<1> QED
    BY <1>1, <1>2, <1>3, <1>4 DEF Tears

\* The last line after an append, and after a line was spoilt.
LEMMA LastLine ==
    ASSUME NEW S, NEW s \in Seq(S), NEW line \in S
    PROVE  /\ Append(s, line)[Len(Append(s, line))] = line
           /\ s # <<>> => LET t == [s EXCEPT ![Len(s)] = line] IN t[Len(t)] = line
<1>1. Len(s) \in Nat /\ DOMAIN s = 1..Len(s)
    BY LenProperties
<1>2. Append(s, line)[Len(Append(s, line))] = line
    OBVIOUS
<1>3. ASSUME s # <<>>
      PROVE  LET t == [s EXCEPT ![Len(s)] = line] IN t[Len(t)] = line
    <2>1. Len(s) \in 1..Len(s)
        BY <1>1, <1>3, EmptySeq
    <2>2. Len([s EXCEPT ![Len(s)] = line]) = Len(s)
        BY <2>1, ExceptSeq
    <2> QED
        BY <1>1, <2>1, <2>2
<1> QED
    BY <1>2, <1>3

\* A line glued to one without a newline costs both events, and pays with the file's
\* share; a short write pays with its own.
LEMMA TearsWritten ==
    ASSUME TypeOK, TypeOK', Shape, Places, Tears, NEW w \in Workers, AppendLine(w) \/ ShortWrite(w)
    PROVE  Tears'
<1> DEFINE e == Head(batch[w])
           d == fd[w]
<1>0. TornEvents \subseteq Events /\ e \in Events /\ Torn \notin Events
    BY LineWritten, EventsAssumption DEF TornEvents
<1>t. /\ IsFiniteSet(TornEvents) /\ Cardinality(TornEvents) \in Nat
      /\ IsFiniteSet(ragged) /\ Cardinality(ragged) \in Nat
      /\ IsFiniteSet(Unfinished) /\ Cardinality(Unfinished) \in Nat
      /\ shorts \in Nat
    <2>1. IsFiniteSet(TornEvents)
        BY DEF Tears
    <2>2. IsFiniteSet(ragged) /\ IsFiniteSet(Unfinished)
        BY RaggedFinite
    <2>3. shorts \in Nat
        BY SizesAssumption DEF TypeOK
    <2> QED
        BY <2>1, <2>2, <2>3, FS_CardinalityType
<1>1. ASSUME NEW S, Lose(S, "torn")
      PROVE  TornEvents' \subseteq TornEvents \cup S
    BY <1>1, WrittenOff DEF TornEvents
<1>2. ASSUME UNCHANGED fate
      PROVE  TornEvents' = TornEvents
    BY <1>2 DEF TornEvents
<1>3. \A line : disk' = [disk EXCEPT ![d] = line] /\ d \in 1..Days =>
          \A c \in 1..Days : disk'[c] = IF c = d THEN line ELSE disk[c]
    BY DEF TypeOK
<1>4. CASE d = None /\ Lose({e}, "raced") /\ UNCHANGED <<disk, ragged, shorts>>
    <2>1. TornEvents' \subseteq TornEvents
        BY <1>4, WrittenOff DEF TornEvents
    <2>2. Unfinished' = Unfinished
        BY <1>4 DEF Unfinished
    <2> QED
        BY <1>4, <2>1, <2>2, NothingTorn
<1>5. ASSUME d \in 1..Days, d \in ragged, Spoil(d, e)
      PROVE  /\ Unfinished' \subseteq Unfinished \ {d}
             /\ Cardinality(TornEvents') <= Cardinality(TornEvents) + 2
             /\ d \notin Unfinished => Cardinality(TornEvents') <= Cardinality(TornEvents) + 1
             /\ IsFiniteSet(TornEvents') /\ Cardinality(TornEvents') \in Nat
    <2> DEFINE t == [disk[d] EXCEPT ![Len(disk[d])] = Torn]
    <2>1. PICK last : last = disk[d][Len(disk[d])]
        OBVIOUS
    <2>2. disk' = [disk EXCEPT ![d] = t] /\ Lose({e, last}, "torn")
        BY <1>5, <2>1 DEF Spoil, TypeOK
    <2>3. TornEvents' \subseteq (TornEvents \cup {e}) \cup {last}
        BY <1>1, <2>2
    <2>4. disk[d] \in Seq(Events \cup {Torn}) /\ disk[d] # <<>>
        BY <1>5 DEF TypeOK, Shape
    <2>5. t[Len(t)] = Torn
        BY <2>4, LastLine
    <2>6. \A c \in 1..Days : disk'[c] = IF c = d THEN t ELSE disk[c]
        BY <1>3, <1>5, <2>2
    <2> HIDE DEF t
    <2>7. ragged' \subseteq ragged \/ ragged' \subseteq ragged \cup {d}
        BY DEF AppendLine, ShortWrite
    <2>8. Unfinished' \subseteq Unfinished \ {d}
        BY <1>5, <2>5, <2>6, <2>7 DEF Unfinished, TypeOK
    <2>9. /\ IsFiniteSet(TornEvents \cup {e})
          /\ Cardinality(TornEvents \cup {e}) <= Cardinality(TornEvents) + 1
          /\ Cardinality(TornEvents \cup {e}) \in Nat
        BY <1>t, OneMore
    <2>10. /\ IsFiniteSet(TornEvents') /\ Cardinality(TornEvents') \in Nat
           /\ Cardinality(TornEvents') <= Cardinality(TornEvents \cup {e}) + 1
        BY <2>3, <2>9, OneMore
    <2>11. ASSUME d \notin Unfinished
           PROVE  Cardinality(TornEvents') <= Cardinality(TornEvents) + 1
        <3>1. last = Torn
            BY <1>5, <2>1, <2>11 DEF Unfinished
        <3>2. TornEvents' \subseteq TornEvents \cup {e}
            BY <1>0, <2>3, <3>1 DEF TornEvents
        <3> QED
            BY <1>t, <3>2, OneMore
    <2> QED
        BY <1>t, <2>8, <2>9, <2>10, <2>11
<1>6. ASSUME d \notin ragged, d \in 1..Days, NEW line \in Events \cup {Torn},
             disk' = [disk EXCEPT ![d] = Append(@, line)]
      PROVE  /\ ragged' \subseteq ragged => Unfinished' \subseteq Unfinished
             /\ ragged' = ragged \cup {d} => /\ Unfinished' \subseteq Unfinished \cup {d}
                                             /\ line = Torn => Unfinished' \subseteq Unfinished
    <2>1. disk' = [disk EXCEPT ![d] = Append(disk[d], line)]
        BY <1>6
    <2>2. \A c \in 1..Days : disk'[c] = IF c = d THEN Append(disk[d], line) ELSE disk[c]
        BY <1>3, <1>6, <2>1
    <2>3. Append(disk[d], line)[Len(Append(disk[d], line))] = line
        BY <1>6, LastLine DEF TypeOK
    <2>4. ragged \subseteq 1..Days
        BY DEF TypeOK
    <2> QED
        BY <1>6, <2>2, <2>3, <2>4 DEF Unfinished
<1>7. CASE AppendLine(w)
    <2>0. shorts' = shorts
        BY <1>7 DEF AppendLine
    <2>1. CASE d = None /\ Lose({e}, "raced") /\ UNCHANGED <<disk, ragged>>
        BY <1>4, <2>0, <2>1
    <2>2. CASE d \in ragged /\ Spoil(d, e) /\ ragged' = ragged \ {d}
        <3>1. d \in 1..Days
            BY <2>2 DEF TypeOK
        <3>2. /\ Unfinished' \subseteq Unfinished \ {d}
              /\ Cardinality(TornEvents') <= Cardinality(TornEvents) + 2
              /\ d \notin Unfinished => Cardinality(TornEvents') <= Cardinality(TornEvents) + 1
              /\ IsFiniteSet(TornEvents') /\ Cardinality(TornEvents') \in Nat
            BY <1>5, <2>2, <3>1
        <3>3. Cardinality(ragged') <= Cardinality(ragged) - 1 /\ Cardinality(ragged') \in Nat
            BY <1>t, <2>2, OneMore
        <3>4. /\ Cardinality(Unfinished') <= Cardinality(Unfinished) /\ Cardinality(Unfinished') \in Nat
              /\ d \in Unfinished => Cardinality(Unfinished') <= Cardinality(Unfinished) - 1
            BY <1>t, <3>2, OneMore
        <3> QED
            BY <1>t, <2>0, <3>2, <3>3, <3>4 DEF Tears
    <2>3. CASE d \notin ragged \cup {None} /\ disk' = [disk EXCEPT ![d] = Append(@, e)]
               /\ UNCHANGED <<fate, ragged>>
        <3>1. d \in 1..Days
            BY <2>3 DEF TypeOK
        <3>2. Unfinished' \subseteq Unfinished
            BY <1>0, <1>6, <2>3, <3>1
        <3> QED
            BY <1>2, <2>0, <2>3, <3>2, NothingTorn
    <2> QED
        BY <1>7, <2>1, <2>2, <2>3 DEF AppendLine
<1>8. CASE ShortWrite(w)
    <2>0. d \in 1..Days /\ shorts' = shorts + 1 /\ ragged' = ragged \cup {d}
        BY <1>8 DEF ShortWrite, TypeOK
    <2>1. CASE d \in ragged /\ Spoil(d, e)
        <3>1. /\ Unfinished' \subseteq Unfinished \ {d}
              /\ Cardinality(TornEvents') <= Cardinality(TornEvents) + 2
              /\ IsFiniteSet(TornEvents') /\ Cardinality(TornEvents') \in Nat
            BY <1>5, <2>0, <2>1
        <3>2. ragged' = ragged
            BY <2>0, <2>1
        <3>3. Cardinality(Unfinished') <= Cardinality(Unfinished) /\ Cardinality(Unfinished') \in Nat
            BY <1>t, <3>1, OneMore
        <3> QED
            BY <1>t, <2>0, <3>1, <3>2, <3>3 DEF Tears
    <2>2. ASSUME d \notin ragged, disk' = [disk EXCEPT ![d] = Append(@, e)], UNCHANGED fate
          PROVE  Tears'
        <3>1. Unfinished' \subseteq Unfinished \cup {d}
            BY <1>0, <1>6, <2>0, <2>2
        <3>2. Cardinality(Unfinished') <= Cardinality(Unfinished) + 1 /\ Cardinality(Unfinished') \in Nat
            BY <1>t, <3>1, OneMore
        <3>3. Cardinality(ragged') <= Cardinality(ragged) + 1 /\ Cardinality(ragged') \in Nat
            BY <1>t, <2>0, OneMore
        <3> QED
            BY <1>t, <1>2, <2>0, <2>2, <3>2, <3>3 DEF Tears
    <2>3. ASSUME d \notin ragged, disk' = [disk EXCEPT ![d] = Append(@, Torn)], Lose({e}, "torn")
          PROVE  Tears'
        <3>1. Unfinished' \subseteq Unfinished
            BY <1>6, <2>0, <2>3
        <3>2. Cardinality(Unfinished') <= Cardinality(Unfinished) /\ Cardinality(Unfinished') \in Nat
            BY <1>t, <3>1, OneMore
        <3>3. Cardinality(ragged') <= Cardinality(ragged) + 1 /\ Cardinality(ragged') \in Nat
            BY <1>t, <2>0, OneMore
        <3>4. /\ IsFiniteSet(TornEvents') /\ Cardinality(TornEvents') \in Nat
              /\ Cardinality(TornEvents') <= Cardinality(TornEvents) + 1
            <4>1. TornEvents' \subseteq TornEvents \cup {e}
                BY <1>1, <2>3
            <4> QED
                BY <1>t, <4>1, OneMore
        <3> QED
            BY <1>t, <2>0, <3>2, <3>3, <3>4 DEF Tears
    <2> QED
        BY <1>8, <2>1, <2>2, <2>3 DEF ShortWrite
<1> QED
    BY <1>7, <1>8

\* The other steps tear nothing: they write off for another reason, or not at all.
LEMMA TearsStep ==
    ASSUME TypeOK, TypeOK', Shape, Places, Tears, [Next]_vars
    PROVE  Tears'
<1>1. ASSUME NEW S, NEW how, Lose(S, how), how # "torn"
      PROVE  TornEvents' \subseteq TornEvents
    BY <1>1, WrittenOff DEF TornEvents
<1>2. ASSUME TornEvents' \subseteq TornEvents, UNCHANGED <<disk, ragged, shorts>>
      PROVE  Tears'
    <2>1. Unfinished' = Unfinished
        BY <1>2 DEF Unfinished
    <2> QED
        BY <1>2, <2>1, NothingTorn
<1>3. ASSUME UNCHANGED <<fate, disk, ragged, shorts>>
      PROVE  Tears'
    <2>1. TornEvents' = TornEvents
        BY <1>3 DEF TornEvents
    <2> QED
        BY <1>2, <1>3, <2>1
<1>4. ASSUME NEW e \in Events, Push(e)
      PROVE  Tears'
    <2>1. \A x \in Events : fate'[x] \in {fate[x], "kept", "evicted"}
        BY <1>4 DEF Push, TypeOK
    <2>2. TornEvents' \subseteq TornEvents
        BY <2>1 DEF TornEvents
    <2> QED
        BY <1>2, <1>4, <2>2 DEF Push
<1>5. ASSUME NEW w \in Workers, NEW e \in Events, WriteDenial(w, e)
      PROVE  Tears'
    <2>1. \A x \in Events : fate'[x] \in {fate[x], "kept"}
        BY <1>5 DEF WriteDenial, TypeOK
    <2>2. TornEvents' \subseteq TornEvents
        BY <2>1 DEF TornEvents
    <2> QED
        BY <1>2, <1>5, <2>2 DEF WriteDenial
<1>6. ASSUME NEW w \in Workers, SendRefused(w)
      PROVE  Tears'
    <2>1. Lose(Range(batch[w]), "rejected") \/ UNCHANGED fate
        BY <1>6 DEF SendRefused
    <2> QED
        BY <1>1, <1>2, <1>3, <1>6, <2>1 DEF SendRefused, SendUnchanged
<1>7. ASSUME NEW w \in Workers, FileFull(w)
      PROVE  Tears'
    BY <1>1, <1>2, <1>7 DEF FileFull, WriteUnchanged
<1>8. ASSUME NEW w \in Workers, WriteFails(w)
      PROVE  Tears'
    BY <1>1, <1>2, <1>8 DEF WriteFails, WriteUnchanged
<1>9. ASSUME NEW w \in Workers, AppendLine(w) \/ ShortWrite(w)
      PROVE  Tears'
    BY <1>9, TearsWritten
<1>10. ASSUME NEW w \in Workers, Unlink(w)
       PROVE  Tears'
    <2>1. PICK d \in todo[w] : Unlink(w)!(d)
        BY <1>10 DEF Unlink
    <2>2. TornEvents' \subseteq TornEvents
        BY <1>1, <2>1
    <2>3. ragged' = ragged \ {d} /\ shorts' = shorts
        BY <2>1
    <2>4. d \in 1..Days /\ ragged \subseteq 1..Days
        BY DEF TypeOK
    <2>5. \A c \in 1..Days : c # d => disk'[c] = disk[c]
        BY <2>1, <2>4 DEF TypeOK
    <2>6. Unfinished' \subseteq Unfinished
        BY <2>3, <2>4, <2>5 DEF Unfinished
    <2> QED
        BY <2>2, <2>3, <2>6, NothingTorn
<1>11. CASE Restart
    BY <1>1, <1>2, <1>11 DEF Restart
<1>12. ASSUME NEW w \in Workers,
              \/ SendAccepted(w) \/ SendFails(w) \/ OpenFile(w)
              \/ ListFiles(w) \/ ReadFile(w) \/ ReadFails(w) \/ ReplayAborts(w)
              \/ ResendAccepted(w) \/ ResendFails(w) \/ UnlinkFails(w) \/ Drain(w) \/ FlushAll(w) \/ Close(w)
       PROVE  UNCHANGED <<fate, disk, ragged, shorts>>
    BY <1>12 DEF SendAccepted, SendFails, SendUnchanged, OpenFile, WriteUnchanged, ListFiles,
                 ReadFile, ReadFails, ReplayAborts, ResendAccepted, ResendFails, UnlinkFails, Drain, FlushAll,
                 Close
<1>13. ASSUME FlusherLoop \/ Midnight \/ UNCHANGED vars
       PROVE  UNCHANGED <<fate, disk, ragged, shorts>>
    BY <1>13 DEF FlusherLoop, FlusherWakes, FlusherClears, FlusherExits, Midnight, vars
<1> QED
    BY <1>3, <1>4, <1>5, <1>6, <1>7, <1>8, <1>9, <1>10, <1>11, <1>12, <1>13 DEF Next, Work

\* A short write costs two events at most.
THEOREM TornBounded == Spec => []TearsBounded
<1>1. Init => TypeOK /\ Shape /\ Tears
    <2> SUFFICES ASSUME Init
                 PROVE  Tears
        BY InitTyped
    <2>1. TornEvents = {} /\ ragged = {} /\ Unfinished = {} /\ shorts = 0
        BY DEF Init, TornEvents, Unfinished
    <2> QED
        BY <2>1, FS_EmptySet DEF Tears
<1>2. /\ Tears /\ TypeOK /\ TypeOK' /\ Shape /\ Places /\ [Next]_vars => Tears'
      /\ IInv => TypeOK /\ Shape /\ Places
    BY TearsStep DEF IInv
<1>3. TypeOK /\ Tears => TearsBounded
    <2> SUFFICES ASSUME TypeOK, Tears
                 PROVE  Cardinality(TornEvents) <= 2 * shorts
        BY DEF TearsBounded, TornEvents
    <2>1. IsFiniteSet(TornEvents)
        BY DEF Tears
    <2>2. /\ Cardinality(TornEvents) \in Nat /\ Cardinality(ragged) \in Nat
          /\ Cardinality(Unfinished) \in Nat
        BY <2>1, RaggedFinite, FS_CardinalityType
    <2>3. shorts \in Nat
        BY SizesAssumption DEF TypeOK
    <2> QED
        BY <2>2, <2>3 DEF Tears
<1> QED
    BY <1>1, <1>2, <1>3, Inductive, PTL DEF Spec

=============================================================================
