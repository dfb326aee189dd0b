-------------------------- MODULE Languages_proofs --------------------------
(***************************************************************************)
(* For any languages, turns, utterances, drops and reconnects.  The        *)
(* detector, whatever its provider: every utterance it recognised is in    *)
(* exactly one place.  Language switching: the pools and the prompts speak *)
(* one language whenever no switch is under way, one generator speaks at a *)
(* time and behind the last sentinel only the active one, a stale decision *)
(* switches nothing, and a reply whose own decision holds it is not heard. *)
(* The types of both; and at the end what needs the two together.          *)
(***************************************************************************)
EXTENDS MCLanguages, SequenceTheorems, FiniteSetTheorems, TLAPS

-----------------------------------------------------------------------------
\* The detector.

Utterances == 1..MaxHeard
Held(s) == {s[i] : i \in DOMAIN s}

Connections ==
    [of : LidProviders \cup {"none"}, ws : {"none", "open", "lost"},
     sender : BOOLEAN, receiver : BOOLEAN, dead : BOOLEAN,
     stop : {"no", "reconnect", "tasks", "done"},
     reconnect : {"no", "scheduled", "resting", "starting"},
     tries : 0..LidCap, recent : BOOLEAN, drops : 0..MaxDrops]

Buffers ==
    [audio : 0..LidQueue, heard : 0..MaxHeard, pending : 0..MaxHeard,
     segments : Seq(Utterances), event : BOOLEAN,
     taken : SUBSET Utterances, aged : SUBSET Utterances]

LidType == lid \in Connections
BufferType == buffer \in Buffers

\* Where an utterance may be, of a buffer with these segments.
Apart(heard, pending, s, taken, aged) ==
    /\ Held(s) \cup ({pending} \ {0}) \cup taken \cup aged = 1..heard
    /\ pending \notin Held(s) /\ pending \notin taken /\ pending \notin aged
    /\ Held(s) \cap taken = {} /\ Held(s) \cap aged = {} /\ taken \cap aged = {}

Distinct(s) == \A i, j \in 1..Len(s) : s[i] = s[j] => i = j

OncePlaced ==
    /\ Apart(buffer.heard, buffer.pending, buffer.segments, buffer.taken, buffer.aged)
    /\ Distinct(buffer.segments)

LidInv == LidType /\ BufferType /\ OncePlaced

---------------------------------------------------------------------------
\* What the cutoff of _accumulate does to the segments: a prefix ages, the new
\* utterance comes last.
LEMMA Cutoff ==
    ASSUME NEW s \in Seq(Utterances), NEW k \in 0..Len(s), NEW n \in Utterances,
           Distinct(s), n \notin Held(s)
    PROVE  LET t == Append(SubSeq(s, k + 1, Len(s)), n)
               old == {s[i] : i \in 1..k}
           IN /\ t \in Seq(Utterances) /\ Distinct(t)
              /\ Held(t) \cup old = Held(s) \cup {n} /\ Held(t) \cap old = {}
              /\ n \notin old
<1> DEFINE u == SubSeq(s, k + 1, Len(s))
           t == Append(u, n)
           old == {s[i] : i \in 1..k}
<1>1. Len(s) \in Nat /\ DOMAIN s = 1..Len(s) /\ \A i \in 1..Len(s) : s[i] \in Utterances
  BY LenProperties, ElementOfSeq
<1>2. /\ u \in Seq(Utterances) /\ Len(u) = Len(s) - k
      /\ \A i \in 1..(Len(s) - k) : u[i] = s[k + i]
  <2>1. \A i \in (k + 1)..Len(s) : s[i] \in Utterances
    BY <1>1
  <2>2. /\ u \in Seq(Utterances)
        /\ Len(u) = IF k + 1 <= Len(s) THEN Len(s) - (k + 1) + 1 ELSE 0
        /\ \A i \in 1..(Len(s) - (k + 1) + 1) : u[i] = s[k + 1 + i - 1]
    BY <1>1, <2>1, SubSeqProperties, k + 1 \in Int
  <2> HIDE DEF u
  <2>3. k \in Nat /\ k <= Len(s) /\ Len(s) - (k + 1) + 1 = Len(s) - k
    BY <1>1
  <2>4. Len(u) = Len(s) - k
    <3>1. \A a, b \in Nat : a <= b => (IF a + 1 <= b THEN b - (a + 1) + 1 ELSE 0) = b - a
      OBVIOUS
    <3>2. (IF k + 1 <= Len(s) THEN Len(s) - (k + 1) + 1 ELSE 0) = Len(s) - k
      BY <1>1, <2>3, <3>1
    <3> QED BY <2>2, <3>2
  <2>5. ASSUME NEW i \in 1..(Len(s) - k) PROVE u[i] = s[k + i]
    <3>1. k + 1 + i - 1 = k + i
      BY <2>3
    <3> QED BY <2>2, <2>3, <3>1
  <2> QED BY <2>2, <2>4, <2>5
<1>3. /\ t \in Seq(Utterances) /\ Len(t) = Len(s) - k + 1 /\ t[Len(s) - k + 1] = n
      /\ \A i \in 1..(Len(s) - k) : t[i] = s[k + i]
  BY <1>2, AppendProperties
<1> HIDE DEF t, u
<1>4. DOMAIN t = 1..(Len(s) - k + 1)
  BY <1>3, LenProperties
<1>5. Distinct(t)
  <2>1. ASSUME NEW i \in 1..(Len(s) - k)
        PROVE  k + i \in 1..Len(s) /\ t[i] = s[k + i] /\ t[i] # n
    <3>1. k + i \in 1..Len(s)
      BY <1>1
    <3> QED BY <1>1, <1>3, <3>1 DEF Held
  <2>2. ASSUME NEW i \in 1..(Len(s) - k), NEW j \in 1..(Len(s) - k), t[i] = t[j] PROVE i = j
    <3>1. k + i = k + j
      BY <2>1, <2>2 DEF Distinct
    <3> QED BY <3>1, <1>1
  <2>3. 1..Len(t) = 1..(Len(s) - k) \cup {Len(s) - k + 1}
    BY <1>1, <1>3
  <2> QED BY <1>3, <2>1, <2>2, <2>3 DEF Distinct
<1>6. Held(t) = {s[i] : i \in (k + 1)..Len(s)} \cup {n}
  <2>1. ASSUME NEW x \in Held(t) PROVE x \in {s[i] : i \in (k + 1)..Len(s)} \cup {n}
    <3>1. PICK i \in 1..(Len(s) - k + 1) : x = t[i]
      BY <1>4 DEF Held
    <3>2. CASE i = Len(s) - k + 1
      BY <3>1, <3>2, <1>3
    <3>3. CASE i \in 1..(Len(s) - k)
      <4>1. x = s[k + i] /\ k + i \in (k + 1)..Len(s)
        BY <3>1, <3>3, <1>3, <1>1
      <4> QED BY <4>1
    <3> QED BY <3>1, <3>2, <3>3, <1>1
  <2>2. ASSUME NEW i \in (k + 1)..Len(s) PROVE s[i] \in Held(t)
    <3>1. i - k \in 1..(Len(s) - k) /\ i - k \in DOMAIN t
      BY <1>1, <1>4
    <3>2. t[i - k] = s[k + (i - k)] /\ k + (i - k) = i
      BY <3>1, <1>3, <1>1
    <3> QED BY <3>1, <3>2 DEF Held
  <2>3. n \in Held(t)
    BY <1>1, <1>3, <1>4 DEF Held
  <2> QED BY <2>1, <2>2, <2>3
<1>7. Held(s) = old \cup {s[i] : i \in (k + 1)..Len(s)}
  BY <1>1 DEF Held
<1>8. old \cap {s[i] : i \in (k + 1)..Len(s)} = {}
  BY <1>1 DEF Distinct
<1> QED BY <1>3, <1>5, <1>6, <1>7, <1>8 DEF t, u

\* Distinct segments are as many as there are.
LEMMA Counted ==
    ASSUME NEW s \in Seq(Utterances), Distinct(s)
    PROVE  Cardinality(Held(s)) = Len(s)
<1>1. Len(s) \in Nat /\ s \in [1..Len(s) -> Utterances] /\ DOMAIN s = 1..Len(s)
  BY LenProperties
<1>2. s \in [1..Len(s) -> Held(s)]
  BY <1>1 DEF Held
<1>3. s \in Bijection(1..Len(s), Held(s))
  BY <1>1, <1>2 DEF Bijection, Injection, Surjection, Distinct, Held, IsInjective
<1>4. ExistsBijection(1..Len(s), Held(s))
  BY <1>3 DEF ExistsBijection
<1> QED BY <1>1, <1>4, FS_CountingElements

\* The new utterance n joins the segments of the buffer b, from which it was
\* missing.
LEMMA Joins ==
    ASSUME NEW b, NEW n \in Utterances,
           b \in Buffers,
           Distinct(b.segments),
           b.pending \notin Held(b.segments), b.pending \notin b.taken, b.pending \notin b.aged,
           Held(b.segments) \cap b.taken = {}, Held(b.segments) \cap b.aged = {},
           b.taken \cap b.aged = {},
           Held(b.segments) \cup ({b.pending} \ {0}) \cup b.taken \cup b.aged \cup {n} = 1..b.heard,
           n \notin Held(b.segments) \cup b.taken \cup b.aged, b.pending # n,
           Accumulate(b, n)
    PROVE  BufferType' /\ OncePlaced'
<1>1. PICK k \in 0..Len(b.segments) :
          buffer' = [b EXCEPT !.segments = Append(SubSeq(@, k + 1, Len(@)), n), !.event = TRUE,
                              !.aged = @ \cup {b.segments[i] : i \in 1..k}]
  BY DEF Accumulate
<1> DEFINE s == b.segments
           t == Append(SubSeq(s, k + 1, Len(s)), n)
           old == {s[i] : i \in 1..k}
<1>0. s \in Seq(Utterances) /\ b.taken \subseteq Utterances /\ b.aged \subseteq Utterances
  BY DEF Buffers
<1>2. /\ t \in Seq(Utterances) /\ Distinct(t)
      /\ Held(t) \cup old = Held(s) \cup {n} /\ Held(t) \cap old = {} /\ n \notin old
  BY <1>0, Cutoff
<1>3. /\ buffer'.audio = b.audio /\ buffer'.heard = b.heard /\ buffer'.pending = b.pending
      /\ buffer'.segments = t /\ buffer'.event = TRUE /\ buffer'.taken = b.taken
      /\ buffer'.aged = b.aged \cup old
  BY <1>1 DEF Buffers
<1>4. Len(s) \in Nat /\ DOMAIN s = 1..Len(s)
  BY <1>0, LenProperties
<1>5. old \subseteq Held(s) /\ Held(s) \subseteq Utterances
  BY <1>0, <1>4, ElementOfSeq DEF Held
<1> HIDE DEF t, old
<1>6. BufferType'
  <2>1. b.aged \cup old \in SUBSET Utterances
    BY <1>0, <1>5
  <2> QED BY <1>1, <1>2, <2>1 DEF BufferType, Buffers, t, old
<1>7. OncePlaced'
  <2>1. Apart(b.heard, b.pending, t, b.taken, b.aged \cup old)
    <3>1. Held(t) \cup ({b.pending} \ {0}) \cup b.taken \cup (b.aged \cup old) = 1..b.heard
      BY <1>2
    <3>2. /\ b.pending \notin Held(t) /\ b.pending \notin b.aged \cup old
          /\ Held(t) \cap b.taken = {} /\ Held(t) \cap (b.aged \cup old) = {}
          /\ b.taken \cap (b.aged \cup old) = {}
      BY <1>2, <1>5
    <3> QED BY <3>1, <3>2 DEF Apart
  <2> QED BY <2>1, <1>2, <1>3 DEF OncePlaced
<1> QED BY <1>6, <1>7

---------------------------------------------------------------------------
LEMMA LidInitial == ASSUME LidInit PROVE LidInv
<1> USE LidAssumption
<1>1. LidType
  BY DEF LidInit, LidType, Connections
<1>2. << >> \in Seq(Utterances) /\ Len(<< >>) = 0 /\ Held(<< >>) = {}
  BY EmptySeq DEF Held
<1>3. BufferType
  BY <1>2 DEF LidInit, BufferType, Buffers
<1>4. /\ buffer.heard = 0 /\ buffer.pending = 0 /\ buffer.segments = << >> /\ buffer.taken = {}
      /\ buffer.aged = {}
  BY DEF LidInit
<1>5. Apart(0, 0, << >>, {}, {}) /\ Distinct(<< >>)
  BY <1>2 DEF Apart, Distinct
<1>6. OncePlaced
  BY <1>4, <1>5 DEF OncePlaced
<1> QED BY <1>1, <1>3, <1>6 DEF LidInv

\* The steps that leave the utterances alone.
LEMMA Elsewhere ==
    ASSUME LidInv, LidType', NEW a \in 0..LidQueue, buffer' = [buffer EXCEPT !.audio = a]
    PROVE  LidInv'
<1>1. BufferType'
  BY DEF LidInv, BufferType, Buffers
<1>2. /\ buffer'.heard = buffer.heard /\ buffer'.pending = buffer.pending
      /\ buffer'.segments = buffer.segments /\ buffer'.taken = buffer.taken
      /\ buffer'.aged = buffer.aged
  BY DEF LidInv, BufferType, Buffers
<1>3. OncePlaced'
  BY <1>2 DEF LidInv, OncePlaced
<1> QED BY <1>1, <1>3 DEF LidInv

LEMMA Untouched ==
    ASSUME LidInv, LidType', UNCHANGED buffer
    PROVE  LidInv'
BY DEF LidInv, BufferType, Buffers, OncePlaced

\* Every step keeps the types of the connection.
LEMMA ConnectionTyped == ASSUME LidType, [LidNext]_lidVars PROVE LidType'
<1> USE LidAssumption DEF LidType, Connections
<1>1. ASSUME NEW l, l \in Connections, lid' = Attempt(l)
      PROVE LidType'
  <2>1. CASE l.tries >= LidCap
    BY <1>1, <2>1 DEF Attempt
  <2>2. CASE ~(l.tries >= LidCap)
    <3>1. l.tries + 1 \in 0..LidCap
      BY <1>1, <2>2
    <3> QED BY <1>1, <2>2, <3>1 DEF Attempt
  <2> QED BY <2>1, <2>2
<1>2. ASSUME NEW l, l \in Connections, lid' = Schedule(l)
      PROVE LidType'
  BY <1>2 DEF Schedule
<1>3. CASE LidStart
  BY <1>3 DEF LidStart
<1>4. CASE LidSend
  BY <1>4, <1>2 DEF LidSend
<1>5. CASE LidDrops
  <2>1. lid.drops + 1 \in 0..MaxDrops
    BY <1>5 DEF LidDrops
  <2> QED BY <1>5, <2>1 DEF LidDrops
<1>6. CASE LidReceiverEnds
  <2> DEFINE l == [lid EXCEPT !.receiver = FALSE]
  <2>1. lid' = Schedule(l)
    BY <1>6 DEF LidReceiverEnds
  <2>2. l \in Connections
    OBVIOUS
  <2> HIDE DEF l
  <2> QED BY <2>1, <2>2, <1>2
<1>7. CASE LidReconnect
  <2> DEFINE l == [lid EXCEPT !.tries = IF lid.recent THEN @ ELSE 0, !.recent = TRUE]
  <2>1. lid' = Attempt(l)
    BY <1>7 DEF LidReconnect
  <2>2. l \in Connections
    <3>1. (IF lid.recent THEN lid.tries ELSE 0) \in 0..LidCap
      OBVIOUS
    <3> QED BY <3>1
  <2> HIDE DEF l
  <2> QED BY <2>1, <2>2, <1>1
<1>8. CASE LidRested
  BY <1>8 DEF LidRested
<1>9. CASE LidRestarted
  BY <1>9, <1>1 DEF LidRestarted
<1>10. CASE LidWindowPasses
  BY <1>10 DEF LidWindowPasses
<1>11. CASE LidStop
  BY <1>11 DEF LidStop
<1>12. CASE LidStopReconnect
  BY <1>12 DEF LidStopReconnect
<1>13. CASE LidStopTasks
  BY <1>13 DEF LidStopTasks
<1>14. CASE LidFeed \/ LidHears \/ LidFlushes \/ LidTake \/ UNCHANGED lidVars
  BY <1>14 DEF LidFeed, LidHears, LidFlushes, LidTake, lidVars
<1> QED
  BY <1>3, <1>4, <1>5, <1>6, <1>7, <1>8, <1>9, <1>10, <1>11, <1>12, <1>13, <1>14 DEF LidNext

\* Soniox flushes: what was pending joins the segments.
LEMMA Flushing ==
    ASSUME LidInv, buffer.pending > 0, Accumulate([buffer EXCEPT !.pending = 0], buffer.pending)
    PROVE  BufferType' /\ OncePlaced'
<1> DEFINE b == [buffer EXCEPT !.pending = 0]
           n == buffer.pending
<1>1. /\ b \in Buffers
      /\ n \in Utterances
  <2>1. 0 \in 0..MaxHeard /\ buffer.pending \in 0..MaxHeard
    BY LidAssumption DEF LidInv, BufferType, Buffers
  <2>2. n \in Utterances
    BY <2>1, LidAssumption DEF Utterances
  <2> QED BY <2>1, <2>2 DEF LidInv, BufferType, Buffers
<1>2. /\ b.pending = 0 /\ b.heard = buffer.heard /\ b.segments = buffer.segments
      /\ b.taken = buffer.taken /\ b.aged = buffer.aged
  BY DEF LidInv, BufferType, Buffers
<1>3. Apart(b.heard, n, b.segments, b.taken, b.aged) /\ Distinct(b.segments)
  BY <1>2 DEF LidInv, OncePlaced
<1> HIDE DEF b, n
<1>4. \A x \in Utterances : x # 0
  BY LidAssumption DEF Utterances
<1>5. /\ b.taken \subseteq Utterances /\ b.aged \subseteq Utterances
      /\ Held(b.segments) \subseteq Utterances
  BY <1>1, LenProperties, ElementOfSeq DEF Held, Buffers
<1>6. 0 \notin Held(b.segments) /\ 0 \notin b.taken /\ 0 \notin b.aged /\ n # 0
  BY <1>1, <1>4, <1>5
<1>7. Held(b.segments) \cup ({b.pending} \ {0}) \cup b.taken \cup b.aged \cup {n} = 1..b.heard
  BY <1>2, <1>3, <1>6 DEF Apart
<1>8. Accumulate(b, n)
  BY DEF b, n
<1> QED BY <1>1, <1>2, <1>3, <1>6, <1>7, <1>8, Joins DEF Apart

\* One more utterance is recognised: whole, or as the one under way.
LEMMA Hearing == ASSUME LidInv, LidHears PROVE BufferType' /\ OncePlaced'
<1> DEFINE n == buffer.heard + 1
           b == [buffer EXCEPT !.heard = n]
<1>1. /\ buffer.heard \in Nat /\ buffer.heard < MaxHeard /\ MaxHeard \in Nat
      /\ n \in Utterances /\ n \in 0..MaxHeard /\ 1..n = 1..buffer.heard \cup {n}
      /\ n \notin 1..buffer.heard /\ n # 0
  BY LidAssumption DEF LidInv, BufferType, Buffers, LidHears, Utterances
<1>2. b \in Buffers
  BY <1>1 DEF LidInv, BufferType, Buffers
<1>3. /\ b.pending = buffer.pending /\ b.heard = n /\ b.segments = buffer.segments
      /\ b.taken = buffer.taken /\ b.aged = buffer.aged
  BY DEF LidInv, BufferType, Buffers
<1>4. Apart(buffer.heard, b.pending, b.segments, b.taken, b.aged) /\ Distinct(b.segments)
  BY <1>3 DEF LidInv, OncePlaced
<1>5. n \notin Held(b.segments) \cup ({b.pending} \ {0}) \cup b.taken \cup b.aged
  BY <1>1, <1>4 DEF Apart
<1>6. CASE lid.of = "sarvam"
  <2>1. Accumulate(b, n)
    BY <1>6 DEF LidHears
  <2> HIDE DEF b, n
  <2>2. Held(b.segments) \cup ({b.pending} \ {0}) \cup b.taken \cup b.aged \cup {n} = 1..b.heard
    BY <1>1, <1>3, <1>4 DEF Apart
  <2>3. n \notin Held(b.segments) \cup b.taken \cup b.aged /\ b.pending # n
    BY <1>1, <1>5
  <2> QED BY <1>1, <1>2, <1>4, <2>1, <2>2, <2>3, Joins DEF Apart
<1>7. CASE lid.of # "sarvam"
  <2>1. buffer.pending = 0 /\ buffer' = [b EXCEPT !.pending = n]
    BY <1>7 DEF LidHears
  <2>2. /\ buffer'.heard = n /\ buffer'.pending = n /\ buffer'.segments = b.segments
        /\ buffer'.taken = b.taken /\ buffer'.aged = b.aged
    BY <2>1, <1>2
  <2>3. BufferType'
    BY <2>1, <1>1, <1>2 DEF BufferType, Buffers
  <2> HIDE DEF b, n
  <2>4. Held(b.segments) \cup b.taken \cup b.aged = 1..buffer.heard
    BY <1>3, <1>4, <2>1 DEF Apart
  <2>5. Apart(n, n, b.segments, b.taken, b.aged)
    BY <1>1, <1>4, <1>5, <2>4 DEF Apart
  <2> QED BY <2>2, <2>3, <2>5, <1>4 DEF OncePlaced
<1> QED BY <1>6, <1>7

\* A user turn drains the segments.
LEMMA Taking == ASSUME LidInv, LidTake PROVE BufferType' /\ OncePlaced'
<1> DEFINE h == Held(buffer.segments)
<1>1. buffer' = [buffer EXCEPT !.segments = << >>, !.event = FALSE, !.taken = @ \cup h]
  BY DEF LidTake, Held
<1>2. h \subseteq Utterances
  BY LenProperties, ElementOfSeq DEF LidInv, BufferType, Buffers, Held
<1>3. << >> \in Seq(Utterances) /\ Len(<< >>) = 0 /\ Held(<< >>) = {}
  BY EmptySeq DEF Held
<1> HIDE DEF h
<1>4. buffer.taken \cup h \in SUBSET Utterances
  BY <1>2 DEF LidInv, BufferType, Buffers
<1>5. BufferType'
  BY <1>1, <1>3, <1>4 DEF LidInv, BufferType, Buffers
<1>6. /\ buffer'.heard = buffer.heard /\ buffer'.pending = buffer.pending
      /\ buffer'.segments = << >> /\ buffer'.taken = buffer.taken \cup h
      /\ buffer'.aged = buffer.aged
  BY <1>1 DEF LidInv, BufferType, Buffers
<1>7. Apart(buffer.heard, buffer.pending, << >>, buffer.taken \cup h, buffer.aged)
  BY <1>3 DEF LidInv, OncePlaced, Apart, h
<1>8. Distinct(<< >>)
  BY <1>3 DEF Distinct
<1> QED BY <1>5, <1>6, <1>7, <1>8 DEF OncePlaced

LEMMA LidInductive == ASSUME LidInv, [LidNext]_lidVars PROVE LidInv'
<1>1. LidType'
  BY ConnectionTyped DEF LidInv
<1>2. CASE LidStart \/ LidDrops \/ LidReceiverEnds \/ LidReconnect \/ LidRested
           \/ LidRestarted \/ LidWindowPasses \/ LidStopTasks \/ UNCHANGED lidVars
  BY <1>1, <1>2, Untouched
     DEF LidStart, LidDrops, LidReceiverEnds, LidReconnect, LidRested, LidRestarted,
         LidWindowPasses, LidStopTasks, lidVars
<1>3. CASE LidFeed
  <2>1. buffer.audio + 1 \in 0..LidQueue
    BY <1>3, LidAssumption DEF LidFeed, LidInv, BufferType, Buffers
  <2> QED BY <1>1, <1>3, <2>1, Elsewhere DEF LidFeed
<1>4. CASE LidSend
  <2>1. buffer.audio - 1 \in 0..LidQueue
    BY <1>4, LidAssumption DEF LidSend, LidInv, BufferType, Buffers
  <2> QED BY <1>1, <1>4, <2>1, Elsewhere DEF LidSend
<1>5. CASE LidStopReconnect
  <2>1. PICK a \in 0..LidQueue : buffer' = [buffer EXCEPT !.audio = a]
    <3>1. buffer.audio \in 0..LidQueue /\ 0 \in 0..LidQueue
      BY LidAssumption DEF LidInv, BufferType, Buffers
    <3> QED BY <1>5, <3>1 DEF LidStopReconnect
  <2> QED BY <1>1, <2>1, Elsewhere
<1>6. CASE LidHears
  BY <1>1, <1>6, Hearing DEF LidInv
<1>7. CASE LidFlushes
  BY <1>1, <1>7, Flushing DEF LidInv, LidFlushes
<1>8. CASE LidStop
  <2>1. CASE lid.of = "soniox" /\ buffer.pending > 0
    BY <1>1, <1>8, <2>1, Flushing DEF LidInv, LidStop
  <2>2. CASE ~(lid.of = "soniox" /\ buffer.pending > 0)
    BY <1>1, <1>8, <2>2, Untouched DEF LidStop
  <2> QED BY <2>1, <2>2
<1>9. CASE LidTake
  BY <1>1, <1>9, Taking DEF LidInv
<1> QED
  BY <1>2, <1>3, <1>4, <1>5, <1>6, <1>7, <1>8, <1>9 DEF LidNext

LEMMA LidSafety == LidInit /\ [][LidNext]_lidVars => []LidInv
<1>1. LidInit => LidInv
  BY LidInitial
<1>2. LidInv /\ [LidNext]_lidVars => LidInv'
  BY LidInductive
<1> QED BY <1>1, <1>2, PTL

LEMMA LidInvariant == LidSpec => []LidInv
BY LidSafety, PTL DEF LidSpec

LEMMA LidTypeShape == LidInv => LidTypeOK
BY DEF LidInv, LidType, Connections, BufferType, Buffers, LidTypeOK, Utterances

\* Every field of the connection and of the buffer keeps its type; so the
\* reconnects never exceed _MAX_RECONNECTS (lid/base.py).
THEOREM LidTypeCorrect == LidSpec => []LidTypeOK
BY LidTypeShape, LidInvariant, PTL

\* Every recognised utterance is pending, buffered, drained by one turn or too
\* old, and in one place only: no reconnect and no stop() of the detector loses one.
THEOREM EveryUtteranceOnceCorrect == LidSpec => []EveryUtteranceOnce
<1>1. ASSUME LidInv PROVE EveryUtteranceOnce
  <2> DEFINE held == {buffer.segments[i] : i \in DOMAIN buffer.segments}
             pending == {buffer.pending} \ {0}
             places == <<held, pending, buffer.taken, buffer.aged>>
  <2>1. held = Held(buffer.segments)
    BY DEF Held
  <2>2. Cardinality(held) = Len(buffer.segments)
    BY <1>1, <2>1, Counted DEF LidInv, BufferType, Buffers, OncePlaced
  <2> HIDE DEF held, pending
  <2>3. /\ held \cup pending \cup buffer.taken \cup buffer.aged = 1..buffer.heard
        /\ held \cap pending = {} /\ held \cap buffer.taken = {} /\ held \cap buffer.aged = {}
        /\ pending \cap buffer.taken = {} /\ pending \cap buffer.aged = {}
        /\ buffer.taken \cap buffer.aged = {}
    BY <1>1, <2>1 DEF LidInv, OncePlaced, Apart, pending
  <2>4. UNION {places[i] : i \in 1..4} = held \cup pending \cup buffer.taken \cup buffer.aged
    OBVIOUS
  <2>5. \A i, j \in 1..4 : i # j => places[i] \cap places[j] = {}
    BY <2>3
  <2> QED BY <2>2, <2>3, <2>4, <2>5 DEF EveryUtteranceOnce, held, pending
<1> QED BY <1>1, LidInvariant, PTL

-----------------------------------------------------------------------------
\* Switching.

Places == {"idle", "spawned", "settling", "deciding", "truncating", "gap", "ear", "earRun",
           "voice", "voiceRun", "handoff"}
AtVoice == {"voice", "voiceRun"}
Fresh == {"idle", "spawned"}
Flipping == {"ear", "earRun", "voice", "voiceRun"}

Tasks == [at : Places, spawn : Labels, target : Labels, armed : BOOLEAN, quiet : BOOLEAN]
Judges == [task : [Switchers -> Tasks], lock : Switchers \cup {Nobody}]
VoicePools == [active : VoiceLabels, gen : VoiceLabels \cup {"none"}, lock : Switchers \cup {Nobody},
           waits : Seq(Switchers), running : [VoiceLabels -> Int],
           queue : Seq(VoiceLabels \cup {"switch"})]
Ears == [active : EarLabels, up : [EarLabels -> BOOLEAN],
         lock : Switchers \cup {Listener, Nobody}, tries : Nat, ended : BOOLEAN]
Calls == [state : {"on", "ending", "over"}, turns : Nat, tools : Nat, closed : Int,
          listener : {"on", "waiting", "reviving", "gone"}, leg : EarLabels, deaths : Nat]

TypeInv ==
    /\ judge \in Judges /\ voice \in VoicePools /\ ear \in Ears /\ call \in Calls
    /\ language \in Labels
    /\ \A t \in Switchers : At(t) \in {"earRun", "voice", "voiceRun"} => Target(t) \in EarLabels

---------------------------------------------------------------------------
\* The lock of the synthesizer pool belongs to the task that runs the new voice;
\* who waits for it waits in the queue, once.
Among(t, s) == \E i \in 1..Len(s) : s[i] = t

Mutex ==
    /\ \A t \in Switchers : At(t) = "voiceRun" <=> voice.lock = t
    /\ \A t \in Switchers : At(t) = "voiceRun" => Target(t) \in VoiceLabels
    /\ \A t \in Switchers : At(t) = "voice" <=> Among(t, voice.waits)
    /\ Distinct(voice.waits)

\* While it is free the active voice has the one generator; else there is none.
OneGenerator ==
    /\ voice.gen = IF voice.lock = Nobody THEN voice.active ELSE "none"
    /\ voice.running = [l \in VoiceLabels |-> IF l = voice.gen THEN 1 ELSE 0]

BehindSentinel ==
    \A i \in 1..Len(voice.queue) :
        (\A j \in i..Len(voice.queue) : voice.queue[j] # "switch")
            => voice.queue[i] = voice.active \/ voice.lock # Nobody

\* The transcriber is in the language of the last task that still has to switch
\* the voice; if there is none, in that of the voice, or in one that has none.
Led(active, target, waits, lock, spoken) ==
    IF waits # << >> THEN target[waits[Len(waits)]] = active
    ELSE IF lock # Nobody THEN target[lock] = active
    ELSE active = spoken \/ active \notin VoiceLabels

Targets == [t \in Switchers |-> Target(t)]
EarLeads ==
    /\ Led(ear.active, Targets, voice.waits, voice.lock, voice.active)
    /\ voice.active = language

VoiceInv == Mutex /\ OneGenerator /\ BehindSentinel /\ EarLeads

---------------------------------------------------------------------------
\* Where decisions are made, the lock serializes all that switch, and a decision that
\* holds it was started for the present language.
DecisionInv ==
    /\ \A n \in Turns : n > call.turns => At(<<"turn", n>>) = "idle"
    /\ flow = "legacy" => \A t \in Decisions : At(t) = "idle"
    /\ flow # "legacy" => /\ At(Unasked) = "idle"
                          /\ \A t \in Switchers : At(t) \notin Fresh => judge.lock = t
    /\ flow \notin {"deadjudge", "legacy"} => At(Tool) = "idle"
    /\ \A t \in Decisions : At(t) \notin Fresh \cup {"handoff"} => judge.task[t].spawn = language

IInv == TypeInv /\ VoiceInv /\ DecisionInv

\* A handoff is only reached by a switch.
BySwitchOnly ==
    \A t \in Decisions : judge'.task[t].at = "handoff" => At(t) \in Flipping \cup {"handoff"}

\* A step of t's leaves every other task alone; or all of it but the hold it is owed.
Alone(t) == \A u \in Switchers : u # t => judge'.task[u] = judge.task[u]
Others(t) ==
    \A u \in Switchers : u # t => /\ judge'.task[u].at = judge.task[u].at
                                  /\ judge'.task[u].spawn = judge.task[u].spawn
                                  /\ judge'.task[u].target = judge.task[u].target

---------------------------------------------------------------------------
LEMMA Names ==
    /\ Nobody \notin Switchers /\ Listener \notin Switchers /\ Listener # Nobody
    /\ Tool \in Switchers /\ Unasked \in Switchers /\ Tool # Unasked
    /\ Tool \notin Decisions /\ Unasked \notin Decisions /\ Decisions \subseteq Switchers
    /\ <<"idle", 0>> \in Decisions /\ \A n \in Turns : <<"turn", n>> \in Decisions
    /\ \A n \in Turns : <<"turn", n>> # <<"idle", 0>>
    /\ \A m, n \in Turns : <<"turn", n>> = <<"turn", m>> => m = n
    /\ \A t \in Decisions : t = <<"idle", 0>> \/ \E n \in Turns : t = <<"turn", n>>
<1>1. \A t \in Decisions : t = <<"idle", 0>> \/ \E n \in Turns : t = <<"turn", n>>
  BY DEF Decisions
<1>2. <<"idle", 0>> \in Decisions /\ \A n \in Turns : <<"turn", n>> \in Decisions
  BY DEF Decisions
<1>3. \A n \in Turns : /\ <<"turn", n>> # <<"idle", 0>> /\ <<"turn", n>> # Tool
                       /\ <<"turn", n>> # Unasked /\ <<"turn", n>> # Nobody
                       /\ <<"turn", n>> # Listener
  <2> SUFFICES ASSUME NEW n \in Turns, NEW m \in {"idle", "tool", "auto", "nobody", "listener"}
               PROVE <<"turn", n>> # <<m, 0>>
    BY DEF Tool, Unasked, Nobody, Listener
  <2> QED BY <<"turn", n>>[1] = "turn", <<m, 0>>[1] = m
<1>4. \A k, m \in {"idle", "tool", "auto", "nobody", "listener"} :
          k # m => <<k, 0>> # <<m, 0>>
  <2> SUFFICES ASSUME NEW k, NEW m, k # m PROVE <<k, 0>> # <<m, 0>>
    OBVIOUS
  <2> QED BY <<k, 0>>[1] = k, <<m, 0>>[1] = m
<1>10. /\ <<"idle", 0>> # Tool /\ <<"idle", 0>> # Unasked /\ <<"idle", 0>> # Nobody
       /\ <<"idle", 0>> # Listener
       /\ Tool # Unasked /\ Tool # Nobody /\ Tool # Listener /\ Unasked # Nobody /\ Unasked # Listener
       /\ Listener # Nobody
  BY <1>4 DEF Tool, Unasked, Nobody, Listener
<1>5. ASSUME NEW m \in Turns, NEW n \in Turns, <<"turn", n>> = <<"turn", m>> PROVE m = n
  BY <1>5, <<"turn", n>>[2] = n, <<"turn", m>>[2] = m
<1>6. Tool \in Switchers /\ Unasked \in Switchers /\ Decisions \subseteq Switchers
  BY DEF Switchers
<1>7. \A t \in Switchers : t \in Decisions \/ t = Tool \/ t = Unasked
  BY DEF Switchers
<1>8. Tool \notin Decisions /\ Unasked \notin Decisions
  BY <1>1, <1>3, <1>10
<1>9. Nobody \notin Switchers /\ Listener \notin Switchers
  BY <1>1, <1>3, <1>10, <1>7
<1> QED BY <1>1, <1>2, <1>3, <1>10, <1>5, <1>6, <1>8, <1>9

LEMMA FreshTask == NoTask \in Tasks
<1>1. FirstLabel \in Labels
  BY SwitchAssumption DEF Labels
<1> QED BY <1>1 DEF NoTask, Tasks, Places

\* What Done and Move do.
LEMMA DoneShape ==
    ASSUME judge \in Judges, NEW t \in Switchers, judge' = Done(t)
    PROVE  /\ judge' \in Judges /\ Alone(t) /\ Others(t) /\ judge'.task[t] = NoTask
           /\ judge'.lock = IF judge.lock = t THEN Nobody ELSE judge.lock
<1>1. judge' = [judge EXCEPT !.task = [judge.task EXCEPT ![t] = NoTask],
                             !.lock = IF judge.lock = t THEN Nobody ELSE judge.lock]
  BY DEF Done, Judges
<1>2. [judge.task EXCEPT ![t] = NoTask] \in [Switchers -> Tasks]
  BY FreshTask DEF Judges
<1>3. judge'.task = [judge.task EXCEPT ![t] = NoTask]
  BY <1>1 DEF Judges
<1> QED BY <1>1, <1>2, <1>3 DEF Judges, Alone, Others

LEMMA MoveShape ==
    ASSUME judge \in Judges, NEW t \in Switchers, NEW p \in Places, judge' = Move(t, p)
    PROVE  /\ judge' \in Judges /\ Alone(t) /\ Others(t) /\ judge'.lock = judge.lock
           /\ judge'.task[t].at = p /\ judge'.task[t].target = Target(t)
           /\ judge'.task[t].spawn = judge.task[t].spawn
<1>1. judge' = [judge EXCEPT !.task = [judge.task EXCEPT ![t] = [judge.task[t] EXCEPT !.at = p]]]
  BY DEF Move, Judges
<1>2. /\ judge.task[t] \in Tasks /\ [judge.task[t] EXCEPT !.at = p] \in Tasks
      /\ [judge.task[t] EXCEPT !.at = p].target = judge.task[t].target
      /\ [judge.task[t] EXCEPT !.at = p].spawn = judge.task[t].spawn
      /\ [judge.task[t] EXCEPT !.at = p].at = p
  BY DEF Judges, Tasks
<1>3. judge'.task = [judge.task EXCEPT ![t] = [judge.task[t] EXCEPT !.at = p]]
  BY <1>1 DEF Judges
<1>4. judge'.task[t] = [judge.task[t] EXCEPT !.at = p]
  BY <1>3 DEF Judges
<1>5. judge'.task \in [Switchers -> Tasks] /\ Alone(t) /\ Others(t)
  BY <1>2, <1>3 DEF Judges, Alone, Others
<1>6. judge'.lock = judge.lock /\ judge' \in Judges
  BY <1>1, <1>5, <1>3 DEF Judges
<1> QED BY <1>2, <1>4, <1>5, <1>6 DEF Target

\* What the end of a gap does: t goes to its switch, and the hold that the gate
\* stood for is owed no more.
LEMMA GapShape ==
    ASSUME judge \in Judges, NEW t \in Switchers, Gap(t), ~Ending
    PROVE  /\ judge' \in Judges /\ Others(t) /\ judge'.lock = judge.lock
           /\ judge'.task[t].at = "ear" /\ judge'.task[t].spawn = judge.task[t].spawn
           /\ \A u \in Switchers : judge'.task[u].armed => judge.task[u].armed /\ u # gate.task
<1> DEFINE moved(u) == IF u = t THEN [judge.task[u] EXCEPT !.at = "ear"] ELSE judge.task[u]
           then == Unowed(Move(t, "ear").task)
<1>1. Move(t, "ear") = [judge EXCEPT !.task = [judge.task EXCEPT ![t] =
                                         [judge.task[t] EXCEPT !.at = "ear"]]]
  BY DEF Move, Judges
<1>2. \A u \in Switchers : Move(t, "ear").task[u] = moved(u) /\ moved(u) \in Tasks
  BY <1>1 DEF Judges, Tasks, Places
<1>3. \A u \in Switchers : then[u] = [moved(u) EXCEPT !.armed = @ /\ u # gate.task]
  BY <1>2 DEF Unowed
<1>4. \A u \in Switchers : /\ then[u] \in Tasks
                           /\ then[u].at = moved(u).at /\ then[u].spawn = moved(u).spawn
                           /\ then[u].target = moved(u).target
                           /\ then[u].armed => moved(u).armed /\ u # gate.task
  <2> HIDE DEF moved, then
  <2> SUFFICES ASSUME NEW u \in Switchers
               PROVE  /\ then[u] \in Tasks
                      /\ then[u].at = moved(u).at /\ then[u].spawn = moved(u).spawn
                      /\ then[u].target = moved(u).target
                      /\ then[u].armed => moved(u).armed /\ u # gate.task
    OBVIOUS
  <2> DEFINE m == moved(u)
             held == m.armed /\ u # gate.task
  <2>1. m \in Tasks /\ then[u] = [m EXCEPT !.armed = held]
    BY <1>2, <1>3
  <2>2. held \in BOOLEAN /\ (held => m.armed /\ u # gate.task)
    OBVIOUS
  <2> HIDE DEF m, held
  <2>3. /\ then[u] \in Tasks
        /\ then[u].at = m.at /\ then[u].spawn = m.spawn /\ then[u].target = m.target
        /\ then[u].armed = held
    BY <2>1, <2>2 DEF Tasks
  <2> QED BY <2>2, <2>3 DEF m
<1>5. then \in [Switchers -> Tasks]
  BY <1>4 DEF Unowed
<1>6. judge' = [judge EXCEPT !.task = then]
  BY DEF Gap
<1> HIDE DEF then
<1>7. judge'.task = then /\ judge'.lock = judge.lock /\ judge' \in Judges
  BY <1>5, <1>6 DEF Judges
<1>8. Others(t)
  BY <1>4, <1>7 DEF Others
<1>9. /\ judge'.task[t].at = "ear" /\ judge'.task[t].spawn = judge.task[t].spawn
      /\ \A u \in Switchers : judge'.task[u].armed => judge.task[u].armed /\ u # gate.task
  BY <1>4, <1>7 DEF Judges, Tasks
<1> QED BY <1>7, <1>8, <1>9

---------------------------------------------------------------------------
\* Away from the voices: a step of one task t that neither was nor comes to wait for the voice.
LEMMA VoiceFrame ==
    ASSUME TypeInv, VoiceInv, NEW t \in Switchers, Others(t), judge' \in Judges,
           At(t) \notin AtVoice, judge'.task[t].at \notin AtVoice,
           UNCHANGED <<voice, language>>, ear'.active = ear.active
    PROVE  VoiceInv'
<1>1. \A u \in Switchers : /\ At(u)' \in AtVoice <=> At(u) \in AtVoice
                           /\ At(u) \in AtVoice => At(u)' = At(u) /\ Target(u)' = Target(u)
  BY DEF Others, At, Target
<1>2. \A u \in Switchers : /\ At(u)' = "voiceRun" <=> At(u) = "voiceRun"
                           /\ At(u)' = "voice" <=> At(u) = "voice"
  BY <1>1 DEF AtVoice
<1>3. Mutex'
  BY <1>1, <1>2 DEF VoiceInv, Mutex, AtVoice
<1>4. OneGenerator' /\ BehindSentinel'
  BY DEF VoiceInv, OneGenerator, BehindSentinel
<1>5. ASSUME EarLeads PROVE EarLeads'
  <2>1. voice.waits \in Seq(Switchers) /\ voice.lock \in Switchers \cup {Nobody}
    BY DEF TypeInv, VoicePools
  <2>2. CASE voice.waits # << >>
    <3>1. Len(voice.waits) \in 1..Len(voice.waits) /\ voice.waits[Len(voice.waits)] \in Switchers
      BY <2>1, <2>2, EmptySeq, ElementOfSeq
    <3>2. At(voice.waits[Len(voice.waits)]) = "voice"
      BY <3>1 DEF VoiceInv, Mutex, Among
    <3>3. Targets'[voice.waits[Len(voice.waits)]] = Targets[voice.waits[Len(voice.waits)]]
      BY <1>1, <3>1, <3>2 DEF Targets, AtVoice
    <3> QED BY <1>5, <2>2, <3>3 DEF EarLeads, Led
  <2>3. CASE voice.waits = << >> /\ voice.lock # Nobody
    <3>1. voice.lock \in Switchers /\ At(voice.lock) = "voiceRun"
      BY <2>1, <2>3 DEF VoiceInv, Mutex
    <3>2. Targets'[voice.lock] = Targets[voice.lock]
      BY <1>1, <3>1 DEF Targets, AtVoice
    <3> QED BY <1>5, <2>3, <3>2 DEF EarLeads, Led
  <2>4. CASE voice.waits = << >> /\ voice.lock = Nobody
    BY <1>5, <2>4 DEF EarLeads, Led
  <2> QED BY <2>2, <2>3, <2>4
<1> QED BY <1>3, <1>4, <1>5 DEF VoiceInv

\* A task that was under way goes on or ends.
LEMMA DecisionFrame ==
    ASSUME DecisionInv, NEW t \in Switchers, Others(t), UNCHANGED <<flow, language>>,
           call'.turns = call.turns, At(t) # "idle",
           flow # "legacy" /\ judge'.task[t].at \notin Fresh => judge'.lock = t,
           judge'.lock = judge.lock \/ judge.lock \in {t, Nobody},
           t \in Decisions /\ judge'.task[t].at \notin Fresh \cup {"handoff"}
               => judge'.task[t].spawn = language
    PROVE  DecisionInv'
<1>1. \A u \in Switchers : u # t => At(u)' = At(u) /\ judge'.task[u].spawn = judge.task[u].spawn
  BY DEF Others, At
<1>2. (\A n \in Turns : n > call.turns => At(<<"turn", n>>) = "idle")'
  BY <1>1, Names DEF DecisionInv
<1>3. (flow = "legacy" => \A u \in Decisions : At(u) = "idle")'
  BY <1>1, Names DEF DecisionInv
<1>4. (flow # "legacy" => /\ At(Unasked) = "idle"
                          /\ \A u \in Switchers : At(u) \notin Fresh => judge.lock = u)'
  <2>1. ASSUME flow # "legacy" PROVE At(Unasked)' = "idle"
    BY <2>1, <1>1, Names DEF DecisionInv
  <2>2. ASSUME flow # "legacy", NEW u \in Switchers, At(u)' \notin Fresh PROVE judge'.lock = u
    <3>1. CASE u = t
      BY <2>2, <3>1 DEF At
    <3>2. CASE u # t
      <4>1. judge.lock = u
        BY <2>2, <3>2, <1>1 DEF DecisionInv
      <4> QED BY <4>1, <3>2, Names
    <3> QED BY <3>1, <3>2
  <2> QED BY <2>1, <2>2
<1>5. (flow \notin {"deadjudge", "legacy"} => At(Tool) = "idle")'
  BY <1>1, Names DEF DecisionInv
<1>6. (\A u \in Decisions : At(u) \notin Fresh \cup {"handoff"} => judge.task[u].spawn = language)'
  BY <1>1, Names DEF DecisionInv, At
<1> QED BY <1>2, <1>3, <1>4, <1>5, <1>6 DEF DecisionInv

\* A task is started.
LEMMA Starts ==
    ASSUME DecisionInv, NEW t \in Switchers, Others(t), UNCHANGED <<flow, language>>,
           call'.turns \in Nat, call.turns \in Nat, call'.turns >= call.turns,
           \A n \in Turns : t = <<"turn", n>> => n <= call'.turns,
           At(t) = "idle", judge'.lock = judge.lock,
           t \in Decisions => flow # "legacy" /\ judge'.task[t].at = "spawned",
           t = Tool => flow \in {"deadjudge", "legacy"} /\ judge'.task[t].at = "spawned",
           t = Unasked => flow = "legacy"
    PROVE  DecisionInv'
<1>1. \A u \in Switchers : u # t => At(u)' = At(u) /\ judge'.task[u].spawn = judge.task[u].spawn
  BY DEF Others, At
<1>2. (\A n \in Turns : n > call.turns => At(<<"turn", n>>) = "idle")'
  <2> SUFFICES ASSUME NEW n \in Turns, n > call'.turns PROVE At(<<"turn", n>>)' = "idle"
    OBVIOUS
  <2>1. n > call.turns /\ <<"turn", n>> # t
    BY SwitchAssumption DEF Turns
  <2> QED BY <2>1, <1>1, Names DEF DecisionInv
<1>3. (flow = "legacy" => \A u \in Decisions : At(u) = "idle")'
  BY <1>1, Names DEF DecisionInv
<1>4. (flow # "legacy" => /\ At(Unasked) = "idle"
                          /\ \A u \in Switchers : At(u) \notin Fresh => judge.lock = u)'
  BY <1>1, Names DEF DecisionInv, At, Fresh, Switchers
<1>5. (flow \notin {"deadjudge", "legacy"} => At(Tool) = "idle")'
  BY <1>1, Names DEF DecisionInv
<1>6. (\A u \in Decisions : At(u) \notin Fresh \cup {"handoff"} => judge.task[u].spawn = language)'
  BY <1>1, Names DEF DecisionInv, At, Fresh
<1> QED BY <1>2, <1>3, <1>4, <1>5, <1>6 DEF DecisionInv

\* The language changes: only the task that switched can have been deciding.
LEMMA Flips ==
    ASSUME DecisionInv, judge \in Judges, NEW t \in Switchers, At(t) \in Flipping, Flip(t),
           flow' = flow, call' = call
    PROVE  /\ DecisionInv' /\ judge' \in Judges /\ Others(t)
           /\ judge'.task[t].at \in {"idle", "handoff"} /\ language' = Target(t)
<1>1. /\ judge' \in Judges /\ Others(t) /\ judge'.task[t].at \in {"idle", "handoff"}
      /\ judge'.task[t].at = "handoff" => judge'.lock = judge.lock
      /\ judge'.lock = judge.lock \/ judge.lock = t
  <2>1. CASE judge' = Done(t)
    BY <2>1, DoneShape DEF NoTask
  <2>2. CASE judge' = Move(t, "handoff")
    BY <2>2, MoveShape DEF Places
  <2> QED BY <2>1, <2>2 DEF Flip
<1>2. \A u \in Switchers : u # t => At(u)' = At(u) /\ judge'.task[u].spawn = judge.task[u].spawn
  BY <1>1 DEF Others, At
<1>3. At(t) # "idle" /\ At(t) \notin Fresh
  BY DEF Flipping, Fresh
<1>4. ASSUME flow # "legacy" PROVE judge.lock = t /\ \A u \in Switchers : u # t => At(u) \in Fresh
  BY <1>3, <1>4 DEF DecisionInv
<1>5. (\A n \in Turns : n > call.turns => At(<<"turn", n>>) = "idle")'
  BY <1>2, <1>3, Names DEF DecisionInv
<1>6. (flow = "legacy" => \A u \in Decisions : At(u) = "idle")'
  BY <1>2, <1>3, Names DEF DecisionInv
<1>7. (flow # "legacy" => /\ At(Unasked) = "idle"
                          /\ \A u \in Switchers : At(u) \notin Fresh => judge.lock = u)'
  BY <1>1, <1>2, <1>3, <1>4, Names DEF DecisionInv, At, Fresh
<1>8. (flow \notin {"deadjudge", "legacy"} => At(Tool) = "idle")'
  BY <1>2, <1>3, Names DEF DecisionInv
<1>9. (\A u \in Decisions : At(u) \notin Fresh \cup {"handoff"} => judge.task[u].spawn = language)'
  <2>1. CASE flow = "legacy"
    BY <2>1, <1>6, Names DEF Fresh
  <2>2. CASE flow # "legacy"
    BY <2>2, <1>1, <1>2, <1>4, Names DEF At, Fresh
  <2> QED BY <2>1, <2>2
<1> QED BY <1>1, <1>5, <1>6, <1>7, <1>8, <1>9 DEF DecisionInv, Flip

---------------------------------------------------------------------------
\* What a task that is at its switch does: it ends, goes to the handoff, or moves on to
\* the next place of the switch.
SwitchMoves(t) ==
    /\ judge' \in Judges /\ Others(t)
    /\ judge'.task[t].at \in {"idle", "handoff", "earRun"} \cup AtVoice
    /\ judge'.task[t].at \in {"earRun"} \cup AtVoice => judge'.task[t].target = Target(t)

\* The free voice lock is taken by t, in front of `rest`, for the language the
\* transcriber has, or for the one before the last of `rest`.
LEMMA VoiceSwitchKeeps ==
    ASSUME TypeInv, OneGenerator, BehindSentinel, DecisionInv,
           NEW t \in Switchers, NEW rest \in Seq(Switchers), VoiceSwitch(t, rest),
           At(t) \in Flipping, voice.lock = Nobody,
           Distinct(rest), ~Among(t, rest),
           \A u \in Switchers : u # t => /\ At(u) # "voiceRun"
                                         /\ At(u) = "voice" <=> Among(u, rest),
           Target(t) \in EarLabels, voice.active = language,
           rest = << >> => Target(t) = ear'.active,
           rest # << >> => Targets[rest[Len(rest)]] = ear'.active,
           UNCHANGED <<flow, call>>
    PROVE  VoiceInv' /\ DecisionInv' /\ SwitchMoves(t) /\ voice' \in VoicePools /\ language' \in Labels
<1> DEFINE l == Target(t)
<1>1. voice \in VoicePools /\ judge \in Judges /\ l \in Labels
  BY DEF TypeInv, Judges, Tasks, Target
<1>2. voice.active \in VoiceLabels /\ voice.gen = voice.active
  BY <1>1 DEF OneGenerator, VoicePools
<1>3. CASE l = voice.active
  <2>1. Flip(t) /\ voice' = [voice EXCEPT !.waits = rest]
    BY <1>3 DEF VoiceSwitch
  <2>2. /\ DecisionInv' /\ judge' \in Judges /\ Others(t)
        /\ judge'.task[t].at \in {"idle", "handoff"} /\ language' = l
    BY <2>1, <1>1, Flips
  <2>3. /\ voice' \in VoicePools /\ voice'.waits = rest /\ voice'.lock = Nobody
        /\ voice'.active = voice.active /\ voice'.gen = voice.gen
        /\ voice'.running = voice.running /\ voice'.queue = voice.queue
    BY <2>1, <1>1 DEF VoicePools
  <2>4. Mutex'
    BY <2>2, <2>3, Names DEF Mutex, Others, At, Target
  <2>5. OneGenerator' /\ BehindSentinel'
    BY <2>3 DEF OneGenerator, BehindSentinel
  <2>6. EarLeads'
    <3>1. CASE rest = << >>
      BY <3>1, <1>3, <2>2, <2>3 DEF EarLeads, Led
    <3>2. CASE rest # << >>
      <4>1. rest[Len(rest)] \in Switchers /\ rest[Len(rest)] # t
        BY <3>2, EmptySeq, ElementOfSeq DEF Among
      <4>2. Targets'[rest[Len(rest)]] = Targets[rest[Len(rest)]]
        BY <4>1, <2>2 DEF Targets, Target, Others
      <4> QED BY <1>3, <3>2, <4>2, <2>2, <2>3 DEF EarLeads, Led
    <3> QED BY <3>1, <3>2
  <2> QED BY <2>2, <2>3, <2>4, <2>5, <2>6, <1>1 DEF VoiceInv, SwitchMoves, AtVoice
<1>4. CASE l # voice.active /\ l \notin VoiceLabels
  <2>1. /\ judge' = Done(t) /\ voice' = [voice EXCEPT !.waits = rest]
        /\ language' = language
    BY <1>4 DEF VoiceSwitch
  <2>2. /\ judge' \in Judges /\ Others(t) /\ judge'.task[t].at = "idle"
        /\ judge'.lock = judge.lock \/ judge.lock \in {t, Nobody}
    BY <2>1, <1>1, DoneShape DEF NoTask
  <2>3. /\ voice' \in VoicePools /\ voice'.waits = rest /\ voice'.lock = Nobody
        /\ voice'.active = voice.active /\ voice'.gen = voice.gen
        /\ voice'.running = voice.running /\ voice'.queue = voice.queue
    BY <2>1, <1>1 DEF VoicePools
  <2>4. Mutex'
    BY <2>2, <2>3, Names DEF Mutex, Others, At, Target
  <2>5. OneGenerator' /\ BehindSentinel'
    BY <2>3 DEF OneGenerator, BehindSentinel
  <2>6. DecisionInv'
    BY <2>1, <2>2, DecisionFrame DEF Fresh, Flipping
  <2>7. EarLeads'
    <3>1. CASE rest = << >>
      BY <3>1, <1>4, <2>1, <2>3 DEF EarLeads, Led
    <3>2. CASE rest # << >>
      <4>1. rest[Len(rest)] \in Switchers /\ rest[Len(rest)] # t
        BY <3>2, EmptySeq, ElementOfSeq DEF Among
      <4>2. Targets'[rest[Len(rest)]] = Targets[rest[Len(rest)]]
        BY <4>1, <2>2 DEF Targets, Target, Others
      <4> QED BY <3>2, <4>2, <2>1, <2>3 DEF EarLeads, Led
    <3> QED BY <3>1, <3>2
  <2> QED BY <2>1, <2>2, <2>3, <2>4, <2>5, <2>6, <2>7, <1>4 DEF VoiceInv, SwitchMoves, TypeInv, AtVoice
<1>5. CASE l # voice.active /\ l \in VoiceLabels
  <2>1. /\ voice' = [voice EXCEPT !.waits = rest, !.lock = t, !.gen = "none",
                                  !.running = WithoutOne(@, voice.gen)]
        /\ judge' = Move(t, "voiceRun") /\ language' = language
    BY <1>5 DEF VoiceSwitch
  <2>2. /\ judge' \in Judges /\ Others(t) /\ judge'.task[t].at = "voiceRun"
        /\ judge'.lock = judge.lock /\ judge'.task[t].target = l
        /\ judge'.task[t].spawn = judge.task[t].spawn
    BY <2>1, <1>1, MoveShape DEF Places
  <2>3. voice.gen # "none"
    BY <1>2, SwitchAssumption
  <2>4. voice.running = [m \in VoiceLabels |-> IF m = voice.gen THEN 1 ELSE 0]
    BY DEF OneGenerator
  <2>5. WithoutOne(voice.running, voice.gen) = [m \in VoiceLabels |-> 0]
    BY <2>3, <2>4, <1>2 DEF WithoutOne
  <2>6. voice' = [voice EXCEPT !.waits = rest, !.lock = t, !.gen = "none",
                               !.running = [m \in VoiceLabels |-> 0]]
    BY <2>1, <2>5
  <2>7. /\ voice' \in VoicePools /\ voice'.waits = rest /\ voice'.lock = t
        /\ voice'.active = voice.active /\ voice'.gen = "none"
        /\ voice'.running = [m \in VoiceLabels |-> 0] /\ voice'.queue = voice.queue
    <3> DEFINE still == [m \in VoiceLabels |-> 0]
    <3>1. still \in [VoiceLabels -> Int]
      OBVIOUS
    <3> HIDE DEF still
    <3>2. voice' = [voice EXCEPT !.waits = rest, !.lock = t, !.gen = "none", !.running = still]
      BY <2>6 DEF still
    <3>3. /\ voice' \in VoicePools /\ voice'.waits = rest /\ voice'.lock = t
          /\ voice'.active = voice.active /\ voice'.gen = "none"
          /\ voice'.running = still /\ voice'.queue = voice.queue
      BY <3>1, <3>2, <1>1 DEF VoicePools
    <3> QED BY <3>3 DEF still
  <2>8. Mutex'
    BY <1>5, <2>2, <2>7 DEF Mutex, Others, At, Target
  <2>9. OneGenerator'
    BY <2>7, Names, SwitchAssumption DEF OneGenerator
  <2>10. BehindSentinel'
    BY <2>7, Names DEF BehindSentinel
  <2>11. EarLeads'
    <3>1. CASE rest = << >>
      <4>1. Targets'[t] = l
        BY <2>2 DEF Targets, Target
      <4> QED BY <3>1, <4>1, <2>1, <2>7, Names DEF EarLeads, Led
    <3>2. CASE rest # << >>
      <4>1. rest[Len(rest)] \in Switchers /\ rest[Len(rest)] # t
        BY <3>2, EmptySeq, ElementOfSeq DEF Among
      <4>2. Targets'[rest[Len(rest)]] = Targets[rest[Len(rest)]]
        BY <4>1, <2>2 DEF Targets, Target, Others
      <4> QED BY <3>2, <4>2, <2>1, <2>7 DEF EarLeads, Led
    <3> QED BY <3>1, <3>2
  <2>12. DecisionInv'
    <3>1. flow # "legacy" => judge.lock = t
      BY DEF DecisionInv, Fresh, Flipping
    <3>2. t \in Decisions => judge.task[t].spawn = language
      BY DEF DecisionInv, Fresh, Flipping
    <3> QED BY <2>1, <2>2, <3>1, <3>2, DecisionFrame DEF Fresh, Flipping
  <2> QED BY <2>1, <2>2, <2>7, <2>8, <2>9, <2>10, <2>11, <2>12
          DEF VoiceInv, SwitchMoves, TypeInv, AtVoice
<1> QED BY <1>3, <1>4, <1>5

\* The voice after the ear: at once if the lock is free, else in the queue.
LEMMA ThenVoiceKeeps ==
    ASSUME TypeInv, VoiceInv, DecisionInv, NEW t \in Switchers, ThenVoice(t),
           At(t) \in {"ear", "earRun"}, Target(t) \in EarLabels, ear'.active = Target(t),
           UNCHANGED <<flow, call>>
    PROVE  VoiceInv' /\ DecisionInv' /\ SwitchMoves(t) /\ voice' \in VoicePools /\ language' \in Labels
<1>0. voice \in VoicePools /\ judge \in Judges /\ ~Among(t, voice.waits)
  BY DEF TypeInv, VoiceInv, Mutex
<1>1. CASE voice.lock = Nobody /\ voice.waits = << >>
  <2>1. /\ << >> \in Seq(Switchers) /\ Len(<< >>) = 0
    BY EmptySeq
  <2>2. Distinct(<< >>) /\ \A u : ~Among(u, << >>)
    BY <2>1 DEF Distinct, Among
  <2>3. \A u \in Switchers : At(u) # "voiceRun" /\ At(u) # "voice"
    BY <1>1, <2>2, Names DEF VoiceInv, Mutex
  <2>4. VoiceSwitch(t, << >>)
    BY <1>1 DEF ThenVoice
  <2> QED BY <1>1, <2>1, <2>2, <2>3, <2>4, VoiceSwitchKeeps DEF VoiceInv, EarLeads, Flipping
<1>2. CASE ~(voice.lock = Nobody /\ voice.waits = << >>)
  <2> DEFINE w == Append(voice.waits, t)
  <2>1. /\ judge' = Move(t, "voice") /\ voice' = [voice EXCEPT !.waits = w]
        /\ language' = language
    BY <1>2, <1>0 DEF ThenVoice, VoicePools
  <2>2. /\ judge' \in Judges /\ Others(t) /\ judge'.task[t].at = "voice"
        /\ judge'.lock = judge.lock /\ judge'.task[t].target = Target(t)
        /\ judge'.task[t].spawn = judge.task[t].spawn
    BY <2>1, <1>0, MoveShape DEF Places
  <2>3. /\ voice.waits \in Seq(Switchers) /\ Len(voice.waits) \in Nat
        /\ w \in Seq(Switchers) /\ w # << >> /\ Len(w) = Len(voice.waits) + 1
        /\ \A i \in 1..Len(voice.waits) : w[i] = voice.waits[i]
        /\ w[Len(voice.waits) + 1] = t
    BY <1>0, AppendProperties, LenProperties DEF VoicePools
  <2>4. /\ voice' \in VoicePools /\ voice'.waits = w /\ voice'.lock = voice.lock
        /\ voice'.active = voice.active /\ voice'.gen = voice.gen
        /\ voice'.running = voice.running /\ voice'.queue = voice.queue
    BY <2>1, <2>3, <1>0 DEF VoicePools
  <2> HIDE DEF w
  <2>5. /\ \A u \in Switchers : Among(u, w) <=> Among(u, voice.waits) \/ u = t
        /\ Distinct(w)
    <3>1. 1..Len(w) = 1..Len(voice.waits) \cup {Len(voice.waits) + 1}
      BY <2>3
    <3>2. \A i \in 1..Len(voice.waits) : voice.waits[i] # t
      BY <1>0 DEF Among
    <3> QED BY <3>1, <3>2, <2>3 DEF Among, Distinct, VoiceInv, Mutex
  <2>6. Mutex'
    <3>1. At(t) # "voiceRun"
      OBVIOUS
    <3> QED BY <2>2, <2>4, <2>5, <3>1 DEF VoiceInv, Mutex, Others, At, Target
  <2>7. OneGenerator' /\ BehindSentinel'
    BY <2>4 DEF VoiceInv, OneGenerator, BehindSentinel
  <2>8. EarLeads'
    <3>1. Targets'[w[Len(w)]] = Target(t)
      BY <2>2, <2>3 DEF Targets, Target
    <3> QED BY <3>1, <2>1, <2>3, <2>4 DEF VoiceInv, EarLeads, Led
  <2>9. DecisionInv'
    <3>1. flow # "legacy" => judge.lock = t
      BY DEF DecisionInv, Fresh
    <3>2. t \in Decisions => judge.task[t].spawn = language
      BY DEF DecisionInv, Fresh
    <3> QED BY <2>1, <2>2, <3>1, <3>2, DecisionFrame DEF Fresh
  <2> QED BY <2>1, <2>2, <2>4, <2>6, <2>7, <2>8, <2>9
          DEF VoiceInv, SwitchMoves, TypeInv, AtVoice
<1> QED BY <1>1, <1>2

---------------------------------------------------------------------------
\* The four steps of a switch.
LEMMA SwitchTyped ==
    ASSUME TypeInv, NEW t \in Switchers, SwitchMoves(t), Target(t) \in EarLabels,
           voice' \in VoicePools, ear' \in Ears, call' \in Calls, language' \in Labels
    PROVE  TypeInv'
<1>1. \A u \in Switchers : u # t => At(u)' = At(u) /\ Target(u)' = Target(u)
  BY DEF SwitchMoves, Others, At, Target
<1>2. At(t)' \in {"earRun", "voice", "voiceRun"} => Target(t)' \in EarLabels
  BY DEF SwitchMoves, AtVoice, At, Target
<1> QED BY <1>1, <1>2 DEF TypeInv, SwitchMoves

LEMMA SwitchHandsOff ==
    ASSUME NEW t \in Switchers, Others(t), At(t) \in Flipping
    PROVE  BySwitchOnly
BY Names DEF BySwitchOnly, Others, At

LEMMA EarTakeKeeps == ASSUME IInv, NEW t \in Switchers, EarTake(t) PROVE IInv' /\ BySwitchOnly
<1> DEFINE l == Target(t)
<1>0. /\ At(t) = "ear" /\ judge \in Judges /\ ear \in Ears /\ voice \in VoicePools /\ call' = call
      /\ flow' = flow
  BY DEF EarTake, IInv, TypeInv
<1>1. CASE l \notin EarLabels
  <2>1. judge' = Done(t) /\ UNCHANGED <<ear, language, det, voice>>
    BY <1>1 DEF EarTake
  <2>2. /\ judge' \in Judges /\ Others(t) /\ judge'.task[t].at = "idle"
        /\ judge'.lock = judge.lock \/ judge.lock \in {t, Nobody}
    BY <2>1, <1>0, DoneShape DEF NoTask
  <2>3. VoiceInv' /\ DecisionInv'
    BY <2>1, <2>2, <1>0, VoiceFrame, DecisionFrame DEF IInv, AtVoice, Fresh
  <2>4. TypeInv'
    BY <2>1, <2>2, <1>0 DEF IInv, TypeInv, Others, At, Target
  <2> QED BY <2>2, <2>3, <2>4, <1>0, SwitchHandsOff DEF IInv, Flipping
<1>2. CASE l \in EarLabels /\ l # ear.active /\ ~ear.up[l] /\ ~ear.ended
  <2>1. /\ judge' = Move(t, "earRun") /\ ear' = [ear EXCEPT !.lock = t]
        /\ UNCHANGED <<language, det, voice>>
    BY <1>2 DEF EarTake
  <2>2. /\ judge' \in Judges /\ Others(t) /\ judge'.task[t].at = "earRun"
        /\ judge'.lock = judge.lock /\ judge'.task[t].target = l
        /\ judge'.task[t].spawn = judge.task[t].spawn
    BY <2>1, <1>0, MoveShape DEF Places
  <2>3. ear' \in Ears /\ ear'.active = ear.active
    BY <2>1, <1>0 DEF Ears
  <2>4. VoiceInv'
    BY <2>1, <2>2, <2>3, <1>0, VoiceFrame DEF IInv, AtVoice
  <2>5. DecisionInv'
    <3>1. flow # "legacy" => judge.lock = t
      BY <1>0 DEF IInv, DecisionInv, Fresh
    <3>2. t \in Decisions => judge.task[t].spawn = language
      BY <1>0 DEF IInv, DecisionInv, Fresh
    <3> QED BY <2>1, <2>2, <3>1, <3>2, <1>0, DecisionFrame DEF IInv, Fresh
  <2>6. SwitchMoves(t)
    BY <2>2 DEF SwitchMoves
  <2>7. TypeInv'
    BY <2>1, <2>3, <2>6, <1>0, <1>2, SwitchTyped DEF IInv, TypeInv
  <2> QED BY <2>2, <2>4, <2>5, <2>7, <1>0, SwitchHandsOff DEF IInv, Flipping
<1>3. CASE l \in EarLabels /\ ~(l # ear.active /\ ~ear.up[l] /\ ~ear.ended)
  <2>1. ThenVoice(t) /\ ear' = [ear EXCEPT !.active = l]
    BY <1>3 DEF EarTake
  <2>2. ear' \in Ears /\ ear'.active = l
    BY <2>1, <1>0, <1>3 DEF Ears
  <2>3. VoiceInv' /\ DecisionInv' /\ SwitchMoves(t) /\ voice' \in VoicePools /\ language' \in Labels
    BY <2>1, <2>2, <1>0, <1>3, ThenVoiceKeeps DEF IInv
  <2>4. TypeInv'
    BY <2>2, <2>3, <1>0, <1>3, SwitchTyped DEF IInv, TypeInv
  <2> QED BY <2>3, <2>4, <1>0, SwitchHandsOff DEF IInv, Flipping, SwitchMoves
<1> QED BY <1>1, <1>2, <1>3

LEMMA EarRunKeeps == ASSUME IInv, NEW t \in Switchers, EarRun(t) PROVE IInv' /\ BySwitchOnly
<1>0. /\ At(t) = "earRun" /\ judge \in Judges /\ ear \in Ears /\ voice \in VoicePools /\ call' = call
      /\ flow' = flow /\ Target(t) \in EarLabels
  BY DEF EarRun, IInv, TypeInv
<1>1. CASE /\ ear' = [ear EXCEPT !.up[Target(t)] = TRUE, !.active = Target(t), !.lock = Nobody]
           /\ ThenVoice(t)
  <2>1. ear' = [ear EXCEPT !.up = [ear.up EXCEPT ![Target(t)] = TRUE], !.active = Target(t),
                           !.lock = Nobody]
    BY <1>1, <1>0 DEF Ears
  <2>2. [ear.up EXCEPT ![Target(t)] = TRUE] \in [EarLabels -> BOOLEAN]
    BY <1>0 DEF Ears
  <2>3. ear' \in Ears /\ ear'.active = Target(t)
    BY <2>1, <2>2, <1>0 DEF Ears
  <2>4. VoiceInv' /\ DecisionInv' /\ SwitchMoves(t) /\ voice' \in VoicePools /\ language' \in Labels
    BY <1>1, <2>3, <1>0, ThenVoiceKeeps DEF IInv
  <2>5. TypeInv'
    BY <2>3, <2>4, <1>0, SwitchTyped DEF IInv, TypeInv
  <2> QED BY <2>4, <2>5, <1>0, SwitchHandsOff DEF IInv, Flipping, SwitchMoves
<1>2. CASE /\ ear' = [ear EXCEPT !.lock = Nobody]
           /\ judge' = Done(t) /\ UNCHANGED <<language, det, voice>>
  <2>1. ear' \in Ears /\ ear'.active = ear.active
    BY <1>2, <1>0 DEF Ears
  <2>2. /\ judge' \in Judges /\ Others(t) /\ judge'.task[t].at = "idle"
        /\ judge'.lock = judge.lock \/ judge.lock \in {t, Nobody}
    BY <1>2, <1>0, DoneShape DEF NoTask
  <2>3. VoiceInv' /\ DecisionInv'
    BY <1>2, <2>1, <2>2, <1>0, VoiceFrame, DecisionFrame DEF IInv, AtVoice, Fresh
  <2>4. SwitchMoves(t)
    BY <2>2 DEF SwitchMoves, AtVoice
  <2>5. TypeInv'
    BY <2>1, <2>4, <1>0, <1>2, SwitchTyped DEF IInv, TypeInv
  <2> QED BY <2>2, <2>3, <2>5, <1>0, SwitchHandsOff DEF IInv, Flipping
<1> QED BY <1>1, <1>2 DEF EarRun

LEMMA VoiceTakeKeeps == ASSUME IInv, NEW t \in Switchers, VoiceTake(t) PROVE IInv' /\ BySwitchOnly
<1> DEFINE w == voice.waits
           rest == Tail(w)
<1>0. /\ judge \in Judges /\ ear' = ear /\ call' = call /\ flow' = flow /\ voice.lock = Nobody
      /\ w \in Seq(Switchers) /\ w # << >> /\ Head(w) = t /\ VoiceSwitch(t, rest)
  BY DEF VoiceTake, IInv, TypeInv, VoicePools
<1>1. /\ Len(w) \in Nat /\ Len(w) > 0 /\ w[1] = t /\ rest \in Seq(Switchers)
      /\ Len(rest) = Len(w) - 1 /\ \A i \in 1..Len(rest) : rest[i] = w[i + 1]
  BY <1>0, HeadTailProperties, EmptySeq
<1> HIDE DEF rest
<1>2. At(t) = "voice" /\ Target(t) \in EarLabels
  <2>1. Among(t, w)
    BY <1>1 DEF Among
  <2> QED BY <2>1 DEF IInv, VoiceInv, Mutex, TypeInv
<1>3. Distinct(rest) /\ ~Among(t, rest)
  <2>1. \A i \in 1..Len(rest) : i + 1 \in 1..Len(w) /\ i + 1 # 1
    BY <1>1
  <2>2. Distinct(rest)
    <3> SUFFICES ASSUME NEW i \in 1..Len(rest), NEW j \in 1..Len(rest), rest[i] = rest[j]
                 PROVE i = j
      BY DEF Distinct
    <3>1. i + 1 = j + 1
      BY <1>1, <2>1 DEF IInv, VoiceInv, Mutex, Distinct
    <3> QED BY <3>1, <1>1
  <2>3. ASSUME NEW i \in 1..Len(rest), rest[i] = t PROVE FALSE
    <3>1. 1 \in 1..Len(w) /\ w[i + 1] = w[1]
      BY <1>1, <2>3
    <3>2. i + 1 = 1
      BY <3>1, <2>1 DEF IInv, VoiceInv, Mutex, Distinct
    <3> QED BY <3>2, <2>1
  <2> QED BY <2>2, <2>3 DEF Among
<1>4. \A u \in Switchers : u # t => (Among(u, w) <=> Among(u, rest))
  <2> SUFFICES ASSUME NEW u \in Switchers, u # t PROVE Among(u, w) <=> Among(u, rest)
    OBVIOUS
  <2>1. ASSUME NEW i \in 1..Len(w), w[i] = u PROVE Among(u, rest)
    <3>1. i - 1 \in 1..Len(rest) /\ rest[i - 1] = w[i]
      BY <1>1, <2>1
    <3> QED BY <2>1, <3>1 DEF Among
  <2>2. ASSUME NEW i \in 1..Len(rest), rest[i] = u PROVE Among(u, w)
    <3>1. i + 1 \in 1..Len(w) /\ w[i + 1] = u
      BY <1>1, <2>2
    <3> QED BY <3>1 DEF Among
  <2> QED BY <2>1, <2>2 DEF Among
<1>5. \A u \in Switchers : u # t => At(u) # "voiceRun" /\ (At(u) = "voice" <=> Among(u, rest))
  BY <1>0, <1>4, Names DEF IInv, VoiceInv, Mutex
<1>6. /\ rest = << >> => Target(t) = ear'.active
      /\ rest # << >> => Targets[rest[Len(rest)]] = ear'.active
  <2>1. Targets[w[Len(w)]] = ear'.active
    BY <1>0 DEF IInv, VoiceInv, EarLeads, Led
  <2>2. CASE rest = << >>
    <3>1. Len(w) = 1
      BY <1>1, <2>2, EmptySeq
    <3> QED BY <2>1, <2>2, <3>1, <1>1 DEF Targets
  <2>3. CASE rest # << >>
    <3>1. Len(rest) \in 1..Len(rest) /\ Len(rest) + 1 = Len(w)
      BY <1>1, <2>3, EmptySeq
    <3>2. rest[Len(rest)] = w[Len(w)]
      BY <1>1, <3>1
    <3> QED BY <2>1, <2>3, <3>2
  <2> QED BY <2>2, <2>3
<1> HIDE DEF w
<1>7. VoiceInv' /\ DecisionInv' /\ SwitchMoves(t) /\ voice' \in VoicePools /\ language' \in Labels
  BY <1>0, <1>1, <1>2, <1>3, <1>5, <1>6, VoiceSwitchKeeps DEF IInv, VoiceInv, EarLeads, Flipping
<1>8. TypeInv'
  BY <1>0, <1>2, <1>7, SwitchTyped DEF IInv, TypeInv
<1> QED BY <1>2, <1>7, <1>8, SwitchHandsOff DEF IInv, Flipping, SwitchMoves

LEMMA VoiceRunKeeps == ASSUME IInv, NEW t \in Switchers, VoiceRun(t) PROVE IInv' /\ BySwitchOnly
<1> DEFINE l == Target(t)
           old == voice.queue
           q == Append(old, "switch")
<1>0. /\ At(t) = "voiceRun" /\ judge \in Judges /\ voice \in VoicePools /\ ear' = ear /\ call' = call
      /\ flow' = flow /\ l \in EarLabels /\ l \in Labels /\ Flip(t)
      /\ voice' = [voice EXCEPT !.active = l, !.gen = l, !.lock = Nobody,
                                !.running = [voice.running EXCEPT ![l] = @ + 1], !.queue = q]
  BY DEF VoiceRun, IInv, TypeInv, Judges, Tasks, Target
<1>1. /\ voice.lock = t /\ voice.gen = "none" /\ \A u \in Switchers : u # t => At(u) # "voiceRun"
      /\ voice.running = [m \in VoiceLabels |-> 0]
  BY <1>0, Names, SwitchAssumption DEF IInv, VoiceInv, Mutex, OneGenerator
<1>2. /\ DecisionInv' /\ judge' \in Judges /\ Others(t)
      /\ judge'.task[t].at \in {"idle", "handoff"} /\ language' = l
  BY <1>0, Flips DEF IInv, Flipping
<1>3. /\ old \in Seq(VoiceLabels \cup {"switch"}) /\ Len(old) \in Nat
      /\ q \in Seq(VoiceLabels \cup {"switch"}) /\ Len(q) = Len(old) + 1
      /\ q[Len(old) + 1] = "switch"
  BY <1>0, LenProperties, AppendProperties DEF VoicePools
<1> HIDE DEF q
<1>4. SwitchMoves(t)
  BY <1>2 DEF SwitchMoves, AtVoice
<1>5. CASE l \in VoiceLabels
  <2>1. [voice.running EXCEPT ![l] = @ + 1] = [m \in VoiceLabels |-> IF m = l THEN 1 ELSE 0]
    BY <1>1, <1>5
  <2> DEFINE one == [m \in VoiceLabels |-> IF m = l THEN 1 ELSE 0]
  <2>2. one \in [VoiceLabels -> Int]
    OBVIOUS
  <2>3. voice' = [voice EXCEPT !.active = l, !.gen = l, !.lock = Nobody, !.running = one,
                               !.queue = q]
    BY <1>0, <2>1
  <2> HIDE DEF one
  <2>4. /\ voice' \in VoicePools /\ voice'.active = l /\ voice'.gen = l /\ voice'.lock = Nobody
        /\ voice'.running = one /\ voice'.queue = q /\ voice'.waits = voice.waits
    BY <2>2, <2>3, <1>0, <1>3, <1>5 DEF VoicePools
  <2>5. Mutex'
    BY <1>0, <1>1, <1>2, <2>4, Names DEF IInv, VoiceInv, Mutex, Others, At, Target
  <2>6. OneGenerator'
    BY <2>4 DEF OneGenerator, one
  <2>7. BehindSentinel'
    <3> SUFFICES ASSUME NEW i \in 1..Len(q), \A j \in i..Len(q) : q[j] # "switch" PROVE FALSE
      BY <2>4 DEF BehindSentinel
    <3>1. Len(old) + 1 \in i..Len(q)
      BY <1>3
    <3> QED BY <3>1, <1>3
  <2>8. EarLeads'
    <3>1. CASE voice.waits = << >>
      <4>1. l = ear.active
        BY <3>1, <1>1, Names DEF IInv, VoiceInv, EarLeads, Led, Targets
      <4> QED BY <4>1, <3>1, <2>4, <1>0, <1>2 DEF EarLeads, Led
    <3>2. CASE voice.waits # << >>
      <4>1. /\ voice.waits[Len(voice.waits)] \in Switchers
            /\ Among(voice.waits[Len(voice.waits)], voice.waits)
        BY <3>2, <1>0, EmptySeq, ElementOfSeq DEF VoicePools, Among
      <4>2. voice.waits[Len(voice.waits)] # t
        BY <4>1, <1>0 DEF IInv, VoiceInv, Mutex
      <4>3. Targets'[voice.waits[Len(voice.waits)]] = Targets[voice.waits[Len(voice.waits)]]
        BY <4>1, <4>2, <1>2 DEF Targets, Target, Others
      <4>4. Targets[voice.waits[Len(voice.waits)]] = ear.active
        BY <3>2 DEF IInv, VoiceInv, EarLeads, Led
      <4> QED BY <3>2, <4>3, <4>4, <2>4, <1>0, <1>2 DEF EarLeads, Led
    <3> QED BY <3>1, <3>2
  <2>9. TypeInv'
    BY <1>0, <1>2, <1>4, <2>4, SwitchTyped DEF IInv, TypeInv
  <2> QED BY <1>0, <1>2, <2>5, <2>6, <2>7, <2>8, <2>9, SwitchHandsOff
          DEF IInv, VoiceInv, Flipping
<1>6. l \in VoiceLabels
  BY <1>0 DEF IInv, VoiceInv, Mutex
<1> QED BY <1>5, <1>6

---------------------------------------------------------------------------
\* The steps of a task before and behind its switch.
LEMMA StepKeeps ==
    ASSUME IInv, NEW t \in Switchers, Others(t), judge' \in Judges,
           At(t) \notin AtVoice \cup {"idle"},
           judge'.task[t].at \notin AtVoice \cup {"earRun"},
           judge'.task[t].at = "handoff" => At(t) = "handoff",
           UNCHANGED <<flow, language, voice, ear, call>>,
           flow # "legacy" /\ judge'.task[t].at \notin Fresh => judge'.lock = t,
           judge'.lock = judge.lock \/ judge.lock \in {t, Nobody},
           t \in Decisions /\ judge'.task[t].at \notin Fresh \cup {"handoff"}
               => judge'.task[t].spawn = language
    PROVE  IInv' /\ BySwitchOnly
<1>1. VoiceInv'
  BY VoiceFrame DEF IInv
<1>2. DecisionInv'
  BY DecisionFrame DEF IInv
<1>3. TypeInv'
  BY DEF IInv, TypeInv, Others, At, Target, AtVoice
<1>4. BySwitchOnly
  BY Names DEF BySwitchOnly, Others, At
<1> QED BY <1>1, <1>2, <1>3, <1>4 DEF IInv

\* A task that ends.
LEMMA EndKeeps ==
    ASSUME IInv, NEW t \in Switchers, judge' = Done(t), At(t) \notin AtVoice \cup {"idle"},
           UNCHANGED <<flow, language, voice, ear, call>>
    PROVE  IInv' /\ BySwitchOnly
<1>1. /\ judge' \in Judges /\ Others(t) /\ judge'.task[t].at = "idle"
      /\ judge'.lock = judge.lock \/ judge.lock \in {t, Nobody}
  BY DoneShape DEF NoTask, IInv, TypeInv
<1> QED BY <1>1, StepKeeps DEF AtVoice, Fresh

\* A decision that holds the lock, or takes it, goes on.
LEMMA GoOnKeeps ==
    ASSUME IInv, NEW t \in Decisions, NEW p \in {"settling", "deciding", "truncating", "gap", "ear"},
           judge' \in Judges, Others(t), judge'.task[t].at = p, judge'.lock = t,
           judge'.task[t].spawn = judge.task[t].spawn, judge.task[t].spawn = language,
           judge.lock \in {t, Nobody},
           At(t) \notin AtVoice \cup {"idle", "handoff"},
           UNCHANGED <<flow, language, voice, ear, call>>
    PROVE  IInv' /\ BySwitchOnly
BY StepKeeps, Names DEF AtVoice, Fresh

LEMMA DrainKeeps ==
    ASSUME IInv, NEW t \in Decisions, Drain(t), judge.task[t].spawn = language,
           judge.lock \in {t, Nobody}, At(t) \in {"spawned", "settling"},
           UNCHANGED <<flow, language, voice, ear, call>>
    PROVE  IInv' /\ BySwitchOnly
<1>0. t \in Switchers /\ judge \in Judges /\ judge.task[t] \in Tasks
  BY Names DEF IInv, TypeInv, Judges
<1>1. CASE judge' = Done(t)
  BY <1>0, <1>1, EndKeeps DEF AtVoice
<1>2. CASE judge' # Done(t)
  <2>1. PICK arms \in BOOLEAN :
           judge' = [judge EXCEPT !.lock = t, !.task[t].at = "deciding",
                                  !.task[t].armed = @ \/ arms]
    BY <1>2 DEF Drain
  <2> DEFINE r == [judge.task[t] EXCEPT !.at = "deciding", !.armed = @ \/ arms]
  <2>2. judge' = [judge EXCEPT !.lock = t, !.task = [judge.task EXCEPT ![t] = r]]
    BY <2>1, <1>0 DEF Judges
  <2>3. r \in Tasks /\ r.at = "deciding" /\ r.spawn = judge.task[t].spawn
    BY <1>0 DEF Tasks, Places
  <2> HIDE DEF r
  <2>4. judge'.lock = t /\ judge'.task = [judge.task EXCEPT ![t] = r] /\ judge' \in Judges
    BY <2>2, <2>3, <1>0 DEF Judges
  <2>5. judge'.task[t] = r /\ Others(t)
    BY <2>4, <1>0 DEF Judges, Others
  <2> QED BY <2>3, <2>4, <2>5, GoOnKeeps DEF AtVoice
<1> QED BY <1>1, <1>2

LEMMA DecisionKeeps ==
    ASSUME IInv, NEW t \in Decisions,
           \/ Enter(t) \/ Settled(t) \/ JudgeStays(t) \/ JudgeSwitches(t)
           \/ Truncated(t) \/ Gap(t) \/ Handoff(t)
    PROVE  IInv' /\ BySwitchOnly
<1>0. t \in Switchers /\ judge \in Judges /\ judge.task[t] \in Tasks
  BY Names DEF IInv, TypeInv, Judges
<1>1. At(t) # "idle" => flow # "legacy"
  BY DEF IInv, DecisionInv
<1>2. At(t) \notin Fresh => judge.lock = t /\ (At(t) # "handoff" => judge.task[t].spawn = language)
  BY <1>0, <1>1 DEF IInv, DecisionInv, Fresh
<1>3. CASE Enter(t)
  <2>1. /\ At(t) = "spawned" /\ judge.lock = Nobody
        /\ UNCHANGED <<flow, language, voice, ear, call>>
    BY <1>3 DEF Enter
  <2>2. CASE judge' = Done(t)
    BY <2>1, <2>2, <1>0, EndKeeps DEF AtVoice
  <2>3. CASE judge' # Done(t)
    <3>1. judge.task[t].spawn = language
      BY <1>3, <2>3 DEF Enter
    <3>2. CASE Drain(t)
      BY <2>1, <3>1, <3>2, DrainKeeps
    <3>3. CASE judge' = [Move(t, "settling") EXCEPT !.lock = t]
      <4> DEFINE r == [judge.task[t] EXCEPT !.at = "settling"]
      <4>1. judge' = [judge EXCEPT !.task = [judge.task EXCEPT ![t] = r], !.lock = t]
        BY <3>3, <1>0 DEF Move, Judges
      <4>2. r \in Tasks /\ r.at = "settling" /\ r.spawn = judge.task[t].spawn
        BY <1>0 DEF Tasks, Places
      <4> HIDE DEF r
      <4>3. judge'.lock = t /\ judge'.task = [judge.task EXCEPT ![t] = r] /\ judge' \in Judges
        BY <4>1, <4>2, <1>0 DEF Judges
      <4>4. judge'.task[t] = r /\ Others(t)
        BY <4>3, <1>0 DEF Judges, Others
      <4> QED BY <2>1, <3>1, <4>2, <4>3, <4>4, GoOnKeeps DEF AtVoice
    <3> QED BY <1>3, <2>3, <3>2, <3>3 DEF Enter
  <2> QED BY <2>2, <2>3
<1>4. CASE Settled(t)
  BY <1>2, <1>4, DrainKeeps DEF Settled, Fresh
<1>5. CASE JudgeStays(t)
  BY <1>0, <1>5, EndKeeps DEF JudgeStays, AtVoice
<1>6. CASE JudgeSwitches(t)
  <2>1. /\ At(t) = "deciding" /\ UNCHANGED <<flow, language, voice, ear, call>>
    BY <1>6 DEF JudgeSwitches
  <2>2. PICK l \in EarLabels \cap VoiceLabels, tool \in BOOLEAN, p \in {"truncating", "ear"} :
           judge' = [judge EXCEPT !.task[t].at = p, !.task[t].target = l, !.task[t].quiet = tool]
    BY <1>6 DEF JudgeSwitches
  <2> DEFINE r == [judge.task[t] EXCEPT !.at = p, !.target = l, !.quiet = tool]
  <2>3. judge' = [judge EXCEPT !.task = [judge.task EXCEPT ![t] = r]]
    BY <2>2, <1>0 DEF Judges
  <2>4. r \in Tasks /\ r.at = p /\ r.spawn = judge.task[t].spawn
    BY <1>0 DEF Tasks, Places, Labels
  <2> HIDE DEF r
  <2>5. judge'.lock = judge.lock /\ judge'.task = [judge.task EXCEPT ![t] = r] /\ judge' \in Judges
    BY <2>3, <2>4, <1>0 DEF Judges
  <2>6. judge'.task[t] = r /\ Others(t)
    BY <2>5, <1>0 DEF Judges, Others
  <2> QED BY <1>2, <2>1, <2>4, <2>5, <2>6, GoOnKeeps DEF AtVoice, Fresh
<1>7. CASE Truncated(t)
  <2>1. /\ At(t) = "truncating" /\ UNCHANGED <<flow, language, voice, ear, call>>
        /\ judge' = Move(t, "gap")
    BY <1>7 DEF Truncated
  <2>2. /\ judge' \in Judges /\ Others(t) /\ judge'.lock = judge.lock
        /\ judge'.task[t].at = "gap" /\ judge'.task[t].spawn = judge.task[t].spawn
    BY <2>1, <1>0, MoveShape DEF Places
  <2> QED BY <1>2, <2>1, <2>2, GoOnKeeps DEF AtVoice, Fresh
<1>8. CASE Gap(t)
  <2>1. At(t) = "gap" /\ UNCHANGED <<flow, language, voice, ear, call>>
    BY <1>8 DEF Gap
  <2>2. CASE judge' = Done(t)
    BY <2>1, <2>2, <1>0, EndKeeps DEF AtVoice
  <2>3. CASE ~Ending
    <3>1. /\ judge' \in Judges /\ Others(t) /\ judge'.lock = judge.lock
          /\ judge'.task[t].at = "ear" /\ judge'.task[t].spawn = judge.task[t].spawn
      BY <1>8, <2>3, <1>0, GapShape
    <3> QED BY <1>2, <2>1, <3>1, GoOnKeeps DEF AtVoice, Fresh
  <2> QED BY <1>8, <2>2, <2>3 DEF Gap
<1>9. CASE Handoff(t)
  BY <1>0, <1>9, EndKeeps DEF Handoff, AtVoice
<1> QED BY <1>3, <1>4, <1>5, <1>6, <1>7, <1>8, <1>9

---------------------------------------------------------------------------
\* The other tasks, and how tasks start.
LEMMA ToolEntersKeeps == ASSUME IInv, ToolEnters PROVE IInv' /\ BySwitchOnly
<1>0. /\ Tool \in Switchers /\ judge \in Judges /\ At(Tool) = "spawned"
      /\ flow \in {"deadjudge", "legacy"} /\ Tool \notin Decisions
      /\ UNCHANGED <<flow, language, voice, ear, call>>
  BY Names DEF IInv, TypeInv, DecisionInv, ToolEnters
<1>1. CASE judge' = Done(Tool)
  BY <1>0, <1>1, EndKeeps DEF AtVoice
<1>2. CASE flow = "legacy" /\ judge' = Move(Tool, "ear")
  <2>1. /\ judge' \in Judges /\ Others(Tool) /\ judge'.lock = judge.lock
        /\ judge'.task[Tool].at = "ear"
    BY <1>2, <1>0, MoveShape DEF Places
  <2> QED BY <1>0, <1>2, <2>1, StepKeeps DEF AtVoice
<1>3. CASE flow = "deadjudge" /\ judge' = [Move(Tool, "ear") EXCEPT !.lock = Tool]
  <2> DEFINE r == [judge.task[Tool] EXCEPT !.at = "ear"]
  <2>1. judge' = [judge EXCEPT !.task = [judge.task EXCEPT ![Tool] = r], !.lock = Tool]
    BY <1>3, <1>0 DEF Move, Judges
  <2>2. r \in Tasks /\ r.at = "ear"
    BY <1>0 DEF Tasks, Places, Judges
  <2> HIDE DEF r
  <2>3. /\ judge'.lock = Tool /\ judge'.task = [judge.task EXCEPT ![Tool] = r]
        /\ judge' \in Judges
    BY <2>1, <2>2, <1>0 DEF Judges
  <2>4. judge'.task[Tool] = r /\ Others(Tool)
    BY <2>3, <1>0 DEF Judges, Others
  <2>5. judge.lock = Nobody
    BY <1>3 DEF ToolEnters
  <2> QED BY <1>0, <2>2, <2>3, <2>4, <2>5, StepKeeps DEF AtVoice
<1> QED BY <1>0, <1>1, <1>2, <1>3 DEF ToolEnters

\* A task t starts, at place p and for the target l.
LEMMA StartKeeps ==
    ASSUME IInv, NEW t \in Switchers, NEW r \in Tasks,
           judge' = [judge EXCEPT !.task[t] = r], At(t) = "idle",
           UNCHANGED <<flow, language, voice, ear>>, call' \in Calls, call'.turns >= call.turns,
           \A n \in Turns : t = <<"turn", n>> => n <= call'.turns,
           r.at \in {"spawned", "ear"},
           t \in Decisions => flow # "legacy" /\ r.at = "spawned",
           t = Tool => flow \in {"deadjudge", "legacy"} /\ r.at = "spawned",
           t = Unasked => flow = "legacy"
    PROVE  IInv' /\ BySwitchOnly
<1>1. /\ judge \in Judges /\ judge' = [judge EXCEPT !.task = [judge.task EXCEPT ![t] = r]]
      /\ call.turns \in Nat /\ call'.turns \in Nat
  BY DEF IInv, TypeInv, Judges, Calls
<1>2. judge'.lock = judge.lock /\ judge'.task = [judge.task EXCEPT ![t] = r] /\ judge' \in Judges
  BY <1>1 DEF Judges
<1>3. judge'.task[t] = r /\ Others(t)
  BY <1>1, <1>2 DEF Judges, Others
<1>4. VoiceInv'
  BY <1>2, <1>3, VoiceFrame DEF IInv, AtVoice
<1>5. DecisionInv'
  BY <1>1, <1>2, <1>3, Starts DEF IInv
<1>6. TypeInv'
  BY <1>2, <1>3 DEF IInv, TypeInv, Others, At, Target
<1>7. BySwitchOnly
  BY <1>3, Names DEF BySwitchOnly, Others, At
<1> QED BY <1>4, <1>5, <1>6, <1>7 DEF IInv

LEMMA StartedTask ==
    ASSUME NEW p \in Places, NEW l \in Labels
    PROVE  /\ [NoTask EXCEPT !.at = p, !.target = l] \in Tasks
           /\ [NoTask EXCEPT !.at = p, !.target = l].at = p
           /\ [NoTask EXCEPT !.at = p, !.spawn = l] \in Tasks
           /\ [NoTask EXCEPT !.at = p, !.spawn = l].at = p
           /\ \A b \in BOOLEAN : /\ [NoTask EXCEPT !.at = p, !.spawn = l, !.armed = b] \in Tasks
                                 /\ [NoTask EXCEPT !.at = p, !.spawn = l, !.armed = b].at = p
BY FreshTask DEF Tasks

LEMMA Beginnings == "spawned" \in Places /\ "ear" \in Places
BY DEF Places

LEMMA StartsKeep ==
    ASSUME IInv, NewTurn \/ IdleWatcher \/ ToolCalled \/ AutoSwitch
    PROVE  IInv' /\ BySwitchOnly
<1>0. language \in Labels /\ call \in Calls /\ judge \in Judges /\ EarLabels \subseteq Labels
  BY DEF IInv, TypeInv, Labels
<1>1. CASE NewTurn
  <2> DEFINE n == call.turns + 1
             t == <<"turn", n>>
  <2>1. /\ call' = [call EXCEPT !.turns = n] /\ call.turns < MaxTurns
        /\ UNCHANGED <<flow, language, voice, ear>>
    BY <1>1 DEF NewTurn
  <2>2. /\ n \in Turns /\ call' \in Calls /\ call'.turns = n /\ n > call.turns
        /\ call.turns \in Nat
    BY <2>1, <1>0, SwitchAssumption DEF Calls, Turns
  <2> HIDE DEF n
  <2>3. t \in Decisions /\ t \in Switchers /\ At(t) = "idle" /\ t # Tool /\ t # Unasked
        /\ \A m \in Turns : t = <<"turn", m>> => m = n
    BY <2>2, Names DEF IInv, DecisionInv
  <2> HIDE DEF t
  <2>4. CASE flow = "legacy"
    <3>1. judge' = judge
      BY <1>1, <2>4 DEF NewTurn
    <3>2. VoiceInv'
      BY <3>1, <2>1, <2>3, VoiceFrame, <1>0 DEF IInv, AtVoice, Others, At
    <3>3. DecisionInv'
      BY <3>1, <2>1, <2>2 DEF IInv, DecisionInv, At, Turns
    <3>4. TypeInv'
      BY <3>1, <2>1, <2>2 DEF IInv, TypeInv, At, Target
    <3>5. BySwitchOnly
      BY <3>1 DEF BySwitchOnly, At
    <3> QED BY <3>2, <3>3, <3>4, <3>5 DEF IInv
  <2>5. CASE flow # "legacy"
    <3>1. judge' = [judge EXCEPT !.task[t] = [NoTask EXCEPT !.at = "spawned", !.spawn = language,
                                                            !.armed = Mismatch]]
      BY <1>1, <2>5 DEF NewTurn, t, n
    <3>2. Mismatch \in BOOLEAN
      BY DEF Mismatch
    <3> DEFINE r == [NoTask EXCEPT !.at = "spawned", !.spawn = language, !.armed = Mismatch]
    <3>3. r \in Tasks /\ r.at = "spawned"
      <4>1. \A b \in BOOLEAN :
               /\ [NoTask EXCEPT !.at = "spawned", !.spawn = language, !.armed = b] \in Tasks
               /\ [NoTask EXCEPT !.at = "spawned", !.spawn = language, !.armed = b].at = "spawned"
        BY <1>0, StartedTask, Beginnings
      <4> HIDE DEF Mismatch
      <4> QED BY <3>2, <4>1, Zenon
    <3> HIDE DEF r
    <3>4. judge' = [judge EXCEPT !.task[t] = r]
      BY <3>1 DEF r
    <3>5. call'.turns >= call.turns /\ \A m \in Turns : t = <<"turn", m>> => m <= call'.turns
      BY <2>2, <2>3 DEF Turns
    <3> QED BY <2>1, <2>2, <2>3, <2>5, <3>3, <3>4, <3>5, StartKeeps
  <2> QED BY <2>4, <2>5
<1>2. CASE IdleWatcher
  <2> DEFINE t == <<"idle", 0>>
             r == [NoTask EXCEPT !.at = "spawned", !.spawn = language]
  <2>1. /\ judge' = [judge EXCEPT !.task[t] = r] /\ At(t) = "idle" /\ flow # "legacy"
        /\ UNCHANGED <<flow, language, voice, ear, call>>
    BY <1>2 DEF IdleWatcher
  <2>2. r \in Tasks /\ r.at = "spawned"
    BY <1>0, StartedTask, Beginnings
  <2>3. /\ t \in Decisions /\ t \in Switchers /\ t # Tool /\ t # Unasked
        /\ \A n \in Turns : t # <<"turn", n>>
    BY Names
  <2> HIDE DEF t, r
  <2>4. call'.turns >= call.turns
    BY <2>1, <1>0 DEF Calls
  <2> QED BY <1>0, <2>1, <2>2, <2>3, <2>4, StartKeeps
<1>3. CASE ToolCalled
  <2>1. PICK l \in Labels :
           judge' = [judge EXCEPT !.task[Tool] = [NoTask EXCEPT !.at = "spawned", !.target = l]]
    BY <1>3 DEF ToolCalled
  <2> DEFINE r == [NoTask EXCEPT !.at = "spawned", !.target = l]
  <2>2. r \in Tasks /\ r.at = "spawned"
    BY StartedTask, Beginnings
  <2>3. /\ At(Tool) = "idle" /\ flow \in {"deadjudge", "legacy"}
        /\ UNCHANGED <<flow, language, voice, ear>> /\ call' = [call EXCEPT !.tools = @ + 1]
    BY <1>3 DEF ToolCalled
  <2>4. call' \in Calls /\ call'.turns = call.turns /\ call.turns \in Nat
    BY <2>3, <1>0 DEF Calls
  <2>5. Tool \in Switchers /\ Tool # Unasked /\ Tool \notin Decisions
    BY Names
  <2>6. \A n \in Turns : Tool # <<"turn", n>>
    BY Names
  <2>7. judge' = [judge EXCEPT !.task[Tool] = r]
    BY <2>1
  <2> HIDE DEF r
  <2> QED BY <2>2, <2>3, <2>4, <2>5, <2>6, <2>7, StartKeeps
<1>4. CASE AutoSwitch
  <2>1. PICK l \in EarLabels :
           judge' = [judge EXCEPT !.task[Unasked] = [NoTask EXCEPT !.at = "ear", !.target = l]]
    BY <1>4 DEF AutoSwitch
  <2> DEFINE r == [NoTask EXCEPT !.at = "ear", !.target = l]
  <2>2. r \in Tasks /\ r.at = "ear"
    BY <1>0, StartedTask, Beginnings DEF Labels
  <2>3. /\ At(Unasked) = "idle" /\ flow = "legacy"
        /\ UNCHANGED <<flow, language, voice, ear, call>>
    BY <1>4 DEF AutoSwitch
  <2>4. Unasked \in Switchers /\ Unasked # Tool /\ Unasked \notin Decisions
    BY Names
  <2>5. \A n \in Turns : Unasked # <<"turn", n>>
    BY Names
  <2>6. call'.turns >= call.turns
    BY <2>3, <1>0 DEF Calls
  <2>7. judge' = [judge EXCEPT !.task[Unasked] = r]
    BY <2>1
  <2> HIDE DEF r
  <2> QED BY <1>0, <2>2, <2>3, <2>4, <2>5, <2>6, <2>7, StartKeeps
<1> QED BY <1>1, <1>2, <1>3, <1>4

\* The steps that move no task: of the gate, the reply, the call and the connections.
LEMMA ElsewhereKeeps ==
    ASSUME IInv, UNCHANGED <<flow, language, voice>>, ear' \in Ears, ear'.active = ear.active,
           call' \in Calls, call'.turns = call.turns, judge' \in Judges, judge'.lock = judge.lock,
           \A u \in Switchers : /\ judge'.task[u].at = At(u) /\ judge'.task[u].target = Target(u)
                                /\ judge'.task[u].spawn = judge.task[u].spawn
    PROVE  IInv' /\ BySwitchOnly
<1>1. \A u \in Switchers : At(u)' = At(u) /\ Target(u)' = Target(u)
  BY DEF At, Target
<1>2. Targets' = Targets
  BY <1>1 DEF Targets
<1>3. VoiceInv'
  <2>1. Mutex'
    BY <1>1 DEF IInv, VoiceInv, Mutex
  <2>2. OneGenerator' /\ BehindSentinel' /\ EarLeads'
    BY <1>2 DEF IInv, VoiceInv, OneGenerator, BehindSentinel, EarLeads
  <2> QED BY <2>1, <2>2 DEF VoiceInv
<1>4. DecisionInv'
  BY <1>1, Names DEF IInv, DecisionInv
<1>5. TypeInv'
  BY <1>1 DEF IInv, TypeInv
<1>6. BySwitchOnly
  BY Names DEF BySwitchOnly
<1> QED BY <1>3, <1>4, <1>5, <1>6 DEF IInv

LEMMA RestKeeps ==
    ASSUME IInv,
           \/ DetectorHears \/ GateExpires \/ SendFrame \/ CallEnds
           \/ LegDies \/ EndOfStream \/ ClosedPacket \/ Reconnect \/ Reconnected
    PROVE  IInv' /\ BySwitchOnly
<1>0. ear \in Ears /\ call \in Calls /\ judge \in Judges
  BY DEF IInv, TypeInv
<1>1. CASE GateExpires
  <2> DEFINE g == gate.task
  <2>1. /\ judge' = [judge EXCEPT !.task = [judge.task EXCEPT ![g] =
                        [judge.task[g] EXCEPT !.armed = FALSE]]]
        /\ UNCHANGED <<flow, language, voice, ear, call>>
    BY <1>1, <1>0 DEF GateExpires, Judges
  <2> HIDE DEF g
  <2>2. /\ judge'.lock = judge.lock
        /\ judge'.task = [judge.task EXCEPT ![g] = [judge.task[g] EXCEPT !.armed = FALSE]]
    BY <2>1, <1>0 DEF Judges
  <2>3. \A u \in Switchers : judge'.task[u] = IF u = g THEN [judge.task[u] EXCEPT !.armed = FALSE]
                                              ELSE judge.task[u]
    BY <2>2, <1>0 DEF Judges
  <2>4. \A u \in Switchers : judge.task[u] \in Tasks
    BY <1>0 DEF Judges
  <2>5. \A u \in Switchers : /\ judge'.task[u] \in Tasks
                             /\ judge'.task[u].at = At(u) /\ judge'.task[u].target = Target(u)
                             /\ judge'.task[u].spawn = judge.task[u].spawn
    BY <2>3, <2>4 DEF Tasks, At, Target
  <2>6. judge' \in Judges
    <3>1. judge'.task \in [Switchers -> Tasks]
      BY <2>2, <2>5, <1>0 DEF Judges
    <3> QED BY <2>1, <2>2, <3>1, <1>0 DEF Judges
  <2> QED BY <1>0, <2>1, <2>2, <2>5, <2>6, ElsewhereKeeps
<1>2. ASSUME UNCHANGED <<flow, language, voice, judge>>, ear' \in Ears, ear'.active = ear.active,
             call' \in Calls, call'.turns = call.turns
      PROVE  IInv' /\ BySwitchOnly
  BY <1>0, <1>2, ElsewhereKeeps DEF At, Target
<1>3. CASE DetectorHears \/ SendFrame
  BY <1>0, <1>2, <1>3 DEF DetectorHears, SendFrame
<1>4. CASE CallEnds
  <2>1. call' \in Calls /\ call'.turns = call.turns
    BY <1>0, <1>4 DEF CallEnds, Calls
  <2> QED BY <1>0, <1>2, <1>4, <2>1 DEF CallEnds
<1>5. CASE LegDies
  <2>1. PICK l \in EarLabels : ear' = [ear EXCEPT !.up = [ear.up EXCEPT ![l] = FALSE]]
    BY <1>5, <1>0 DEF LegDies, Ears
  <2>2. [ear.up EXCEPT ![l] = FALSE] \in [EarLabels -> BOOLEAN]
    BY <1>0 DEF Ears
  <2>3. ear' \in Ears /\ ear'.active = ear.active
    BY <2>1, <2>2, <1>0 DEF Ears
  <2>4. call' \in Calls /\ call'.turns = call.turns
    <3> DEFINE d == call.deaths + 1
               k == call.closed + 1
    <3>1. call' = [call EXCEPT !.deaths = d, !.closed = k] /\ d \in Nat /\ k \in Int
      BY <1>0, <1>5 DEF LegDies, Calls
    <3> HIDE DEF d, k
    <3> QED BY <3>1, <1>0 DEF Calls
  <2> QED BY <1>2, <1>5, <2>3, <2>4 DEF LegDies
<1>6. CASE EndOfStream
  <2>1. ear' = [ear EXCEPT !.ended = TRUE, !.up = [ear.up EXCEPT ![ear.active] = FALSE]]
    BY <1>6, <1>0 DEF EndOfStream, Ears
  <2>2. [ear.up EXCEPT ![ear.active] = FALSE] \in [EarLabels -> BOOLEAN]
    BY <1>0 DEF Ears
  <2>3. ear' \in Ears /\ ear'.active = ear.active
    BY <2>1, <2>2, <1>0 DEF Ears
  <2>4. call' \in Calls /\ call'.turns = call.turns
    BY <1>0, <1>6 DEF EndOfStream, Calls
  <2> QED BY <1>2, <1>6, <2>3, <2>4 DEF EndOfStream
<1>7. CASE ClosedPacket
  <2>1. call' \in Calls /\ call'.turns = call.turns
    <3> DEFINE k == call.closed - 1
    <3>1. k \in Int
      BY <1>0 DEF Calls
    <3>2. PICK on \in {call.listener, "gone", "waiting"}, state \in {call.state, "over"} :
             call' = [call EXCEPT !.closed = k, !.listener = on, !.state = state]
      BY <1>7 DEF ClosedPacket
    <3> HIDE DEF k
    <3> QED BY <3>1, <3>2, <1>0 DEF Calls
  <2> QED BY <1>0, <1>2, <1>7, <2>1 DEF ClosedPacket
<1>8. CASE Reconnect
  <2>1. call' \in Calls /\ call'.turns = call.turns /\ ear' \in Ears /\ ear'.active = ear.active
    BY <1>0, <1>8 DEF Reconnect, Calls, Ears
  <2> QED BY <1>2, <1>8, <2>1 DEF Reconnect
<1>9. CASE Reconnected
  <2>1. call' \in Calls /\ call'.turns = call.turns
    BY <1>0, <1>9 DEF Reconnected, Calls
  <2>2. ear' \in Ears /\ ear'.active = ear.active
    <3>1. [ear.up EXCEPT ![call.leg] = TRUE] \in [EarLabels -> BOOLEAN]
      BY <1>0 DEF Ears, Calls
    <3>2. CASE ear' = [ear EXCEPT !.up = [ear.up EXCEPT ![call.leg] = TRUE], !.tries = @ + 1,
                                  !.lock = Nobody]
      <4> DEFINE up == [ear.up EXCEPT ![call.leg] = TRUE]
                 k == ear.tries + 1
      <4>1. ear' = [ear EXCEPT !.up = up, !.tries = k, !.lock = Nobody] /\ k \in Nat
        BY <3>2, <1>0 DEF Ears
      <4>2. up \in [EarLabels -> BOOLEAN]
        BY <3>1
      <4> HIDE DEF up, k
      <4> QED BY <4>1, <4>2, <1>0 DEF Ears
    <3>3. CASE ear' = [ear EXCEPT !.lock = Nobody]
      BY <3>3, <1>0 DEF Ears
    <3> QED BY <1>9, <1>0, <3>2, <3>3 DEF Reconnected, Ears
  <2> QED BY <1>2, <1>9, <2>1, <2>2 DEF Reconnected
<1> QED BY <1>1, <1>3, <1>4, <1>5, <1>6, <1>7, <1>8, <1>9

---------------------------------------------------------------------------
\* The queue of the voices: only the one generator adds to it, and it is taken in order.
LEMMA QueueKeeps ==
    ASSUME IInv, voice' \in VoicePools, voice' = [voice EXCEPT !.queue = voice'.queue],
           BehindSentinel', UNCHANGED <<flow, language, ear, judge, call>>
    PROVE  IInv' /\ BySwitchOnly
<1>1. /\ voice'.active = voice.active /\ voice'.gen = voice.gen /\ voice'.lock = voice.lock
      /\ voice'.waits = voice.waits /\ voice'.running = voice.running
  BY DEF IInv, TypeInv, VoicePools
<1>2. \A u \in Switchers : At(u)' = At(u) /\ Target(u)' = Target(u)
  BY DEF At, Target
<1>3. Mutex' /\ OneGenerator'
  BY <1>1, <1>2 DEF IInv, VoiceInv, Mutex, OneGenerator
<1>4. EarLeads'
  <2>1. Targets' = Targets
    BY <1>2 DEF Targets
  <2> QED BY <1>1, <2>1 DEF IInv, VoiceInv, EarLeads
<1>5. DecisionInv'
  BY DEF IInv, DecisionInv, At
<1>6. TypeInv'
  BY DEF IInv, TypeInv, At, Target
<1>7. BySwitchOnly
  BY DEF BySwitchOnly, At
<1> QED BY <1>3, <1>4, <1>5, <1>6, <1>7 DEF IInv, VoiceInv

LEMMA VoiceKeeps == ASSUME IInv, VoiceSpeaks \/ VoiceHeard PROVE IInv' /\ BySwitchOnly
<1> DEFINE old == voice.queue
           Messages == VoiceLabels \cup {"switch"}
<1>0. voice \in VoicePools /\ old \in Seq(Messages) /\ OneGenerator /\ BehindSentinel
  BY DEF IInv, TypeInv, VoicePools, VoiceInv
<1>1. CASE VoiceSpeaks
  <2>1. PICK l \in VoiceLabels :
           /\ voice.running[l] > 0 /\ voice' = [voice EXCEPT !.queue = Append(old, l)]
           /\ UNCHANGED <<flow, language, ear, judge, call>>
    BY <1>1 DEF VoiceSpeaks
  <2>2. l = voice.active
    BY <1>0, <2>1, SwitchAssumption DEF OneGenerator
  <2> DEFINE q == Append(old, l)
  <2>3. /\ q \in Seq(Messages) /\ Len(q) = Len(old) + 1 /\ q[Len(old) + 1] = l
        /\ \A i \in 1..Len(old) : q[i] = old[i]
    BY <1>0, AppendProperties
  <2>4. Len(old) \in Nat
    BY <1>0, LenProperties
  <2> HIDE DEF q
  <2>5. /\ voice' \in VoicePools /\ voice' = [voice EXCEPT !.queue = voice'.queue]
        /\ voice'.queue = q /\ voice'.active = voice.active /\ voice'.lock = voice.lock
    BY <1>0, <2>1, <2>3 DEF VoicePools, q
  <2>6. BehindSentinel'
    <3> SUFFICES ASSUME NEW i \in 1..Len(q), \A j \in i..Len(q) : q[j] # "switch"
                 PROVE q[i] = voice.active \/ voice.lock # Nobody
      BY <2>5 DEF BehindSentinel
    <3>1. CASE i = Len(old) + 1
      BY <2>2, <2>3, <3>1
    <3>2. CASE i # Len(old) + 1
      <4>1. i \in 1..Len(old)
        BY <2>3, <2>4, <3>2
      <4>2. \A j \in i..Len(old) : old[j] # "switch"
        BY <2>3, <2>4, <4>1
      <4> QED BY <1>0, <2>3, <4>1, <4>2 DEF BehindSentinel
    <3> QED BY <3>1, <3>2
  <2> QED BY <2>1, <2>5, <2>6, QueueKeeps
<1>2. CASE VoiceHeard
  <2> DEFINE q == Tail(old)
  <2>1. /\ old # << >> /\ voice' = [voice EXCEPT !.queue = q]
        /\ UNCHANGED <<flow, language, ear, judge, call>>
    BY <1>2 DEF VoiceHeard
  <2>2. /\ q \in Seq(Messages) /\ Len(q) = Len(old) - 1 /\ Len(old) \in Nat
        /\ \A i \in 1..Len(q) : q[i] = old[i + 1]
    BY <1>0, <2>1, HeadTailProperties, LenProperties
  <2> HIDE DEF q
  <2>3. /\ voice' \in VoicePools /\ voice' = [voice EXCEPT !.queue = voice'.queue]
        /\ voice'.queue = q /\ voice'.active = voice.active /\ voice'.lock = voice.lock
    BY <1>0, <2>1, <2>2 DEF VoicePools
  <2>4. BehindSentinel'
    <3> SUFFICES ASSUME NEW i \in 1..Len(q), \A j \in i..Len(q) : q[j] # "switch"
                 PROVE q[i] = voice.active \/ voice.lock # Nobody
      BY <2>3 DEF BehindSentinel
    <3>1. i + 1 \in 1..Len(old) /\ q[i] = old[i + 1]
      BY <2>2
    <3>2. \A j \in (i + 1)..Len(old) : j - 1 \in i..Len(q) /\ old[j] = q[j - 1]
      BY <2>2
    <3>3. \A j \in (i + 1)..Len(old) : old[j] # "switch"
      BY <3>2
    <3> QED BY <1>0, <3>1, <3>3 DEF BehindSentinel
  <2> QED BY <2>1, <2>3, <2>4, QueueKeeps
<1> QED BY <1>1, <1>2

---------------------------------------------------------------------------
LEMMA Initial == SwitchInit => IInv
<1> SUFFICES ASSUME SwitchInit PROVE IInv
  OBVIOUS
<1>1. judge = [task |-> [t \in Switchers |-> NoTask], lock |-> Nobody]
  BY DEF SwitchInit
<1>2. judge \in Judges
  BY <1>1, FreshTask DEF Judges
<1>3. \A t \in Switchers : At(t) = "idle"
  BY <1>1 DEF At, NoTask
<1>4. /\ voice \in VoicePools /\ voice.active = FirstLabel /\ voice.gen = FirstLabel
      /\ voice.lock = Nobody /\ voice.waits = << >> /\ voice.queue = << >>
      /\ voice.running = [l \in VoiceLabels |-> IF l = FirstLabel THEN 1 ELSE 0]
  BY SwitchAssumption DEF SwitchInit, VoicePools
<1>5. ear \in Ears /\ ear.active = FirstLabel /\ call \in Calls /\ language = FirstLabel
  BY SwitchAssumption DEF SwitchInit, Ears, Calls
<1>6. TypeInv
  BY <1>2, <1>3, <1>4, <1>5, SwitchAssumption DEF TypeInv, Labels
<1>7. VoiceInv
  <2>1. Mutex
    BY <1>3, <1>4, Names DEF Mutex, Among, Distinct
  <2>2. OneGenerator /\ BehindSentinel
    BY <1>4 DEF OneGenerator, BehindSentinel
  <2>3. EarLeads
    BY <1>4, <1>5 DEF EarLeads, Led
  <2> QED BY <2>1, <2>2, <2>3 DEF VoiceInv
<1>8. DecisionInv
  BY <1>3, Names DEF DecisionInv, Fresh
<1> QED BY <1>6, <1>7, <1>8 DEF IInv

LEMMA Inductive == IInv /\ [SwitchNext]_switchVars => IInv' /\ BySwitchOnly
<1> SUFFICES ASSUME IInv, [SwitchNext]_switchVars PROVE IInv' /\ BySwitchOnly
  OBVIOUS
<1>1. CASE SwitchStep
  <2>1. ASSUME NEW t \in Decisions,
               \/ Enter(t) \/ Settled(t) \/ JudgeStays(t) \/ JudgeSwitches(t)
               \/ Truncated(t) \/ Gap(t) \/ Handoff(t)
        PROVE  IInv' /\ BySwitchOnly
    BY <2>1, DecisionKeeps
  <2>2. ASSUME NEW t \in Switchers, EarTake(t) \/ EarRun(t) \/ VoiceTake(t) \/ VoiceRun(t)
        PROVE  IInv' /\ BySwitchOnly
    BY <2>2, EarTakeKeeps, EarRunKeeps, VoiceTakeKeeps, VoiceRunKeeps
  <2> QED BY <1>1, <2>1, <2>2, ToolEntersKeeps DEF SwitchStep
<1>2. CASE NewTurn \/ IdleWatcher \/ ToolCalled \/ AutoSwitch
  BY <1>2, StartsKeep
<1>3. CASE VoiceStep
  BY <1>3, VoiceKeeps DEF VoiceStep
<1>4. CASE DetectorHears \/ GateExpires \/ SendFrame \/ CallEnds \/ LegStep
  BY <1>4, RestKeeps DEF LegStep
<1>5. CASE UNCHANGED switchVars
  <2>1. ear \in Ears /\ call \in Calls /\ judge \in Judges
    BY DEF IInv, TypeInv
  <2> QED BY <1>5, <2>1, ElsewhereKeeps DEF switchVars, At, Target
<1> QED BY <1>1, <1>2, <1>3, <1>4, <1>5 DEF SwitchNext, DecideStep

LEMMA SwitchSafety == SwitchInit /\ [][SwitchNext]_switchVars => []IInv
<1>1. SwitchInit => IInv
  BY Initial
<1>2. IInv /\ [SwitchNext]_switchVars => IInv'
  BY Inductive
<1> QED BY <1>1, <1>2, PTL

LEMMA SwitchInvariant == SwitchSpec => []IInv
BY SwitchSafety, PTL DEF SwitchSpec

\* Whenever no switch is under way the synthesizer pool and TaskManager.language
\* agree, and the transcriber pool agrees with them unless it was switched to a
\* language that no synthesizer speaks (SynthesizerPool.switch then refuses what
\* TranscriberPool.switch has done): for every pair of pools, whatever labels they
\* share.
THEOREM OneLanguageCorrect == SwitchSpec => []OneLanguage
<1>1. ASSUME IInv PROVE OneLanguage
  <2> SUFFICES ASSUME ~Switching
               PROVE  /\ voice.active = language
                      /\ ear.active \in {language} \cup (EarLabels \ VoiceLabels)
    BY DEF OneLanguage
  <2>1. voice.waits \in Seq(Switchers) /\ voice.lock \in Switchers \cup {Nobody}
    BY <1>1 DEF IInv, TypeInv, VoicePools
  <2>2. \A t \in Switchers : At(t) # "voice" /\ At(t) # "voiceRun"
    BY DEF Switching
  <2>3. voice.lock = Nobody
    BY <1>1, <2>1, <2>2 DEF IInv, VoiceInv, Mutex
  <2>4. voice.waits = << >>
    <3> SUFFICES ASSUME voice.waits # << >> PROVE FALSE
      OBVIOUS
    <3>1. 1 \in 1..Len(voice.waits) /\ voice.waits[1] \in Switchers
      BY <2>1, EmptySeq, ElementOfSeq
    <3>2. At(voice.waits[1]) = "voice"
      BY <1>1, <3>1 DEF IInv, VoiceInv, Mutex, Among
    <3> QED BY <2>2, <3>1, <3>2
  <2>5. ear.active \in EarLabels
    BY <1>1 DEF IInv, TypeInv, Ears
  <2> QED BY <1>1, <2>3, <2>4, <2>5 DEF IInv, VoiceInv, EarLeads, Led
<1> QED BY <1>1, SwitchInvariant, PTL

\* SynthesizerPool.switch waits for the cancelled generator before it starts the next:
\* never two read one queue or one websocket, and what follows the last switch
\* sentinel in the pool's queue is the active voice's.
THEOREM VoicesInOrderCorrect == SwitchSpec => []VoicesInOrder
<1>1. ASSUME IInv PROVE VoicesInOrder
  <2>1. voice.queue \in Seq(VoiceLabels \cup {"switch"})
    BY <1>1 DEF IInv, TypeInv, VoicePools
  <2>2. DOMAIN voice.queue = 1..Len(voice.queue)
    BY <2>1, LenProperties
  <2>3. \A l \in VoiceLabels : voice.running[l] = IF l = voice.gen THEN 1 ELSE 0
    BY <1>1 DEF IInv, VoiceInv, OneGenerator
  <2>4. /\ \A l, m \in VoiceLabels : voice.running[l] > 0 /\ voice.running[m] > 0 => l = m
        /\ \A l \in VoiceLabels : voice.running[l] <= 1
    BY <2>3
  <2> QED BY <1>1, <2>2, <2>4 DEF IInv, VoiceInv, BehindSentinel, VoicesInOrder
<1> QED BY <1>1, SwitchInvariant, PTL

\* A decision taken for one language never replaces another: handle_language_switch
\* holds language_switch_lock from its staleness check to the flip, and whoever else
\* switches while decisions are made takes the same lock.
THEOREM StaleDecisionDroppedCorrect == SwitchSpec => StaleDecisionDropped
<1> DEFINE Replaces ==
       language' # language =>
           \A t \in Decisions : At(t) # "handoff" /\ judge'.task[t].at = "handoff"
                                   => judge.task[t].spawn = language
<1>1. IInv /\ [SwitchNext]_switchVars => [Replaces]_switchVars
  <2> SUFFICES ASSUME IInv, [SwitchNext]_switchVars, NEW t \in Decisions,
                      At(t) # "handoff", judge'.task[t].at = "handoff"
               PROVE  judge.task[t].spawn = language
    OBVIOUS
  <2>1. At(t) \in Flipping
    BY Inductive DEF BySwitchOnly
  <2> QED BY <2>1 DEF IInv, DecisionInv, Flipping, Fresh
<1> QED BY <1>1, SwitchInvariant, PTL DEF SwitchSpec, StaleDecisionDropped

---------------------------------------------------------------------------
(* The hold.                                                               *)

Open == {"spawned", "settling", "deciding", "truncating"}
Replies == [seq : Int, live : BOOLEAN, frames : Int, kept : BOOLEAN, leaked : BOOLEAN]

\* The hold owed to the reply is the one that stands.
HoldStands ==
    \A n \in Turns :
        /\ reply.live /\ ~Ending /\ ~reply.kept /\ reply.seq = n
        /\ judge.task[<<"turn", n>>].armed /\ At(<<"turn", n>>) \in Open
        => gate.on /\ gate.seq = n /\ gate.task = <<"turn", n>> /\ ~gate.due

HeldInv == reply \in Replies /\ ~reply.leaked /\ HoldStands

\* No turn's decision opens or arms its hold.
NoneArms ==
    \A n \in Turns :
        judge'.task[<<"turn", n>>].armed /\ judge'.task[<<"turn", n>>].at \in Open
            => judge.task[<<"turn", n>>].armed /\ At(<<"turn", n>>) \in Open

LEMMA HeldKept ==
    ASSUME HeldInv, NoneArms, gate' = gate, reply' = reply, ~Ending' => ~Ending
    PROVE  HeldInv'
BY DEF HeldInv, HoldStands, NoneArms, At

LEMMA TaskLeaves ==
    ASSUME IInv, NEW t \in Switchers, NEW p \in Places \ Open, judge' \in {Done(t), Move(t, p)}
    PROVE  NoneArms
<1>1. judge \in Judges
  BY DEF IInv, TypeInv
<1>2. Alone(t) /\ judge'.task[t].at \notin Open
  <2>1. CASE judge' = Done(t)
    BY <1>1, <2>1, DoneShape DEF NoTask, Open
  <2>2. CASE judge' = Move(t, p)
    BY <1>1, <2>2, MoveShape
  <2> QED BY <2>1, <2>2
<1> QED BY <1>2, Names DEF NoneArms, Alone, At

LEMMA SwitchHeld ==
    ASSUME IInv, HeldInv, NEW t \in Switchers,
           EarTake(t) \/ EarRun(t) \/ VoiceTake(t) \/ VoiceRun(t)
    PROVE  HeldInv'
<1>1. PICK p \in {"earRun", "voice", "voiceRun", "handoff"} : judge' \in {Done(t), Move(t, p)}
  <2>1. ASSUME NEW rest, VoiceSwitch(t, rest)
        PROVE  judge' \in {Done(t), Move(t, "handoff"), Move(t, "voiceRun")}
    BY <2>1 DEF VoiceSwitch, Flip
  <2>2. ThenVoice(t) => judge' \in {Done(t), Move(t, "handoff"), Move(t, "voiceRun"), Move(t, "voice")}
    BY <2>1 DEF ThenVoice
  <2> QED BY <2>1, <2>2 DEF EarTake, EarRun, VoiceTake, VoiceRun, Flip
<1>2. NoneArms
  BY <1>1, TaskLeaves DEF Places, Open
<1>3. gate' = gate /\ reply' = reply /\ call' = call
  BY DEF EarTake, EarRun, VoiceTake, VoiceRun
<1> QED BY <1>2, <1>3, HeldKept DEF Ending

\* A step of t's decision that leaves gate and reply alone and arms nothing.
LEMMA MoveHeld ==
    ASSUME IInv, HeldInv, NEW t \in Decisions, NEW p \in Places,
           p \in Open => At(t) \in Open,
           judge' \in {Done(t), Move(t, p), [Move(t, p) EXCEPT !.lock = t]}
    PROVE  NoneArms
<1>0. judge \in Judges /\ t \in Switchers
  BY Names DEF IInv, TypeInv
<1>1. CASE judge' = Done(t)
  <2>1. Alone(t) /\ judge'.task[t].at \notin Open
    BY <1>0, <1>1, DoneShape DEF NoTask, Open
  <2> QED BY <2>1, Names DEF NoneArms, Alone, At
<1>2. CASE judge' \in {Move(t, p), [Move(t, p) EXCEPT !.lock = t]}
  <2>1. judge'.task = [judge.task EXCEPT ![t] = [judge.task[t] EXCEPT !.at = p]]
    BY <1>0, <1>2 DEF Move, Judges
  <2>2. /\ \A u \in Switchers : u # t => judge'.task[u] = judge.task[u]
        /\ judge'.task[t].at = p /\ judge'.task[t].armed = judge.task[t].armed
    BY <1>0, <2>1 DEF Judges, Tasks
  <2> QED BY <2>2, Names DEF NoneArms, At
<1> QED BY <1>1, <1>2

LEMMA DrainHeld ==
    ASSUME IInv, HeldInv, NEW t \in Decisions, Drain(t), At(t) \in Open,
           reply' = reply, call' = call
    PROVE  HeldInv'
<1>0. judge \in Judges /\ t \in Switchers /\ judge.task[t] \in Tasks
  BY Names DEF IInv, TypeInv, Judges
<1>1. CASE det.heard = {}
  <2>1. NoneArms
    BY <1>1, MoveHeld DEF Drain, Places, Open
  <2> QED BY <1>1, <2>1, HeldKept DEF Drain, Ending
<1>2. CASE det.heard # {}
  <2> DEFINE held == IF gate.on /\ At(gate.task) = "idle" THEN NoGate ELSE gate
             arms == ~held.on /\ Mismatch /\ t[1] = "turn"
             r == [judge.task[t] EXCEPT !.at = "deciding", !.armed = @ \/ arms]
  <2>1. /\ gate' = IF arms THEN ArmedGate(t) ELSE held
        /\ judge' = [judge EXCEPT !.lock = t, !.task[t].at = "deciding",
                                  !.task[t].armed = @ \/ arms]
    BY <1>2 DEF Drain
  <2>2. judge'.task = [judge.task EXCEPT ![t] = r]
    <3> HIDE DEF arms
    <3> QED BY <1>0, <2>1 DEF Judges
  <2>3. /\ \A u \in Switchers : u # t => judge'.task[u] = judge.task[u]
        /\ judge'.task[t].armed = (judge.task[t].armed \/ arms)
    <3> HIDE DEF arms
    <3> QED BY <1>0, <2>2 DEF Judges, Tasks
  <2>4. HoldStands'
    <3> SUFFICES ASSUME NEW n \in Turns,
                        reply.live, ~Ending, ~reply.kept, reply.seq = n,
                        judge'.task[<<"turn", n>>].armed,
                        judge'.task[<<"turn", n>>].at \in Open
                 PROVE  gate'.on /\ gate'.seq = n /\ gate'.task = <<"turn", n>> /\ ~gate'.due
      BY DEF HoldStands, Ending, At
    <3>1. CASE judge.task[<<"turn", n>>].armed /\ At(<<"turn", n>>) \in Open
      <4>1. gate.on /\ gate.seq = n /\ gate.task = <<"turn", n>> /\ ~gate.due
        BY <3>1 DEF HeldInv, HoldStands
      <4>2. held = gate
        BY <3>1, <4>1 DEF Open
      <4>3. ~arms
        BY <4>1, <4>2
      <4> QED BY <2>1, <4>1, <4>2, <4>3
    <3>2. CASE ~(judge.task[<<"turn", n>>].armed /\ At(<<"turn", n>>) \in Open)
      <4>1. t = <<"turn", n>>
        BY <2>3, <3>2, Names DEF At
      <4>2. ~judge.task[t].armed
        BY <3>2, <4>1
      <4>3. arms
        BY <2>3, <4>1, <4>2
      <4>4. gate' = [on |-> TRUE, seq |-> t[2], task |-> t, due |-> FALSE] /\ t[2] = n
        BY <2>1, <4>1, <4>3 DEF ArmedGate
      <4> QED BY <4>1, <4>4
    <3> QED BY <3>1, <3>2
  <2> QED BY <2>4 DEF HeldInv
<1> QED BY <1>1, <1>2

LEMMA DecisionHeld ==
    ASSUME IInv, HeldInv, NEW t \in Decisions,
           \/ Enter(t) \/ Settled(t) \/ JudgeStays(t) \/ JudgeSwitches(t)
           \/ Truncated(t) \/ Gap(t) \/ Handoff(t)
    PROVE  HeldInv'
<1>0. judge \in Judges /\ t \in Switchers /\ judge.task[t] \in Tasks /\ reply \in Replies
  BY Names DEF IInv, TypeInv, Judges, HeldInv
<1>1. ASSUME NoneArms, gate' = gate, reply' = reply, call' = call PROVE HeldInv'
  BY <1>1, HeldKept DEF Ending
<1>2. CASE Enter(t)
  <2>1. At(t) = "spawned" /\ reply' = reply /\ call' = call
    BY <1>2 DEF Enter
  <2>2. CASE Drain(t)
    BY <2>1, <2>2, DrainHeld DEF Open
  <2>3. CASE ~Drain(t)
    <3>1. gate' = gate /\ judge' \in {Done(t), [Move(t, "settling") EXCEPT !.lock = t]}
      BY <1>2, <2>3 DEF Enter
    <3>2. NoneArms
      BY <2>1, <3>1, MoveHeld DEF Places, Open
    <3> QED BY <1>1, <2>1, <3>1, <3>2
  <2> QED BY <2>2, <2>3
<1>3. CASE Settled(t)
  BY <1>3, DrainHeld DEF Settled, Open
<1>4. CASE JudgeStays(t) \/ (Gap(t) /\ Ending)
  <2>1. judge' = Done(t) /\ UNCHANGED <<gate, reply, call>>
    BY <1>4 DEF JudgeStays, Gap
  <2>2. NoneArms
    BY <2>1, MoveHeld DEF Places, Open
  <2> QED BY <1>1, <2>1, <2>2
<1>8. CASE Gap(t) /\ ~Ending
  <2>1. UNCHANGED <<reply, call>>
    BY <1>8 DEF Gap
  <2>2. /\ Others(t) /\ judge'.task[t].at \notin Open
        /\ \A u \in Switchers : judge'.task[u].armed => judge.task[u].armed /\ u # gate.task
    BY <1>0, <1>8, GapShape DEF Open
  <2>3. HoldStands'
    <3> SUFFICES ASSUME NEW n \in Turns,
                        reply.live, ~Ending, ~reply.kept, reply.seq = n,
                        judge'.task[<<"turn", n>>].armed,
                        judge'.task[<<"turn", n>>].at \in Open
                 PROVE  FALSE
      BY <2>1 DEF HoldStands, Ending, At
    <3>1. <<"turn", n>> \in Switchers
      BY Names
    <3>2. /\ judge.task[<<"turn", n>>].armed /\ <<"turn", n>> # gate.task
          /\ At(<<"turn", n>>) \in Open
      BY <2>2, <3>1 DEF Others, At
    <3> QED BY <3>2 DEF HeldInv, HoldStands
  <2> QED BY <2>1, <2>3 DEF HeldInv
<1>5. CASE JudgeSwitches(t)
  <2>1. PICK l \in Labels, tool \in BOOLEAN :
          LET cuts == ~tool /\ reply.live
          IN /\ judge' = [judge EXCEPT !.task[t].at = IF cuts THEN "truncating" ELSE "ear",
                                       !.task[t].target = l, !.task[t].quiet = tool]
             /\ gate' = IF cuts THEN gate ELSE NoGate
             /\ reply' = [reply EXCEPT !.kept = @ \/ tool]
    BY <1>5 DEF JudgeSwitches, Labels
  <2>2. /\ reply' \in Replies /\ reply'.live = reply.live /\ reply'.seq = reply.seq
        /\ reply'.leaked = reply.leaked /\ reply'.kept = (reply.kept \/ tool)
    BY <1>0, <2>1 DEF Replies
  <2>3. At(t) = "deciding" /\ call' = call
    BY <1>5 DEF JudgeSwitches
  <2>4. CASE ~tool /\ reply.live
    <3> DEFINE r == [judge.task[t] EXCEPT !.at = "truncating", !.target = l, !.quiet = tool]
    <3>1. judge' = [judge EXCEPT !.task[t].at = "truncating", !.task[t].target = l,
                                 !.task[t].quiet = tool] /\ gate' = gate
      BY <2>1, <2>4
    <3>2. judge'.task = [judge.task EXCEPT ![t] = r]
      BY <1>0, <3>1 DEF Judges
    <3>3. /\ \A u \in Switchers : u # t => judge'.task[u] = judge.task[u]
          /\ judge'.task[t].armed = judge.task[t].armed
      BY <1>0, <3>2 DEF Judges, Tasks
    <3>4. NoneArms
      BY <2>3, <3>3, Names DEF NoneArms, At, Open
    <3> QED BY <2>2, <2>3, <2>4, <3>1, <3>4 DEF HeldInv, HoldStands, NoneArms, At, Ending
  <2>5. CASE tool \/ ~reply.live
    BY <2>2, <2>5 DEF HeldInv, HoldStands
  <2> QED BY <2>4, <2>5
<1>6. CASE Truncated(t)
  <2>1. reply' \in Replies /\ ~reply'.live /\ reply'.leaked = reply.leaked
    BY <1>0, <1>6 DEF Truncated, Replies
  <2> QED BY <2>1 DEF HeldInv, HoldStands
<1>7. CASE Handoff(t)
  <2>1. judge' = Done(t) /\ gate' = gate /\ call' = call
    BY <1>7 DEF Handoff
  <2>2. CASE Ending
    <3>1. NoneArms
      BY <2>1, MoveHeld DEF Places, Open
    <3> QED BY <1>1, <1>7, <2>1, <2>2, <3>1 DEF Handoff
  <2>3. CASE ~Ending
    <3>1. reply' = [seq |-> 0, live |-> TRUE, frames |-> 1, kept |-> FALSE, leaked |-> FALSE]
      BY <1>7, <2>3 DEF Handoff
    <3>2. reply' \in Replies /\ reply'.seq = 0 /\ ~reply'.leaked /\ 0 \notin Turns
      BY <3>1 DEF Replies, Turns
    <3> QED BY <3>2 DEF HeldInv, HoldStands
  <2> QED BY <2>2, <2>3
<1> QED BY <1>2, <1>3, <1>4, <1>5, <1>6, <1>7, <1>8

LEMMA SendHeld == ASSUME HeldInv, SendFrame PROVE HeldInv'
<1>1. Owed => Holds
  <2> SUFFICES ASSUME Owed PROVE Holds
    OBVIOUS
  <2>1. PICK t \in Decisions : /\ t[2] = reply.seq /\ t[1] = "turn" /\ judge.task[t].armed
                               /\ At(t) \in Open
    BY DEF Owed, Open
  <2>2. PICK n \in Turns : t = <<"turn", n>>
    BY <2>1 DEF Decisions
  <2>3. reply.seq = n /\ reply.live /\ ~Ending /\ ~reply.kept
    BY <2>1, <2>2 DEF Owed, SendFrame
  <2>4. gate.on /\ gate.seq = n /\ gate.task = t /\ ~gate.due
    BY <2>1, <2>2, <2>3 DEF HeldInv, HoldStands
  <2> QED BY <2>1, <2>3, <2>4 DEF Holds, Open
<1>2. ~Holds /\ ~Owed /\ judge' = judge /\ call' = call
  BY <1>1 DEF SendFrame
<1>3. /\ reply' \in Replies /\ ~reply'.leaked /\ reply'.seq = reply.seq
      /\ reply'.live = reply.live /\ reply'.kept = reply.kept
  <2>1. (reply.leaked \/ Owed) = FALSE
    BY <1>2 DEF HeldInv
  <2>2. reply' = [reply EXCEPT !.frames = @ - 1, !.leaked = FALSE]
    BY <2>1, Zenon DEF SendFrame
  <2>3. reply \in Replies /\ reply.frames - 1 \in Int
    BY DEF HeldInv, Replies
  <2>4. reply' \in Replies /\ ~reply'.leaked
    BY <2>2, <2>3 DEF Replies
  <2>5. reply'.seq = reply.seq /\ reply'.live = reply.live /\ reply'.kept = reply.kept
    BY <2>2, <2>3 DEF Replies
  <2> QED BY <2>4, <2>5
<1>4. HoldStands'
  <2> SUFFICES ASSUME NEW n \in Turns,
                      reply.live, ~Ending, ~reply.kept, reply.seq = n,
                      judge.task[<<"turn", n>>].armed, At(<<"turn", n>>) \in Open
               PROVE  FALSE
    BY <1>2, <1>3 DEF HoldStands, Ending, At
  <2>1. <<"turn", n>> \in Decisions /\ <<"turn", n>>[1] = "turn" /\ <<"turn", n>>[2] = n
    BY Names
  <2>2. Owed
    BY <2>1 DEF Owed, Open
  <2> QED BY <1>2, <2>2
<1> QED BY <1>3, <1>4 DEF HeldInv

LEMMA NewTurnHeld == ASSUME IInv, HeldInv, NewTurn PROVE HeldInv'
<1> DEFINE m == call.turns + 1
           t == <<"turn", m>>
<1>0. judge \in Judges /\ m \in Turns /\ t \in Decisions /\ t \in Switchers /\ t[2] = m
  <2>1. call.turns \in Nat /\ call.turns < MaxTurns /\ MaxTurns \in Nat
    BY SwitchAssumption DEF IInv, TypeInv, Calls, NewTurn
  <2>2. m \in Turns
    BY <2>1 DEF Turns
  <2> HIDE DEF m
  <2> QED BY <2>2, Names DEF IInv, TypeInv
<1>1. reply' = [seq |-> m, live |-> TRUE, frames |-> 1, kept |-> FALSE, leaked |-> FALSE]
  BY Zenon DEF NewTurn
<1>2. reply' \in Replies /\ ~reply'.leaked /\ reply'.seq = m
  <2>1. m \in Int
    BY <1>0 DEF Turns
  <2> HIDE DEF m
  <2> QED BY <1>1, <2>1 DEF Replies
<1>3. CASE flow = "legacy"
  <2>1. judge' = judge /\ At(t) = "idle"
    BY <1>0, <1>3 DEF NewTurn, IInv, DecisionInv
  <2> HIDE DEF m
  <2> QED BY <1>2, <2>1 DEF HeldInv, HoldStands, At, Open
<1>4. CASE flow # "legacy"
  <2> DEFINE r == [NoTask EXCEPT !.at = "spawned", !.spawn = language, !.armed = Mismatch]
  <2>1. /\ judge' = [judge EXCEPT !.task[t] = r]
        /\ gate' = IF Mismatch THEN ArmedGate(t) ELSE gate
    BY <1>4 DEF NewTurn
  <2>2. judge'.task[t] = r
    <3> HIDE DEF r, m
    <3> QED BY <1>0, <2>1 DEF Judges
  <2>3. r.armed = Mismatch
    BY DEF NoTask
  <2> HIDE DEF m
  <2>4. Mismatch => gate' = [on |-> TRUE, seq |-> m, task |-> t, due |-> FALSE]
    BY <1>0, <2>1 DEF ArmedGate
  <2> HIDE DEF r
  <2> QED BY <1>2, <2>2, <2>3, <2>4 DEF HeldInv, HoldStands
<1> QED BY <1>3, <1>4

LEMMA RestHeld ==
    ASSUME IInv, HeldInv, [SwitchNext]_switchVars,
           ~SwitchStep, ~NewTurn, ~SendFrame
    PROVE  HeldInv'
<1>0. judge \in Judges
  BY DEF IInv, TypeInv
<1>1. ASSUME NoneArms, gate' = gate, reply' = reply, ~Ending' => ~Ending PROVE HeldInv'
  BY <1>1, HeldKept
<1>2. CASE IdleWatcher \/ ToolCalled \/ AutoSwitch
  <2>1. PICK t \in {<<"idle", 0>>, Tool, Unasked} : \E r : judge' = [judge EXCEPT !.task[t] = r]
    BY <1>2 DEF IdleWatcher, ToolCalled, AutoSwitch
  <2>2. ASSUME NEW n \in Turns
        PROVE  judge'.task[<<"turn", n>>] = judge.task[<<"turn", n>>]
    <3>1. <<"turn", n>> \in Switchers /\ <<"turn", n>> # t
      BY Names
    <3>2. PICK r : judge'.task = [judge.task EXCEPT ![t] = r]
      BY <1>0, <2>1 DEF Judges
    <3> QED BY <1>0, <3>1, <3>2 DEF Judges
  <2>3. NoneArms
    BY <2>2 DEF NoneArms, At
  <2>4. gate' = gate /\ reply' = reply /\ (~Ending' => ~Ending)
    <3>1. call'.state = call.state
      BY <1>2 DEF IdleWatcher, ToolCalled, AutoSwitch, IInv, TypeInv, Calls
    <3> QED BY <1>2, <3>1 DEF IdleWatcher, ToolCalled, AutoSwitch, Ending
  <2> QED BY <1>1, <2>3, <2>4
<1>3. CASE GateExpires
  <2>1. /\ reply' = reply /\ call' = call
        /\ judge' = [judge EXCEPT !.task[gate.task].armed = FALSE]
    BY <1>3 DEF GateExpires
  <2>2. \A u \in Switchers : /\ judge'.task[u].armed => judge.task[u].armed /\ u # gate.task
                             /\ judge'.task[u].at = judge.task[u].at
    <3>1. judge'.task = [judge.task EXCEPT ![gate.task] = [@ EXCEPT !.armed = FALSE]]
      BY <1>0, <2>1 DEF Judges
    <3> QED BY <1>0, <3>1 DEF Judges, Tasks
  <2>3. HoldStands'
    <3> SUFFICES ASSUME NEW n \in Turns,
                        reply.live, ~Ending, ~reply.kept, reply.seq = n,
                        judge'.task[<<"turn", n>>].armed,
                        judge'.task[<<"turn", n>>].at \in Open
                 PROVE  FALSE
      BY <2>1 DEF HoldStands, Ending, At
    <3>1. <<"turn", n>> \in Switchers
      BY Names
    <3> QED BY <2>2, <3>1 DEF HeldInv, HoldStands, At
  <2> QED BY <2>1, <2>3 DEF HeldInv
<1>4. CASE \/ DetectorHears \/ VoiceStep
           \/ UNCHANGED switchVars
  <2>1. judge' = judge /\ gate' = gate /\ reply' = reply /\ call' = call
    BY <1>4 DEF DetectorHears, VoiceStep, VoiceSpeaks, VoiceHeard, switchVars
  <2> QED BY <1>1, <2>1 DEF NoneArms, At, Ending
<1>5. CASE CallEnds \/ LegStep
  <2>1. judge' = judge /\ gate' = gate /\ reply' = reply
    BY <1>5 DEF CallEnds, LegStep, LegDies, EndOfStream, ClosedPacket, Reconnect, Reconnected
  <2>2. ~Ending' => ~Ending
    <3>1. call'.state \in {call.state, "ending", "over"}
      BY <1>5 DEF CallEnds, LegStep, LegDies, EndOfStream, ClosedPacket, Reconnect, Reconnected,
                  IInv, TypeInv, Calls
    <3> QED BY <3>1 DEF Ending
  <2> QED BY <1>1, <2>1, <2>2 DEF NoneArms, At
<1> QED BY <1>2, <1>3, <1>4, <1>5 DEF SwitchNext, DecideStep

\* From the mismatch to the cut, no audio of a reply that is held for its own
\* decision is sent, whatever other decisions, turns and gates there are, unless
\* the hold was armed in the gap of an earlier turn's switch, which opens it.
THEOREM OldLanguageHeldCorrect == SwitchSpec => []OldLanguageHeld
<1>1. SwitchInit => HeldInv
  <2> SUFFICES ASSUME SwitchInit PROVE HeldInv
    OBVIOUS
  <2>1. reply = [seq |-> 0, live |-> FALSE, frames |-> 0, kept |-> FALSE, leaked |-> FALSE]
    BY DEF SwitchInit
  <2> QED BY <2>1 DEF HeldInv, HoldStands, Replies
<1>2. IInv /\ HeldInv /\ [SwitchNext]_switchVars => HeldInv'
  <2> SUFFICES ASSUME IInv, HeldInv, [SwitchNext]_switchVars PROVE HeldInv'
    OBVIOUS
  <2>1. CASE ToolEnters
    <3>1. PICK p \in {"ear"} :
            judge' \in {Done(Tool), Move(Tool, p), [Move(Tool, p) EXCEPT !.lock = Tool]}
      BY <2>1 DEF ToolEnters
    <3>2. judge \in Judges /\ \A n \in Turns : <<"turn", n>> # Tool /\ <<"turn", n>> \in Switchers
      BY Names DEF IInv, TypeInv
    <3>3. \A n \in Turns : judge'.task[<<"turn", n>>] = judge.task[<<"turn", n>>]
      BY <3>1, <3>2 DEF Done, Move, Judges
    <3> QED BY <2>1, <3>3, HeldKept DEF ToolEnters, NoneArms, At, Ending
  <2>2. CASE SwitchStep
    BY <2>1, <2>2, DecisionHeld, SwitchHeld DEF SwitchStep
  <2> QED BY <2>2, SendHeld, NewTurnHeld, RestHeld
<1>3. HeldInv => OldLanguageHeld
  BY DEF HeldInv, OldLanguageHeld
<1> QED BY <1>1, <1>2, <1>3, SwitchInvariant, PTL DEF SwitchSpec

---------------------------------------------------------------------------
(* The bounds.                                                             *)

Heards == [heard : SUBSET EarLabels, segments : Nat]
Gates == [on : BOOLEAN, seq : 0..MaxTurns, task : Decisions \cup {Nobody}, due : BOOLEAN]

\* The gate is a turn's, and a reconnect under way was within the cap.
BoundInv ==
    /\ flow \in Flows /\ det \in Heards /\ gate \in Gates
    /\ reply.seq \in 0..MaxTurns /\ reply \in Replies /\ call.turns \in 0..MaxTurns
    /\ ear.tries \in 0..MaxReconnects
    /\ call.listener = "reviving" => ear.tries < MaxReconnects

LEMMA GateShape ==
    /\ NoGate \in Gates
    /\ \A n \in Turns : ArmedGate(<<"turn", n>>) \in Gates
<1>1. 0 \in 0..MaxTurns  BY SwitchAssumption
<1>2. ASSUME NEW n \in Turns PROVE ArmedGate(<<"turn", n>>) \in Gates
  <2>1. <<"turn", n>>[2] = n /\ n \in 0..MaxTurns  BY SwitchAssumption DEF Turns
  <2>2. <<"turn", n>> \in Decisions  BY Names
  <2> QED BY <2>1, <2>2 DEF ArmedGate, Gates
<1> QED BY <1>1, <1>2 DEF NoGate, Gates

LEMMA DrainBound ==
    ASSUME BoundInv, NEW t \in Decisions, Drain(t)
    PROVE  gate' \in Gates /\ det' \in Heards
<1>1. CASE det.heard = {}  BY <1>1 DEF Drain, BoundInv
<1>2. CASE det.heard # {}
  <2>1. det' = [det EXCEPT !.heard = {}]  BY <1>2 DEF Drain
  <2>2. gate' \in {gate, NoGate} \/ (t[1] = "turn" /\ gate' = ArmedGate(t))
    BY <1>2 DEF Drain
  <2>3. t[1] = "turn" => \E n \in Turns : t = <<"turn", n>>
    <3>1. <<"idle", 0>>[1] = "idle"  OBVIOUS
    <3> QED BY <3>1, Names
  <2>4. gate' \in Gates  BY <2>2, <2>3, GateShape DEF BoundInv
  <2>5. det' \in Heards  BY <2>1 DEF BoundInv, Heards
  <2> QED BY <2>4, <2>5
<1> QED BY <1>1, <1>2

\* What touches neither the pools' counters nor the caller's side.
Settles ==
    /\ flow' = flow /\ det' \in Heards /\ gate' \in Gates
    /\ reply'.seq \in 0..MaxTurns /\ reply' \in Replies /\ call'.turns \in 0..MaxTurns
    /\ ear'.tries = ear.tries
    /\ call'.listener = "reviving" => call.listener = "reviving"

LEMMA SettlesKeep == ASSUME BoundInv, Settles PROVE BoundInv'
BY DEF BoundInv, Settles

LEMMA FlipHeard ==
    ASSUME BoundInv, NEW t \in Switchers, Flip(t)
    PROVE  det' \in Heards
<1>1. det' = det \/ det' = [det EXCEPT !.heard = {}]  BY DEF Flip
<1> QED BY <1>1 DEF BoundInv, Heards

LEMMA VoiceHeardOf ==
    ASSUME BoundInv, NEW t \in Switchers, NEW rest, ThenVoice(t) \/ VoiceSwitch(t, rest)
    PROVE  det' \in Heards
<1>1. Flip(t) \/ det' = det
  BY DEF ThenVoice, VoiceSwitch
<1> QED BY <1>1, FlipHeard DEF BoundInv

LEMMA SwitchersBound ==
    ASSUME IInv, BoundInv, SwitchStep
    PROVE  BoundInv'
<1>0. SUFFICES Settles  BY SettlesKeep
<1>1. ASSUME NEW t \in Switchers, EarTake(t) \/ EarRun(t) PROVE Settles
  <2>1. UNCHANGED <<flow, gate, reply, call>>  BY <1>1 DEF EarTake, EarRun
  <2>2. ear'.tries = ear.tries  BY <1>1 DEF EarTake, EarRun, IInv, TypeInv, Ears
  <2>3. ThenVoice(t) \/ det' = det  BY <1>1 DEF EarTake, EarRun
  <2>4. det' \in Heards  BY <2>3, VoiceHeardOf DEF BoundInv
  <2> QED BY <2>1, <2>2, <2>4 DEF Settles, BoundInv
<1>2. ASSUME NEW t \in Switchers, VoiceTake(t) \/ VoiceRun(t) PROVE Settles
  <2>1. UNCHANGED <<flow, ear, gate, reply, call>>  BY <1>2 DEF VoiceTake, VoiceRun
  <2>2. VoiceSwitch(t, Tail(voice.waits)) \/ Flip(t)  BY <1>2 DEF VoiceTake, VoiceRun
  <2>3. det' \in Heards  BY <2>2, VoiceHeardOf, FlipHeard
  <2> QED BY <2>1, <2>3 DEF Settles, BoundInv
<1>3. ASSUME ToolEnters PROVE Settles
  BY <1>3 DEF ToolEnters, Settles, BoundInv
<1>4. ASSUME NEW t \in Decisions, Enter(t) \/ Settled(t) PROVE Settles
  <2>1. UNCHANGED <<flow, ear, reply, call>>  BY <1>4 DEF Enter, Settled
  <2>2. Drain(t) \/ UNCHANGED <<det, gate>>  BY <1>4 DEF Enter, Settled
  <2> QED BY <2>1, <2>2, DrainBound DEF Settles, BoundInv
<1>5. ASSUME NEW t \in Decisions, JudgeStays(t) \/ Gap(t) PROVE Settles
  <2>1. UNCHANGED <<flow, ear, det, reply, call>> /\ gate' \in {gate, NoGate}
    BY <1>5 DEF JudgeStays, Gap
  <2> QED BY <2>1, GateShape DEF Settles, BoundInv
<1>6. ASSUME NEW t \in Decisions, JudgeSwitches(t) PROVE Settles
  <2>1. UNCHANGED <<flow, ear, det, call>> /\ gate' \in {gate, NoGate}
    BY <1>6 DEF JudgeSwitches
  <2>2. PICK tool \in BOOLEAN : reply' = [reply EXCEPT !.kept = @ \/ tool]
    BY <1>6 DEF JudgeSwitches
  <2>3. reply' \in Replies /\ reply'.seq = reply.seq
    <3> DEFINE k == reply.kept \/ tool
    <3>1. k \in BOOLEAN /\ reply' = [reply EXCEPT !.kept = k]  BY <2>2
    <3> HIDE DEF k
    <3> QED BY <3>1 DEF BoundInv, Replies
  <2> QED BY <2>1, <2>3, GateShape DEF Settles, BoundInv
<1>7. ASSUME NEW t \in Decisions, Truncated(t) PROVE Settles
  <2>1. UNCHANGED <<flow, ear, det, call>> /\ gate' = NoGate
        /\ reply' = [reply EXCEPT !.live = FALSE]
    BY <1>7 DEF Truncated
  <2>2. reply' \in Replies /\ reply'.seq = reply.seq  BY <2>1 DEF BoundInv, Replies
  <2> QED BY <2>1, <2>2, GateShape DEF Settles, BoundInv
<1>8. ASSUME NEW t \in Decisions, Handoff(t) PROVE Settles
  <2> DEFINE fresh == [seq |-> 0, live |-> TRUE, frames |-> 1, kept |-> FALSE, leaked |-> FALSE]
  <2>1. UNCHANGED <<flow, ear, det, gate, call>> /\ reply' \in {reply, fresh}
    BY <1>8 DEF Handoff
  <2>2. fresh \in Replies /\ fresh.seq \in 0..MaxTurns  BY SwitchAssumption DEF Replies
  <2> HIDE DEF fresh
  <2> QED BY <2>1, <2>2 DEF Settles, BoundInv
<1> QED BY <1>1, <1>2, <1>3, <1>4, <1>5, <1>6, <1>7, <1>8 DEF SwitchStep

LEMMA RestBound ==
    ASSUME IInv, BoundInv, [SwitchNext]_switchVars, ~SwitchStep
    PROVE  BoundInv'
<1>1. CASE NewTurn
  <2>1. /\ UNCHANGED <<flow, ear, det>> /\ call.turns < MaxTurns
        /\ call' = [call EXCEPT !.turns = @ + 1]
    BY <1>1 DEF NewTurn
  <2> DEFINE n == call.turns + 1
  <2>2. n \in Turns /\ n \in 0..MaxTurns  BY <2>1, SwitchAssumption DEF BoundInv, Turns
  <2>3. call'.turns = n /\ call'.listener = call.listener  BY <2>1 DEF IInv, TypeInv, Calls
  <2>4. gate' = gate \/ gate' = ArmedGate(<<"turn", n>>)  BY <1>1 DEF NewTurn
  <2>5. reply' = [seq |-> n, live |-> TRUE, frames |-> 1, kept |-> FALSE, leaked |-> FALSE]
    BY <1>1 DEF NewTurn
  <2> HIDE DEF n
  <2>6. reply' \in Replies /\ reply'.seq = n  BY <2>2, <2>5 DEF Replies
  <2>7. gate' \in Gates  BY <2>2, <2>4, GateShape DEF BoundInv
  <2> QED BY <2>1, <2>2, <2>3, <2>6, <2>7, SettlesKeep DEF Settles, BoundInv
<1>2. CASE DetectorHears
  <2>1. PICK l \in EarLabels :
            det' = [heard |-> det.heard \cup {l}, segments |-> det.segments + 1]
    BY <1>2 DEF DetectorHears
  <2>2. det' \in Heards  BY <2>1 DEF BoundInv, Heards
  <2> QED BY <1>2, <2>2, SettlesKeep DEF DetectorHears, Settles, BoundInv
<1>3. CASE IdleWatcher \/ VoiceStep \/ UNCHANGED switchVars
  <2>1. UNCHANGED <<flow, ear, det, gate, reply, call>>
    BY <1>3 DEF IdleWatcher, VoiceStep, VoiceSpeaks, VoiceHeard, switchVars
  <2> QED BY <2>1, SettlesKeep DEF Settles, BoundInv
<1>4. CASE AutoSwitch
  <2>1. UNCHANGED <<flow, ear, gate, reply, call>> /\ \E l : det' = [det EXCEPT !.heard = @ \ {l}]
    BY <1>4 DEF AutoSwitch
  <2>2. det' \in Heards  BY <2>1 DEF BoundInv, Heards
  <2> QED BY <2>1, <2>2, SettlesKeep DEF Settles, BoundInv
<1>5. CASE ToolCalled \/ CallEnds
  <2>1. UNCHANGED <<flow, ear, det, gate, reply>>  BY <1>5 DEF ToolCalled, CallEnds
  <2>2. call'.turns = call.turns /\ call'.listener = call.listener
    BY <1>5 DEF ToolCalled, CallEnds, IInv, TypeInv, Calls
  <2> QED BY <2>1, <2>2, SettlesKeep DEF Settles, BoundInv
<1>6. CASE GateExpires
  <2>1. UNCHANGED <<flow, ear, det, reply, call>> /\ gate' = [gate EXCEPT !.due = TRUE]
    BY <1>6 DEF GateExpires
  <2>2. gate' \in Gates  BY <2>1 DEF BoundInv, Gates
  <2> QED BY <2>1, <2>2, SettlesKeep DEF Settles, BoundInv
<1>7. CASE SendFrame
  <2>1. UNCHANGED <<flow, ear, det, call>> /\ gate' \in {gate, NoGate}
    BY <1>7 DEF SendFrame
  <2> DEFINE k == reply.leaked \/ Owed
  <2>2. reply' = [reply EXCEPT !.frames = @ - 1, !.leaked = k]  BY <1>7 DEF SendFrame
  <2>5. reply.frames - 1 \in Int  BY DEF BoundInv, Replies
  <2>3. k \in BOOLEAN  BY DEF BoundInv, Replies, Owed
  <2> HIDE DEF k
  <2>4. reply' \in Replies /\ reply'.seq = reply.seq  BY <2>2, <2>3, <2>5 DEF BoundInv, Replies
  <2> QED BY <2>1, <2>4, GateShape, SettlesKeep DEF Settles, BoundInv
<1>8. CASE LegDies \/ EndOfStream \/ ClosedPacket
  <2>1. UNCHANGED <<flow, det, gate, reply>>  BY <1>8 DEF LegDies, EndOfStream, ClosedPacket
  <2>2. ear'.tries = ear.tries
    BY <1>8 DEF LegDies, EndOfStream, ClosedPacket, IInv, TypeInv, Ears
  <2>3. call'.turns = call.turns /\ call'.listener \in {call.listener, "gone", "waiting"}
    BY <1>8 DEF LegDies, EndOfStream, ClosedPacket, IInv, TypeInv, Calls
  <2> QED BY <2>1, <2>2, <2>3, SettlesKeep DEF Settles, BoundInv
<1>9. CASE Reconnect
  <2>1. UNCHANGED <<flow, det, gate, reply>>  BY <1>9 DEF Reconnect
  <2>2. ear \in Ears /\ call \in Calls  BY DEF IInv, TypeInv
  <2>3. ear'.tries = ear.tries  BY <1>9, <2>2 DEF Reconnect, Ears
  <2>4. call'.turns = call.turns  BY <1>9, <2>2 DEF Reconnect, Calls
  <2>5. ear.tries >= MaxReconnects => call'.listener = "gone"
    BY <1>9, <2>2 DEF Reconnect, Calls
  <2>6. ear.tries \in Int /\ MaxReconnects \in Int  BY <2>2, SwitchAssumption DEF Ears
  <2> QED BY <2>1, <2>3, <2>4, <2>5, <2>6 DEF BoundInv
<1>10. CASE Reconnected
  <2>1. UNCHANGED <<flow, det, gate, reply>>  BY <1>10 DEF Reconnected
  <2>2. call'.turns = call.turns /\ call'.listener # "reviving"
    BY <1>10 DEF Reconnected, IInv, TypeInv, Calls
  <2>3. ear'.tries \in {ear.tries, ear.tries + 1} /\ ear.tries < MaxReconnects
    BY <1>10 DEF Reconnected, IInv, TypeInv, Ears, BoundInv
  <2>4. ear'.tries \in 0..MaxReconnects  BY <2>3, SwitchAssumption DEF BoundInv
  <2> QED BY <2>1, <2>2, <2>4 DEF BoundInv
<1> QED BY <1>1, <1>2, <1>3, <1>4, <1>5, <1>6, <1>7, <1>8, <1>9, <1>10
        DEF SwitchNext, DecideStep, LegStep

LEMMA SwitchTypes == SwitchInit /\ [][SwitchNext]_switchVars => []SwitchTypeOK
<1>1. SwitchInit => BoundInv
  <2> SUFFICES ASSUME SwitchInit PROVE BoundInv
    OBVIOUS
  <2>1. /\ flow \in Flows /\ gate = NoGate /\ ear.tries = 0 /\ call.turns = 0
        /\ call.listener = "on" /\ det = [heard |-> {}, segments |-> 0]
        /\ reply = [seq |-> 0, live |-> FALSE, frames |-> 0, kept |-> FALSE, leaked |-> FALSE]
    BY DEF SwitchInit
  <2>2. reply \in Replies /\ reply.seq = 0  BY <2>1 DEF Replies
  <2>3. det \in Heards  BY <2>1 DEF Heards
  <2> QED BY <2>1, <2>2, <2>3, GateShape, SwitchAssumption DEF BoundInv
<1>2. IInv /\ BoundInv /\ [SwitchNext]_switchVars => BoundInv'
  BY SwitchersBound, RestBound
<1>3. IInv /\ BoundInv => SwitchTypeOK
  <2> SUFFICES ASSUME IInv, BoundInv PROVE SwitchTypeOK
    OBVIOUS
  <2>1. /\ judge \in Judges /\ voice \in VoicePools /\ ear \in Ears /\ call \in Calls
        /\ language \in Labels
    BY DEF IInv, TypeInv
  <2>2. voice.running \in [VoiceLabels -> 0..2]
    BY DEF IInv, VoiceInv, OneGenerator
  <2>3. \A t \in Switchers : judge.task[t].spawn \in Labels /\ judge.task[t].target \in Labels
    BY <2>1 DEF Judges, Tasks
  <2> QED BY <2>1, <2>2, <2>3 DEF SwitchTypeOK, BoundInv, Heards, Gates, VoicePools, Ears, Calls, Judges
<1> QED BY <1>1, <1>2, <1>3, SwitchSafety, PTL

\* Every variable of language switching keeps its type: in particular reconnects
\* never pass their cap, and whichever tasks interleave in SynthesizerPool.switch a
\* generator is counted once.
THEOREM SwitchTypeCorrect == SwitchSpec => []SwitchTypeOK
BY SwitchTypes, PTL DEF SwitchSpec

---------------------------------------------------------------------------
(***************************************************************************)
(* The detector and the switches together, as MCLanguages runs them: of    *)
(* every behaviour one part moves and the others stay as they began, so it *)
(* is one of both components, and the theorems of both hold in it.         *)
(***************************************************************************)
LEMMA LanguagesStep ==
    ASSUME [LanguagesNext]_languagesVars
    PROVE  [SwitchNext]_switchVars /\ [LidNext]_lidVars
<1>1. CASE UNCHANGED languagesVars
  BY <1>1 DEF languagesVars
<1>2. CASE LidNext /\ UNCHANGED switchVars
  BY <1>2
<1>3. ASSUME DecideStep \/ Standby, UNCHANGED lidVars PROVE SwitchNext
  BY <1>3 DEF SwitchNext, Standby, LegStep
<1>4. Legs => SwitchNext
  BY DEF Legs, SwitchNext, DecideStep
<1>5. Voices => SwitchNext
  BY DEF Voices, SwitchNext, DecideStep
<1> QED BY <1>1, <1>2, <1>3, <1>4, <1>5 DEF LanguagesNext

\* What is run is language switching and, beside it, the detector.
THEOREM LanguagesImplement ==
    LanguagesSpec => /\ SwitchInit /\ [][SwitchNext]_switchVars
                     /\ LidInit /\ [][LidNext]_lidVars
<1>1. LanguagesInit => SwitchInit /\ LidInit
  BY DEF LanguagesInit
<1> QED BY <1>1, LanguagesStep, PTL DEF LanguagesSpec

\* So every variable of both keeps its type, whichever of them moves: reconnects of the
\* transcribers and of the detector's socket stay within their caps.
THEOREM LanguagesTypeCorrect == LanguagesSpec => []LanguagesTypeOK
<1>1. LidInv => LidTypeOK
  BY LidTypeShape
<1>2. SwitchTypeOK /\ LidTypeOK => LanguagesTypeOK
  BY DEF LanguagesTypeOK
<1> QED BY <1>1, <1>2, LanguagesImplement, SwitchTypes, LidSafety, PTL
=============================================================================
