--------------------------- MODULE EventQueueProofs ---------------------------
(***************************************************************************)
(* The ring buffer implements the bounded FIFO queue, for every capacity   *)
(* and every set of events.                                                *)
(***************************************************************************)
EXTENDS EventQueue, SequenceTheorems, TLAPS

\* The invariant that the refinement needs: without tail = head + count a put
\* might overwrite an occupied slot.
RingInv == EventqTypeOK /\ RingConsistent

---------------------------------------------------------------------------
(* Arithmetic of the indices *)

\* An index that has gone round once is reduced by the capacity.
LEMMA Wrap ==
  ASSUME NEW n \in Nat \ {0}, NEW x \in 0 .. 2 * n - 1
  PROVE  /\ x % n = IF x < n THEN x ELSE x - n
         /\ x % n \in 0 .. n - 1
<1>1. CASE x < n
  <2>1. x % n = x
    BY <1>1, SMT
  <2>2. QED
    BY <1>1, <2>1
<1>2. CASE x >= n
  <2>1. x % n = x - n
    BY <1>2, SMT
  <2>2. QED
    BY <1>2, <2>1
<1>3. QED
  BY <1>1, <1>2

\* Advancing an index by at most the capacity keeps it inside the buffer.
LEMMA SlotPlace ==
  ASSUME NEW h \in Slots, NEW k \in 0 .. MaxItems
  PROVE  /\ (h + k) % MaxItems \in Slots
         /\ (h + k) % MaxItems =
              IF h + k < MaxItems THEN h + k ELSE h + k - MaxItems
<1> DEFINE n == MaxItems
           x == h + k
<1>1. n \in Nat \ {0}
  BY EventQueueAssumption DEF EventQueueAssumption
<1>2. x \in 0 .. 2 * n - 1
  BY <1>1 DEF Slots
<1> HIDE DEF n, x
<1>3. x % n = (IF x < n THEN x ELSE x - n) /\ x % n \in 0 .. n - 1
  BY <1>1, <1>2, Wrap
<1>4. QED
  BY <1>1, <1>2, <1>3 DEF n, x, Slots

\* A put writes a slot that none of the occupied ones shares.
LEMMA TailIsFree ==
  ASSUME RingInv, count < MaxItems, NEW i \in 1 .. count
  PROVE  Slot(i) \in Slots /\ Slot(i) # tail
<1>1. head \in Slots /\ count \in Nat /\ MaxItems \in Nat \ {0}
  BY EventQueueAssumption
     DEF EventQueueAssumption, RingInv, EventqTypeOK
<1>2. i - 1 \in 0 .. MaxItems /\ count \in 0 .. MaxItems
  BY <1>1
<1>3. head + i - 1 = head + (i - 1)
  BY <1>1 DEF Slots
<1>4. Slot(i) \in Slots /\ Slot(i) =
        IF head + (i - 1) < MaxItems THEN head + (i - 1)
                                     ELSE head + (i - 1) - MaxItems
  BY <1>1, <1>2, <1>3, SlotPlace DEF Slot
<1>5. tail = IF head + count < MaxItems THEN head + count
                                        ELSE head + count - MaxItems
  BY <1>1, <1>2, SlotPlace DEF RingInv, RingConsistent
<1>6. QED
  BY <1>1, <1>4, <1>5 DEF Slots

---------------------------------------------------------------------------
(* The invariant *)

\* The queue that core_eventq_init leaves.
LEMMA InitRingInv == core_eventq_init => RingInv
<1> SUFFICES ASSUME core_eventq_init PROVE RingInv
  OBVIOUS
<1>1. 0 \in Slots /\ 0 % MaxItems = 0
  BY EventQueueAssumption, Wrap DEF EventQueueAssumption, Slots
<1>2. QED
  BY <1>1, EventQueueAssumption
     DEF EventQueueAssumption, core_eventq_init, RingInv, EventqTypeOK,
         RingConsistent

\* Where the i-th occupied slot is, and which slots a get leaves occupied.
LEMMA SlotFacts ==
  ASSUME RingInv, NEW i \in 1 .. MaxItems
  PROVE  /\ Slot(i) \in Slots
         /\ Slot(i) = IF head + i - 1 < MaxItems THEN head + i - 1
                                                 ELSE head + i - 1 - MaxItems
<1>1. head \in Slots /\ i - 1 \in 0 .. MaxItems /\ head + i - 1 = head + (i - 1)
  BY EventQueueAssumption
     DEF EventQueueAssumption, RingInv, EventqTypeOK, Slots
<1>2. QED
  BY <1>1, SlotPlace DEF Slot

\* After a get the i-th occupied slot is the one that was the i+1-st.
LEMMA GetShifts ==
  ASSUME RingInv, count # 0, head' = Successor(head), NEW i \in 1 .. count - 1
  PROVE  Slot(i)' = Slot(i + 1) /\ Slot(i + 1) \in Slots
<1>1. /\ MaxItems \in Nat \ {0} /\ head \in Slots /\ count \in 0 .. MaxItems
      /\ Slots = 0 .. MaxItems - 1
  BY EventQueueAssumption
     DEF EventQueueAssumption, RingInv, EventqTypeOK, Slots
<1>2. /\ head' \in Slots
      /\ head' = IF head + 1 < MaxItems THEN head + 1 ELSE head + 1 - MaxItems
  BY <1>1, SlotPlace DEF Successor
<1>3. i - 1 \in 0 .. MaxItems /\ i + 1 \in 1 .. MaxItems
      /\ head' + i - 1 = head' + (i - 1)
  BY <1>1, <1>2
<1>4. Slot(i)' = IF head' + (i - 1) < MaxItems THEN head' + (i - 1)
                                               ELSE head' + (i - 1) - MaxItems
  BY <1>2, <1>3, SlotPlace DEF Slot
<1>5. /\ Slot(i + 1) \in Slots
      /\ Slot(i + 1) = IF head + (i + 1) - 1 < MaxItems
                       THEN head + (i + 1) - 1
                       ELSE head + (i + 1) - 1 - MaxItems
  BY <1>3, SlotFacts
<1>6. QED
  BY <1>1, <1>2, <1>4, <1>5

\* Every operation preserves the invariant.
LEMMA NextRingInv == RingInv /\ [EventqNext]_eventqVars => RingInv'
<1> SUFFICES ASSUME RingInv, [EventqNext]_eventqVars PROVE RingInv'
  OBVIOUS
<1>1. /\ MaxItems \in Nat \ {0}
      /\ head \in Slots /\ tail \in Slots /\ count \in 0 .. MaxItems
      /\ Slots = 0 .. MaxItems - 1
  BY EventQueueAssumption
     DEF EventQueueAssumption, RingInv, EventqTypeOK, Slots
<1>2. tail = IF head + count < MaxItems THEN head + count
                                        ELSE head + count - MaxItems
  BY <1>1, SlotPlace DEF RingInv, RingConsistent
<1>3. ASSUME NEW e \in Events, core_eventq_put(e), count < MaxItems
      PROVE  RingInv'
  <2>1. /\ buffer' = [buffer EXCEPT ![tail] = e] /\ tail' = Successor(tail)
        /\ count' = count + 1 /\ head' = head
    BY <1>1, <1>3 DEF core_eventq_put
  <2>2. /\ tail' \in Slots
        /\ tail' = IF tail + 1 < MaxItems THEN tail + 1 ELSE tail + 1 - MaxItems
    BY <1>1, <2>1, SlotPlace DEF Successor
  <2>3. count' \in 0 .. MaxItems
    BY <1>1, <1>3, <2>1
  <2>4. tail' = (head' + count') % MaxItems
    <3>1. (head + count') % MaxItems =
            IF head + count' < MaxItems THEN head + count'
                                        ELSE head + count' - MaxItems
      BY <1>1, <2>3, SlotPlace
    <3>2. QED
      BY <1>1, <1>2, <1>3, <2>1, <2>2, <3>1
  <2>5. ASSUME NEW i \in 1 .. count' PROVE buffer'[Slot(i)'] \in Events
    <3>1. Slot(i)' = Slot(i) /\ Slot(i) \in Slots
      BY <1>1, <2>1, <2>3, SlotFacts DEF Slot
    <3>2. CASE i \in 1 .. count
      <4>1. Slot(i) # tail
        BY <1>3, <3>2, TailIsFree
      <4>2. QED
        BY <2>1, <3>1, <3>2, <4>1 DEF RingInv, RingConsistent, EventqTypeOK
    <3>3. CASE i = count + 1
      <4>1. Slot(i) = tail
        BY <1>1, <1>2, <1>3, <3>3, SlotFacts
      <4>2. QED
        BY <1>1, <2>1, <3>1, <4>1 DEF RingInv, EventqTypeOK
    <3>4. QED
      BY <1>1, <2>1, <3>2, <3>3
  <2>6. QED
    BY <1>1, <2>1, <2>2, <2>3, <2>4, <2>5
       DEF RingInv, EventqTypeOK, RingConsistent
<1>4. CASE core_eventq_get /\ count # 0
  <2>1. /\ head' = Successor(head) /\ count' = count - 1
        /\ buffer' = buffer /\ tail' = tail
    BY <1>4 DEF core_eventq_get
  <2>2. /\ head' \in Slots
        /\ head' = IF head + 1 < MaxItems THEN head + 1 ELSE head + 1 - MaxItems
    BY <1>1, <2>1, SlotPlace DEF Successor
  <2>3. count' \in 0 .. MaxItems
    BY <1>1, <1>4, <2>1
  <2>4. tail' = (head' + count') % MaxItems
    <3>1. (head' + count') % MaxItems =
            IF head' + count' < MaxItems THEN head' + count'
                                         ELSE head' + count' - MaxItems
      BY <2>2, <2>3, SlotPlace
    <3>2. QED
      BY <1>1, <1>2, <1>4, <2>1, <2>2, <3>1
  <2>5. ASSUME NEW i \in 1 .. count' PROVE buffer'[Slot(i)'] \in Events
    BY <1>1, <1>4, <2>1, GetShifts DEF RingInv, RingConsistent
  <2>6. QED
    BY <1>1, <2>1, <2>2, <2>3, <2>4, <2>5
       DEF RingInv, EventqTypeOK, RingConsistent
<1>5. CASE UNCHANGED <<buffer, head, tail, count>>
  BY <1>5 DEF RingInv, EventqTypeOK, RingConsistent, Slot
<1>6. QED
  BY <1>3, <1>4, <1>5
     DEF EventqNext, core_eventq_put, core_eventq_get, core_eventq_peek,
         eventqVars

\* The indices stay in range, agree with each other, and cover only slots
\* that were written.
THEOREM RingSafety == EventqSpec => [](EventqTypeOK /\ RingConsistent)
<1>1. core_eventq_init => RingInv
  BY InitRingInv
<1>2. RingInv /\ [EventqNext]_eventqVars => RingInv'
  BY NextRingInv
<1>3. RingInv => EventqTypeOK /\ RingConsistent
  BY DEF RingInv
<1>4. QED
  BY <1>1, <1>2, <1>3, PTL DEF EventqSpec

---------------------------------------------------------------------------
(* The refinement *)

\* The occupied slots, from head on, are a sequence of events.
LEMMA ContentsSeq ==
  ASSUME RingInv
  PROVE  /\ Contents \in Seq(Events)
         /\ Len(Contents) = count
         /\ \A i \in 1 .. count : Contents[i] = buffer[Slot(i)]
<1>1. count \in Nat
  BY EventQueueAssumption DEF EventQueueAssumption, RingInv, EventqTypeOK
<1>2. Contents \in [1 .. count -> Events]
  BY DEF Contents, RingInv, RingConsistent
<1>3. QED
  BY <1>1, <1>2 DEF Contents

\* A queue is empty exactly when nothing is counted, and its head is the slot
\* at the index head.
LEMMA ContentsHead ==
  ASSUME RingInv
  PROVE  /\ Contents = <<>> <=> count = 0
         /\ count # 0 => Head(Contents) = buffer[head]
<1>1. count \in Nat /\ head \in Slots /\ MaxItems \in Nat \ {0}
  BY EventQueueAssumption DEF EventQueueAssumption, RingInv, EventqTypeOK
<1>2. Contents \in Seq(Events) /\ Len(Contents) = count
  BY ContentsSeq
<1>3. Contents = <<>> <=> count = 0
  BY <1>2, <1>1, EmptySeq
<1>4. ASSUME count # 0 PROVE Head(Contents) = buffer[head]
  <2>1. Slot(1) = head
    BY <1>1, SlotFacts DEF Slots
  <2>2. Contents[1] = buffer[head]
    BY <1>1, <1>4, <2>1, ContentsSeq
  <2>3. QED
    BY <1>1, <1>2, <1>4, <2>2
<1>5. QED
  BY <1>3, <1>4

\* A put appends.
LEMMA PutAppends ==
  ASSUME RingInv, RingInv', NEW e \in Events, count < MaxItems,
         core_eventq_put(e)
  PROVE  Contents' = Append(Contents, e)
<1>1. /\ count \in 0 .. MaxItems /\ head \in Slots /\ tail \in Slots
      /\ MaxItems \in Nat \ {0} /\ Slots = 0 .. MaxItems - 1
      /\ buffer \in [Slots -> Events \union {Garbage}]
  BY EventQueueAssumption
     DEF EventQueueAssumption, RingInv, EventqTypeOK, Slots
<1>2. /\ buffer' = [buffer EXCEPT ![tail] = e]
      /\ count' = count + 1 /\ head' = head
  BY <1>1 DEF core_eventq_put
<1>3. /\ Contents' \in Seq(Events) /\ Len(Contents') = count + 1
      /\ \A i \in 1 .. count + 1 : Contents'[i] = buffer'[Slot(i)]
  <2>1. \A i : Slot(i)' = Slot(i)
    BY <1>2 DEF Slot
  <2>2. /\ Contents' \in Seq(Events) /\ Len(Contents') = count'
        /\ \A i \in 1 .. count' : Contents'[i] = buffer'[Slot(i)']
    <3>1. count' \in Nat
      BY <1>1, <1>2
    <3>2. Contents' \in [1 .. count' -> Events]
      BY DEF Contents, RingInv, RingConsistent
    <3>3. QED
      BY <3>1, <3>2 DEF Contents
  <2>3. QED
    BY <1>2, <2>1, <2>2
<1>4. /\ Append(Contents, e) \in Seq(Events)
      /\ Len(Append(Contents, e)) = count + 1
      /\ \A i \in 1 .. count : Append(Contents, e)[i] = buffer[Slot(i)]
      /\ Append(Contents, e)[count + 1] = e
  BY <1>1, ContentsSeq, AppendProperties
<1>5. \A i \in 1 .. count : Contents'[i] = buffer[Slot(i)]
  BY <1>1, <1>2, <1>3, TailIsFree
<1>6. Contents'[count + 1] = e
  <2>1. Slot(count + 1) = (head + count) % MaxItems
    BY <1>1 DEF Slot
  <2>2. Slot(count + 1) = tail
    BY <2>1 DEF RingInv, RingConsistent
  <2>3. QED
    BY <1>1, <1>2, <1>3, <2>2
<1>7. \A i \in 1 .. count + 1 : Contents'[i] = Append(Contents, e)[i]
  BY <1>1, <1>4, <1>5, <1>6
<1>8. QED
  BY <1>3, <1>4, <1>7, SeqEqual

\* A get removes the first event.
LEMMA GetRemovesHead ==
  ASSUME RingInv, RingInv', count # 0, core_eventq_get
  PROVE  Contents' = Tail(Contents)
<1>1. count \in 1 .. MaxItems /\ MaxItems \in Nat \ {0}
  BY EventQueueAssumption DEF EventQueueAssumption, RingInv, EventqTypeOK
<1>2. /\ head' = Successor(head) /\ count' = count - 1 /\ buffer' = buffer
  BY DEF core_eventq_get
<1>3. /\ Contents' \in Seq(Events) /\ Len(Contents') = count - 1
      /\ \A i \in 1 .. count - 1 : Contents'[i] = buffer[Slot(i)']
  <2>1. count' \in Nat
    BY <1>1, <1>2
  <2>2. Contents' \in [1 .. count' -> Events]
    BY DEF Contents, RingInv, RingConsistent
  <2>3. QED
    BY <1>2, <2>1, <2>2 DEF Contents
<1>4. Contents # <<>>
  BY ContentsHead
<1>5. /\ Tail(Contents) \in Seq(Events) /\ Len(Tail(Contents)) = count - 1
      /\ \A i \in 1 .. count - 1 : Tail(Contents)[i] = Contents[i + 1]
  BY <1>4, ContentsSeq, HeadTailProperties
<1>6. \A i \in 1 .. count - 1 : Contents'[i] = Contents[i + 1]
  BY <1>1, <1>2, <1>3, GetShifts, ContentsSeq
<1>7. QED
  BY <1>3, <1>5, <1>6, SeqEqual

\* Every step of the ring buffer is a step of the queue, or none.
LEMMA StepRefines ==
  ASSUME RingInv, RingInv', [EventqNext]_eventqVars
  PROVE  [Fifo!FifoNext]_(Fifo!fifoVars)
<1>1. ASSUME UNCHANGED <<buffer, head, count>> PROVE Contents' = Contents
  BY <1>1 DEF Contents, Slot
<1>2. count \in Nat /\ MaxItems \in Nat /\ Len(Contents) = count
  BY EventQueueAssumption, ContentsSeq
     DEF EventQueueAssumption, RingInv, EventqTypeOK
<1>3. ASSUME NEW e \in Events, core_eventq_put(e) PROVE Fifo!FifoPut(e)
  <2>1. CASE count < MaxItems
    <3>1. Contents' = Append(Contents, e)
      BY <1>3, <2>1, PutAppends
    <3>2. answer' = "ok"
      BY <1>2, <1>3, <2>1 DEF core_eventq_put
    <3>3. QED
      BY <1>2, <2>1, <3>1, <3>2 DEF Fifo!FifoPut
  <2>2. CASE count >= MaxItems
    <3>1. answer' = "ENOMEM" /\ Contents' = Contents
      BY <1>1, <1>2, <1>3, <2>2 DEF core_eventq_put
    <3>2. QED
      BY <1>2, <2>2, <3>1 DEF Fifo!FifoPut
  <2>3. QED
    BY <1>2, <2>1, <2>2
<1>4. ASSUME core_eventq_get PROVE Fifo!FifoGet
  <2>1. CASE count # 0
    <3>1. Contents' = Tail(Contents)
      BY <1>4, <2>1, GetRemovesHead
    <3>2. answer' = Head(Contents) /\ Contents # <<>>
      BY <1>4, <2>1, ContentsHead DEF core_eventq_get
    <3>3. QED
      BY <3>1, <3>2 DEF Fifo!FifoGet
  <2>2. CASE count = 0
    <3>1. answer' = "ENOENT" /\ Contents' = Contents /\ Contents = <<>>
      BY <1>1, <1>4, <2>2, ContentsHead DEF core_eventq_get
    <3>2. QED
      BY <3>1 DEF Fifo!FifoGet
  <2>3. QED
    BY <2>1, <2>2
<1>5. ASSUME core_eventq_peek PROVE Fifo!FifoPeek
  <2>1. Contents' = Contents
    BY <1>1, <1>5 DEF core_eventq_peek
  <2>2. answer' = IF Contents # <<>> THEN Head(Contents) ELSE "ENOMSG"
    BY <1>5, ContentsHead DEF core_eventq_peek
  <2>3. QED
    BY <2>1, <2>2 DEF Fifo!FifoPeek
<1>6. ASSUME UNCHANGED eventqVars PROVE UNCHANGED Fifo!fifoVars
  BY <1>1, <1>6 DEF eventqVars, Fifo!fifoVars
<1>7. QED
  BY <1>3, <1>4, <1>5, <1>6 DEF EventqNext, Fifo!FifoNext

\* The ring buffer implements the bounded FIFO queue.
THEOREM Refinement == EventqSpec => ImplementsFifo
<1>1. core_eventq_init => Fifo!FifoInit
  BY InitRingInv, ContentsHead DEF core_eventq_init, Fifo!FifoInit
<1>2. RingInv /\ RingInv' /\ [EventqNext]_eventqVars
        => [Fifo!FifoNext]_(Fifo!fifoVars)
  BY StepRefines
<1>3. EventqSpec => []RingInv
  BY InitRingInv, NextRingInv, PTL DEF EventqSpec
<1>4. QED
  BY <1>1, <1>2, <1>3, PTL DEF EventqSpec, ImplementsFifo, Fifo!FifoSpec
=============================================================================
