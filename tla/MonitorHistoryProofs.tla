------------------------ MODULE MonitorHistoryProofs ------------------------
(***************************************************************************)
(* For every history size, set of values and clock: the ring buffer of     *)
(* system_monitor.c keeps its shape and implements the sliding window.     *)
(***************************************************************************)
EXTENDS MonitorHistory, SequenceTheorems, TLAPS

Inv == TypeOK /\ RingShape

-----------------------------------------------------------------------------
(* (history_index + 1) % history_size is the next slot, or 0 after the last. *)
LEMMA NextSlot ==
    ASSUME NEW i \in Slots
    PROVE  (i + 1) % HistorySize = IF i + 1 = HistorySize THEN 0 ELSE i + 1
  BY HistoryAssumption, SMTT(30) DEF Slots

(* Storing a sample in a well-formed ring leaves a well-formed ring. *)
LEMMA StoreKeeps ==
    ASSUME NEW ring \in [Slots -> Samples], NEW i \in Slots, NEW c \in 0 .. HistorySize,
           NEW sample \in Samples,
           c < HistorySize => i = c,
           Store(ring, i, c, sample)
    PROVE  /\ stats' \in [Slots -> Samples]
           /\ index' \in Slots
           /\ count' \in 0 .. HistorySize
           /\ count' > 0
           /\ count' < HistorySize => index' = count'
  BY NextSlot, HistoryAssumption DEF Store, Slots

(* The zeroes of memset are a sample, 0 is a slot, a count and a time, and *)
(* the default interval is one.                                            *)
LEMMA Zeroes ==
    /\ Zeroed \in Samples
    /\ 0 \in Slots /\ 0 \in Times /\ 0 \in 0 .. HistorySize /\ 0 \in Int
    /\ 0 \in 0 .. 60 /\ 2 \in 0 .. 60
  BY HistoryAssumption DEF Zeroed, Samples, Slots, Times

(* A sample has a time of the clock and a value that a collector reports.  *)
LEMMA CollectedSamples == \A time \in Times : Collected(time) \subseteq Samples
  BY DEF Collected, Samples

(* The clock only shows times of its own, also while something is measured. *)
LEMMA LaterIsTime ==
    ASSUME Inv, NEW later \in now .. MaxTime
    PROVE  later \in Times /\ later \in Int /\ now \in Times /\ now <= later
           /\ later - now \in Times
  BY HistoryAssumption DEF Inv, TypeOK, Times

(* The only writer keeps the shape, whether the buffer is there or not. *)
LEMMA UpdateKeeps ==
    ASSUME Inv, NEW time \in Times, Update(time)
    PROVE  /\ stats' \in [Slots -> Samples] /\ index' \in Slots /\ count' \in 0 .. HistorySize
           /\ allocated' = allocated /\ current' \in Samples
           /\ count' < HistorySize => index' = count'
           /\ ~allocated => count' = 0
           /\ allocated => count' > 0
<1>1. PICK sample \in Collected(time) :
         /\ current' = sample
         /\ IF allocated
            THEN Store(stats, index, count, sample) /\ UNCHANGED allocated
            ELSE UNCHANGED ringVars
  BY DEF Update
<1>2. sample \in Samples
  BY CollectedSamples
<1>3. CASE allocated
  BY <1>1, <1>2, <1>3, StoreKeeps DEF Inv, TypeOK, RingShape
<1>4. CASE ~allocated
  BY <1>1, <1>2, <1>4 DEF Inv, TypeOK, RingShape, ringVars
<1> QED BY <1>3, <1>4

(* Every action keeps the invariant. *)
LEMMA StepKeeps == Inv /\ [Next]_vars => Inv'
<1> SUFFICES ASSUME Inv, [Next]_vars PROVE Inv'
  OBVIOUS
<1> USE HistoryAssumption
<1>1. CASE InitFails
  BY <1>1, Zeroes, ZenonT(30) DEF InitFails, Inv, TypeOK, RingShape, histVars, ringVars
<1>2. CASE Open
  <2>1. PICK sample \in Collected(now) :
           current' = sample /\ Store([i \in Slots |-> Zeroed], 0, 0, sample)
    BY <1>2 DEF Open
  <2>2. sample \in Samples /\ [i \in Slots |-> Zeroed] \in [Slots -> Samples]
    BY CollectedSamples, Zeroes DEF Inv, TypeOK
  <2>3. 0 \in Slots /\ 0 \in 0 .. HistorySize
    BY DEF Slots
  <2>4. /\ stats' \in [Slots -> Samples] /\ index' \in Slots /\ count' \in 0 .. HistorySize
        /\ count' > 0 /\ (count' < HistorySize => index' = count')
    BY <2>1, <2>2, <2>3, StoreKeeps
  <2>5. now' \in Times /\ last' \in Times /\ lag' \in Times
    BY <1>2, LaterIsTime DEF Open
  <2> QED BY <1>2, <2>1, <2>2, <2>4, <2>5, Zeroes, ZenonT(30) DEF Open, Inv, TypeOK, RingShape
<1>3. CASE Show
  <2>1. stale' \in BOOLEAN
    BY <1>3 DEF Show, ShowAfter
  <2>2. CASE now - last >= interval
    <3>1. /\ now' \in now .. MaxTime /\ Update(now') /\ last' = now /\ lag' = 0
          /\ UNCHANGED <<interval, initialized, setBack>> /\ initialized
      BY <1>3, <2>2 DEF Show, ShowAfter
    <3>2. now' \in Times
      BY <3>1, LaterIsTime
    <3> QED BY <2>1, <3>1, <3>2, UpdateKeeps, Zeroes DEF Inv, TypeOK, RingShape
  <2>3. CASE ~(now - last >= interval)
    BY <1>3, <2>1, <2>3 DEF Show, ShowAfter, Inv, TypeOK, RingShape, ringVars
  <2> QED BY <2>2, <2>3
<1>4. CASE RefreshNow
  BY <1>4, UpdateKeeps, Zeroes DEF RefreshNow, Inv, TypeOK, RingShape
<1>5. CASE Cleanup
  BY <1>5, Zeroes, ZenonT(30) DEF Cleanup, Inv, TypeOK, RingShape, histVars
<1>6. CASE Clock
  BY <1>6 DEF Clock, Inv, TypeOK, RingShape, ringVars
<1>7. ASSUME NEW seconds \in Entered, SetInterval(seconds) PROVE Inv'
  BY <1>7 DEF SetInterval, Inv, TypeOK, RingShape, ringVars, histVars
<1>8. CASE UNCHANGED vars
  BY <1>8 DEF vars, ringVars, histVars, Inv, TypeOK, RingShape
<1> QED BY <1>1, <1>2, <1>3, <1>4, <1>5, <1>6, <1>7, <1>8 DEF Next

(* Initially nothing is allocated and both counters are 0. *)
LEMMA InitInv == Init => Inv
  BY Zeroes, ZenonT(30) DEF Init, Inv, TypeOK, RingShape

(* Inv holds in every reachable state. *)
LEMMA AlwaysInv == Spec => []Inv
<1> QED BY InitInv, StepKeeps, PTL DEF Spec

(* history_index and history_count stay in range: no write of              *)
(* system_monitor_update leaves the buffer, for any history size.          *)
THEOREM IndexInRange == Spec => []TypeOK
<1>1. Inv => TypeOK
  BY DEF Inv
<1> QED BY <1>1, AlwaysInv, PTL

(* Until the buffer is full, history_index is history_count.               *)
THEOREM RingKeepsShape == Spec => []RingShape
<1>1. Inv => RingShape
  BY DEF Inv
<1> QED BY <1>1, AlwaysInv, PTL

-----------------------------------------------------------------------------
(* A well-formed ring, oldest first, is a sequence of count samples. *)
LEMMA OldestFirstSeq ==
    ASSUME NEW ring \in [Slots -> Samples], NEW i \in Slots, NEW c \in 0 .. HistorySize
    PROVE  /\ OldestFirst(ring, i, c) \in Seq(Samples)
           /\ Len(OldestFirst(ring, i, c)) = c
           /\ \A k \in 1 .. c : OldestFirst(ring, i, c)[k] =
                IF c < HistorySize THEN ring[k - 1]
                ELSE IF i + k - 1 < HistorySize THEN ring[i + k - 1]
                ELSE ring[i + k - 1 - HistorySize]
<1> USE HistoryAssumption
<1>1. c \in Nat /\ i \in Nat /\ c <= HistorySize /\ i < HistorySize
  BY DEF Slots
<1>2. CASE c < HistorySize
  <2>1. \A k \in 1 .. c : ring[k - 1] \in Samples
    BY <1>1, <1>2 DEF Slots
  <2>2. OldestFirst(ring, i, c) = [k \in 1 .. c |-> ring[k - 1]]
    BY <1>2 DEF OldestFirst
  <2> QED BY <1>1, <1>2, <2>1, <2>2
<1>3. CASE c = HistorySize
  <2> DEFINE at(k) == IF i + k - 1 < HistorySize THEN ring[i + k - 1]
                      ELSE ring[i + k - 1 - HistorySize]
  <2>1. \A k \in 1 .. HistorySize : at(k) \in Samples
    BY <1>1 DEF Slots
  <2>2. OldestFirst(ring, i, c) = [k \in 1 .. HistorySize |-> at(k)]
    BY <1>1, <1>3 DEF OldestFirst
  <2> HIDE DEF at
  <2>3. /\ OldestFirst(ring, i, c) \in Seq(Samples)
        /\ Len(OldestFirst(ring, i, c)) = c
        /\ \A k \in 1 .. c : OldestFirst(ring, i, c)[k] = at(k)
    BY <1>1, <1>3, <2>1, <2>2
  <2> QED BY <1>3, <2>3 DEF at
<1> QED BY <1>1, <1>2, <1>3

(* The sliding window w after one more sample. *)
PushedOn(w, s) ==
    IF Len(w) < HistorySize THEN Append(w, s)
    ELSE [k \in 1 .. HistorySize |-> IF k = HistorySize THEN s ELSE w[k + 1]]

(* Storing one more sample in a ring pushes it on the ring's window. *)
LEMMA StorePushes ==
    ASSUME NEW ring \in [Slots -> Samples], NEW i \in Slots, NEW c \in 0 .. HistorySize,
           NEW sample \in Samples,
           c < HistorySize => i = c,
           Store(ring, i, c, sample)
    PROVE  Recent' = PushedOn(OldestFirst(ring, i, c), sample)
<1> DEFINE w == OldestFirst(ring, i, c)
<1> USE HistoryAssumption
<1>1. c \in Nat /\ i \in Nat /\ c <= HistorySize /\ i < HistorySize
  BY DEF Slots
<1>2. /\ stats' = [ring EXCEPT ![i] = sample]
      /\ index' = (IF i + 1 = HistorySize THEN 0 ELSE i + 1)
      /\ count' = (IF c < HistorySize THEN c + 1 ELSE c)
  BY NextSlot DEF Store
<1>3. stats' \in [Slots -> Samples] /\ index' \in Slots /\ count' \in 0 .. HistorySize
  BY StoreKeeps
<1>4. /\ w \in Seq(Samples) /\ Len(w) = c
      /\ \A k \in 1 .. c : w[k] =
           IF c < HistorySize THEN ring[k - 1]
           ELSE IF i + k - 1 < HistorySize THEN ring[i + k - 1]
           ELSE ring[i + k - 1 - HistorySize]
  BY OldestFirstSeq
<1>5. /\ Recent' \in Seq(Samples) /\ Len(Recent') = count'
      /\ \A k \in 1 .. count' : Recent'[k] =
           IF count' < HistorySize THEN stats'[k - 1]
           ELSE IF index' + k - 1 < HistorySize THEN stats'[index' + k - 1]
           ELSE stats'[index' + k - 1 - HistorySize]
  BY <1>3, OldestFirstSeq DEF Recent
<1>6. \A j \in Slots : stats'[j] = IF j = i THEN sample ELSE ring[j]
  BY <1>1, <1>2
<1> HIDE DEF w
<1>7. CASE c < HistorySize
  <2>1. Append(w, sample) \in Seq(Samples) /\ Len(Append(w, sample)) = c + 1
    BY <1>4
  <2>2. ASSUME NEW k \in 1 .. c + 1 PROVE Recent'[k] = Append(w, sample)[k]
    <3>1. Recent'[k] = stats'[k - 1]
      <4>1. CASE count' < HistorySize
        BY <1>1, <1>2, <1>5, <1>7, <4>1
      <4>2. CASE count' = HistorySize
        <5>1. index' = 0
          BY <1>1, <1>2, <1>7, <4>2
        <5> QED BY <1>1, <1>2, <1>5, <1>7, <4>2, <5>1
      <4> QED BY <1>1, <1>2, <1>7, <4>1, <4>2
    <3>2. k - 1 \in Slots
      BY <1>1, <1>7 DEF Slots
    <3>3. CASE k = c + 1
      BY <1>1, <1>4, <1>6, <1>7, <3>1, <3>2, <3>3
    <3>4. CASE k <= c
      <4>1. Append(w, sample)[k] = w[k]
        BY <1>1, <1>4, <3>4
      <4>2. w[k] = ring[k - 1]
        BY <1>1, <1>4, <1>7, <3>4
      <4> QED BY <1>1, <1>6, <1>7, <3>1, <3>2, <3>4, <4>1, <4>2
    <3>5. k = c + 1 \/ k <= c
      BY <1>1
    <3> QED BY <3>3, <3>4, <3>5
  <2>3. Recent' = Append(w, sample)
    BY <1>1, <1>2, <1>5, <1>7, <2>1, <2>2, SeqEqual
  <2>4. PushedOn(w, sample) = Append(w, sample)
    BY <1>4, <1>7 DEF PushedOn
  <2> QED BY <2>3, <2>4 DEF w
<1>8. CASE c = HistorySize
  <2> DEFINE pushed == [k \in 1 .. HistorySize |-> IF k = HistorySize THEN sample ELSE w[k + 1]]
  <2>1. ASSUME NEW k \in 1 .. HistorySize PROVE Recent'[k] = pushed[k]
    <3> DEFINE j == IF index' + k - 1 < HistorySize THEN index' + k - 1
                    ELSE index' + k - 1 - HistorySize
    <3>1. j \in Slots /\ Recent'[k] = stats'[j]
      BY <1>1, <1>2, <1>3, <1>5, <1>8 DEF Slots
    <3>2. CASE k = HistorySize
      <4>1. j = i
        BY <1>1, <1>2, <3>2
      <4> QED BY <1>6, <3>1, <3>2, <4>1
    <3>3. CASE k < HistorySize
      <4>1. j # i /\ w[k + 1] = ring[j]
        BY <1>1, <1>2, <1>4, <1>8, <3>3 DEF Slots
      <4> QED BY <1>6, <3>1, <3>3, <4>1
    <3> QED BY <3>2, <3>3, HistoryAssumption
  <2>2. Recent' = [k \in 1 .. HistorySize |-> Recent'[k]]
    BY <1>2, <1>5, <1>8
  <2>3. Recent' = pushed
    BY <2>1, <2>2
  <2>4. PushedOn(w, sample) = pushed
    BY <1>1, <1>4, <1>8 DEF PushedOn
  <2> QED BY <2>3, <2>4 DEF w
<1> QED BY <1>1, <1>7, <1>8

(* Before the buffer exists, and after it is given back, the window is empty. *)
LEMMA EmptyRecent == ASSUME Inv, count = 0 PROVE Recent = <<>>
<1>1. Recent \in Seq(Samples) /\ Len(Recent) = 0
  BY OldestFirstSeq DEF Recent, Inv, TypeOK
<1> QED BY <1>1, EmptySeq

(* An update pushes its sample on the window, or there is no buffer. *)
LEMMA UpdatePushes ==
    ASSUME Inv, NEW time \in Times, Update(time)
    PROVE  \/ \E sample \in Collected(time) : Recent' = PushedOn(Recent, sample)
           \/ UNCHANGED Recent
<1>1. PICK sample \in Collected(time) :
         IF allocated
         THEN Store(stats, index, count, sample) /\ UNCHANGED allocated
         ELSE UNCHANGED ringVars
  BY DEF Update
<1>2. CASE allocated
  <2>1. sample \in Samples /\ Store(stats, index, count, sample)
    BY <1>1, <1>2, CollectedSamples
  <2>2. Recent' = PushedOn(Recent, sample)
    BY <2>1, StorePushes DEF Inv, TypeOK, RingShape, Recent
  <2> QED BY <2>2
<1>3. CASE ~allocated
  BY <1>1, <1>3 DEF ringVars, Recent
<1> QED BY <1>2, <1>3

(* What a step does to the window: it empties it, pushes a sample of the   *)
(* time before or after it, or leaves it alone.                            *)
LEMMA StepOnWindow ==
    ASSUME Inv, Inv', [Next]_vars
    PROVE  \/ Recent' = <<>>
           \/ \E time \in {now, now'} : \E sample \in Collected(time) :
                 Recent' = PushedOn(Recent, sample)
           \/ UNCHANGED Recent
<1>1. CASE InitFails
  <2>1. Recent = <<>>
    BY <1>1, EmptyRecent DEF InitFails, Inv, RingShape
  <2>2. Recent' = <<>>
    <3>1. stats' \in [Slots -> Samples] /\ index' \in Slots /\ count' = 0
      BY <1>1, Zeroes DEF InitFails, Inv, TypeOK
    <3>2. Recent' \in Seq(Samples) /\ Len(Recent') = 0
      BY <3>1, Zeroes, OldestFirstSeq DEF Recent
    <3> QED BY <3>2, EmptySeq
  <2> QED BY <2>1, <2>2
<1>2. CASE Open
  <2>1. PICK sample \in Collected(now) : Store([i \in Slots |-> Zeroed], 0, 0, sample)
    BY <1>2 DEF Open
  <2>2. sample \in Samples /\ [i \in Slots |-> Zeroed] \in [Slots -> Samples]
    BY CollectedSamples, Zeroes DEF Inv, TypeOK
  <2>3. Recent' = PushedOn(OldestFirst([i \in Slots |-> Zeroed], 0, 0), sample)
    BY <2>1, <2>2, Zeroes, StorePushes
  <2>4. OldestFirst([i \in Slots |-> Zeroed], 0, 0) = <<>>
    <3>1. /\ OldestFirst([i \in Slots |-> Zeroed], 0, 0) \in Seq(Samples)
          /\ Len(OldestFirst([i \in Slots |-> Zeroed], 0, 0)) = 0
      BY <2>2, Zeroes, OldestFirstSeq
    <3> QED BY <3>1, EmptySeq
  <2>5. Recent = <<>>
    BY <1>2, EmptyRecent DEF Open, Inv, RingShape
  <2> QED BY <2>3, <2>4, <2>5
<1>3. CASE Show
  <2>1. now' \in Times
    BY DEF Inv, TypeOK
  <2>2. Update(now') \/ UNCHANGED ringVars
    BY <1>3 DEF Show, ShowAfter
  <2> QED BY <2>1, <2>2, UpdatePushes DEF ringVars, Recent
<1>4. CASE RefreshNow
  <2>1. now \in Times /\ Update(now)
    BY <1>4 DEF RefreshNow, Inv, TypeOK
  <2> QED BY <2>1, UpdatePushes
<1>5. CASE Cleanup
  <2>1. Recent' = <<>>
    <3>1. stats' \in [Slots -> Samples] /\ index' \in Slots /\ count' = 0
      BY <1>5, Zeroes DEF Cleanup, Inv, TypeOK
    <3>2. Recent' \in Seq(Samples) /\ Len(Recent') = 0
      BY <3>1, Zeroes, OldestFirstSeq DEF Recent
    <3> QED BY <3>2, EmptySeq
  <2> QED BY <2>1
<1>6. CASE Clock
  BY <1>6 DEF Clock, ringVars, Recent
<1>7. ASSUME NEW seconds \in Entered, SetInterval(seconds) PROVE UNCHANGED Recent
  BY <1>7 DEF SetInterval, ringVars, Recent
<1>8. CASE UNCHANGED vars
  BY <1>8 DEF vars, ringVars, Recent
<1> QED BY <1>1, <1>2, <1>3, <1>4, <1>5, <1>6, <1>7, <1>8 DEF Next

(* Every step of the ring is a step of the window or leaves it alone. *)
LEMMA StepRefines ==
    ASSUME Inv, Inv', [Next]_vars PROVE [Window!Next]_Recent
<1>1. CASE Recent' = <<>>
  BY <1>1 DEF Window!Next, Window!Drop
<1>2. ASSUME NEW time \in {now, now'}, NEW sample \in Collected(time),
             Recent' = PushedOn(Recent, sample)
      PROVE  Window!Next
  <2>1. sample \in Samples
    BY CollectedSamples DEF Inv, TypeOK
  <2> QED BY <1>2, <2>1 DEF Window!Next, Window!Push, PushedOn
<1> QED BY <1>1, <1>2, StepOnWindow

(* The ring buffer implements the sliding window: at any time it holds the *)
(* newest samples, as many as fit, and nothing else.                       *)
THEOREM RingIsSlidingWindow == Spec => ImplementsSlidingWindow
<1>1. Init => Window!Init
  <2>1. ASSUME Init PROVE Recent = <<>>
    BY <2>1, InitInv, EmptyRecent DEF Init
  <2> QED BY <2>1 DEF Window!Init
<1>2. Inv /\ Inv' /\ [Next]_vars => [Window!Next]_Recent
  BY StepRefines
<1> QED BY <1>1, <1>2, AlwaysInv, PTL DEF Spec, ImplementsSlidingWindow, Window!Spec

-----------------------------------------------------------------------------
(* While the clock is not set back, the window is in the order of its      *)
(* times, and none of them is later than now.                              *)
Sorted(w, t) == InOrder(w) /\ \A k \in 1 .. Len(w) : w[k].timestamp <= t
WindowSorted == ~setBack => Sorted(Recent, now)

(* Pushing a sample of this moment keeps a window sorted. *)
LEMMA PushSorted ==
    ASSUME NEW w \in Seq(Samples), Len(w) <= HistorySize, NEW t \in Int,
           NEW sample \in Samples, sample.timestamp = t, Sorted(w, t)
    PROVE  Sorted(PushedOn(w, sample), t)
<1> USE HistoryAssumption
<1>1. \A s \in Samples : s.timestamp \in Int
  BY DEF Samples, Times
<1>2. \A k \in 1 .. Len(w) : w[k] \in Samples /\ w[k].timestamp \in Int
  BY <1>1
<1>3. CASE Len(w) < HistorySize
  <2>1. PushedOn(w, sample) = Append(w, sample)
    BY <1>3 DEF PushedOn
  <2> QED BY <1>1, <1>2, <2>1 DEF Sorted, InOrder
<1>4. CASE Len(w) = HistorySize
  <2> DEFINE p == [k \in 1 .. HistorySize |-> IF k = HistorySize THEN sample ELSE w[k + 1]]
  <2>1. PushedOn(w, sample) = p
    BY <1>4 DEF PushedOn
  <2>2. Len(p) = HistorySize
    OBVIOUS
  <2>3. \A k \in 1 .. HistorySize : p[k].timestamp \in Int /\ p[k].timestamp <= t
    BY <1>1, <1>2, <1>4 DEF Sorted
  <2>4. ASSUME NEW j \in 1 .. HistorySize, NEW k \in 1 .. HistorySize, j < k
        PROVE  p[j].timestamp <= p[k].timestamp
    <3>1. CASE k = HistorySize
      BY <2>3, <3>1
    <3>2. CASE k < HistorySize
      BY <1>4, <2>4, <3>2 DEF Sorted, InOrder
    <3> QED BY <3>1, <3>2
  <2> QED BY <2>1, <2>2, <2>3, <2>4 DEF Sorted, InOrder
<1> QED BY <1>3, <1>4

(* A sorted window stays sorted as the clock goes on. *)
LEMMA LaterSorted ==
    ASSUME NEW w \in Seq(Samples), NEW t \in Int, NEW u \in Int, t <= u, Sorted(w, t)
    PROVE  Sorted(w, u)
<1>1. \A k \in 1 .. Len(w) : w[k] \in Samples
  OBVIOUS
<1>2. \A k \in 1 .. Len(w) : w[k].timestamp \in Int
  BY <1>1 DEF Samples, Times
<1>3. \A k \in 1 .. Len(w) : w[k].timestamp <= u
  BY <1>2 DEF Sorted
<1> QED BY <1>3 DEF Sorted

(* No step disorders the window unless it sets the clock back. *)
LEMMA StepSorted ==
    ASSUME Inv, Inv', WindowSorted, [Next]_vars PROVE WindowSorted'
<1> SUFFICES ASSUME ~setBack' PROVE Sorted(Recent', now')
  BY DEF WindowSorted
<1>1. now \in Int /\ now' \in Int /\ setBack \in BOOLEAN
  BY DEF Inv, TypeOK, Times
<1>2. Recent \in Seq(Samples) /\ Len(Recent) <= HistorySize /\ Recent' \in Seq(Samples)
  <2>1. /\ stats \in [Slots -> Samples] /\ index \in Slots /\ count \in 0 .. HistorySize
        /\ count < HistorySize => index = count
    BY DEF Inv, TypeOK, RingShape
  <2>2. /\ stats' \in [Slots -> Samples] /\ index' \in Slots /\ count' \in 0 .. HistorySize
        /\ count' < HistorySize => index' = count'
    BY DEF Inv, TypeOK, RingShape
  <2>3. Recent \in Seq(Samples) /\ Len(Recent) = count
    BY <2>1, OldestFirstSeq DEF Recent
  <2>4. Recent' \in Seq(Samples)
    BY <2>2, OldestFirstSeq DEF Recent
  <2> QED BY <2>1, <2>3, <2>4, HistoryAssumption
<1>3. Sorted(Recent, now) /\ now <= now'
  <2>1. CASE Open
    <3>1. Recent = <<>>
      BY <2>1, EmptyRecent DEF Open, Inv, RingShape
    <3>2. now <= now'
      BY <2>1, LaterIsTime DEF Open
    <3> QED BY <3>1, <3>2 DEF Sorted, InOrder
  <2>2. CASE ~Open
    <3>1. ~setBack /\ now <= now'
      <4>1. CASE Clock
        <5>1. ~setBack /\ ~(now' < now)
          BY <4>1 DEF Clock
        <5> QED BY <1>1, <5>1
      <4>2. CASE ~Clock
        <5>1. setBack' = setBack /\ (now' \in now .. MaxTime \/ now' = now)
          BY <2>2, <4>2 DEF Next, InitFails, Show, ShowAfter, RefreshNow, Cleanup,
                            SetInterval, vars, histVars
        <5> QED BY <1>1, <5>1, LaterIsTime
      <4> QED BY <4>1, <4>2
    <3> QED BY <3>1 DEF WindowSorted
  <2> QED BY <2>1, <2>2
<1>4. CASE Recent' = <<>>
  BY <1>4 DEF Sorted, InOrder
<1>5. ASSUME NEW time \in {now, now'}, NEW sample \in Collected(time),
             Recent' = PushedOn(Recent, sample)
      PROVE  Sorted(Recent', now')
  <2>1. time \in Times /\ sample \in Samples /\ sample.timestamp = time
    BY CollectedSamples DEF Collected, Inv, TypeOK
  <2>2. time \in Int /\ now <= time /\ time <= now'
    BY <1>1, <1>3
  <2>3. Sorted(Recent, time)
    BY <1>1, <1>2, <1>3, <2>2, LaterSorted
  <2>4. Sorted(Recent', time)
    BY <1>2, <1>5, <2>1, <2>2, <2>3, PushSorted
  <2> QED BY <1>1, <1>2, <2>2, <2>4, LaterSorted
<1>6. CASE UNCHANGED Recent
  BY <1>1, <1>2, <1>3, <1>6, LaterSorted
<1> QED BY <1>4, <1>5, <1>6, StepOnWindow

(* get_history is in the order of the samples until the first slot is      *)
(* overwritten, and again whenever history_index is back at 0.             *)
THEOREM HistoryOrdered == Spec => []HistoryInOrder
<1>1. Inv /\ (count < HistorySize \/ index = 0) => History = Recent
  <2> SUFFICES ASSUME Inv, count < HistorySize \/ index = 0 PROVE History = Recent
    OBVIOUS
  <2>1. CASE count < HistorySize
    BY <2>1 DEF Recent, OldestFirst, History
  <2>2. CASE count = HistorySize /\ index = 0
    BY <2>2, HistoryAssumption DEF Recent, OldestFirst, History, Inv, TypeOK, Slots
  <2>3. count < HistorySize \/ count = HistorySize
    BY HistoryAssumption DEF Inv, TypeOK
  <2> QED BY <2>1, <2>2, <2>3
<1>2. Inv /\ WindowSorted => HistoryInOrder
  BY <1>1 DEF WindowSorted, Sorted, HistoryInOrder
<1>3. Init => WindowSorted
  <2>1. ASSUME Init PROVE Recent = <<>>
    BY <2>1, InitInv, EmptyRecent DEF Init
  <2> QED BY <2>1 DEF WindowSorted, Sorted, InOrder
<1>4. Inv /\ Inv' /\ WindowSorted /\ [Next]_vars => WindowSorted'
  BY StepSorted
<1> QED BY <1>2, <1>3, <1>4, AlwaysInv, PTL DEF Spec

-----------------------------------------------------------------------------
(* While the clock is not set back, the sample in current_stats is no      *)
(* older than last_update, but for the time the first one took.            *)
CurrentIsRecent ==
    /\ ~initialized => ~stale
    /\ ~setBack /\ initialized => last <= now /\ last <= current.timestamp + lag

Fresh == CurrentIsRecent /\ ShownIsFresh

(* The times and the interval are numbers. *)
LEMMA TimesAreNumbers ==
    ASSUME Inv
    PROVE  /\ now \in Int /\ last \in Int /\ lag \in Int /\ interval \in 0 .. 60
           /\ current.timestamp \in Int
  BY HistoryAssumption DEF Inv, TypeOK, Times, Samples

(* An update is of the time it is made at. *)
LEMMA UpdateIsOf == ASSUME NEW time, Update(time) PROVE current'.timestamp = time
  BY DEF Update, Collected

(* A turn of the dashboard loop shows a sample that is not too old.        *)
LEMMA ShowFresh == ASSUME Inv, Fresh, Show PROVE Fresh'
<1>1. /\ initialized /\ UNCHANGED <<interval, initialized, setBack>>
      /\ stale' = (now - current'.timestamp > interval + lag')
  BY DEF Show, ShowAfter
<1>2. CASE now - last >= interval
  <2>1. now' \in now .. MaxTime /\ Update(now') /\ last' = now /\ lag' = 0
    BY <1>2 DEF Show, ShowAfter
  <2>2. current'.timestamp = now' /\ now' \in Int /\ now <= now'
    BY <2>1, UpdateIsOf, LaterIsTime
  <2>3. ~(now - current'.timestamp > interval + lag')
    BY <2>1, <2>2, TimesAreNumbers
  <2>4. ~stale'
    BY <1>1, <2>3
  <2>5. last' <= now' /\ last' <= current'.timestamp + lag'
    BY <2>1, <2>2, TimesAreNumbers
  <2> QED BY <1>1, <2>4, <2>5 DEF Fresh, CurrentIsRecent, ShownIsFresh
<1>3. CASE ~(now - last >= interval)
  <2>1. UNCHANGED <<current, last, now, lag>>
    BY <1>3 DEF Show, ShowAfter
  <2>2. ~setBack => ~(now - current'.timestamp > interval + lag')
    BY <1>1, <1>3, <2>1, TimesAreNumbers DEF Fresh, CurrentIsRecent
  <2> QED BY <1>1, <2>1, <2>2 DEF Fresh, CurrentIsRecent, ShownIsFresh
<1> QED BY <1>2, <1>3

(* No other step makes the sample shown, or the one kept, older than that. *)
LEMMA StepFresh == ASSUME Inv, Fresh, [Next]_vars PROVE Fresh'
<1> USE DEF Fresh, CurrentIsRecent, ShownIsFresh
<1>1. CASE InitFails
  BY <1>1 DEF InitFails, histVars
<1>2. CASE Open
  <2>1. /\ ~initialized /\ initialized' /\ ~setBack' /\ stale' = stale /\ last' = now'
        /\ now' \in now .. MaxTime /\ lag' = now' - now /\ current'.timestamp = now
    BY <1>2 DEF Open, Collected
  <2>2. now' \in Int
    BY <2>1, LaterIsTime
  <2> QED BY <2>1, <2>2, TimesAreNumbers
<1>3. CASE Show
  BY <1>3, ShowFresh
<1>4. CASE RefreshNow
  <2>1. /\ current'.timestamp = now /\ lag' = 0
        /\ UNCHANGED <<last, initialized, now, setBack, stale>>
    BY <1>4, UpdateIsOf DEF RefreshNow
  <2> QED BY <2>1, TimesAreNumbers
<1>5. CASE Cleanup
  BY <1>5 DEF Cleanup, histVars
<1>6. CASE Clock
  <2>1. ~setBack' => ~setBack /\ ~(now' < now)
    BY <1>6, Zenon DEF Clock
  <2>2. now' \in Int
    BY <1>6, HistoryAssumption DEF Clock, Times
  <2>3. UNCHANGED <<current, last, initialized, lag, stale>>
    BY <1>6 DEF Clock
  <2> QED BY <2>1, <2>2, <2>3, TimesAreNumbers
<1>7. ASSUME NEW seconds \in Entered, SetInterval(seconds) PROVE Fresh'
  BY <1>7 DEF SetInterval, histVars
<1>8. CASE UNCHANGED vars
  BY <1>8 DEF vars, histVars
<1> QED BY <1>1, <1>2, <1>3, <1>4, <1>5, <1>6, <1>7, <1>8 DEF Next

(* No screen of the dashboard is drawn with a sample older than the        *)
(* interval and the time its first one took, for any clock and any numbers *)
(* entered, unless the clock was set back since it was opened.             *)
THEOREM ScreenFresh == Spec => []ShownIsFresh
<1>1. Init => Fresh
  BY DEF Init, Fresh, CurrentIsRecent, ShownIsFresh
<1>2. Inv /\ Fresh /\ [Next]_vars => Fresh'
  BY StepFresh
<1>3. Fresh => ShownIsFresh
  BY DEF Fresh
<1> QED BY <1>1, <1>2, <1>3, AlwaysInv, PTL DEF Spec
=============================================================================
