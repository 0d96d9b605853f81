------------------------ MODULE RollbackStackProofs ------------------------
EXTENDS RollbackStack, TLAPS

(* Entering a handler, from the program or from a handler, keeps IInv. *)
LEMMA EnterKeeps ==
    ASSUME IInv, NEW f \in Signals, Running, Enter(f),
           UNCHANGED <<stackVars, cur, order, accepted, cleared, attempts>>,
           corrupt' \in BOOLEAN, corrupt => corrupt', corrupt' => corrupt \/ Top \in WalkPcs
    PROVE  IInv'
<1>. DEFINE d == depth + 1
<1>1. /\ depth' = d /\ d \in Levels /\ depth \in Levels /\ depth < d
      /\ Top' = "exec_start"
      /\ \A l \in 0 .. depth : pc'[l] = pc[l]
      /\ pc[0]' = pc[0]
      /\ status' = "running"
  BY StackAssumption DEF IInv, TypeOK, Enter, Top, Levels, Running
<1>2. WalkInterrupted' <=> WalkInterrupted \/ Top \in WalkPcs
  <2>1. 0 .. depth' - 1 = 0 .. depth
    BY <1>1 DEF Levels
  <2>2. \A l \in 0 .. depth : l \in 0 .. depth - 1 \/ l = depth
    BY <1>1 DEF Levels
  <2>3. 0 .. depth - 1 \subseteq 0 .. depth /\ depth \in 0 .. depth
    BY <1>1 DEF Levels
  <2>. QED BY <1>1, <2>1, <2>2, <2>3 DEF WalkInterrupted, Top
<1>3. Ahead' = 1 .. Len(order)
  BY <1>1 DEF Ahead, Walking, stackVars
<1>4. Ahead \subseteq 1 .. Len(order)
  BY DEF Ahead
<1>5. TypeOK'
  <2>1. held' \in BOOLEAN
    BY Zenon DEF IInv, TypeOK, Enter
  <2>2. pc' \in [Levels -> Pcs]
    BY <1>1, StackAssumption DEF IInv, TypeOK, Enter, Pcs
  <2>3. blocked' \subseteq Signals /\ UNCHANGED <<installed, status>>
    BY DEF IInv, TypeOK, Enter
  <2>. QED BY <1>1, <2>1, <2>2, <2>3 DEF IInv, TypeOK, stackVars
<1>6. ListShape'
  BY DEF IInv, ListShape, stackVars
<1>7. CountMatches'
  <2>1. CASE count = Len(order) /\ Top # "add_count"
    BY <2>1, <1>1 DEF CountMatches, stackVars
  <2>2. CASE count = Len(order) - 1 /\ pc[0] = "add_count"
    BY <2>2, <1>1 DEF CountMatches, stackVars
  <2>3. CASE order = <<>> /\ \E l \in 0 .. depth : pc[l] = "reset_count"
    <3>1. PICK l \in 0 .. depth : pc[l] = "reset_count"
      BY <2>3
    <3>2. l \in 0 .. depth' /\ pc'[l] = "reset_count"
      BY <3>1, <1>1 DEF Levels
    <3>. QED BY <3>2, <2>3 DEF CountMatches
  <2>. QED BY <2>1, <2>2, <2>3 DEF IInv, CountMatches
<1>8. FrameShape'
  BY <1>1 DEF IInv, FrameShape, TypeOK, stackVars
<1>9. WalkShape'
  BY <1>1 DEF WalkShape, Walking
<1>10. AheadLive'
  <2>. SUFFICES ASSUME ~WalkInterrupted'
                PROVE  /\ ~corrupt'
                       /\ \A s \in Steps : attempts'[s] < 2
                       /\ \A i \in Ahead' : heap'[order'[i]] = "live" /\ attempts'[order'[i]] = 0
    BY DEF AheadLive
  <2>1. ~WalkInterrupted /\ Top \notin WalkPcs
    BY <1>2
  <2>2. CASE Top = "reset_count"
    BY <2>1, <2>2, <1>3 DEF IInv, AheadLive, WalkShape, stackVars
  <2>3. CASE Top # "reset_count"
    <3>1. Ahead = 1 .. Len(order)
      BY <2>1, <2>3 DEF Ahead, Walking, WalkPcs
    <3>. QED BY <2>1, <3>1, <1>3 DEF IInv, AheadLive, stackVars, WalkPcs
  <2>. QED BY <2>2, <2>3
<1>11. Covered'
  BY <1>3, <1>4 DEF IInv, Covered
<1>. QED BY <1>5, <1>6, <1>7, <1>8, <1>9, <1>10, <1>11 DEF IInv

(* A signal whose disposition is still the default ends the process. *)
LEMMA KilledKeeps ==
    ASSUME IInv, Killed,
           UNCHANGED <<stackVars, cur, order, accepted, cleared, attempts>>,
           corrupt' \in BOOLEAN, corrupt => corrupt', corrupt' => corrupt \/ WalkInterrupted
    PROVE  IInv'
BY DEF IInv, TypeOK, ListShape, CountMatches, FrameShape, WalkShape, AheadLive, Covered, WalkInterrupted, Ahead, Walking, Top, Killed, stackVars


(* An asynchronous signal keeps IInv, handled or not. *)
LEMMA SignalKeeps ==
    ASSUME IInv, NEW f \in Signals, Signal(f)
    PROVE  IInv'
<1>1. /\ UNCHANGED <<stackVars, cur, order, accepted, cleared, attempts>>
      /\ corrupt' = corrupt /\ corrupt \in BOOLEAN
  BY DEF Signal, histVars, IInv, TypeOK
<1>2. CASE installed
  BY <1>1, <1>2, EnterKeeps DEF Signal
<1>3. CASE ~installed
  BY <1>1, <1>3, KilledKeeps DEF Signal
<1>. QED BY <1>2, <1>3 DEF IInv, TypeOK

(* So does the signal a bad access or the allocator raises. *)
LEMMA FaultKeeps ==
    ASSUME IInv, Running, Fault, Top \in WalkPcs, WalkInterrupted,
           UNCHANGED <<stackVars, cur, order, accepted, cleared, attempts>>,
           corrupt' \in BOOLEAN, corrupt => corrupt'
    PROVE  IInv'
<1>1. CASE installed /\ Faults \ blocked # {}
  <2>1. PICK f \in Faults : Enter(f)
    BY <1>1 DEF Fault
  <2>. QED BY <2>1, EnterKeeps, StackAssumption
<1>2. CASE ~(installed /\ Faults \ blocked # {})
  BY <1>2, KilledKeeps DEF Fault
<1>. QED BY <1>1, <1>2

(* Where a walk stands in the list: its step is in it, or was freed. *)
LEMMA WalkPosition ==
    ASSUME IInv, Walking
    PROVE  \E k \in 1 .. Len(order) :
              /\ order[k] = cur[depth]
              /\ cur[depth] \in Steps
              /\ Ahead = 1 .. k
              /\ next[cur[depth]] = IF k = 1 THEN NULL ELSE order[k - 1]
<1>1. PICK k \in 1 .. Len(order) : order[k] = cur[depth]
  BY DEF IInv, WalkShape
<1>2. cur[depth] \in Steps
  BY <1>1 DEF IInv, TypeOK
<1>3. \A j \in 1 .. Len(order) : order[j] = cur[depth] => j = k
  BY <1>1 DEF IInv, ListShape
<1>4. Ahead = 1 .. k
  <2>0. Len(order) \in Nat /\ k \in Nat
    BY <1>1 DEF IInv, TypeOK
  <2>1. ASSUME NEW i \in Ahead PROVE i \in 1 .. k
    <3>1. PICK j \in i .. Len(order) : i \in 1 .. Len(order) /\ order[j] = cur[depth]
      BY <2>1 DEF Ahead
    <3>2. j = k
      BY <3>1, <1>3, <2>0
    <3>. QED BY <3>1, <3>2, <2>0
  <2>2. ASSUME NEW i \in 1 .. k PROVE i \in Ahead
    BY <1>1, <2>0 DEF Ahead
  <2>. QED BY <2>1, <2>2
<1>5. next[cur[depth]] = IF k = 1 THEN NULL ELSE order[k - 1]
  BY <1>1 DEF IInv, ListShape
<1>. QED BY <1>1, <1>2, <1>4, <1>5

(* execute_rollback trying one action keeps IInv. *)
LEMMA ExecRunKeeps ==
    ASSUME IInv, ExecRun
    PROVE  IInv'
<1>1. Walking /\ Top = "exec_run" /\ Running
  BY DEF ExecRun, Walking
<1>2. PICK k \in 1 .. Len(order) :
        /\ order[k] = cur[depth]
        /\ cur[depth] \in Steps
        /\ Ahead = 1 .. k
  BY <1>1, WalkPosition
<1>3. heap[cur[depth]] = "freed" => WalkInterrupted
  BY <1>2 DEF IInv, AheadLive
<1>4. corrupt' \in BOOLEAN /\ (corrupt => corrupt') /\ (corrupt' => corrupt \/ WalkInterrupted)
  BY <1>3 DEF ExecRun, IInv, TypeOK
<1>5. CASE heap[cur[depth]] = "freed" /\ Fault /\ UNCHANGED attempts
  BY <1>1, <1>3, <1>4, <1>5, FaultKeeps DEF ExecRun, WalkPcs
<1>6. ASSUME Goto("exec_free"), UNCHANGED <<depth, installed, blocked, status, held>>,
             \/ Attempt(cur[depth])
             \/ heap[cur[depth]] = "freed" /\ UNCHANGED attempts
      PROVE  IInv'
  <2>1. /\ UNCHANGED <<head, count, heap, next, cur, order, accepted, cleared>>
        /\ corrupt' = (corrupt \/ heap[cur[depth]] = "freed")
    BY DEF ExecRun, stackVars
  <2>2. /\ Top' = "exec_free" /\ Walking'
        /\ \A l \in Levels : l # depth => pc'[l] = pc[l]
        /\ depth \in Levels
    BY <1>6, <1>1 DEF Goto, Top, Walking, IInv, TypeOK
  <2>3. Ahead' = Ahead
    BY <2>1, <2>2, <1>1, <1>6 DEF Ahead
  <2>4. WalkInterrupted' <=> WalkInterrupted
    BY <2>2, <1>6, StackAssumption DEF WalkInterrupted, Levels
  <2>5. /\ attempts' \in [Steps -> 0 .. 2]
        /\ \A s \in Steps : attempts[s] > 0 => attempts'[s] > 0
        /\ \A s \in Steps \ {cur[depth]} : attempts'[s] = attempts[s]
        /\ attempts[cur[depth]] = 0 => attempts'[cur[depth]] < 2
        /\ heap[cur[depth]] # "freed" => attempts'[cur[depth]] > 0
    <3>1. CASE Attempt(cur[depth])
      BY <3>1, <1>2 DEF Attempt, IInv, TypeOK
    <3>2. CASE heap[cur[depth]] = "freed" /\ UNCHANGED attempts
      BY <3>2, <1>2 DEF IInv, TypeOK
    <3>. QED BY <1>6, <3>1, <3>2
  <2>6. TypeOK'
    BY <2>1, <2>5, <1>6, <1>4 DEF IInv, TypeOK, Goto, Pcs
  <2>7. ListShape'
    BY <2>1 DEF IInv, ListShape
  <2>8. CountMatches'
    <3>1. \A l \in 0 .. depth : pc[l] = "reset_count" => pc'[l] = "reset_count"
      BY <1>1, <2>2, StackAssumption DEF Levels, Top
    <3>2. pc[0] = "add_count" => pc'[0] = "add_count"
      BY <1>1, <2>2, StackAssumption DEF Levels, Top
    <3>. QED BY <3>1, <3>2, <2>1, <2>2, <1>6 DEF IInv, CountMatches
  <2>9. FrameShape'
    <3>1. pc'[0] = "add_count" => pc[0] = "add_count"
      BY <1>1, <1>6, <2>2, StackAssumption DEF Levels, Top
    <3>2. heap[cur[depth]] # "fresh"
      BY <1>2 DEF IInv, FrameShape
    <3>3. status' # "exited"
      BY <1>1, <1>6 DEF Running
    <3>. QED BY <3>1, <3>2, <3>3, <2>1, <2>2, <2>5 DEF IInv, FrameShape
  <2>10. WalkShape'
    BY <2>1, <2>2, <2>5, <1>1, <1>6 DEF IInv, WalkShape
  <2>11. AheadLive'
    <3>. SUFFICES ASSUME ~WalkInterrupted
                  PROVE  /\ ~corrupt'
                         /\ \A s \in Steps : attempts'[s] < 2
                         /\ \A i \in Ahead : /\ heap[order[i]] = "live"
                                             /\ attempts'[order[i]] = 0 \/ order[i] = cur[depth]
      BY <2>1, <2>2, <2>3, <2>4, <1>6 DEF AheadLive
    <3>1. /\ ~corrupt
          /\ \A s \in Steps : attempts[s] < 2
          /\ \A i \in Ahead : heap[order[i]] = "live" /\ attempts[order[i]] = 0
      BY <1>1 DEF IInv, AheadLive
    <3>2. attempts[cur[depth]] = 0
      BY <3>1, <1>2
    <3>3. \A i \in Ahead : order[i] \in Steps
      BY <1>2 DEF IInv, TypeOK, Ahead
    <3>. QED BY <3>1, <3>2, <3>3, <2>5, <1>3, <2>1
  <2>12. Covered'
    BY <2>1, <2>3, <2>5 DEF IInv, Covered, TypeOK
  <2>. QED BY <2>6, <2>7, <2>8, <2>9, <2>10, <2>11, <2>12 DEF IInv
<1>. QED BY <1>5, <1>6 DEF ExecRun

(* Freeing nodes at the head of a walk keeps IInv. *)
LEMMA FreeToKeeps ==
    ASSUME IInv, Running, NEW more \in {"exec_run", "clear_free"}, FreeTo(more),
           Top = IF more = "exec_run" THEN "exec_free" ELSE "clear_free",
           UNCHANGED <<head, count, next, order, accepted, attempts>>,
           cleared' = IF more = "exec_run" THEN cleared ELSE cleared \union {cur[depth]},
           corrupt' \in BOOLEAN, corrupt => corrupt', corrupt' => corrupt \/ WalkInterrupted
    PROVE  IInv'
<1>1. Walking
  BY DEF Walking
<1>2. PICK k \in 1 .. Len(order) :
        /\ order[k] = cur[depth]
        /\ cur[depth] \in Steps
        /\ Ahead = 1 .. k
        /\ next[cur[depth]] = IF k = 1 THEN NULL ELSE order[k - 1]
  BY <1>1, WalkPosition
<1>3. /\ Len(order) \in Nat /\ k \in Nat /\ depth \in Levels /\ 0 \in Levels
      /\ \A i \in 1 .. Len(order) : order[i] \in Steps
  BY <1>2, StackAssumption DEF IInv, TypeOK, Levels
<1>4. /\ cur'[depth] = IF k = 1 THEN NULL ELSE order[k - 1]
      /\ Top' = IF k = 1 THEN "reset_head" ELSE more
      /\ depth' = depth
      /\ \A l \in Levels \ {depth} : pc'[l] = pc[l] /\ cur'[l] = cur[l]
  <2>1. k # 1 => order[k - 1] \in Steps
    BY <1>3, <1>2
  <2>2. k # 1 => next[cur[depth]] # NULL
    BY <2>1, <1>2, StackAssumption
  <2>. QED BY <1>2, <1>3, <2>2 DEF FreeTo, Goto, Top, IInv, TypeOK
<1>5. Ahead' = 1 .. (k - 1)
  <2>1. CASE k = 1
    BY <2>1, <1>4, <1>3 DEF Ahead, Walking
  <2>2. CASE k # 1
    <3>1. Walking' /\ order' = order /\ cur'[depth'] = order[k - 1]
      BY <2>2, <1>4 DEF Walking
    <3>2. k - 1 \in 1 .. Len(order)
      BY <2>2, <1>2, <1>3
    <3>3. \A j \in 1 .. Len(order) : order[j] = order[k - 1] => j = k - 1
      BY <3>2 DEF IInv, ListShape
    <3>4. Ahead' = {i \in 1 .. Len(order) : \E j \in i .. Len(order) : order[j] = order[k - 1]}
      BY <3>1 DEF Ahead
    <3>5. ASSUME NEW i \in Ahead' PROVE i \in 1 .. (k - 1)
      <4>1. PICK j \in i .. Len(order) : i \in 1 .. Len(order) /\ order[j] = order[k - 1]
        BY <3>4
      <4>2. j = k - 1
        BY <4>1, <3>3, <1>3
      <4>. QED BY <4>1, <4>2, <1>3
    <3>6. ASSUME NEW i \in 1 .. (k - 1) PROVE i \in Ahead'
      BY <3>2, <3>4, <1>3
    <3>. QED BY <3>5, <3>6
  <2>. QED BY <2>1, <2>2
<1>6. WalkInterrupted' <=> WalkInterrupted
  BY <1>4, <1>3, StackAssumption DEF WalkInterrupted, Levels
<1>7. heap' = [heap EXCEPT ![cur[depth]] = "freed"]
  BY DEF FreeTo
<1>8. TypeOK'
  BY <1>2, <1>3, <1>7 DEF IInv, TypeOK, FreeTo, Goto, Pcs
<1>9. ListShape'
  BY DEF IInv, ListShape
<1>10. CountMatches'
  <2>1. \A l \in 0 .. depth : pc[l] = "reset_count" => pc'[l] = "reset_count"
    BY <1>3, <1>4, StackAssumption DEF Levels, Top
  <2>2. pc[0] = "add_count" => pc'[0] = "add_count"
    BY <1>3, <1>4, StackAssumption DEF Levels, Top
  <2>. QED BY <1>4, <2>1, <2>2 DEF IInv, CountMatches
<1>11. FrameShape'
  <2>1. pc'[0] = "add_count" => pc[0] = "add_count" /\ cur'[0] = cur[0]
    BY <1>3, <1>4, StackAssumption DEF Levels, Top
  <2>2. status' # "exited"
    BY DEF FreeTo, Running
  <2>. QED BY <1>4, <1>7, <1>2, <2>1, <2>2 DEF IInv, FrameShape, TypeOK
<1>12. WalkShape'
  <2>1. Walking' => k # 1
    BY <1>4 DEF Walking
  <2>2. k # 1 => k - 1 \in 1 .. Len(order)
    BY <1>3, <1>2
  <2>. QED BY <1>4, <2>1, <2>2 DEF IInv, WalkShape
<1>13. AheadLive'
  <2>. SUFFICES ASSUME ~WalkInterrupted
                PROVE  /\ ~corrupt'
                       /\ \A s \in Steps : attempts'[s] < 2
                       /\ \A i \in Ahead' : heap'[order[i]] = "live" /\ attempts[order[i]] = 0
    BY <1>6 DEF AheadLive
  <2>1. /\ ~corrupt'
        /\ \A s \in Steps : attempts'[s] < 2
    BY DEF IInv, AheadLive
  <2>2. ASSUME NEW i \in Ahead'
        PROVE  heap'[order[i]] = "live" /\ attempts[order[i]] = 0
    <3>1. i \in Ahead /\ i \in 1 .. Len(order) /\ i # k
      BY <1>5, <1>2, <1>3
    <3>2. order[i] # cur[depth]
      BY <3>1, <1>2 DEF IInv, ListShape
    <3>. QED BY <3>1, <3>2, <1>7, <1>3 DEF IInv, AheadLive, TypeOK
  <2>. QED BY <2>1, <2>2
<1>14. Covered'
  <2>. SUFFICES ASSUME ~corrupt', NEW s \in accepted \ cleared', ~(attempts[s] > 0)
                PROVE  \E i \in Ahead' : order[i] = s
    BY DEF Covered
  <2>1. PICK i \in 1 .. k : order[i] = s
    BY <1>2 DEF IInv, Covered
  <2>2. s # cur[depth]
    BY DEF IInv, WalkShape
  <2>3. i \in 1 .. (k - 1)
    BY <2>1, <2>2, <1>2, <1>3
  <2>. QED BY <2>1, <2>3, <1>5
<1>. QED BY <1>8, <1>9, <1>10, <1>11, <1>12, <1>13, <1>14 DEF IInv

(* execute_rollback's free at the end of a turn. *)
LEMMA ExecFreeKeeps ==
    ASSUME IInv, ExecFree
    PROVE  IInv'
<1>1. Walking /\ Top = "exec_free" /\ Running
  BY DEF ExecFree, Walking
<1>2. cur[depth] \in Steps /\ \E i \in Ahead : order[i] = cur[depth]
  <2>1. PICK k \in 1 .. Len(order) :
          order[k] = cur[depth] /\ cur[depth] \in Steps /\ Ahead = 1 .. k
    BY <1>1, WalkPosition
  <2>. QED BY <2>1 DEF IInv, TypeOK
<1>3. heap[cur[depth]] = "freed" => WalkInterrupted
  BY <1>2 DEF IInv, AheadLive
<1>4. corrupt' \in BOOLEAN /\ (corrupt => corrupt') /\ (corrupt' => corrupt \/ WalkInterrupted)
  BY <1>3 DEF ExecFree, IInv, TypeOK
<1>5. CASE FreeTo("exec_run")
  BY <1>1, <1>4, <1>5, FreeToKeeps DEF ExecFree
<1>6. CASE heap[cur[depth]] = "freed" /\ Fault /\ UNCHANGED <<heap, cur>>
  BY <1>1, <1>3, <1>4, <1>6, FaultKeeps DEF ExecFree, WalkPcs, stackVars
<1>. QED BY <1>5, <1>6 DEF ExecFree

(* clear_rollback_stack's loop of frees. *)
LEMMA ClearFreeKeeps ==
    ASSUME IInv, ClearFree
    PROVE  IInv'
BY FreeToKeeps DEF ClearFree, IInv, TypeOK

(* The store that makes the new node the head. *)
LEMMA AddPushKeeps ==
    ASSUME IInv, AddPush
    PROVE  IInv'
<1>1. /\ Top = "add_push" /\ depth = 0 /\ depth' = 0
      /\ Len(order) \in Nat /\ \A i \in 1 .. Len(order) : order[i] \in Steps
      /\ count = Len(order) /\ order \in Seq(Steps)
  BY DEF AddPush, IInv, FrameShape, CountMatches, TypeOK, Top
<1>2. /\ cur[0] \in Steps \ accepted
      /\ heap[cur[0]] = "live"
      /\ attempts[cur[0]] = 0
      /\ \A i \in 1 .. Len(order) : order[i] # cur[0]
      /\ next[cur[0]] = head
  BY <1>1 DEF IInv, FrameShape
<1>3. /\ order' = Append(order, cur[0])
      /\ Len(order') = Len(order) + 1
      /\ \A i \in 1 .. Len(order) : order'[i] = order[i]
      /\ order'[Len(order) + 1] = cur[0]
      /\ head' = cur[0]
      /\ order' # <<>>
  BY <1>1, <1>2 DEF AddPush
<1>4. /\ UNCHANGED <<count, heap, next, cur, depth, installed, blocked, status, held,
                      accepted, cleared, attempts, corrupt>>
      /\ pc' = [pc EXCEPT ![0] = "add_count"] /\ Top' = "add_count"
  BY <1>1, StackAssumption DEF AddPush, Goto, Top, IInv, TypeOK, Levels
<1>5. Ahead = 1 .. Len(order) /\ Ahead' = 1 .. (Len(order) + 1)
  BY <1>1, <1>3, <1>4 DEF Ahead, Walking
<1>6. ~WalkInterrupted /\ ~WalkInterrupted'
  BY <1>1 DEF WalkInterrupted
<1>7. TypeOK'
  <2>1. order' \in Seq(Steps) /\ head' \in Steps
    BY <1>1, <1>2, <1>3
  <2>2. pc' \in [Levels -> Pcs]
    BY <1>4 DEF IInv, TypeOK, Pcs
  <2>. QED BY <2>1, <2>2, <1>4 DEF IInv, TypeOK
<1>8. ListShape'
  <2>1. ASSUME NEW i \in 1 .. Len(order')
        PROVE  next[order'[i]] = IF i = 1 THEN NULL ELSE order'[i - 1]
    <3>1. CASE i \in 1 .. Len(order)
      BY <3>1, <1>1, <1>3 DEF IInv, ListShape
    <3>2. CASE i = Len(order) + 1
      BY <3>2, <1>1, <1>2, <1>3 DEF IInv, ListShape
    <3>. QED BY <3>1, <3>2, <1>1, <1>3
  <2>2. \A i, j \in 1 .. Len(order') : order'[i] = order'[j] => i = j
    BY <1>1, <1>2, <1>3 DEF IInv, ListShape
  <2>. QED BY <2>1, <2>2, <1>3, <1>4 DEF ListShape
<1>9. CountMatches'
  BY <1>1, <1>3, <1>4, StackAssumption DEF CountMatches, IInv, TypeOK, Levels
<1>10. FrameShape'
  BY <1>1, <1>2, <1>3, <1>4 DEF IInv, FrameShape, TypeOK
<1>11. WalkShape'
  BY <1>4 DEF WalkShape, Walking
<1>12. AheadLive'
  BY <1>1, <1>2, <1>3, <1>4, <1>5, <1>6 DEF IInv, AheadLive
<1>13. Covered'
  BY <1>1, <1>3, <1>4, <1>5 DEF IInv, Covered
<1>. QED BY <1>7, <1>8, <1>9, <1>10, <1>11, <1>12, <1>13 DEF IInv

(* Installing the handlers touches nothing else. *)
LEMMA SetErrorHandlerKeeps ==
    ASSUME IInv, SetErrorHandler
    PROVE  IInv'
<1>. USE StackAssumption DEF SetErrorHandler, Running, stackVars, histVars, Top, Levels, IInv, TypeOK
<1>1. TypeOK'
  BY DEF FrameShape, Pcs
<1>2. ListShape'
  BY DEF ListShape, FrameShape
<1>3. CountMatches'
  BY DEF CountMatches, FrameShape, WalkShape
<1>4. FrameShape'
  BY DEF FrameShape, CountMatches
<1>5. WalkShape'
  BY DEF WalkShape, Walking, ListShape
<1>6. AheadLive'
  BY DEF AheadLive, WalkInterrupted, WalkPcs, Ahead, Walking, WalkShape, ListShape, FrameShape
<1>7. Covered'
  BY DEF Covered, Ahead, Walking, WalkShape, ListShape, FrameShape, CountMatches
<1>. QED BY <1>1, <1>2, <1>3, <1>4, <1>5, <1>6, <1>7

(* A new node, linked but not yet the head. *)
LEMMA AddLinkKeeps ==
    ASSUME IInv, NEW s \in Steps, AddLink(s)
    PROVE  IInv'
<1>. USE StackAssumption DEF AddLink, Running, Goto, histVars, Top, Levels, IInv, TypeOK
<1>1. TypeOK'
  BY DEF FrameShape, Pcs
<1>2. ListShape'
  BY DEF ListShape, FrameShape
<1>3. CountMatches'
  BY DEF CountMatches, FrameShape, WalkShape
<1>4. FrameShape'
  BY DEF FrameShape, CountMatches
<1>5. WalkShape'
  BY DEF WalkShape, Walking, ListShape
<1>6. AheadLive'
  BY DEF AheadLive, WalkInterrupted, WalkPcs, Ahead, Walking, WalkShape, ListShape, FrameShape
<1>7. Covered'
  BY DEF Covered, Ahead, Walking, WalkShape, ListShape, FrameShape, CountMatches
<1>. QED BY <1>1, <1>2, <1>3, <1>4, <1>5, <1>6, <1>7

(* The increment that follows the push. *)
LEMMA AddCountKeeps ==
    ASSUME IInv, AddCount
    PROVE  IInv'
<1>. USE StackAssumption DEF AddCount, Running, Goto, Top, Levels, IInv, TypeOK
<1>1. TypeOK'
  BY DEF FrameShape, Pcs
<1>2. ListShape'
  BY DEF ListShape, FrameShape
<1>3. CountMatches'
  BY DEF CountMatches, FrameShape, WalkShape
<1>4. FrameShape'
  BY DEF FrameShape, CountMatches
<1>5. WalkShape'
  BY DEF WalkShape, Walking, ListShape
<1>6. AheadLive'
  BY DEF AheadLive, WalkInterrupted, WalkPcs, Ahead, Walking, WalkShape, ListShape, FrameShape
<1>7. Covered'
  BY DEF Covered, Ahead, Walking, WalkShape, ListShape, FrameShape, CountMatches
<1>. QED BY <1>1, <1>2, <1>3, <1>4, <1>5, <1>6, <1>7

(* execute_rollback is entered. *)
LEMMA ExecCallKeeps ==
    ASSUME IInv, ExecCall
    PROVE  IInv'
<1>. USE StackAssumption DEF ExecCall, Running, Goto, stackVars, histVars, Top, Levels, IInv, TypeOK
<1>1. TypeOK'
  BY DEF FrameShape, Pcs
<1>2. ListShape'
  BY DEF ListShape, FrameShape
<1>3. CountMatches'
  BY DEF CountMatches, FrameShape, WalkShape
<1>4. FrameShape'
  BY DEF FrameShape, CountMatches
<1>5. WalkShape'
  BY DEF WalkShape, Walking, ListShape
<1>6. AheadLive'
  BY DEF AheadLive, WalkInterrupted, WalkPcs, Ahead, Walking, WalkShape, ListShape, FrameShape
<1>7. Covered'
  BY DEF Covered, Ahead, Walking, WalkShape, ListShape, FrameShape, CountMatches
<1>. QED BY <1>1, <1>2, <1>3, <1>4, <1>5, <1>6, <1>7

(* execute_rollback reads the counter and the head. *)
LEMMA ExecStartKeeps ==
    ASSUME IInv, ExecStart
    PROVE  IInv'
<1>. USE StackAssumption DEF ExecStart, ExecStartAt, Return, Running, Goto, stackVars, histVars, Top, Levels, IInv, TypeOK
<1>1. TypeOK'
  BY DEF FrameShape, Pcs
<1>2. ListShape'
  BY DEF ListShape, FrameShape
<1>3. CountMatches'
  <2>1. depth' = depth /\ order' = order /\ count' = count
    OBVIOUS
  <2>2. \A l \in 0 .. depth : pc[l] = "reset_count" => pc'[l] = "reset_count"
    OBVIOUS
  <2>3. pc[0] = "add_count" => pc'[0] = "add_count"
    OBVIOUS
  <2>4. Top' # "add_count"
    OBVIOUS
  <2>. QED BY <2>1, <2>2, <2>3, <2>4 DEF CountMatches
<1>4. FrameShape'
  <2>1. /\ pc'[0] = "add_count" => pc[0] = "add_count" /\ cur'[0] = cur[0]
        /\ Top' \in {"idle", "leave", "reset_head", "exec_run"}
        /\ Top' = "idle" => depth' = 0
        /\ Top' = "leave" => count' = 0
        /\ status' = "running"
    OBVIOUS
  <2>2. UNCHANGED <<heap, attempts, accepted, order>>
    OBVIOUS
  <2>. QED BY <2>1, <2>2 DEF FrameShape
<1>5. WalkShape'
  BY DEF WalkShape, Walking, ListShape
<1>6. AheadLive'
  <2>1. WalkInterrupted' <=> WalkInterrupted
    <3>1. depth' = depth /\ \A l \in 0 .. depth - 1 : pc'[l] = pc[l]
      OBVIOUS
    <3>. QED BY <3>1 DEF WalkInterrupted
  <2>2. Ahead = 1 .. Len(order) /\ Top # "exec_free"
    BY DEF Ahead, Walking
  <2>3. Ahead' \subseteq 1 .. Len(order)
    BY DEF Ahead
  <2>4. UNCHANGED <<heap, attempts, corrupt, order>>
    OBVIOUS
  <2>5. ~WalkInterrupted =>
          /\ ~corrupt
          /\ \A s \in Steps : attempts[s] < 2
          /\ \A i \in 1 .. Len(order) : heap[order[i]] = "live" /\ attempts[order[i]] = 0
    BY <2>2 DEF AheadLive
  <2>. HIDE DEF ExecStart, ExecStartAt, Return, Running, Goto, Top, Levels, IInv, TypeOK
  <2>. QED BY <2>1, <2>3, <2>4, <2>5 DEF AheadLive
<1>7. Covered'
  BY DEF Covered, Ahead, Walking, WalkShape, ListShape, FrameShape, CountMatches
<1>. QED BY <1>1, <1>2, <1>3, <1>4, <1>5, <1>6, <1>7

(* The first of the two stores that empty the list. *)
LEMMA ResetHeadKeeps ==
    ASSUME IInv, ResetHead
    PROVE  IInv'
<1>. USE StackAssumption DEF ResetHead, Running, Goto, Top, Levels, IInv, TypeOK
<1>1. TypeOK'
  BY DEF FrameShape, Pcs
<1>2. ListShape'
  BY DEF ListShape, FrameShape
<1>3. CountMatches'
  BY DEF CountMatches, FrameShape, WalkShape
<1>4. FrameShape'
  BY DEF FrameShape, CountMatches
<1>5. WalkShape'
  BY DEF WalkShape, Walking, ListShape
<1>6. AheadLive'
  BY DEF AheadLive, WalkInterrupted, WalkPcs, Ahead, Walking, WalkShape, ListShape, FrameShape
<1>7. Covered'
  BY DEF Covered, Ahead, Walking, WalkShape, ListShape, FrameShape, CountMatches
<1>. QED BY <1>1, <1>2, <1>3, <1>4, <1>5, <1>6, <1>7

(* The second, with which the list is empty for everyone. *)
LEMMA ResetCountKeeps ==
    ASSUME IInv, ResetCount
    PROVE  IInv'
<1>. USE StackAssumption DEF ResetCount, Return, Running, Goto, histVars, Top, Levels, IInv, TypeOK
<1>1. TypeOK'
  BY DEF FrameShape, Pcs
<1>2. ListShape'
  BY DEF ListShape, FrameShape
<1>3. CountMatches'
  BY DEF CountMatches, FrameShape, WalkShape
<1>4. FrameShape'
  BY DEF FrameShape, CountMatches
<1>5. WalkShape'
  BY DEF WalkShape, Walking, ListShape
<1>6. AheadLive'
  BY DEF AheadLive, WalkInterrupted, WalkPcs, Ahead, Walking, WalkShape, ListShape, FrameShape
<1>7. Covered'
  BY DEF Covered, Ahead, Walking, WalkShape, ListShape, FrameShape, CountMatches
<1>. QED BY <1>1, <1>2, <1>3, <1>4, <1>5, <1>6, <1>7

(* A handler calling exit(1). *)
LEMMA LeaveKeeps ==
    ASSUME IInv, Leave
    PROVE  IInv'
<1>. USE DEF Leave, stackVars, histVars, Top, IInv
<1>1. TypeOK'
  BY DEF TypeOK
<1>2. FrameShape'
  BY DEF FrameShape
<1>3. ListShape' /\ CountMatches' /\ WalkShape' /\ AheadLive' /\ Covered'
  BY DEF ListShape, CountMatches, WalkShape, Walking, AheadLive, WalkInterrupted, Ahead, Covered
<1>. QED BY <1>1, <1>2, <1>3

(* clear_rollback_stack reads the head. *)
LEMMA ClearCallKeeps ==
    ASSUME IInv, ClearCall
    PROVE  IInv'
<1>. USE StackAssumption DEF ClearCall, Running, Goto, stackVars, histVars, Top, Levels, IInv, TypeOK
<1>1. TypeOK'
  BY DEF FrameShape, Pcs
<1>2. ListShape'
  BY DEF ListShape, FrameShape
<1>3. CountMatches'
  BY DEF CountMatches, FrameShape, WalkShape
<1>4. FrameShape'
  BY DEF FrameShape, CountMatches
<1>5. WalkShape'
  BY DEF WalkShape, Walking, ListShape
<1>6. AheadLive'
  BY DEF AheadLive, WalkInterrupted, WalkPcs, Ahead, Walking, WalkShape, ListShape, FrameShape
<1>7. Covered'
  BY DEF Covered, Ahead, Walking, WalkShape, ListShape, FrameShape, CountMatches
<1>. QED BY <1>1, <1>2, <1>3, <1>4, <1>5, <1>6, <1>7

(* The empty list satisfies IInv. *)
LEMMA InitIInv == Init => IInv
BY StackAssumption DEF Init, IInv, TypeOK, ListShape, CountMatches, FrameShape, WalkShape, AheadLive,
   Covered, Ahead, Walking, WalkInterrupted, Top, Pcs, Levels

(* IInv speaks of the variables of the specification only. *)
LEMMA StutterKeeps == IInv /\ UNCHANGED vars => IInv'
BY DEF vars, stackVars, frameVars, histVars, IInv, TypeOK, ListShape, CountMatches, FrameShape,
   WalkShape, AheadLive, Covered, Ahead, Walking, WalkInterrupted, Top

(* For every set of nodes, limit and set of signals, and any interleaving  *)
(* of signals with error_handler.c's stores, the list, its counter and the *)
(* activations keep the shape IInv describes: one lemma per action above.  *)
THEOREM InvariantHolds == Spec => []IInv
<1>1. IInv /\ [Next]_vars => IInv'
  <2>. SUFFICES ASSUME IInv, Next PROVE IInv'
    BY StutterKeeps
  <2>1. CASE SetErrorHandler BY <2>1, SetErrorHandlerKeeps
  <2>2. CASE ExecCall BY <2>2, ExecCallKeeps
  <2>3. CASE ClearCall BY <2>3, ClearCallKeeps
  <2>4. CASE \E s \in Steps : AddLink(s) BY <2>4, AddLinkKeeps
  <2>5. CASE \E f \in Signals : Signal(f) BY <2>5, SignalKeeps
  <2>6. CASE AddPush BY <2>6, AddPushKeeps
  <2>7. CASE AddCount BY <2>7, AddCountKeeps
  <2>8. CASE ExecStart BY <2>8, ExecStartKeeps
  <2>9. CASE ExecRun BY <2>9, ExecRunKeeps
  <2>10. CASE ExecFree BY <2>10, ExecFreeKeeps
  <2>11. CASE ResetHead BY <2>11, ResetHeadKeeps
  <2>12. CASE ResetCount BY <2>12, ResetCountKeeps
  <2>13. CASE ClearFree BY <2>13, ClearFreeKeeps
  <2>14. CASE Leave BY <2>14, LeaveKeeps
  <2>. QED BY <2>1, <2>2, <2>3, <2>4, <2>5, <2>6, <2>7, <2>8, <2>9, <2>10, <2>11, <2>12, <2>13, <2>14
           DEF Next, Continue
<1>. QED BY InitIInv, <1>1, PTL DEF Spec

(* The list's variables keep their ranges; in particular rollback_count    *)
(* never passes MAX_ROLLBACK_STEPS.                                        *)
THEOREM TypeCorrect == Spec => []TypeOK
BY InvariantHolds, PTL DEF IInv

(* execute_rollback and clear_rollback_stack touch freed memory only when  *)
(* a signal interrupted one of them inside its walk.                       *)
THEOREM CorruptionNeedsInterruptedWalk == Spec => []CorruptOnlyAfterInterruptedWalk
<1>1. IInv => CorruptOnlyAfterInterruptedWalk
  BY DEF IInv, AheadLive, CorruptOnlyAfterInterruptedWalk
<1>. QED BY <1>1, InvariantHolds, PTL

(* No rollback action of error_handler.c runs twice unless a walk was      *)
(* interrupted.                                                            *)
THEOREM UndoneAtMostOnce == Spec => []AtMostOnce
<1>1. IInv => AtMostOnce
  BY DEF IInv, TypeOK, AheadLive, AtMostOnce
<1>. QED BY <1>1, InvariantHolds, PTL

(* What a handler leaves at its exit(1): with nothing freed touched, every step was tried. *)
LEMMA ExitLeavesNothing ==
    ASSUME IInv, Leave
    PROVE  NothingForgotten'
<1>1. /\ UNCHANGED <<accepted, cleared, attempts, corrupt, order>>
      /\ Top = "leave" /\ count = 0
  BY DEF Leave, stackVars, histVars, IInv, FrameShape
<1>2. SUFFICES ASSUME ~corrupt, NEW s \in accepted \ cleared, ~(attempts[s] > 0)
               PROVE  FALSE
  BY <1>1 DEF NothingForgotten
<1>3. PICK i \in Ahead : order[i] = s
  BY <1>2 DEF IInv, Covered
<1>4. i \in 1 .. Len(order) /\ Len(order) \in Nat
  BY <1>3 DEF IInv, TypeOK, Ahead
<1>5. Len(order) = 1 /\ pc[0] = "add_count"
  BY <1>1, <1>4 DEF IInv, CountMatches
<1>. QED BY <1>3, <1>4, <1>5 DEF IInv, FrameShape

(* A handler of error_handler.c that leaves with exit(1) without having    *)
(* touched freed memory has tried every step whose add_rollback_step       *)
(* returned 0, unless clear_rollback_stack dropped it.                     *)
THEOREM HandlerForgetsNothing == Spec => []NothingForgotten
<1>1. Init => NothingForgotten
  BY DEF Init, NothingForgotten
<1>2. IInv /\ NothingForgotten /\ [Next]_vars => NothingForgotten'
  <2>. SUFFICES ASSUME IInv, NothingForgotten, [Next]_vars PROVE NothingForgotten'
    OBVIOUS
  <2>1. CASE UNCHANGED vars
    BY <2>1 DEF vars, frameVars, histVars, NothingForgotten
  <2>2. CASE Next /\ status' # "exited"
    BY <2>2 DEF NothingForgotten
  <2>3. CASE Next /\ status' = "exited"
    <3>1. Running
      BY <2>3 DEF Next, Continue, SetErrorHandler, ExecCall, ClearCall, AddLink, Signal, AddPush,
         AddCount, ExecStart, ExecStartAt, ExecRun, ExecFree, ResetHead, ResetCount, ClearFree, Leave
    <3>2. Leave
      BY <2>3, <3>1 DEF Running, Next, Continue, SetErrorHandler, ExecCall, ClearCall, AddLink,
         Signal, Enter, Killed, Fault, AddPush, AddCount, ExecStart, ExecStartAt, Return, ExecRun,
         ExecFree, FreeTo, ResetHead, ResetCount, ClearFree, Goto
    <3>. QED BY <3>2, ExitLeavesNothing
  <2>. QED BY <2>1, <2>2, <2>3
<1>. QED BY <1>1, <1>2, InvariantHolds, PTL DEF Spec

-----------------------------------------------------------------------------
(* The refinement of UndoLog, one action at a time.                        *)

TriedSteps == {s \in Steps : attempts[s] > 0}

Abstract == <<PendingSteps, TriedSteps, AbstractMode>>

(* The steps still to be undone are the first ones of the list.            *)
PendingFacts ==
    /\ Top \in {"exec_run", "clear_free"} => PendingSteps = UpTo(cur[depth], 0)
    /\ Top = "exec_free" => PendingSteps = UpTo(cur[depth], 1)
    /\ Top \in {"reset_head", "reset_count"} => PendingSteps = <<>>
    /\ Top \in {"idle", "add_push", "add_count", "exec_start", "leave"} =>
          PendingSteps = IF pc[0] = "add_count" THEN SubSeq(order, 1, Len(order) - 1) ELSE order

(* So they are before a step and after it. *)
LEMMA PendingOf == PendingFacts /\ PendingFacts'
<1>1. PendingFacts
  BY DEF PendingFacts, PendingSteps
<1> QED BY <1>1, PTL

(* The mode is what becomes of the process, while no walk is interrupted.  *)
ModeFacts ==
    /\ WalkInterrupted => AbstractMode = "undefined"
    /\ ~WalkInterrupted /\ status = "running" => AbstractMode = "open"
    /\ ~WalkInterrupted /\ status = "exited" => AbstractMode = "ended"
    /\ ~WalkInterrupted /\ status = "killed" => AbstractMode = "killed"

(* So it is before a step and after it. *)
LEMMA ModeOf == ModeFacts /\ ModeFacts'
<1>1. ModeFacts
  BY DEF ModeFacts, AbstractMode
<1> QED BY <1>1, PTL

(* A node stands in one place of the list. *)
LEMMA UpToPosition ==
    ASSUME IInv, NEW k \in 1 .. Len(order)
    PROVE  UpTo(order[k], 0) = SubSeq(order, 1, k) /\ UpTo(order[k], 1) = SubSeq(order, 1, k - 1)
<1>1. \A j \in 1 .. Len(order) : order[j] = order[k] <=> j = k
  BY DEF IInv, ListShape
<1>2. (CHOOSE j \in 1 .. Len(order) : order[j] = order[k]) = k
  BY <1>1
<1>3. k - 0 = k
  BY DEF IInv, TypeOK
<1>. QED BY <1>2, <1>3 DEF UpTo

(* The whole of a sequence, all of it but the last, and none of it. *)
LEMMA Prefixes ==
    ASSUME NEW S, NEW q \in Seq(S)
    PROVE  /\ SubSeq(q, 1, Len(q)) = q
           /\ SubSeq(q, 1, 0) = <<>>
           /\ q # <<>> => Append(SubSeq(q, 1, Len(q) - 1), q[Len(q)]) = q
           /\ q = <<>> => SubSeq(q, 1, Len(q) - 1) = <<>>
           /\ \A k \in 1 .. Len(q) :
                 LET p == SubSeq(q, 1, k)
                 IN  /\ Len(p) = k /\ p # <<>> /\ p[k] = q[k]
                     /\ SubSeq(p, 1, k - 1) = SubSeq(q, 1, k - 1)
  OBVIOUS

(* An added element is the last one, and the rest is what there was. *)
LEMMA AppendPrefix ==
    ASSUME NEW S, NEW q \in Seq(S), NEW e \in S
    PROVE  SubSeq(Append(q, e), 1, Len(Append(q, e)) - 1) = q
  OBVIOUS

(* A level once interrupted inside a walk stays so. *)
LEMMA InterruptedForGood ==
    ASSUME IInv, Next, WalkInterrupted
    PROVE  WalkInterrupted'
<1>1. depth \in Nat
  BY StackAssumption DEF IInv, TypeOK, Levels
<1>2. PICK l \in 0 .. depth - 1 : pc[l] \in WalkPcs
  BY DEF WalkInterrupted
<1>3. l \in Levels /\ l # depth /\ l # depth + 1 /\ depth # 0
  BY <1>1, <1>2, StackAssumption DEF IInv, TypeOK, Levels
<1>4. /\ depth' = depth \/ depth' = depth + 1
      /\ pc'[l] = pc[l]
  <2> USE <1>1, <1>2, <1>3, StackAssumption DEF IInv, TypeOK, Levels
  <2>1. ASSUME NEW f, Enter(f) PROVE depth' = depth + 1 /\ pc'[l] = pc[l]
    BY <2>1 DEF Enter
  <2>2. ASSUME Killed PROVE depth' = depth /\ pc'[l] = pc[l]
    BY <2>2 DEF Killed
  <2>3. CASE Fault
    BY <2>1, <2>2, <2>3 DEF Fault
  <2>4. CASE \E f \in Signals : Signal(f)
    BY <2>1, <2>2, <2>4 DEF Signal
  <2>5. CASE SetErrorHandler \/ ExecCall \/ ClearCall \/ \E s \in Steps : AddLink(s)
    BY <2>5 DEF SetErrorHandler, ExecCall, ClearCall, AddLink
  <2>6. CASE AddPush \/ AddCount \/ ResetHead
    BY <2>6 DEF AddPush, AddCount, ResetHead, Goto
  <2>7. CASE ExecStart \/ ResetCount \/ Leave
    BY <2>7 DEF ExecStart, ExecStartAt, ResetCount, Return, Leave, Goto
  <2>8. CASE ExecRun
    BY <2>3, <2>8 DEF ExecRun, Goto
  <2>9. CASE ExecFree
    BY <2>3, <2>9 DEF ExecFree, FreeTo, Goto
  <2>10. CASE ClearFree
    BY <2>10 DEF ClearFree, FreeTo, Goto
  <2> QED BY <2>4, <2>5, <2>6, <2>7, <2>8, <2>9, <2>10 DEF Next, Continue
<1>5. l \in 0 .. depth' - 1
  BY <1>1, <1>2, <1>4
<1> QED BY <1>2, <1>4, <1>5 DEF WalkInterrupted

(* What is pending before and after a step of a walk over an unchanged list. *)
LEMMA PendingAt ==
    ASSUME IInv, NEW k \in 1 .. Len(order)
    PROVE  /\ cur[depth] = order[k] =>
                 /\ Top \in {"exec_run", "clear_free"} => PendingSteps = SubSeq(order, 1, k)
                 /\ Top = "exec_free" => PendingSteps = SubSeq(order, 1, k - 1)
           /\ UNCHANGED order /\ cur'[depth'] = order[k] =>
                 /\ Top' \in {"exec_run", "clear_free"} => PendingSteps' = SubSeq(order, 1, k)
                 /\ Top' = "exec_free" => PendingSteps' = SubSeq(order, 1, k - 1)
<1>1. UpTo(order[k], 0) = SubSeq(order, 1, k) /\ UpTo(order[k], 1) = SubSeq(order, 1, k - 1)
  BY UpToPosition
<1>2. cur[depth] = order[k] =>
        UpTo(cur[depth], 0) = UpTo(order[k], 0) /\ UpTo(cur[depth], 1) = UpTo(order[k], 1)
  OBVIOUS
<1>3. ASSUME UNCHANGED order, cur'[depth'] = order[k]
      PROVE  UpTo(cur[depth], 0)' = SubSeq(order, 1, k) /\ UpTo(cur[depth], 1)' = SubSeq(order, 1, k - 1)
  BY <1>1, <1>3 DEF UpTo
<1> QED BY <1>1, <1>2, <1>3, PendingOf DEF PendingFacts

(* A step of the running program that interrupts no walk. *)
Sound == IInv /\ Running /\ ~WalkInterrupted /\ ~WalkInterrupted'

(* The log is open, and stays so unless the process goes. *)
LEMMA OpenLog ==
    ASSUME Sound
    PROVE  /\ AbstractMode = "open"
           /\ UNCHANGED status => UNCHANGED AbstractMode
           /\ status' = "exited" => AbstractMode' = "ended"
           /\ status' = "killed" => AbstractMode' = "killed"
  BY ModeOf DEF ModeFacts, Sound, Running

(* A step that leaves what is pending alone is invisible to the callers.   *)
LEMMA Invisible ==
    ASSUME Sound, UNCHANGED <<PendingSteps, attempts, status>>
    PROVE  UNCHANGED Abstract
  BY OpenLog DEF Abstract, TriedSteps

(* Installing the handlers, linking a node and calling a walk register and undo nothing. *)
LEMMA CallsInvisible ==
    ASSUME Sound, SetErrorHandler \/ ExecCall \/ \E s \in Steps : AddLink(s)
    PROVE  UNCHANGED Abstract
<1>1. /\ depth = 0 /\ depth' = 0 /\ Top = "idle" /\ pc[0] = "idle"
      /\ UNCHANGED <<order, attempts, status>>
  BY DEF SetErrorHandler, ExecCall, AddLink, Top, stackVars, histVars
<1>2. Top' \in {"idle", "exec_start", "add_push"} /\ pc'[0] = Top'
  <2>1. 0 \in Levels
    BY StackAssumption DEF Levels
  <2>2. CASE SetErrorHandler
    BY <1>1, <2>2 DEF SetErrorHandler, Top
  <2>3. CASE ExecCall
    BY <1>1, <2>1, <2>3 DEF ExecCall, Goto, Top, Sound, IInv, TypeOK
  <2>4. ASSUME NEW s \in Steps, AddLink(s) PROVE Top' = "add_push" /\ pc'[0] = Top'
    BY <1>1, <2>1, <2>4 DEF AddLink, Goto, Top, Sound, IInv, TypeOK
  <2> QED BY <2>2, <2>3, <2>4
<1>3. PendingSteps = order /\ PendingSteps' = order
  BY <1>1, <1>2, PendingOf DEF PendingFacts
<1> QED BY <1>1, <1>3, Invisible

(* The push is not visible before it is counted.                           *)
LEMMA PushInvisible ==
    ASSUME Sound, IInv', AddPush
    PROVE  UNCHANGED Abstract
<1>1. /\ Top = "add_push" /\ depth = 0 /\ depth' = 0 /\ pc[0] = "add_push"
      /\ cur[0] \in Steps /\ order \in Seq(Steps)
      /\ order' = Append(order, cur[0])
      /\ UNCHANGED <<attempts, status>>
  BY DEF AddPush, Sound, IInv, FrameShape, TypeOK, Top
<1>2. Top' = "add_count" /\ pc'[0] = "add_count"
  BY <1>1, StackAssumption DEF AddPush, Goto, Top, Sound, IInv, TypeOK, Levels
<1>3. PendingSteps = order
  BY <1>1, PendingOf DEF PendingFacts
<1>4. PendingSteps' = SubSeq(order', 1, Len(order') - 1)
  BY <1>2, PendingOf DEF PendingFacts
<1>5. PendingSteps' = order
  BY <1>1, <1>4, AppendPrefix
<1> QED BY <1>1, <1>3, <1>5, Invisible

(* add_rollback_step returning 0 records its step.                         *)
LEMMA CountRecords ==
    ASSUME Sound, AddCount
    PROVE  Log!Record
<1>1. /\ Top = "add_count" /\ depth = 0 /\ depth' = 0 /\ pc[0] = "add_count"
      /\ order # <<>> /\ order \in Seq(Steps)
      /\ UNCHANGED <<attempts, status, order>>
  BY DEF AddCount, Sound, IInv, FrameShape, TypeOK, Top
<1>2. Top' = "idle" /\ pc'[0] = "idle"
  BY <1>1, StackAssumption DEF AddCount, Goto, Top, Sound, IInv, TypeOK, Levels
<1>3. PendingSteps = SubSeq(order, 1, Len(order) - 1) /\ PendingSteps' = order
  BY <1>1, <1>2, PendingOf DEF PendingFacts
<1>4. order[Len(order)] \in Steps
  BY <1>1
<1>5. PendingSteps' = Append(PendingSteps, order[Len(order)])
  BY <1>1, <1>3, Prefixes
<1>6. UNCHANGED <<TriedSteps, AbstractMode>>
  BY <1>1, OpenLog DEF TriedSteps
<1> QED BY <1>4, <1>5, <1>6 DEF Log!Record, TriedSteps

(* Where the head of the list stands. *)
LEMMA HeadOf ==
    ASSUME IInv
    PROVE  /\ order \in Seq(Steps) /\ Len(order) \in Nat
           /\ head = NULL <=> order = <<>>
           /\ order # <<>> => Len(order) \in 1 .. Len(order) /\ head = order[Len(order)]
<1>1. order \in Seq(Steps)
  BY DEF IInv, TypeOK
<1>2. order # <<>> => Len(order) \in 1 .. Len(order) /\ order[Len(order)] \in Steps
  BY <1>1
<1> QED BY <1>1, <1>2, StackAssumption DEF IInv, ListShape

(* execute_rollback starting makes a step that is being pushed visible,    *)
(* or changes nothing.                                                     *)
LEMMA StartShows ==
    ASSUME Sound, ExecStart
    PROVE  Log!Record \/ UNCHANGED Abstract
<1> DEFINE all == IF pc[0] = "add_count" THEN SubSeq(order, 1, Len(order) - 1) ELSE order
<1>1. /\ Top = "exec_start" /\ IInv /\ depth \in Levels /\ 0 \in Levels
      /\ UNCHANGED <<order, attempts, depth>> /\ order \in Seq(Steps) /\ Len(order) \in Nat
      /\ UNCHANGED TriedSteps
  BY HeadOf, StackAssumption DEF ExecStart, ExecStartAt, Return, stackVars, histVars, Sound, IInv, TypeOK, Levels, TriedSteps
<1>2. PendingSteps = all
  BY <1>1, PendingOf DEF PendingFacts
<1>3. CASE count <= 0
  <2>1. PendingSteps = <<>>
    <3>1. count = 0
      BY <1>1, <1>3 DEF IInv, TypeOK
    <3>2. CASE order = <<>>
      BY <1>1, <1>2, <3>2, Prefixes
    <3>3. CASE pc[0] = "add_count" /\ Len(order) = 1
      BY <1>1, <1>2, <3>3, Prefixes
    <3>4. order = <<>> \/ (pc[0] = "add_count" /\ Len(order) = 1)
      BY <1>1, <3>1 DEF IInv, CountMatches
    <3> QED BY <3>2, <3>3, <3>4
  <2>2. CASE depth = 0
    <3>1. Top' = "idle" /\ pc'[0] = "idle" /\ pc[0] = "exec_start" /\ UNCHANGED status
      BY <1>1, <1>3, <2>2 DEF ExecStart, ExecStartAt, Return, Goto, Top, IInv, TypeOK
    <3>2. PendingSteps = order /\ PendingSteps' = order
      BY <1>1, <1>2, <3>1, PendingOf DEF PendingFacts
    <3> QED BY <1>1, <3>1, <3>2, Invisible
  <2>3. CASE depth # 0
    <3>1. Top' = "leave" /\ UNCHANGED status /\ pc'[0] = pc[0]
      BY <1>1, <1>3, <2>3 DEF ExecStart, ExecStartAt, Return, Goto, Top, IInv, TypeOK
    <3>2. PendingSteps' = all
      BY <1>1, <3>1, PendingOf DEF PendingFacts
    <3> QED BY <1>1, <1>2, <3>1, <3>2, Invisible
  <2> QED BY <2>2, <2>3
<1>4. CASE ~(count <= 0)
  <2>1. /\ UNCHANGED status /\ cur'[depth'] = head
        /\ Top' = IF head = NULL THEN "reset_head" ELSE "exec_run"
    BY <1>1, <1>4 DEF ExecStart, ExecStartAt, Goto, Top, IInv, TypeOK
  <2>2. CASE order = <<>>
    <3>1. PendingSteps = <<>>
      BY <1>1, <1>2, <2>2, Prefixes
    <3>2. PendingSteps' = <<>>
      BY <1>1, <2>1, <2>2, HeadOf, PendingOf DEF PendingFacts
    <3> QED BY <1>1, <2>1, <3>1, <3>2, Invisible
  <2>3. CASE order # <<>>
    <3>1. /\ Len(order) \in 1 .. Len(order) /\ Top' = "exec_run"
          /\ cur'[depth'] = order[Len(order)]
      BY <1>1, <2>1, <2>3, HeadOf
    <3>2. PendingSteps' = SubSeq(order, 1, Len(order))
      BY <1>1, <3>1, PendingAt
    <3>3. PendingSteps' = order
      BY <1>1, <3>2, Prefixes
    <3>4. CASE pc[0] # "add_count"
      <4>1. UNCHANGED PendingSteps
        BY <1>2, <3>3, <3>4
      <4> QED BY <1>1, <2>1, <4>1, Invisible
    <3>5. CASE pc[0] = "add_count"
      <4>1. PendingSteps' = Append(PendingSteps, order[Len(order)])
        BY <1>1, <1>2, <2>3, <3>3, <3>5, Prefixes
      <4>2. order[Len(order)] \in Steps
        BY <1>1, <3>1
      <4>3. UNCHANGED AbstractMode
        BY <2>1, OpenLog
      <4> QED BY <1>1, <4>1, <4>2, <4>3 DEF Log!Record, TriedSteps
    <3> QED BY <3>4, <3>5
  <2> QED BY <2>2, <2>3
<1> QED BY <1>3, <1>4

(* While no walk is interrupted the node visited is live and untried.      *)
LEMMA VisitedLive ==
    ASSUME Sound, Walking
    PROVE  \E k \in 1 .. Len(order) :
              /\ order[k] = cur[depth] /\ cur[depth] \in Steps
              /\ next[cur[depth]] = IF k = 1 THEN NULL ELSE order[k - 1]
              /\ heap[cur[depth]] = "live"
              /\ Top = "exec_run" => attempts[cur[depth]] = 0
<1>1. IInv
  BY DEF Sound
<1>2. PICK k \in 1 .. Len(order) :
        /\ order[k] = cur[depth]
        /\ cur[depth] \in Steps
        /\ Ahead = 1 .. k
        /\ next[cur[depth]] = IF k = 1 THEN NULL ELSE order[k - 1]
  BY <1>1, WalkPosition
<1>3. k \in Ahead
  BY <1>1, <1>2 DEF IInv, TypeOK
<1>4. /\ heap[order[k]] = "live"
      /\ attempts[order[k]] = 0 \/ Top = "exec_free"
  BY <1>1, <1>3 DEF Sound, IInv, AheadLive
<1> QED BY <1>2, <1>4

(* Running the action of a node undoes the newest pending step, which was  *)
(* never tried before.                                                     *)
LEMMA RunUndoes ==
    ASSUME Sound, ExecRun
    PROVE  Log!Undo
<1>1. Walking /\ Top = "exec_run"
  BY DEF ExecRun, Walking
<1>2. PICK k \in 1 .. Len(order) :
        /\ order[k] = cur[depth] /\ cur[depth] \in Steps
        /\ heap[cur[depth]] = "live"
        /\ attempts[cur[depth]] = 0
  BY <1>1, VisitedLive
<1>3. /\ IInv /\ order \in Seq(Steps) /\ k \in Nat /\ depth \in Levels
      /\ pc \in [Levels -> Pcs] /\ attempts \in [Steps -> 0 .. 2]
  BY <1>2 DEF Sound, IInv, TypeOK
<1>4. /\ Attempt(cur[depth]) /\ Goto("exec_free")
      /\ UNCHANGED <<depth, status, order, cur>>
  BY <1>2 DEF ExecRun
<1>5. Top' = "exec_free" /\ cur'[depth'] = order[k]
  BY <1>2, <1>3, <1>4 DEF Goto, Top
<1>6. PendingSteps = SubSeq(order, 1, k) /\ PendingSteps' = SubSeq(order, 1, k - 1)
  BY <1>1, <1>2, <1>3, <1>4, <1>5, PendingAt
<1>7. /\ Len(PendingSteps) = k /\ PendingSteps # <<>>
      /\ PendingSteps[k] = cur[depth]
      /\ PendingSteps' = SubSeq(PendingSteps, 1, k - 1)
  BY <1>2, <1>3, <1>6, Prefixes
<1>8. attempts' = [attempts EXCEPT ![cur[depth]] = 1]
  BY <1>2, <1>3, <1>4 DEF Attempt
<1>9. cur[depth] \notin TriedSteps
  BY <1>2 DEF TriedSteps
<1>10. TriedSteps' = TriedSteps \union {cur[depth]}
  BY <1>2, <1>3, <1>8 DEF TriedSteps
<1>11. UNCHANGED AbstractMode
  BY <1>4, OpenLog
<1> QED BY <1>7, <1>9, <1>10, <1>11 DEF Log!Undo, TriedSteps

(* Freeing a node leaves pending the nodes before it.                      *)
LEMMA FreeLeaves ==
    ASSUME Sound, NEW more \in {"exec_run", "clear_free"}, FreeTo(more), UNCHANGED order,
           NEW k \in 1 .. Len(order), next[cur[depth]] = IF k = 1 THEN NULL ELSE order[k - 1]
    PROVE  PendingSteps' = SubSeq(order, 1, k - 1)
<1>1. /\ IInv /\ order \in Seq(Steps) /\ k \in Nat /\ depth \in Levels /\ depth' = depth
      /\ pc \in [Levels -> Pcs] /\ cur \in [Levels -> Steps \union {NULL}]
  BY DEF Sound, IInv, TypeOK, FreeTo
<1>2. CASE k = 1
  <2>1. Top' = "reset_head"
    BY <1>1, <1>2 DEF FreeTo, Goto, Top
  <2>2. SubSeq(order, 1, k - 1) = <<>>
    BY <1>1, <1>2, Prefixes
  <2> QED BY <2>1, <2>2, PendingOf DEF PendingFacts
<1>3. CASE k # 1
  <2>1. k - 1 \in 1 .. Len(order) /\ order[k - 1] \in Steps
    BY <1>1, <1>3
  <2>2. Top' = more /\ cur'[depth'] = order[k - 1]
    BY <1>1, <1>3, <2>1, StackAssumption DEF FreeTo, Goto, Top
  <2> QED BY <1>1, <2>1, <2>2, PendingAt
<1> QED BY <1>2, <1>3

(* execute_rollback's free comes after its undo and changes nothing more.  *)
LEMMA FreeInvisible ==
    ASSUME Sound, ExecFree
    PROVE  UNCHANGED Abstract
<1>1. Walking /\ Top = "exec_free" /\ IInv
  BY DEF ExecFree, Walking, Sound
<1>2. PICK k \in 1 .. Len(order) :
        /\ order[k] = cur[depth] /\ cur[depth] \in Steps
        /\ next[cur[depth]] = IF k = 1 THEN NULL ELSE order[k - 1]
        /\ heap[cur[depth]] = "live"
  BY <1>1, VisitedLive
<1>3. FreeTo("exec_run") /\ UNCHANGED <<order, attempts, status>>
  BY <1>2 DEF ExecFree, FreeTo
<1>4. PendingSteps = SubSeq(order, 1, k - 1)
  BY <1>1, <1>2, PendingAt
<1>5. PendingSteps' = SubSeq(order, 1, k - 1)
  BY <1>2, <1>3, FreeLeaves
<1> QED BY <1>3, <1>4, <1>5, Invisible

(* clear_rollback_stack discards the newest pending step.                  *)
LEMMA ClearDiscards ==
    ASSUME Sound, ClearFree
    PROVE  Log!Discard
<1>1. Walking /\ Top = "clear_free" /\ IInv /\ order \in Seq(Steps)
  BY DEF ClearFree, Walking, Sound, IInv, TypeOK
<1>2. PICK k \in 1 .. Len(order) :
        /\ order[k] = cur[depth] /\ cur[depth] \in Steps
        /\ next[cur[depth]] = IF k = 1 THEN NULL ELSE order[k - 1]
  BY <1>1, VisitedLive
<1>3. FreeTo("clear_free") /\ UNCHANGED <<order, attempts, status>>
  BY DEF ClearFree, FreeTo
<1>4. PendingSteps = SubSeq(order, 1, k)
  BY <1>1, <1>2, PendingAt
<1>5. PendingSteps' = SubSeq(order, 1, k - 1)
  BY <1>2, <1>3, FreeLeaves
<1>6. /\ Len(PendingSteps) = k /\ PendingSteps # <<>>
      /\ PendingSteps' = SubSeq(PendingSteps, 1, k - 1)
  BY <1>1, <1>2, <1>4, <1>5, Prefixes
<1>7. UNCHANGED <<TriedSteps, AbstractMode>>
  BY <1>3, OpenLog DEF TriedSteps
<1> QED BY <1>6, <1>7 DEF Log!Discard, TriedSteps

(* clear_rollback_stack starts on the whole list.                          *)
LEMMA ClearInvisible ==
    ASSUME Sound, ClearCall
    PROVE  UNCHANGED Abstract
<1>1. /\ IInv /\ depth = 0 /\ depth' = 0 /\ Top = "idle" /\ pc[0] = "idle" /\ 0 \in Levels
      /\ UNCHANGED <<order, attempts, status>> /\ order \in Seq(Steps)
      /\ pc \in [Levels -> Pcs] /\ cur \in [Levels -> Steps \union {NULL}]
  BY StackAssumption DEF ClearCall, Top, stackVars, histVars, Sound, IInv, TypeOK, Levels
<1>2. Top' = (IF head = NULL THEN "reset_head" ELSE "clear_free") /\ cur'[depth'] = head
  BY <1>1 DEF ClearCall, Goto, Top
<1>3. PendingSteps = order
  BY <1>1, PendingOf DEF PendingFacts
<1>4. CASE order = <<>>
  <2>1. PendingSteps' = <<>>
    BY <1>1, <1>2, <1>4, HeadOf, PendingOf DEF PendingFacts
  <2> QED BY <1>1, <1>3, <1>4, <2>1, Invisible
<1>5. CASE order # <<>>
  <2>1. /\ Len(order) \in 1 .. Len(order) /\ Top' = "clear_free"
        /\ cur'[depth'] = order[Len(order)]
    BY <1>1, <1>2, <1>5, HeadOf
  <2>2. PendingSteps' = SubSeq(order, 1, Len(order))
    BY <1>1, <2>1, PendingAt
  <2>3. PendingSteps' = order
    BY <1>1, <2>2, Prefixes
  <2> QED BY <1>1, <1>3, <2>3, Invisible
<1> QED BY <1>4, <1>5

(* Nothing is pending any more at the resets of a walk.                    *)
LEMMA ResetsInvisible ==
    ASSUME Sound, ResetHead \/ ResetCount
    PROVE  UNCHANGED Abstract
<1>1. /\ IInv /\ depth \in Levels /\ pc \in [Levels -> Pcs] /\ UNCHANGED <<depth, attempts, status>>
      /\ Top \in {"reset_head", "reset_count"}
  BY DEF ResetHead, ResetCount, Return, histVars, Sound, IInv, TypeOK
<1>2. PendingSteps = <<>>
  BY <1>1, PendingOf DEF PendingFacts
<1>3. CASE ResetHead
  <2>1. Top' = "reset_count"
    BY <1>1, <1>3 DEF ResetHead, Goto, Top
  <2>2. PendingSteps' = <<>>
    BY <2>1, PendingOf DEF PendingFacts
  <2> QED BY <1>1, <1>2, <2>2, Invisible
<1>4. CASE ResetCount
  <2>1. Top' \in {"idle", "leave"} /\ UNCHANGED order /\ order = <<>>
    BY <1>1, <1>4 DEF ResetCount, Return, Goto, Top, histVars, IInv, WalkShape
  <2>2. SubSeq(order, 1, Len(order) - 1) = <<>>
    BY <2>1
  <2>3. PendingSteps' = <<>>
    BY <2>1, <2>2, PendingOf DEF PendingFacts
  <2> QED BY <1>1, <1>2, <2>3, Invisible
<1> QED BY <1>3, <1>4

(* exit(1) of a handler finds nothing pending.                             *)
LEMMA LeaveFinishes ==
    ASSUME Sound, Leave
    PROVE  Log!Finish
<1>1. /\ IInv /\ Top = "leave" /\ count = 0 /\ order \in Seq(Steps) /\ Len(order) \in Nat
      /\ UNCHANGED <<pc, cur, depth, order, attempts>> /\ status' = "exited"
  BY DEF Leave, stackVars, histVars, Sound, IInv, FrameShape, TypeOK
<1>2. PendingSteps = IF pc[0] = "add_count" THEN SubSeq(order, 1, Len(order) - 1) ELSE order
  BY <1>1, PendingOf DEF PendingFacts
<1>3. order = <<>> \/ (pc[0] = "add_count" /\ Len(order) = 1)
  BY <1>1 DEF IInv, CountMatches
<1>4. PendingSteps = <<>>
  <2>1. CASE order = <<>>
    BY <1>1, <1>2, <2>1, Prefixes
  <2>2. CASE pc[0] = "add_count" /\ Len(order) = 1
    <3>1. PendingSteps = SubSeq(order, 1, 0)
      BY <1>2, <2>2
    <3> QED BY <1>1, <3>1, Prefixes
  <2> QED BY <1>3, <2>1, <2>2
<1>5. UNCHANGED PendingSteps
  BY <1>1 DEF PendingSteps, UpTo, Top
<1>6. AbstractMode' = "ended"
  BY <1>1, OpenLog
<1> QED BY <1>1, <1>4, <1>5, <1>6 DEF Log!Finish, TriedSteps

(* A signal that interrupts no walk starts a handler that sees the same    *)
(* pending steps, or kills the process.                                    *)
LEMMA SignalKills ==
    ASSUME Sound, NEW f \in Signals, Signal(f)
    PROVE  Log!Kill \/ UNCHANGED Abstract
<1>1. /\ IInv /\ depth \in Levels /\ pc \in [Levels -> Pcs]
      /\ UNCHANGED <<order, attempts, cur>> /\ order \in Seq(Steps)
  BY DEF Signal, stackVars, histVars, Sound, IInv, TypeOK
<1>2. CASE installed
  <2>1. /\ UNCHANGED status /\ depth' = depth + 1 /\ depth \in Nat
        /\ depth + 1 \in Levels /\ pc' = [pc EXCEPT ![depth + 1] = "exec_start"]
    BY <1>1, <1>2, StackAssumption DEF Signal, Enter, Levels
  <2>2. Top' = "exec_start" /\ pc'[0] = pc[0] /\ pc'[depth] = pc[depth] /\ depth \in 0 .. depth' - 1
    BY <1>1, <2>1 DEF Top
  <2>3. Top \notin WalkPcs
    BY <2>2 DEF Sound, WalkInterrupted, Top
  <2>4. PendingSteps' = IF pc[0] = "add_count" THEN SubSeq(order, 1, Len(order) - 1) ELSE order
    BY <1>1, <2>2, PendingOf DEF PendingFacts
  <2>5. CASE Top = "reset_count"
    <3>1. order = <<>> /\ PendingSteps = <<>>
      BY <1>1, <2>5, PendingOf DEF PendingFacts, IInv, WalkShape
    <3>2. PendingSteps' = <<>>
      BY <1>1, <2>4, <3>1, Prefixes
    <3> QED BY <1>1, <2>1, <3>1, <3>2, Invisible
  <2>6. CASE Top # "reset_count"
    <3>1. Top \in {"idle", "add_push", "add_count", "exec_start", "leave"}
      <4>1. Top \in Pcs
        BY <1>1 DEF Top
      <4> QED BY <2>3, <2>6, <4>1 DEF Pcs, WalkPcs
    <3>2. UNCHANGED PendingSteps
      BY <2>4, <3>1, PendingOf DEF PendingFacts
    <3> QED BY <1>1, <2>1, <3>2, Invisible
  <2> QED BY <2>5, <2>6
<1>3. CASE ~installed
  <2>1. status' = "killed" /\ UNCHANGED <<pc, depth, cur, order>>
    BY <1>1, <1>3 DEF Signal, Killed
  <2>2. UNCHANGED PendingSteps
    BY <2>1 DEF PendingSteps, UpTo, Top
  <2>3. AbstractMode' = "killed"
    BY <2>1, OpenLog
  <2> QED BY <1>1, <2>2, <2>3 DEF Log!Kill, TriedSteps
<1> QED BY <1>2, <1>3

(* Every step of error_handler.c is a step of the undo log, or invisible.  *)
LEMMA StepImplements ==
    ASSUME IInv, IInv', [Next]_vars
    PROVE  Log!Next \/ UNCHANGED <<PendingSteps, {s \in Steps : attempts[s] > 0}, AbstractMode>>
<1>1. CASE UNCHANGED vars
  BY <1>1 DEF vars, stackVars, frameVars, histVars, PendingSteps, AbstractMode, UpTo, Top, WalkInterrupted
<1>2. CASE Next /\ WalkInterrupted'
  BY <1>2, ModeOf DEF ModeFacts, Log!Next, Log!Undefined
<1>3. CASE Next /\ ~WalkInterrupted'
  <2>1. Running /\ ~WalkInterrupted
    <3>1. Running
      BY <1>3 DEF Next, Continue, SetErrorHandler, ExecCall, ClearCall, AddLink, Signal, AddPush,
         AddCount, ExecStart, ExecStartAt, ExecRun, ExecFree, ResetHead, ResetCount, ClearFree, Leave
    <3> QED BY <1>3, <3>1, InterruptedForGood
  <2>2. Sound /\ AbstractMode = "open"
    BY <1>3, <2>1, OpenLog DEF Sound
  <2>3. \/ Log!Record \/ Log!Undo \/ Log!Discard \/ Log!Finish \/ Log!Kill
        \/ UNCHANGED Abstract
    BY <1>3, <2>2, CallsInvisible, PushInvisible, CountRecords, StartShows, RunUndoes, FreeInvisible,
       ClearDiscards, ClearInvisible, ResetsInvisible, LeaveFinishes, SignalKills DEF Next, Continue
  <2> QED BY <2>2, <2>3 DEF Log!Next, Abstract, TriedSteps
<1> QED BY <1>1, <1>2, <1>3

(* The rollback stack of error_handler.c implements the undo log: its      *)
(* steps are undone at most once, newest first, and a handler leaves with  *)
(* nothing pending, until a signal interrupts a walk over the list.        *)
THEOREM ImplementsLog == Spec => ImplementsUndoLog
<1>1. Init => Log!Init
  <2> SUFFICES ASSUME Init PROVE Log!Init
    OBVIOUS
  <2>1. Top = "idle" /\ pc[0] = "idle" /\ order = <<>> /\ depth = 0 /\ status = "running"
    BY StackAssumption DEF Init, Top, Levels
  <2>2. PendingSteps = <<>>
    BY <2>1, PendingOf DEF PendingFacts
  <2>3. AbstractMode = "open"
    BY <2>1, ModeOf DEF ModeFacts, WalkInterrupted
  <2>4. {s \in Steps : attempts[s] > 0} = {}
    BY DEF Init
  <2> QED BY <2>2, <2>3, <2>4 DEF Log!Init
<1>2. IInv /\ IInv' /\ [Next]_vars =>
        [Log!Next]_<<PendingSteps, {s \in Steps : attempts[s] > 0}, AbstractMode>>
  BY StepImplements
<1> QED BY <1>1, <1>2, InvariantHolds, PTL DEF Spec, ImplementsUndoLog, Log!Spec
=============================================================================
