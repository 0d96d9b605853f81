------------------------- MODULE KernelInstallProofs -------------------------
(***************************************************************************)
(* For every set of kernels and number of runs and calls: what             *)
(* kernel_install.c and kernel_rollback.c leave in /boot and in the menu,  *)
(* whatever the children of the program and the orphans of earlier runs    *)
(* do, and whichever signal or failing call comes between two steps.       *)
(***************************************************************************)
EXTENDS KernelInstall, TLAPS

Installing == {"access", "deps", "mkdir", "cp", "fork", "wait", "apply"}

(* What each statement of the two calls takes for granted. *)
CallShape ==
    /\ run \in Runs
    /\ ignored \in BOOLEAN /\ success \in BOOLEAN /\ strayed \in BOOLEAN /\ unlinked \in BOOLEAN
    /\ gutted \in BOOLEAN
    /\ pc \in Installing => op = "install"
    /\ pc \in {"unlink", "grub"} => op = "remove" /\ victim \in Kernels
    /\ pc = "dead" => op = None
    /\ pc \in {"access", "deps", "mkdir", "cp"} => step = 1
    /\ pc \in {"fork", "wait"} => step <= LastStep
    /\ pc = "apply" => step = LastStep + 1
    /\ pc = "unlink" => step <= Len(Parts)
    /\ pc = "grub" => step = Len(Parts)
    /\ pc \in {"mkdir", "cp", "fork", "wait", "apply"} => ~ignored

(* The program has a child exactly while it waits for one; the runs to     *)
(* come have none.                                                         *)
ChildShape ==
    /\ \A r \in Runs : r > run => child[r].state = "none"
    /\ pc \notin {"wait", "dead"} => child[run].state = "none"
    /\ pc = "wait" => child[run].step = step /\ child[run].state # "none"
    /\ pc = "wait" /\ child[run].state = "ok" => child[run].done = Len(Work(step))
    /\ \A r \in Runs : child[r].done <= Len(Work(child[r].step))

(* What the steps so far, and the child of the present one, have put on    *)
(* the disk.                                                               *)
Complete ==
    /\ {"vmlinuz", "support"} \subseteq boot[New] /\ New \in menu
    /\ ~strayed => "modules" \in boot[New]

InstallProgress ==
    /\ pc \in {"fork", "wait"} /\ step = 5 /\ ~strayed => "modules" \in boot[New]
    /\ pc = "wait" /\ step = 4 /\ child[run].done >= 2 /\ ~strayed => "modules" \in boot[New]
    /\ pc = "wait" /\ step = 5 =>
          /\ child[run].done >= 1 => "vmlinuz" \in boot[New]
          /\ child[run].done >= 2 => "support" \in boot[New]
          /\ child[run].done >= 3 => New \in menu
    /\ pc = "apply" => Complete

(* The backup comes before the first step that can change the menu. *)
BackupShape ==
    ~strayed =>
        /\ pc \in {"access", "deps", "mkdir", "cp"} => menu = before.menu
        /\ pc = "cp" => backup = DirOnly
        /\ pc \in {"fork", "wait", "apply"} => backup \in {DirOnly, before.menu}

(* After the image the removal knows whether it is gone. *)
RemovalShape ==
    (pc = "grub" \/ (pc = "unlink" /\ step > 1)) /\ ~strayed /\ (success \/ unlinked) =>
        "vmlinuz" \notin boot[victim]

Base == TypeOK /\ CallShape /\ ChildShape

-----------------------------------------------------------------------------
(* The files of a kernel, one by one. *)
LEMMA PartsFacts ==
    /\ Len(Parts) = 3 /\ ToSet(Parts) = {"vmlinuz", "support", "modules"}
    /\ Parts[1] = "vmlinuz" /\ Parts[2] = "support" /\ Parts[3] = "modules"
<1>1. DOMAIN Parts = 1 .. 3
  BY DEF Parts
<1> QED BY <1>1 DEF Parts, ToSet

(* The files each make step puts on the disk, one by one. *)
LEMMA WorkFacts ==
    ASSUME NEW s \in 0 .. LastStep
    PROVE  /\ Len(Work(s)) = IF s = 4 THEN 2 ELSE IF s = 5 THEN 3 ELSE 0
           /\ s = 4 => Work(s)[1] = "clear" /\ Work(s)[2] = "modules"
           /\ s = 5 => Work(s)[1] = "vmlinuz" /\ Work(s)[2] = "support" /\ Work(s)[3] = "menu"
<1>1. CASE s = 4
  BY <1>1 DEF Work
<1>2. CASE s = 5
  BY <1>2 DEF Work
<1>3. CASE s # 4 /\ s # 5
  BY <1>3 DEF Work
<1> QED BY <1>1, <1>2, <1>3

(* What a child puts on the disk next is a file of a kernel or the menu. *)
LEMMA NextPart ==
    ASSUME NEW s \in 0 .. LastStep, NEW i \in Nat, i < Len(Work(s))
    PROVE  /\ i + 1 \in 1 .. 3 /\ i + 1 <= Len(Work(s))
           /\ Work(s)[i + 1] \in ToSet(Parts) \union {"menu", "clear"}
<1>0. /\ Len(Work(s)) = IF s = 4 THEN 2 ELSE IF s = 5 THEN 3 ELSE 0
      /\ s = 4 => Work(s)[1] = "clear" /\ Work(s)[2] = "modules"
      /\ s = 5 => Work(s)[1] = "vmlinuz" /\ Work(s)[2] = "support" /\ Work(s)[3] = "menu"
  BY WorkFacts
<1>1. CASE s = 4
  <2>0. Len(Work(s)) = 2
    BY <1>1, <1>0
  <2>1. i + 1 = 1 \/ i + 1 = 2
    BY <2>0
  <2>2. Work(s)[1] = "clear" /\ Work(s)[2] = "modules"
    BY <1>1, <1>0
  <2>3. i + 1 \in 1 .. 3 /\ i + 1 <= Len(Work(s))
    BY <2>0, <2>1
  <2> QED BY <2>1, <2>2, <2>3, PartsFacts
<1>2. CASE s = 5
  <2>0. Len(Work(s)) = 3
    BY <1>2, <1>0
  <2>1. i = 0 \/ i = 1 \/ i = 2
    BY <2>0
  <2>2. /\ Len(Work(s)) = 3
        /\ Work(s)[1] = "vmlinuz" /\ Work(s)[2] = "support" /\ Work(s)[3] = "menu"
    BY <1>2, <1>0
  <2>3. i + 1 = 1 \/ i + 1 = 2 \/ i + 1 = 3
    BY <2>1
  <2>4. i + 1 \in 1 .. 3 /\ i + 1 <= Len(Work(s))
    BY <2>2, <2>3
  <2> QED BY <2>2, <2>3, <2>4, PartsFacts
<1>3. s = 4 \/ s = 5
  BY <1>0
<1> QED BY <1>1, <1>2, <1>3

(* The child records. *)
Children == [step : 0 .. LastStep, done : 0 .. 3, state : {"none", "running", "ok", "failed"}]

(* A child that has just been forked or waited for is a child. *)
LEMMA NewChildren ==
    /\ NoChild \in Children
    /\ \A s \in 0 .. LastStep : [step |-> s, done |-> 0, state |-> "running"] \in Children
  BY DEF NoChild, Children, LastStep

-----------------------------------------------------------------------------
(* The parent's half of a fork. *)
LEMMA ForkBase == ASSUME Base, NEW ok \in BOOLEAN, Fork(ok) PROVE Base'
<1>1. CASE ~ok
  BY <1>1 DEF Fork, ForkStep, Return, Local, worldVars, Base, TypeOK, CallShape, ChildShape,
              Installing, LastStep
<1>2. CASE ok
  <2> DEFINE c == [step |-> step, done |-> 0, state |-> "running"]
  <2>1. /\ step \in 1 .. 5 /\ run \in Runs /\ child \in [Runs -> Children]
    BY DEF Base, TypeOK, CallShape, Children, LastStep, Fork, ForkStep
  <2>2. c \in Children /\ c.step = step /\ c.done = 0 /\ c.state = "running"
    BY <2>1, NewChildren DEF LastStep
  <2>3. child' = [child EXCEPT ![run] = c] /\ pc = "fork" /\ pc' = "wait"
        /\ UNCHANGED <<result, step, success, op, victim, calls, ignored, run, before, backup,
                       tree, boot, menu, strayed, unlinked, gutted>>
    BY <1>2 DEF Fork, ForkStep, Goto, Local, worldVars
  <2> HIDE DEF c
  <2>4. /\ child' \in [Runs -> Children] /\ child'[run] = c
        /\ \A r \in Runs : r # run => child'[r] = child[r]
    BY <2>1, <2>2, <2>3
  <2>5. TypeOK'
    BY <2>3, <2>4 DEF Base, TypeOK, Children
  <2>6. CallShape'
    BY <2>3 DEF Base, CallShape, Installing
  <2>7. ChildShape'
    <3>1. 0 <= Len(Work(step))
      BY <2>1, WorkFacts DEF LastStep
    <3> QED BY <2>1, <2>2, <2>3, <2>4, <3>1 DEF Base, ChildShape, Runs
  <2> QED BY <2>5, <2>6, <2>7 DEF Base
<1> QED BY <1>1, <1>2

(* waitpid, and the end of the child it waited for. *)
LEMMA WaitBase == ASSUME Base, Wait PROVE Base'
<1>1. /\ step \in 1 .. 5 /\ run \in Runs /\ child \in [Runs -> Children]
  BY DEF Base, TypeOK, CallShape, Children, LastStep, Wait, WaitFor
<1>2. NoChild \in Children /\ NoChild.step = 0 /\ NoChild.done = 0 /\ NoChild.state = "none"
  BY NewChildren DEF NoChild
<1>3. child' = [child EXCEPT ![run] = NoChild] /\ pc = "wait"
      /\ UNCHANGED <<op, victim, calls, ignored, run, before, backup, tree, boot, menu,
                     strayed, unlinked, gutted>>
  BY DEF Wait, WaitFor, Local, worldVars
<1>4. /\ child' \in [Runs -> Children] /\ child'[run] = NoChild
      /\ \A r \in Runs : r # run => child'[r] = child[r]
  BY <1>1, <1>2, <1>3
<1>5. \/ pc' = "idle" /\ result' = -1 /\ step' = 1 /\ success' = TRUE
      \/ /\ pc' \in {"apply", "fork"} /\ step' = step + 1 /\ (pc' = "apply" <=> step = 5)
         /\ UNCHANGED <<result, success>>
  BY DEF Wait, WaitFor, Return, NextStep, LastStep
<1>6. TypeOK'
  <2>1. result' \in {None, 0, -1} /\ step' \in 1 .. LastStep + 1
    BY <1>1, <1>5 DEF Base, TypeOK, LastStep
  <2> QED BY <1>3, <1>4, <1>5, <2>1 DEF Base, TypeOK, Children
<1>7. CallShape'
  <2>1. op = "install" /\ ~ignored
    BY <1>3 DEF Base, CallShape, Installing
  <2>2. success' \in BOOLEAN
    BY <1>5 DEF Base, CallShape
  <2>3. /\ pc' \in {"fork", "wait"} => step' <= 5
        /\ pc' = "apply" => step' = 6
        /\ pc' \in {"idle", "apply", "fork"}
    BY <1>1, <1>5
  <2>4. UNCHANGED <<op, ignored, run, strayed, unlinked, gutted>>
    BY <1>3
  <2> QED BY <2>1, <2>2, <2>3, <2>4 DEF Base, CallShape, LastStep
<1>8. ChildShape'
  <2>1. 0 <= Len(Work(0))
    BY WorkFacts DEF LastStep
  <2> QED BY <1>1, <1>2, <1>3, <1>4, <1>5, <2>1 DEF Base, ChildShape, Runs
<1> QED BY <1>6, <1>7, <1>8 DEF Base

(* The statements of the program keep the shape of its calls. *)
LEMMA ProgramBase ==
    ASSUME Base, Install \/ Removal
    PROVE  Base'
<1> USE InstallAssumption, PartsFacts, WorkFacts
    DEF Base, TypeOK, CallShape, ChildShape, Installing, Local, worldVars, LastStep, Runs
<1>1. CASE InstallCall
  BY <1>1 DEF InstallCall, Call
<1>2. ASSUME NEW ok \in BOOLEAN, CheckSource(ok) PROVE Base'
  BY <1>2, ZenonT(90) DEF CheckSource, Goto, Return
<1>3. ASSUME NEW ok \in BOOLEAN, CheckDependencies(ok) PROVE Base'
  BY <1>3, ZenonT(90) DEF CheckDependencies, Goto, Return
<1>4. ASSUME NEW ok \in BOOLEAN, BackupMkdir(ok) PROVE Base'
  BY <1>4, ZenonT(90) DEF BackupMkdir, Goto, Return
<1>5. ASSUME NEW ok \in BOOLEAN, BackupCopy(ok) PROVE Base'
  BY <1>5 DEF BackupCopy, Goto, Return
<1>6. ASSUME NEW ok \in BOOLEAN, Fork(ok) PROVE Base'
  BY <1>6, ForkBase
<1>7. CASE Wait
  BY <1>7, WaitBase
<1>8. ASSUME NEW ok \in BOOLEAN, Apply(ok) PROVE Base'
  BY <1>8 DEF Apply, Return
<1>9. ASSUME NEW k \in Kernels, RemoveCall(k) PROVE Base'
  BY <1>9 DEF RemoveCall, Call
<1>10. ASSUME NEW ok \in BOOLEAN, RemovePart(ok) PROVE Base'
  BY <1>10 DEF RemovePart, RemoveFrom
<1>11. ASSUME NEW ok \in BOOLEAN, RemoveGrub(ok) PROVE Base'
  BY <1>11 DEF RemoveGrub, Return, WithImage
<1> QED
  BY <1>1, <1>2, <1>3, <1>4, <1>5, <1>6, <1>7, <1>8, <1>9, <1>10, <1>11 DEF Install, Removal

(* The steps of the children, the ends of the program and its starts. *)
LEMMA OthersBase ==
    ASSUME Base, Child \/ Signal \/ Interrupt \/ Restart \/ UNCHANGED vars
    PROVE  Base'
<1>1. run \in Runs /\ child \in [Runs -> Children] /\ step \in 1 .. LastStep + 1
  BY DEF Base, TypeOK, CallShape, Children
<1>2. ASSUME NEW r \in Runs, ChildWork(r) PROVE Base'
  <2> DEFINE c == child[r]
             part == Work(c.step)[c.done + 1]
  <2>1. c.step \in 0 .. LastStep /\ c.done \in 0 .. 3 /\ c.state = "running"
    BY <1>1, <1>2 DEF Children, ChildWork, ChildAt
  <2>2. /\ c.done + 1 \in 1 .. 3 /\ c.done + 1 <= Len(Work(c.step))
        /\ part \in ToSet(Parts) \union {"menu", "clear"}
    BY <1>2, <2>1, NextPart DEF ChildWork
  <2>3. /\ child' = [child EXCEPT ![r].done = @ + 1]
        /\ UNCHANGED <<pc, op, result, step, victim, success, backup, calls, tree, ignored, run,
                       before, unlinked>>
    BY <1>2 DEF ChildWork, progVars
  <2>4. /\ child' \in [Runs -> Children]
        /\ child'[r].step = c.step /\ child'[r].state = c.state /\ child'[r].done = c.done + 1
        /\ \A q \in Runs : q # r => child'[q] = child[q]
    BY <1>1, <2>1, <2>2, <2>3 DEF Children
  <2>5. boot' \in [Kernels -> SUBSET ToSet(Parts)] /\ menu' \subseteq Kernels
    <3>1. boot \in [Kernels -> SUBSET ToSet(Parts)] /\ menu \subseteq Kernels /\ New \in Kernels
      BY InstallAssumption DEF Base, TypeOK
    <3>0. Perform(part)
      BY <1>2 DEF ChildWork
    <3>2. CASE part = "menu"
      BY <3>0, <3>1, <3>2 DEF Perform, WithImage
    <3>3. CASE part = "clear"
      <4>1. menu' = menu /\ boot' = [boot EXCEPT ![New] = @ \ {"modules"}]
        BY <3>0, <3>3 DEF Perform
      <4> QED BY <3>1, <4>1
    <3>4. CASE part \notin {"menu", "clear"}
      <4>1. part \in ToSet(Parts) /\ menu' = menu
            /\ boot' = [boot EXCEPT ![New] = @ \union {part}]
        BY <2>2, <3>0, <3>4 DEF Perform
      <4> QED BY <3>1, <4>1
    <3> QED BY <3>2, <3>3, <3>4
  <2>6. strayed' \in BOOLEAN /\ gutted' \in BOOLEAN
    <3>1. strayed' \in BOOLEAN
      BY <1>2 DEF ChildWork, Base, CallShape, Orphan
    <3>2. Perform(part) /\ gutted \in BOOLEAN
      BY <1>2 DEF ChildWork, Base, CallShape
    <3>3. CASE part = "menu"
      BY <3>1, <3>2, <3>3 DEF Perform
    <3>4. CASE part = "clear"
      BY <3>1, <3>2, <3>4 DEF Perform
    <3>5. CASE part \notin {"menu", "clear"}
      <4>1. gutted' = (gutted /\ part # "modules")
        BY <3>2, <3>5 DEF Perform
      <4> QED BY <3>1, <4>1
    <3> QED BY <3>3, <3>4, <3>5
  <2> HIDE DEF c, part
  <2>7. TypeOK'
    BY <2>3, <2>4, <2>5, <2>6 DEF Base, TypeOK, Children
  <2>8. CallShape'
    BY <2>3, <2>6 DEF Base, CallShape
  <2>9. ChildShape'
    <3>1. \A q \in Runs : child'[q].done <= Len(Work(child'[q].step))
      BY <2>2, <2>4 DEF Base, ChildShape
    <3>2. \A q \in Runs : child'[q].step = child[q].step /\ child'[q].state = child[q].state
      BY <2>4 DEF c
    <3>3. child[r].state = "running"
      BY <2>1 DEF c
    <3> QED BY <1>1, <2>3, <2>4, <3>1, <3>2, <3>3 DEF Base, ChildShape
  <2> QED BY <2>7, <2>8, <2>9 DEF Base
<1>3. ASSUME NEW r \in Runs, ChildSucceeds(r) \/ ChildFails(r) PROVE Base'
  <2>1. /\ child[r].state = "running" /\ child[r].step \in 0 .. LastStep
        /\ child[r].done \in 0 .. 3
        /\ UNCHANGED <<pc, op, result, step, victim, success, backup, calls, boot, menu, ignored,
                       run, before, strayed, unlinked, gutted>>
    BY <1>1, <1>3 DEF ChildSucceeds, ChildFails, ChildAt, progVars, histVars, Children
  <2>2. tree' \in {"dirty", "clean", "configured", "built"}
    BY <1>3 DEF ChildSucceeds, ChildFails, Makes, Base, TypeOK
  <2>3. CASE Orphan(r)
    <3>1. child' = [child EXCEPT ![r] = NoChild]
      BY <1>3, <2>3 DEF ChildSucceeds, ChildFails, Ended
    <3>2. /\ NoChild \in Children /\ NoChild.step = 0 /\ NoChild.done = 0
          /\ NoChild.state = "none" /\ 0 <= Len(Work(0))
      BY NewChildren, WorkFacts DEF NoChild, LastStep
    <3>3. child' \in [Runs -> Children] /\ child'[r] = NoChild
          /\ \A q \in Runs : q # r => child'[q] = child[q]
      BY <1>1, <3>1, <3>2
    <3>4. TypeOK'
      BY <2>1, <2>2, <3>3 DEF Base, TypeOK, Children
    <3>5. CallShape'
      BY <2>1 DEF Base, CallShape
    <3>6. ChildShape'
      BY <1>1, <2>1, <2>3, <3>2, <3>3 DEF Base, ChildShape, Orphan
    <3> QED BY <3>4, <3>5, <3>6 DEF Base
  <2>4. CASE ~Orphan(r)
    <3>1. PICK state \in {"ok", "failed"} :
             /\ child' = [child EXCEPT ![r].state = state]
             /\ state = "ok" => child[r].done = Len(Work(child[r].step))
      BY <1>1, <1>3, <2>4 DEF ChildSucceeds, ChildFails, Ended
    <3>2. /\ child' \in [Runs -> Children]
          /\ child'[r].step = child[r].step /\ child'[r].done = child[r].done
          /\ child'[r].state = state
          /\ \A q \in Runs : q # r => child'[q] = child[q]
      BY <1>1, <3>1 DEF Children
    <3>3. TypeOK'
      BY <2>1, <2>2, <3>2 DEF Base, TypeOK, Children
    <3>4. CallShape'
      BY <2>1 DEF Base, CallShape
    <3>5. ChildShape'
      BY <1>1, <2>1, <2>4, <3>1, <3>2 DEF Base, ChildShape, Orphan
    <3> QED BY <3>3, <3>4, <3>5 DEF Base
  <2> QED BY <2>3, <2>4
<1>4. CASE Signal
  BY <1>4 DEF Signal, Die, worldVars, Base, TypeOK, CallShape, ChildShape, Installing, LastStep
<1>5. CASE Interrupt
  <2>1. /\ NoChild \in Children /\ NoChild.step = 0 /\ NoChild.done = 0
        /\ NoChild.state = "none" /\ 0 <= Len(Work(0))
    BY NewChildren, WorkFacts DEF NoChild, LastStep
  <2>2. child' \in [Runs -> Children] /\ child'[run] = NoChild
        /\ \A q \in Runs : q # run => child'[q] = child[q]
    BY <1>1, <1>5, <2>1 DEF Interrupt
  <2>3. /\ pc' = "dead" /\ op' = None /\ result' = None /\ step' = 1 /\ victim' = None
        /\ success' = TRUE /\ backup' = None
        /\ UNCHANGED <<tree, boot, menu, ignored, run, strayed, unlinked, gutted>>
    BY <1>5 DEF Interrupt, Die, worldVars
  <2>4. TypeOK' /\ CallShape'
    BY <2>2, <2>3 DEF Base, TypeOK, CallShape, Children, Installing, LastStep
  <2>5. ChildShape'
    BY <1>1, <2>1, <2>2, <2>3 DEF Base, ChildShape
  <2> QED BY <2>4, <2>5 DEF Base
<1>6. CASE Restart
  <2>1. /\ pc = "dead" /\ run' = run + 1 /\ run' \in Runs /\ pc' = "idle" /\ ignored' \in BOOLEAN
        /\ UNCHANGED <<op, result, step, victim, success, backup, calls, child, tree, boot, menu,
                       before, strayed, unlinked, gutted>>
    BY <1>1, <1>6, InstallAssumption DEF Restart, worldVars, histVars, Runs
  <2>2. TypeOK' /\ CallShape'
    BY <2>1 DEF Base, TypeOK, CallShape, Installing
  <2>3. ChildShape'
    BY <1>1, <2>1, InstallAssumption DEF Base, ChildShape, Runs
  <2> QED BY <2>2, <2>3 DEF Base
<1>7. CASE UNCHANGED vars
  BY <1>7 DEF vars, progVars, worldVars, histVars, Base, TypeOK, CallShape, ChildShape
<1> QED BY <1>2, <1>3, <1>4, <1>5, <1>6, <1>7 DEF Child

(* Base holds initially. *)
LEMMA InitBase == Init => Base
<1> SUFFICES ASSUME Init PROVE Base
  OBVIOUS
<1>1. 1 \in Runs /\ 0 \in 0 .. LastStep /\ 0 \in 0 .. 3 /\ 1 \in 1 .. LastStep + 1
  BY InstallAssumption DEF Runs, LastStep
<1>2. /\ NoChild \in Children /\ NoChild.step = 0 /\ NoChild.done = 0
      /\ NoChild.state = "none" /\ 0 <= Len(Work(0))
  BY NewChildren, WorkFacts DEF NoChild, LastStep
<1>3. child \in [Runs -> Children] /\ \A r \in Runs : child[r] = NoChild
  BY <1>2 DEF Init
<1>4. boot \in [Kernels -> SUBSET ToSet(Parts)] /\ menu \subseteq Kernels
  BY DEF Init
<1>5. TypeOK
  BY <1>1, <1>3, <1>4 DEF Init, TypeOK, Children
<1>6. CallShape
  BY <1>1 DEF Init, CallShape, Installing
<1>7. ChildShape
  BY <1>1, <1>2, <1>3 DEF Init, ChildShape
<1> QED BY <1>5, <1>6, <1>7 DEF Base

(* Base holds in every reachable state. *)
LEMMA AlwaysBase == Spec => []Base
<1>1. Base /\ [Next]_vars => Base'
  BY ProgramBase, OthersBase DEF Next
<1> QED BY InitBase, <1>1, PTL DEF Spec

(* The locals of the two calls, their children and the disk stay in their  *)
(* ranges: steps[] of install_kernel_from_source is never left.            *)
THEOREM InstallTypes == Spec => []TypeOK
<1>1. Base => TypeOK
  BY DEF Base
<1> QED BY <1>1, AlwaysBase, PTL

-----------------------------------------------------------------------------
(* What the next bit of a child's work changes. *)
LEMMA ChildWorkFacts ==
    ASSUME Base, NEW r \in Runs, ChildWork(r)
    PROVE  /\ child[r].step \in {4, 5} /\ child[r].done \in 0 .. 2 /\ child[r].state = "running"
           /\ child[r].step = 4 => child[r].done \in 0 .. 1
           /\ child[r].step = 4 /\ child[r].done = 0 =>
                 /\ menu' = menu /\ boot' = [boot EXCEPT ![New] = @ \ {"modules"}]
                 /\ New \in WithImage => gutted'
           /\ child[r].step = 4 /\ child[r].done = 1 =>
                 menu' = menu /\ boot' = [boot EXCEPT ![New] = @ \union {"modules"}]
           /\ child[r].step = 5 => gutted' = gutted
           /\ child[r].step = 5 /\ child[r].done = 0 =>
                 menu' = menu /\ boot' = [boot EXCEPT ![New] = @ \union {"vmlinuz"}]
           /\ child[r].step = 5 /\ child[r].done = 1 =>
                 menu' = menu /\ boot' = [boot EXCEPT ![New] = @ \union {"support"}]
           /\ child[r].step = 5 /\ child[r].done = 2 => boot' = boot /\ menu' = WithImage
           /\ child'[r].done = child[r].done + 1
           /\ \A q \in Runs : q # r => child'[q] = child[q]
           /\ UNCHANGED <<pc, op, result, step, victim, success, backup, run, before, unlinked>>
           /\ strayed' = (strayed \/ Orphan(r))
           /\ ~Orphan(r) => r = run /\ pc = "wait" /\ child[r].step = step
<1> DEFINE s == child[r].step
           d == child[r].done
<1>1. s \in 0 .. LastStep /\ d \in 0 .. 3 /\ child[r].state = "running" /\ run \in Runs
      /\ child \in [Runs -> Children]
  BY DEF Base, TypeOK, CallShape, Children, ChildWork, ChildAt
<1>2. /\ Len(Work(s)) = IF s = 4 THEN 2 ELSE IF s = 5 THEN 3 ELSE 0
      /\ s = 4 => Work(s)[1] = "clear" /\ Work(s)[2] = "modules"
      /\ s = 5 => Work(s)[1] = "vmlinuz" /\ Work(s)[2] = "support" /\ Work(s)[3] = "menu"
  BY <1>1, WorkFacts
<1>3. d < Len(Work(s))
  BY DEF ChildWork
<1>4. /\ Perform(Work(s)[d + 1])
      /\ child' = [child EXCEPT ![r].done = d + 1]
      /\ strayed' = (strayed \/ Orphan(r))
      /\ UNCHANGED <<pc, op, result, step, victim, success, backup, run, before, unlinked>>
  BY <1>1 DEF ChildWork, progVars
<1>5. child'[r].done = d + 1 /\ \A q \in Runs : q # r => child'[q] = child[q]
  BY <1>1, <1>4 DEF Children
<1>6. ~Orphan(r) => r = run /\ pc = "wait" /\ s = step
  BY <1>1 DEF Orphan, Base, ChildShape
<1> HIDE DEF s, d
<1>7. CASE s = 4
  <2>1. Len(Work(s)) = 2 /\ Work(s)[1] = "clear" /\ Work(s)[2] = "modules"
    BY <1>2, <1>7
  <2>2. d \in 0 .. 1
    BY <1>1, <1>3, <2>1
  <2>3. d = 0 => /\ menu' = menu /\ boot' = [boot EXCEPT ![New] = @ \ {"modules"}]
                 /\ New \in WithImage => gutted'
    <3> HAVE d = 0
    <3>1. Perform("clear")
      BY <1>4, <2>1
    <3> QED BY <3>1 DEF Perform
  <2>4. d = 1 => menu' = menu /\ boot' = [boot EXCEPT ![New] = @ \union {"modules"}]
    <3> HAVE d = 1
    <3>1. Perform("modules")
      BY <1>4, <2>1
    <3> QED BY <3>1 DEF Perform
  <2> QED BY <1>1, <1>4, <1>5, <1>6, <1>7, <2>2, <2>3, <2>4 DEF s, d
<1>8. CASE s = 5
  <2>1. /\ Len(Work(s)) = 3
        /\ Work(s)[1] = "vmlinuz" /\ Work(s)[2] = "support" /\ Work(s)[3] = "menu"
    BY <1>2, <1>8
  <2>2. d \in 0 .. 2
    BY <1>1, <1>3, <2>1
  <2>3. d = 0 => /\ menu' = menu /\ boot' = [boot EXCEPT ![New] = @ \union {"vmlinuz"}]
                 /\ gutted' = gutted
    <3> HAVE d = 0
    <3>1. Perform("vmlinuz") /\ gutted \in BOOLEAN
      BY <1>4, <2>1 DEF Base, CallShape
    <3> QED BY <3>1 DEF Perform
  <2>4. d = 1 => /\ menu' = menu /\ boot' = [boot EXCEPT ![New] = @ \union {"support"}]
                 /\ gutted' = gutted
    <3> HAVE d = 1
    <3>1. Perform("support") /\ gutted \in BOOLEAN
      BY <1>4, <2>1 DEF Base, CallShape
    <3> QED BY <3>1 DEF Perform
  <2>5. d = 2 => boot' = boot /\ menu' = WithImage /\ gutted' = gutted
    <3> HAVE d = 2
    <3>1. Perform("menu")
      BY <1>4, <2>1
    <3> QED BY <3>1 DEF Perform
  <2> QED BY <1>1, <1>4, <1>5, <1>6, <1>8, <2>2, <2>3, <2>4, <2>5 DEF s, d
<1>9. s = 4 \/ s = 5
  <2>1. Len(Work(s)) # 0
    BY <1>1, <1>3, <1>2
  <2> QED BY <1>2, <2>1
<1> QED BY <1>7, <1>8, <1>9

(* A child that ends touches neither the disk nor the program.             *)
LEMMA ChildEndFacts ==
    ASSUME Base, NEW r \in Runs, ChildSucceeds(r) \/ ChildFails(r)
    PROVE  /\ UNCHANGED <<pc, op, result, step, victim, success, backup, boot, menu, run, before,
                          strayed, unlinked, gutted>>
           /\ pc # "dead" => child'[run].done = child[run].done
<1>1. /\ UNCHANGED <<pc, op, result, step, victim, success, backup, boot, menu, run, before,
                     strayed, unlinked, gutted>>
      /\ run \in Runs /\ child \in [Runs -> Children]
  BY DEF ChildSucceeds, ChildFails, progVars, histVars, Base, TypeOK, CallShape, Children
<1>2. CASE Orphan(r)
  BY <1>1, <1>2 DEF ChildSucceeds, ChildFails, Ended, Orphan
<1>3. CASE ~Orphan(r)
  BY <1>1, <1>3 DEF ChildSucceeds, ChildFails, Ended, Orphan, Children
<1> QED BY <1>1, <1>2, <1>3

(* No child of any run takes a file of the new kernel away but the modules, *)
(* nor its entry in the menu once its image is there.                      *)
LEMMA ChildWorkAdds ==
    ASSUME Base, NEW r \in Runs, ChildWork(r)
    PROVE  /\ boot[New] \ {"modules"} \subseteq boot'[New] /\ boot'[New] \subseteq ToSet(Parts)
           /\ child[r].step = 5 => boot[New] \subseteq boot'[New]
           /\ New \in menu /\ "vmlinuz" \in boot[New] => New \in menu'
<1>1. New \in Kernels /\ boot \in [Kernels -> SUBSET ToSet(Parts)]
  BY InstallAssumption DEF Base, TypeOK
<1> QED BY <1>1, ChildWorkFacts, PartsFacts DEF WithImage

Progress == InstallProgress /\ SuccessMeansComplete

(* What an install that succeeds has achieved, file by file. *)
LEMMA SuccessIsComplete ==
    /\ SuccessMeansComplete <=> (pc = "idle" /\ op = "install" /\ result = 0 => Complete)
    /\ SuccessMeansComplete' <=> (pc' = "idle" /\ op' = "install" /\ result' = 0 => Complete')
<1>1. Complete <=> /\ New \in menu
                   /\ ToSet(Parts) \ boot[New] \subseteq IF strayed THEN {"modules"} ELSE {}
  BY PartsFacts DEF Complete
<1>2. Complete' <=> /\ New \in menu'
                    /\ ToSet(Parts) \ boot'[New] \subseteq IF strayed' THEN {"modules"} ELSE {}
  BY PartsFacts DEF Complete
<1> QED BY <1>1, <1>2 DEF SuccessMeansComplete

(* A child that works, of this run or of an earlier one. *)
LEMMA ChildWorkProgress ==
    ASSUME Base, Progress, NEW r \in Runs, ChildWork(r) PROVE Progress'
<1>1. New \in Kernels /\ boot \in [Kernels -> SUBSET ToSet(Parts)] /\ run \in Runs
      /\ child \in [Runs -> Children]
  BY InstallAssumption DEF Base, TypeOK, CallShape, Children
<1>2. UNCHANGED <<pc, op, result, step, run>> /\ strayed' = (strayed \/ Orphan(r))
  BY ChildWorkFacts
<1>3. Complete /\ pc # "wait" => Complete'
  <2> HAVE Complete /\ pc # "wait"
  <2>1. strayed'
    BY <1>2, ChildWorkFacts
  <2>2. {"vmlinuz", "support"} \subseteq boot'[New] /\ New \in menu'
    BY ChildWorkAdds DEF Complete
  <2> QED BY <2>1, <2>2 DEF Complete
<1>4. SuccessMeansComplete'
  <2>1. pc = "wait" => pc' # "idle"
    BY <1>2
  <2> QED BY <1>2, <1>3, <2>1, SuccessIsComplete DEF Progress
<1>5. CASE Orphan(r)
  <2>1. strayed'
    BY <1>2, <1>5
  <2>2. child'[run].done = child[run].done \/ pc = "dead"
    BY <1>1, <1>5, ChildWorkFacts DEF Orphan
  <2>3. CASE pc = "dead"
    BY <1>2, <1>4, <2>3 DEF Progress, InstallProgress
  <2>4. CASE pc = "wait"
    <3>1. child'[run].done = child[run].done
      BY <2>2, <2>4
    <3>2. child[run].done \in 0 .. 3
      BY <1>1 DEF Children
    <3>3. child[run].done >= 3 => child[run].done >= 1
      BY <3>2
    <3>4. InstallProgress'
      BY <1>2, <2>1, <2>4, <3>1, <3>3, ChildWorkAdds DEF Progress, InstallProgress
    <3> QED BY <1>4, <3>4 DEF Progress
  <2>5. CASE pc \notin {"dead", "wait"}
    <3>1. InstallProgress'
      BY <1>2, <1>3, <2>1, <2>5 DEF Progress, InstallProgress
    <3> QED BY <1>4, <3>1 DEF Progress
  <2> QED BY <2>3, <2>4, <2>5
<1>6. CASE ~Orphan(r)
  <2>1. r = run /\ pc = "wait" /\ child[run].step = step /\ strayed' = strayed
    BY <1>2, <1>6, ChildWorkFacts DEF Base, CallShape
  <2>2. CASE step = 4
    <3>1. child[run].done \in 0 .. 1 /\ child'[run].done = child[run].done + 1
      BY <2>1, <2>2, ChildWorkFacts
    <3>2. child[run].done = 1 => "modules" \in boot'[New]
      BY <1>1, <2>1, <2>2, ChildWorkFacts
    <3>3. InstallProgress'
      BY <1>2, <2>1, <2>2, <3>1, <3>2 DEF InstallProgress
    <3> QED BY <1>4, <3>3 DEF Progress
  <2>3. CASE step = 5
    <3>0. boot[New] \subseteq boot'[New]
      BY <2>1, <2>3, ChildWorkAdds
    <3>1. ~strayed => "modules" \in boot'[New]
      BY <2>1, <2>3, <3>0 DEF Progress, InstallProgress
    <3>2. child[run].done \in 0 .. 2 /\ child'[run].done = child[run].done + 1
      BY <2>1, ChildWorkFacts
    <3>3. "vmlinuz" \in boot'[New]
      <4>1. CASE child[run].done = 0
        BY <1>1, <2>1, <2>3, <4>1, ChildWorkFacts
      <4>2. CASE child[run].done >= 1
        BY <2>1, <2>3, <3>0, <4>2 DEF Progress, InstallProgress
      <4> QED BY <3>2, <4>1, <4>2
    <3>4. child'[run].done >= 2 => "support" \in boot'[New]
      <4>1. CASE child[run].done = 1
        BY <1>1, <2>1, <2>3, <4>1, ChildWorkFacts
      <4>2. CASE child[run].done >= 2
        BY <2>1, <2>3, <3>0, <4>2 DEF Progress, InstallProgress
      <4> QED BY <3>2, <4>1, <4>2
    <3>5. child'[run].done >= 3 => New \in menu'
      <4>1. CASE child[run].done = 2
        <5>1. boot' = boot /\ menu' = WithImage
          BY <2>1, <2>3, <4>1, ChildWorkFacts
        <5> QED BY <1>1, <3>3, <5>1 DEF WithImage
      <4> QED BY <3>2, <4>1
    <3>6. InstallProgress'
      BY <1>2, <2>1, <2>3, <3>1, <3>3, <3>4, <3>5 DEF InstallProgress
    <3> QED BY <1>4, <3>6 DEF Progress
  <2> QED BY <2>1, <2>2, <2>3, ChildWorkFacts
<1> QED BY <1>5, <1>6

(* The end of a make step that went well: all it does is on the disk. *)
LEMMA WaitProgress == ASSUME Base, Progress, Wait PROVE Progress'
<1>1. /\ pc = "wait" /\ op = "install" /\ ~ignored /\ step \in 1 .. 5
      /\ child[run].state \in {"ok", "failed"} /\ child[run].step = step
      /\ UNCHANGED <<op, boot, menu, run, strayed>>
  BY DEF Wait, WaitFor, Local, worldVars, Base, TypeOK, CallShape, ChildShape, Installing, LastStep
<1>2. CASE child[run].state = "failed"
  BY <1>1, <1>2 DEF Wait, WaitFor, Return, Progress, InstallProgress, SuccessMeansComplete
<1>3. CASE child[run].state = "ok"
  <2>1. child[run].done = Len(Work(step))
    BY <1>1, <1>3 DEF Base, ChildShape
  <2>2. Len(Work(step)) = IF step = 4 THEN 2 ELSE IF step = 5 THEN 3 ELSE 0
    <3>1. step \in 0 .. LastStep
      BY <1>1 DEF LastStep
    <3> QED BY <3>1, WorkFacts
  <2>3. step' = step + 1 /\ pc' = IF step = 5 THEN "apply" ELSE "fork"
    BY <1>3 DEF Wait, WaitFor, NextStep, LastStep
  <2>4. step = 4 /\ ~strayed => "modules" \in boot[New]
    BY <1>1, <2>1, <2>2 DEF Progress, InstallProgress
  <2>5. step = 5 => Complete
    <3> SUFFICES ASSUME step = 5 PROVE Complete
      OBVIOUS
    <3>1. child[run].done = 3
      BY <2>1, <2>2
    <3> QED BY <1>1, <3>1 DEF Progress, InstallProgress, Complete
  <2>6. InstallProgress'
    BY <1>1, <2>3, <2>4, <2>5 DEF InstallProgress, Complete
  <2> QED BY <1>1, <2>3, <2>6 DEF Progress, SuccessMeansComplete
<1> QED BY <1>1, <1>2, <1>3

(* Every step keeps what an install has achieved while it runs. *)
LEMMA ProgressStep == ASSUME Base, Progress, [Next]_vars PROVE Progress'
<1> USE DEF Progress, InstallProgress, SuccessMeansComplete, Complete, Local, worldVars
<1>1. ASSUME NEW r \in Runs, ChildWork(r) PROVE Progress'
  BY <1>1, ChildWorkProgress
<1>2. ASSUME NEW r \in Runs, ChildSucceeds(r) \/ ChildFails(r) PROVE Progress'
  BY <1>2, ChildEndFacts
<1>3. CASE Wait
  BY <1>3, WaitProgress
<1>4. CASE InstallCall
  BY <1>4 DEF InstallCall, Call
<1>5. ASSUME NEW ok \in BOOLEAN,
             CheckSource(ok) \/ CheckDependencies(ok) \/ BackupMkdir(ok) \/ BackupCopy(ok)
      PROVE  Progress'
  <2>1. pc \in {"access", "deps", "mkdir", "cp"} /\ step = 1 /\ UNCHANGED <<boot, menu, op>>
    BY <1>5 DEF CheckSource, CheckDependencies, BackupMkdir, BackupCopy, Base, CallShape
  <2>2. \/ pc' = "idle" /\ result' = -1
        \/ pc' \in {"deps", "mkdir", "cp", "fork"} /\ step' = 1
    BY <1>5, <2>1 DEF CheckSource, CheckDependencies, BackupMkdir, BackupCopy, Goto, Return
  <2> QED BY <2>1, <2>2
<1>6. ASSUME NEW ok \in BOOLEAN, Fork(ok) PROVE Progress'
  <2>1. CASE ~ok
    BY <1>6, <2>1 DEF Fork, ForkStep, Return
  <2>2. CASE ok
    <3>1. child'[run].done = 0 /\ pc = "fork" /\ pc' = "wait"
          /\ UNCHANGED <<step, boot, menu, run, strayed>>
      BY <1>6, <2>2 DEF Fork, ForkStep, Goto, Base, TypeOK, CallShape
    <3> QED BY <3>1
  <2> QED BY <2>1, <2>2
<1>7. ASSUME NEW ok \in BOOLEAN, Apply(ok) PROVE Progress'
  BY <1>7, SuccessIsComplete DEF Apply, Return
<1>8. ASSUME NEW k \in Kernels, RemoveCall(k) PROVE Progress'
  BY <1>8 DEF RemoveCall, Call
<1>9. ASSUME NEW ok \in BOOLEAN, RemovePart(ok) PROVE Progress'
  BY <1>9 DEF RemovePart, RemoveFrom
<1>10. ASSUME NEW ok \in BOOLEAN, RemoveGrub(ok) PROVE Progress'
  BY <1>10 DEF RemoveGrub, Return, Base, CallShape
<1>11. CASE Signal \/ Interrupt
  BY <1>11 DEF Signal, Interrupt, Die
<1>12. CASE Restart
  BY <1>12, InstallAssumption DEF Restart, Base, CallShape
<1>13. CASE UNCHANGED vars
  BY <1>13 DEF vars, progVars, histVars
<1> QED
  BY <1>1, <1>2, <1>3, <1>4, <1>5, <1>6, <1>7, <1>8, <1>9, <1>10, <1>11, <1>12, <1>13
     DEF Next, Install, Removal, Child

(* install_kernel_from_source returns 0 only with every file of the new    *)
(* kernel on the disk and its entry in the menu, although it never looks   *)
(* at what waitpid returns; orphans can have taken the modules only.       *)
THEOREM InstallComplete == Spec => []SuccessMeansComplete
<1>1. Init => Progress
  BY InstallAssumption DEF Init, Progress, InstallProgress, SuccessMeansComplete
<1>2. Base /\ Progress /\ [Next]_vars => Progress'
  BY ProgressStep
<1>3. Progress => SuccessMeansComplete
  BY DEF Progress
<1> QED BY <1>1, <1>2, <1>3, AlwaysBase, PTL DEF Spec

-----------------------------------------------------------------------------
Backed == BackupShape /\ MenuRecoverable

(* The menu an install found stays as it is until the backup is made. *)
LEMMA BackupStep == ASSUME Base, Backed, [Next]_vars PROVE Backed'
<1> USE DEF Backed, BackupShape, MenuRecoverable, Local, worldVars
<1>1. ASSUME NEW r \in Runs, ChildWork(r) PROVE Backed'
  <2>1. /\ UNCHANGED <<pc, op, backup, before>>
        /\ ~strayed' => ~strayed /\ pc = "wait"
    BY <1>1, ChildWorkFacts
  <2>2. pc = "wait" => op = "install"
    BY DEF Base, CallShape, Installing
  <2> QED BY <2>1, <2>2
<1>2. ASSUME NEW r \in Runs, ChildSucceeds(r) \/ ChildFails(r) PROVE Backed'
  BY <1>2, ChildEndFacts
<1>3. CASE Wait
  <2>1. /\ pc = "wait" /\ pc' \in {"idle", "apply", "fork"}
        /\ UNCHANGED <<op, backup, menu, before, strayed>>
    BY <1>3 DEF Wait, WaitFor, Return, NextStep
  <2> QED BY <2>1
<1>4. CASE InstallCall
  BY <1>4 DEF InstallCall, Call, World
<1>5. ASSUME NEW ok \in BOOLEAN, CheckSource(ok) \/ CheckDependencies(ok) PROVE Backed'
  <2>1. /\ pc \in {"access", "deps"} /\ pc' \in {"idle", "deps", "mkdir"}
        /\ UNCHANGED <<op, backup, menu, before, strayed>>
    BY <1>5 DEF CheckSource, CheckDependencies, Goto, Return
  <2> QED BY <2>1
<1>6. ASSUME NEW ok \in BOOLEAN, BackupMkdir(ok) PROVE Backed'
  BY <1>6 DEF BackupMkdir, Goto, Return
<1>7. ASSUME NEW ok \in BOOLEAN, BackupCopy(ok) PROVE Backed'
  BY <1>7 DEF BackupCopy, Goto
<1>8. ASSUME NEW ok \in BOOLEAN, Fork(ok) PROVE Backed'
  BY <1>8 DEF Fork, ForkStep, Goto, Return
<1>9. ASSUME NEW ok \in BOOLEAN, Apply(ok) PROVE Backed'
  BY <1>9 DEF Apply, Return
<1>10. ASSUME NEW k \in Kernels, RemoveCall(k) PROVE Backed'
  BY <1>10 DEF RemoveCall, Call
<1>11. ASSUME NEW ok \in BOOLEAN, RemovePart(ok) \/ RemoveGrub(ok) PROVE Backed'
  <2>1. op = "remove" /\ op' = op /\ pc' \in {"unlink", "grub", "idle"}
    BY <1>11 DEF RemovePart, RemoveFrom, RemoveGrub, Return, Base, CallShape
  <2> QED BY <2>1
<1>12. CASE Signal \/ Interrupt
  BY <1>12, InstallAssumption DEF Signal, Interrupt, Die
<1>13. CASE Restart
  BY <1>13 DEF Restart, progVars, histVars
<1>14. CASE UNCHANGED vars
  BY <1>14 DEF vars, progVars, histVars
<1> QED
  BY <1>1, <1>2, <1>3, <1>4, <1>5, <1>6, <1>7, <1>8, <1>9, <1>10, <1>11, <1>12, <1>13, <1>14
     DEF Next, Install, Removal, Child

(* Where an install changed the menu, backup_system_config has the menu it *)
(* found, unless copying it failed or an orphan changed the menu too.      *)
THEOREM MenuBackedUp == Spec => []MenuRecoverable
<1>1. Init => Backed
  BY InstallAssumption DEF Init, Backed, BackupShape, MenuRecoverable
<1>2. Base /\ Backed /\ [Next]_vars => Backed'
  BY BackupStep
<1>3. Backed => MenuRecoverable
  BY DEF Backed
<1> QED BY <1>1, <1>2, <1>3, AlwaysBase, PTL DEF Spec

-----------------------------------------------------------------------------
Images == RemovalShape /\ ImageHasModules /\ RemovedImageGone

(* The child of a running install copies the image after the modules. *)
LEMMA ChildWorkImages ==
    ASSUME Base, Progress, Images, NEW r \in Runs, ChildWork(r) PROVE Images'
<1>1. CASE Orphan(r)
  BY <1>1, ChildWorkFacts DEF Images, RemovalShape, ImageHasModules, RemovedImageGone
<1>2. CASE ~Orphan(r)
  <2>1. /\ r = run /\ pc = "wait" /\ child[run].step = step /\ step \in {4, 5}
        /\ step = 4 => child[run].done \in 0 .. 1
        /\ pc' = pc /\ unlinked' = unlinked /\ (~strayed' => ~strayed)
    BY <1>2, ChildWorkFacts
  <2>2. boot \in [Kernels -> SUBSET ToSet(Parts)] /\ New \in Kernels
    BY InstallAssumption DEF Base, TypeOK
  <2>3. \A k \in Kernels : k # New => boot'[k] = boot[k]
    BY <2>2, ChildWorkFacts
  <2>4. ASSUME unlinked, ~strayed, "vmlinuz" \in boot'[New]
        PROVE  "modules" \in boot'[New] \/ gutted'
    <3>1. CASE step = 4 /\ child[run].done = 0
      <4>1. boot' = [boot EXCEPT ![New] = @ \ {"modules"}] /\ (New \in WithImage => gutted')
        BY <2>1, <3>1, ChildWorkFacts
      <4>2. New \in WithImage
        BY <2>2, <2>4, <4>1 DEF WithImage
      <4> QED BY <4>1, <4>2
    <3>2. CASE step = 4 /\ child[run].done = 1
      BY <2>1, <2>2, <3>2, ChildWorkFacts
    <3>3. CASE step = 5
      <4>1. "modules" \in boot[New]
        BY <2>1, <2>4, <3>3 DEF Progress, InstallProgress
      <4> QED BY <2>1, <3>3, <4>1, ChildWorkAdds
    <3> QED BY <2>1, <3>1, <3>2, <3>3
  <2>5. ImageHasModules'
    <3> SUFFICES ASSUME unlinked, ~strayed, NEW k \in Kernels, "vmlinuz" \in boot'[k]
                 PROVE  "modules" \in boot'[k] \/ (k = New /\ gutted')
      BY <2>1 DEF ImageHasModules, WithImage
    <3>1. CASE k # New
      BY <2>3, <3>1 DEF Images, ImageHasModules, WithImage
    <3>2. CASE k = New
      BY <2>4, <3>2
    <3> QED BY <3>1, <3>2
  <2> QED BY <2>1, <2>5 DEF Images, RemovalShape, RemovedImageGone
<1> QED BY <1>1, <1>2

(* rollback_kernel_installation takes the image away before the modules.   *)
LEMMA RemovePartImages ==
    ASSUME Base, Images, NEW removed \in BOOLEAN, RemovePart(removed) PROVE Images'
<1>1. /\ pc = "unlink" /\ step \in 1 .. 3 /\ victim \in Kernels
      /\ boot \in [Kernels -> SUBSET ToSet(Parts)]
      /\ UNCHANGED <<op, victim, strayed, gutted>>
      /\ pc' = IF step = 3 THEN "grub" ELSE "unlink"
      /\ pc' # "idle"
  BY PartsFacts DEF RemovePart, RemoveFrom, Local, Base, TypeOK, CallShape
<1>2. /\ success' => success
      /\ unlinked' => unlinked
      /\ boot' = IF removed THEN [boot EXCEPT ![victim] = @ \ {Parts[step]}] ELSE boot
  BY DEF RemovePart, RemoveFrom
<1>3. CASE step = 1
  <2>1. /\ success' => removed
        /\ unlinked' => ("vmlinuz" \in boot[victim] => removed)
        /\ removed => "vmlinuz" \in boot[victim]
        /\ boot' = IF removed THEN [boot EXCEPT ![victim] = @ \ {"vmlinuz"}] ELSE boot
    BY <1>2, <1>3, PartsFacts DEF RemovePart, RemoveFrom
  <2>2. success' \/ unlinked' => "vmlinuz" \notin boot'[victim]
    BY <1>1, <2>1
  <2>3. RemovalShape'
    BY <1>1, <2>2 DEF RemovalShape
  <2>4. ImageHasModules'
    BY <1>1, <1>2, <2>1 DEF Images, ImageHasModules, WithImage
  <2> QED BY <1>1, <2>3, <2>4 DEF Images, RemovedImageGone
<1>4. CASE step # 1
  <2>1. Parts[step] # "vmlinuz" /\ (removed => boot'[victim] \subseteq boot[victim])
        /\ \A k \in Kernels : k # victim => boot'[k] = boot[k]
        /\ boot'[victim] \subseteq boot[victim]
    BY <1>1, <1>2, <1>4, PartsFacts
  <2>2. ~strayed /\ (success \/ unlinked) => "vmlinuz" \notin boot[victim]
    BY <1>1, <1>4 DEF Images, RemovalShape
  <2>3. RemovalShape'
    BY <1>1, <1>2, <2>1, <2>2 DEF RemovalShape
  <2>4. ImageHasModules'
    <3>1. unlinked' /\ ~strayed' => "vmlinuz" \notin boot'[victim]
      BY <1>1, <1>2, <2>1, <2>2
    <3>2. unlinked' /\ ~strayed' => \A k \in Kernels :
              "vmlinuz" \in boot'[k] => "modules" \in boot'[k] \/ (k = New /\ gutted')
      BY <1>1, <1>2, <2>1, <3>1 DEF Images, ImageHasModules, WithImage
    <3> QED BY <3>2 DEF ImageHasModules, WithImage
  <2> QED BY <1>1, <2>3, <2>4 DEF Images, RemovedImageGone
<1> QED BY <1>3, <1>4

(* Every step keeps the images and their modules together. *)
LEMMA ImagesStep == ASSUME Base, Progress, Images, [Next]_vars PROVE Images'
<1> USE DEF Images, RemovalShape, ImageHasModules, RemovedImageGone, WithImage, Local, worldVars
<1>1. ASSUME NEW r \in Runs, ChildWork(r) PROVE Images'
  BY <1>1, ChildWorkImages
<1>2. ASSUME NEW r \in Runs, ChildSucceeds(r) \/ ChildFails(r) PROVE Images'
  BY <1>2, ChildEndFacts
<1>3. CASE Wait
  <2>1. /\ op = "install" /\ op' = op /\ pc' \in {"idle", "apply", "fork"}
        /\ UNCHANGED <<boot, strayed, unlinked, gutted>>
    BY <1>3 DEF Wait, WaitFor, Return, NextStep, Base, CallShape, Installing
  <2> QED BY <2>1
<1>4. CASE InstallCall
  BY <1>4 DEF InstallCall, Call
<1>5. ASSUME NEW ok \in BOOLEAN,
             \/ CheckSource(ok) \/ CheckDependencies(ok) \/ BackupMkdir(ok)
             \/ BackupCopy(ok) \/ Apply(ok)
      PROVE  Images'
  <2>1. /\ op = "install" /\ op' = op
        /\ pc' \in {"idle", "deps", "mkdir", "cp", "fork"}
        /\ UNCHANGED <<boot, strayed, unlinked, gutted>>
    BY <1>5 DEF CheckSource, CheckDependencies, BackupMkdir, BackupCopy, Apply, Goto, Return,
                Base, CallShape, Installing
  <2> QED BY <2>1
<1>6. ASSUME NEW ok \in BOOLEAN, Fork(ok) PROVE Images'
  <2>1. /\ op = "install" /\ op' = op /\ pc' \in {"idle", "wait"}
        /\ UNCHANGED <<boot, strayed, unlinked, gutted>>
    BY <1>6 DEF Fork, ForkStep, Goto, Return, Base, CallShape, Installing
  <2> QED BY <2>1
<1>7. ASSUME NEW k \in Kernels, RemoveCall(k) PROVE Images'
  BY <1>7 DEF RemoveCall, Call
<1>8. ASSUME NEW ok \in BOOLEAN, RemovePart(ok) PROVE Images'
  BY <1>8, RemovePartImages
<1>9. ASSUME NEW ok \in BOOLEAN, RemoveGrub(ok) PROVE Images'
  <2>1. /\ pc = "grub" /\ pc' = "idle" /\ (result' = 0 => success)
        /\ UNCHANGED <<op, victim, boot, strayed, unlinked, gutted>>
    BY <1>9 DEF RemoveGrub, Return
  <2> QED BY <2>1
<1>10. CASE Signal \/ Interrupt
  BY <1>10 DEF Signal, Interrupt, Die
<1>11. CASE Restart
  BY <1>11, InstallAssumption DEF Restart, histVars, Base, CallShape
<1>12. CASE UNCHANGED vars
  BY <1>12 DEF vars, progVars, histVars
<1> QED
  BY <1>1, <1>2, <1>3, <1>4, <1>5, <1>6, <1>7, <1>8, <1>9, <1>10, <1>11, <1>12
     DEF Next, Install, Removal, Child

(* Images holds in every reachable state. *)
LEMMA AlwaysImages == Spec => [](Images /\ Progress)
<1>1. Init => Images /\ Progress
  <2>1. Init => ImageHasModules
    BY PartsFacts DEF Init, ImageHasModules, WithImage
  <2> QED BY <2>1, InstallAssumption
          DEF Init, Images, RemovalShape, RemovedImageGone, Progress, InstallProgress,
              SuccessMeansComplete
<1>2. Base /\ (Images /\ Progress) /\ [Next]_vars => (Images /\ Progress)'
  BY ProgressStep, ImagesStep
<1> QED BY <1>1, <1>2, AlwaysBase, PTL DEF Spec

(* A kernel image in /boot has its modules, unless a removal could not     *)
(* unlink an image, an orphan of an earlier run wrote to /boot or, for the *)
(* kernel being built, a reinstall stopped after clearing its modules.     *)
THEOREM ImageWithModules == Spec => []ImageHasModules
<1>1. Images => ImageHasModules
  BY DEF Images
<1> QED BY <1>1, AlwaysImages, PTL

(* rollback_kernel_installation returns 0 only when the image is gone, and *)
(* nothing but an orphan or a new install puts it back.                    *)
THEOREM RemovalRemoves == Spec => []RemovedImageGone
<1>1. Images => RemovedImageGone
  BY DEF Images
<1> QED BY <1>1, AlwaysImages, PTL
=============================================================================
