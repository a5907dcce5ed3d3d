----------------------------- MODULE TasksProofs -----------------------------
(* What Tasks promises, for any number of tasks and contents of registers. *)
EXTENDS Tasks, SequenceTheorems, TLAPS

Places == {"main", "task", "handler", "yield", "c8", "yielded", "unmade"}
Frames == [at : Places, regs : [Regs -> Values], flag : BOOLEAN]

(* What a program leaves on its stack when it is interrupted, and what the *)
(* handler leaves on top of it when it yields.                             *)
Home     == IF mapped THEN "task" ELSE "main"
Base(t)  == [at |-> Home, regs |-> All(own[t]), flag |-> TRUE]
Inner(t) == [at |-> "yield", regs |-> All(inner[t]), flag |-> FALSE]

(* The task that runs, in its program or in one of the handlers.           *)
InProgram(t) == at = Home /\ IF_ = TRUE /\ regs = All(own[t]) /\ stack[t] = <<>>
InHandler(t) == at = "handler" /\ IF_ = FALSE /\ stack[t] = <<Base(t)>>
InYield(t)   == at = "yield" /\ mapped /\ IF_ = FALSE /\ regs = All(inner[t]) /\ stack[t] = <<Base(t)>>
InSwitch(t)  == at = "c8" /\ mapped /\ IF_ = FALSE /\ regs = All(inner[t]) /\ stack[t] = <<Base(t), Inner(t)>>
Yielded(t)   == at = "yielded" /\ IF_ = FALSE /\ regs = All(inner[t]) /\ stack[t] = <<Base(t)>>
Running(t)   == InProgram(t) \/ InHandler(t) \/ InYield(t) \/ InSwitch(t) \/ Yielded(t)

(* A task that waits for its turn, from before it is made.                 *)
Unmade(t) == /\ tasks[t] = [at |-> "unmade", regs |-> All(0), flag |-> FALSE]
             /\ made <= t /\ own[t] = 0 /\ stack[t] = <<>>
Fresh(t)  == /\ tasks[t] = [at |-> "task", regs |-> All(own[t]), flag |-> TRUE]
             /\ t < made /\ stack[t] = <<>>
Parked(t) == /\ tasks[t] = [at |-> "yielded", regs |-> All(inner[t]), flag |-> FALSE]
             /\ mapped /\ stack[t] = <<Base(t)>>
Waiting(t) == Unmade(t) \/ Fresh(t) \/ Parked(t)

TypeOK ==
  /\ mapped \in BOOLEAN
  /\ regs \in [Regs -> Values]
  /\ stack \in [Tasks -> Seq(Frames)]
  /\ tasks \in [Tasks -> Frames]
  /\ made \in 0 .. task_cnt /\ cur_task \in Tasks
  /\ own \in [Tasks -> Values] /\ inner \in [Tasks -> Values]

IInv ==
  /\ TypeOK
  /\ mapped => made = task_cnt
  /\ Running(cur_task)
  /\ \A t \in Tasks \ {cur_task} : Waiting(t)

-----------------------------------------------------------------------------
LEMMA AllType == ASSUME NEW v \in Values PROVE All(v) \in [Regs -> Values]
BY DEF All

(* What the switch finds in the registers it has used is what it put away. *)
LEMMA AllSaved ==
  ASSUME regs \in [Regs -> Values], NEW junk PROVE SavedRegs(junk) = regs
BY DEF SavedRegs, Stashed, Regs

LEMMA Stacks ==
  ASSUME NEW S, NEW a \in S, NEW b \in S
  PROVE  /\ Append(<<>>, a) = <<a>> /\ Append(<<a>>, b) = <<a, b>>
         /\ Last(<<a>>) = a /\ Front(<<a>>) = <<>>
         /\ Last(<<a, b>>) = b /\ Front(<<a, b>>) = <<a>>
<1>1. /\ <<>> \in Seq(S) /\ Len(<<>>) = 0
      /\ <<a>> \in Seq(S) /\ Len(<<a>>) = 1 /\ <<a>>[1] = a
      /\ <<a, b>> \in Seq(S) /\ Len(<<a, b>>) = 2
      /\ <<a, b>>[1] = a /\ <<a, b>>[2] = b
  OBVIOUS
<1>2. Append(<<>>, a) = <<a>>
  <2>1. /\ Append(<<>>, a) \in Seq(S) /\ Len(Append(<<>>, a)) = 1
        /\ Append(<<>>, a)[1] = a
    BY <1>1, AppendProperties
  <2> QED
    BY <1>1, <2>1, SeqEqual
<1>3. Append(<<a>>, b) = <<a, b>>
  <2>1. /\ Append(<<a>>, b) \in Seq(S) /\ Len(Append(<<a>>, b)) = 2
        /\ Append(<<a>>, b)[1] = a /\ Append(<<a>>, b)[2] = b
    BY <1>1, AppendProperties
  <2>2. \A i \in 1 .. Len(Append(<<a>>, b)) : Append(<<a>>, b)[i] = <<a, b>>[i]
    BY <1>1, <2>1
  <2> QED
    BY <1>1, <2>1, <2>2, SeqEqual
<1>4. Last(<<a>>) = a /\ Last(<<a, b>>) = b
  BY <1>1 DEF Last
<1>5. Front(<<a>>) = <<>>
  BY <1>1, SubSeqEmpty DEF Front
<1>6. Front(<<a, b>>) = <<a>>
  <2>1. /\ SubSeq(<<a, b>>, 1, 1) \in Seq(S) /\ Len(SubSeq(<<a, b>>, 1, 1)) = 1
        /\ SubSeq(<<a, b>>, 1, 1)[1] = a
    BY <1>1, SubSeqProperties
  <2>2. \A i \in 1 .. Len(SubSeq(<<a, b>>, 1, 1)) : SubSeq(<<a, b>>, 1, 1)[i] = <<a>>[i]
    BY <1>1, <2>1
  <2>3. SubSeq(<<a, b>>, 1, 1) = <<a>>
    BY <1>1, <2>1, <2>2, SeqEqual
  <2> QED
    BY <1>1, <2>3 DEF Front
<1> QED
  BY <1>2, <1>3, <1>4, <1>5, <1>6

LEMMA FollowingIsTask == ASSUME cur_task \in Tasks PROVE Following \in Tasks
BY TasksAssumption DEF Following, Tasks

LEMMA FrameTypes ==
  ASSUME TypeOK, NEW t \in Tasks
  PROVE  Base(t) \in Frames /\ Inner(t) \in Frames
<1>1. All(own[t]) \in [Regs -> Values] /\ All(inner[t]) \in [Regs -> Values]
  BY AllType DEF TypeOK
<1> QED
  BY <1>1 DEF Frames, Places, Base, Inner, Home

LEMMA InitInv == Init => IInv
<1> SUFFICES ASSUME Init PROVE IInv
  OBVIOUS
<1>0. 0 \in Tasks /\ 0 \in Values /\ All(0) \in [Regs -> Values]
  BY TasksAssumption, AllType DEF Tasks
<1>1. TypeOK
  <2>1. [at |-> "unmade", regs |-> All(0), flag |-> FALSE] \in Frames
    BY <1>0 DEF Frames, Places
  <2>2. <<>> \in Seq(Frames)
    OBVIOUS
  <2>3. made \in 0 .. task_cnt
    BY TasksAssumption DEF Init
  <2>4. tasks \in [Tasks -> Frames]
    BY <2>1 DEF Init
  <2>5. stack \in [Tasks -> Seq(Frames)]
    BY <2>2 DEF Init
  <2>6. own \in [Tasks -> Values] /\ inner \in [Tasks -> Values]
    BY <1>0 DEF Init
  <2> QED
    BY <1>0, <2>3, <2>4, <2>5, <2>6 DEF Init, TypeOK
<1>2. Running(cur_task)
  BY TasksAssumption DEF Init, Running, InProgram, Home, Tasks
<1>3. \A t \in Tasks \ {cur_task} : Waiting(t)
  BY TasksAssumption DEF Init, Waiting, Unmade, Tasks
<1> QED
  BY <1>1, <1>2, <1>3 DEF Init, IInv

(* A task that waits still waits when a step leaves what is its own alone. *)
LEMMA WaitingKept ==
  ASSUME NEW t \in Tasks, Waiting(t), mapped' = mapped, made' = made,
         tasks'[t] = tasks[t], stack'[t] = stack[t],
         own'[t] = own[t], inner'[t] = inner[t]
  PROVE  Waiting(t)'
BY DEF Waiting, Unmade, Fresh, Parked, Base, Home

LEMMA MkTaskInv == IInv /\ MkTask => IInv'
<1> SUFFICES ASSUME IInv, MkTask PROVE IInv'
  OBVIOUS
<1> USE DEF IInv, MkTask
<1>1. made \in Tasks /\ made' \in 0 .. task_cnt /\ ~mapped
  BY TasksAssumption DEF TypeOK, Tasks
<1>2. tasks[made] \in Frames
  BY <1>1 DEF TypeOK
<1>3. TypeOK'
  <2>1. [at |-> "task", regs |-> tasks[made].regs, flag |-> TRUE] \in Frames
    BY <1>2 DEF Frames, Places
  <2> QED
    BY <1>1, <2>1 DEF TypeOK
<1>4. Running(cur_task)'
  BY DEF Running, InProgram, InHandler, InYield, InSwitch, Yielded, Base, Inner, Home
<1>5. ASSUME NEW t \in Tasks \ {cur_task} PROVE Waiting(t)'
  <2>1. CASE t # made
    BY <1>1, <2>1 DEF Waiting, Unmade, Fresh, Parked, Tasks, TypeOK
  <2>2. CASE t = made
    <3>1. Unmade(t)
      BY <1>1, <2>2 DEF Waiting, Unmade, Fresh, Parked, Tasks, TypeOK
    <3>2. tasks'[t] = [at |-> "task", regs |-> tasks[t].regs, flag |-> TRUE]
      BY <1>1, <2>2 DEF TypeOK
    <3>3. tasks'[t] = [at |-> "task", regs |-> All(own[t]), flag |-> TRUE]
      BY <3>1, <3>2 DEF Unmade
    <3>4. t < made'
      BY <1>1, <2>2 DEF Tasks
    <3> QED
      BY <3>1, <3>3, <3>4 DEF Unmade, Waiting, Fresh
  <2> QED
    BY <2>1, <2>2
<1> QED
  BY <1>1, <1>3, <1>4, <1>5 DEF TypeOK

LEMMA MapIrqInv == IInv /\ MapIrq => IInv'
<1> SUFFICES ASSUME IInv, MapIrq PROVE IInv'
  OBVIOUS
<1> USE DEF IInv, MapIrq
<1>1. TypeOK'
  BY DEF TypeOK
<1>2. ~mapped /\ InProgram(cur_task)
  BY DEF Running, InProgram, InHandler, InYield, InSwitch, Yielded, Home
<1>3. Running(cur_task)'
  BY <1>2 DEF Running, InProgram, Home
<1>4. ASSUME NEW t \in Tasks \ {cur_task} PROVE Waiting(t)'
  BY <1>2 DEF Waiting, Unmade, Fresh, Parked
<1> QED
  BY <1>1, <1>3, <1>4

LEMMA ComputeInv == IInv /\ (\E v \in Values : Compute(v)) => IInv'
<1> SUFFICES ASSUME IInv, NEW v \in Values, Compute(v) PROVE IInv'
  OBVIOUS
<1> USE DEF IInv, Compute
<1>1. TypeOK'
  BY AllType DEF TypeOK, static, pic
<1>2. InProgram(cur_task)
  BY DEF Running, InProgram, InHandler, InYield, InSwitch, Yielded
<1>3. Running(cur_task)'
  BY <1>2 DEF Running, InProgram, Home, TypeOK, static
<1>4. ASSUME NEW t \in Tasks \ {cur_task} PROVE Waiting(t)'
  BY WaitingKept DEF TypeOK, static
<1> QED
  BY <1>1, <1>3, <1>4 DEF static

LEMMA TickInv == IInv /\ Tick => IInv'
<1> SUFFICES ASSUME IInv, Tick PROVE IInv'
  OBVIOUS
<1> USE DEF IInv, Tick, static
<1>1. TypeOK'
  BY DEF TypeOK
<1>2. Running(cur_task)'
  BY DEF Running, InProgram, InHandler, InYield, InSwitch, Yielded, Base, Inner, Home
<1>3. ASSUME NEW t \in Tasks \ {cur_task} PROVE Waiting(t)'
  BY WaitingKept
<1> QED
  BY <1>1, <1>2, <1>3

LEMMA InterruptInv == IInv /\ Interrupt => IInv'
<1> SUFFICES ASSUME IInv, Interrupt PROVE IInv'
  OBVIOUS
<1> USE DEF IInv, Interrupt, static
<1>1. InProgram(cur_task)
  BY DEF Running, InProgram, InHandler, InYield, InSwitch, Yielded
<1>2. Frame = Base(cur_task) /\ Base(cur_task) \in Frames
  BY <1>1, FrameTypes DEF InProgram, Frame, Base, TypeOK
<1>3. stack' = [stack EXCEPT ![cur_task] = <<Base(cur_task)>>]
  BY <1>1, <1>2, Stacks DEF InProgram, Push
<1>4. TypeOK'
  BY <1>2, <1>3 DEF TypeOK
<1>5. Running(cur_task)'
  BY <1>3 DEF Running, InHandler, Base, Home, TypeOK
<1>6. ASSUME NEW t \in Tasks \ {cur_task} PROVE Waiting(t)'
  BY <1>3, WaitingKept DEF TypeOK
<1> QED
  BY <1>4, <1>5, <1>6

LEMMA HandlerInv == IInv /\ (\E v \in Values : Handler(v)) => IInv'
<1> SUFFICES ASSUME IInv, NEW v \in Values, Handler(v) PROVE IInv'
  OBVIOUS
<1> USE DEF IInv, Handler, static
<1>1. InHandler(cur_task)
  BY DEF Running, InProgram, InHandler, InYield, InSwitch, Yielded, Home
<1>2. TypeOK'
  BY AllType DEF TypeOK
<1>3. Running(cur_task)'
  BY <1>1 DEF Running, InHandler, InYield, Yielded, Base, Home, TypeOK
<1>4. ASSUME NEW t \in Tasks \ {cur_task} PROVE Waiting(t)'
  BY WaitingKept DEF TypeOK
<1> QED
  BY <1>2, <1>3, <1>4

LEMMA YieldInv == IInv /\ Yield => IInv'
<1> SUFFICES ASSUME IInv, Yield PROVE IInv'
  OBVIOUS
<1> USE DEF IInv, Yield, static
<1>1. InYield(cur_task)
  BY DEF Running, InProgram, InHandler, InYield, InSwitch, Yielded, Home
<1>2. Frame = Inner(cur_task) /\ Base(cur_task) \in Frames /\ Inner(cur_task) \in Frames
  BY <1>1, FrameTypes DEF InYield, Frame, Inner, TypeOK
<1>3. stack' = [stack EXCEPT ![cur_task] = <<Base(cur_task), Inner(cur_task)>>]
  BY <1>1, <1>2, Stacks DEF InYield, Push
<1>4. TypeOK'
  BY <1>2, <1>3 DEF TypeOK
<1>5. Running(cur_task)'
  BY <1>1, <1>3 DEF Running, InYield, InSwitch, Base, Inner, Home, TypeOK
<1>6. ASSUME NEW t \in Tasks \ {cur_task} PROVE Waiting(t)'
  BY <1>3, WaitingKept DEF TypeOK
<1> QED
  BY <1>4, <1>5, <1>6

LEMMA IretInv == IInv /\ IretFromHandler => IInv'
<1> SUFFICES ASSUME IInv, IretFromHandler PROVE IInv'
  OBVIOUS
<1> USE DEF IInv, IretFromHandler, static
<1>1. Yielded(cur_task)
  BY DEF Running, InProgram, InHandler, InYield, InSwitch, Yielded, Home
<1>2. Base(cur_task) \in Frames
  BY FrameTypes DEF TypeOK
<1>3. Top = Base(cur_task) /\ stack' = [stack EXCEPT ![cur_task] = <<>>]
  BY <1>1, <1>2, Stacks DEF Yielded, Top, Pop
<1>4. at' = Home /\ regs' = All(own[cur_task]) /\ IF_' = TRUE
  BY <1>3 DEF Base
<1>5. TypeOK'
  <2>1. All(own[cur_task]) \in [Regs -> Values] /\ <<>> \in Seq(Frames)
    BY AllType DEF TypeOK
  <2> QED
    BY <1>3, <1>4, <2>1 DEF TypeOK
<1>6. Running(cur_task)'
  BY <1>3, <1>4 DEF Running, InProgram, Home, TypeOK
<1>7. ASSUME NEW t \in Tasks \ {cur_task} PROVE Waiting(t)'
  BY <1>3, WaitingKept DEF TypeOK
<1> QED
  BY <1>5, <1>6, <1>7

(* The switch parks one task and lets the next one go on, which may be the *)
(* same one when it is alone.                                              *)
LEMMA C8HandlerInv == IInv /\ (\E junk \in Values : C8Handler(junk)) => IInv'
<1> SUFFICES ASSUME IInv, NEW junk \in Values, C8Handler(junk) PROVE IInv'
  OBVIOUS
<1> DEFINE c == cur_task
           saved == [tasks EXCEPT ![c] = [at |-> "yielded", regs |-> SavedRegs(junk), flag |-> SavedFlag]]
           next == saved[Following]
<1> USE DEF IInv
<1>1. /\ tasks' = saved /\ at' = next.at /\ regs' = next.regs /\ IF_' = next.flag
      /\ stack' = Pop /\ cur_task' = Following
      /\ made' = made /\ mapped' = mapped /\ own' = own /\ inner' = inner
  BY DEF C8Handler
<1>2. InSwitch(c)
  BY DEF C8Handler, Running, InProgram, InHandler, InYield, InSwitch, Yielded, Home
<1>3. Base(c) \in Frames /\ Inner(c) \in Frames
  BY FrameTypes DEF TypeOK
<1>4. Top = Inner(c) /\ stack' = [stack EXCEPT ![c] = <<Base(c)>>]
  <2>1. stack[c] = <<Base(c), Inner(c)>>
    BY <1>2 DEF InSwitch
  <2>2. Last(stack[c]) = Inner(c) /\ Front(stack[c]) = <<Base(c)>>
    BY <1>3, <2>1, Stacks
  <2> QED
    BY <1>1, <2>2 DEF Top, Pop
<1>5. SavedRegs(junk) = All(inner[c]) /\ SavedFlag = FALSE
  <2>1. regs \in [Regs -> Values] /\ regs = All(inner[c])
    BY <1>2 DEF InSwitch, TypeOK
  <2>2. SavedRegs(junk) = regs
    BY <2>1, AllSaved
  <2> QED
    BY <1>4, <2>1, <2>2 DEF SavedFlag, Inner
<1>6. saved = [tasks EXCEPT ![c] = [at |-> "yielded", regs |-> All(inner[c]), flag |-> FALSE]]
  BY <1>5
<1> HIDE DEF saved, next
<1>7. [at |-> "yielded", regs |-> All(inner[c]), flag |-> FALSE] \in Frames
  BY AllType DEF TypeOK, Frames, Places
<1>8. Following \in Tasks
  BY FollowingIsTask DEF TypeOK
<1>9. saved \in [Tasks -> Frames] /\ next \in Frames
  BY <1>6, <1>7, <1>8 DEF next, TypeOK
<1>10. TypeOK'
  <2>1. stack' \in [Tasks -> Seq(Frames)]
    BY <1>3, <1>4 DEF TypeOK
  <2>2. regs' \in [Regs -> Values]
    BY <1>1, <1>9 DEF Frames
  <2> QED
    BY <1>1, <1>8, <1>9, <2>1, <2>2 DEF TypeOK
<1>11. saved[c] = [at |-> "yielded", regs |-> All(inner[c]), flag |-> FALSE]
  BY <1>6 DEF TypeOK
<1>12. ASSUME NEW t \in Tasks \ {c} PROVE saved[t] = tasks[t] /\ stack'[t] = stack[t]
  BY <1>4, <1>6 DEF TypeOK
<1>13. stack'[c] = <<Base(c)>>
  BY <1>4 DEF TypeOK
<1>14. mapped /\ made = task_cnt
  BY <1>2 DEF InSwitch
<1>15. ASSUME NEW n \in Tasks, n = Following PROVE Running(n)'
  <2>1. CASE n = c
    <3>1. at' = "yielded" /\ regs' = All(inner[n]) /\ IF_' = FALSE
      BY <1>1, <1>11, <1>15, <2>1 DEF next
    <3> QED
      BY <1>1, <1>13, <2>1, <3>1 DEF Running, Yielded, Base, Home
  <2>2. CASE n # c
    <3>1. next = tasks[n] /\ stack'[n] = stack[n] /\ Waiting(n)
      BY <1>12, <1>15, <2>2 DEF next
    <3>2. CASE Fresh(n)
      <4>1. at' = "task" /\ regs' = All(own[n]) /\ IF_' = TRUE
        BY <1>1, <3>1, <3>2 DEF Fresh
      <4> QED
        BY <1>1, <1>14, <3>1, <3>2, <4>1 DEF Fresh, Running, InProgram, Home
    <3>3. CASE Parked(n)
      <4>1. at' = "yielded" /\ regs' = All(inner[n]) /\ IF_' = FALSE
        BY <1>1, <3>1, <3>3 DEF Parked
      <4> QED
        BY <1>1, <1>14, <3>1, <3>3, <4>1 DEF Parked, Running, Yielded, Base, Home
    <3>4. ~Unmade(n)
      BY <1>14, TasksAssumption DEF Unmade, Tasks
    <3> QED
      BY <3>1, <3>2, <3>3, <3>4 DEF Waiting
  <2> QED
    BY <2>1, <2>2
<1>16. ASSUME NEW t \in Tasks \ {Following} PROVE Waiting(t)'
  <2>1. CASE t = c
    BY <1>1, <1>11, <1>13, <1>14, <2>1 DEF Waiting, Parked, Base, Home
  <2>2. CASE t # c
    BY <1>1, <1>12, <2>2, WaitingKept
  <2> QED
    BY <2>1, <2>2
<1>17. Running(cur_task)' /\ \A t \in Tasks \ {cur_task'} : Waiting(t)'
  <2>1. cur_task' \in Tasks /\ cur_task' = Following
    BY <1>1, <1>8
  <2>2. \A n \in Tasks : n = cur_task' => Running(n)'
    BY <1>15, <2>1
  <2>3. Running(cur_task)'
    BY <2>1, <2>2 DEF Running, InProgram, InHandler, InYield, InSwitch, Yielded, Base, Inner, Home
  <2> QED
    BY <1>16, <2>1, <2>3
<1> QED
  BY <1>1, <1>10, <1>14, <1>17

LEMMA NextInv == IInv /\ [Next]_vars => IInv'
<1> SUFFICES ASSUME IInv, [Next]_vars PROVE IInv'
  OBVIOUS
<1>1. CASE UNCHANGED vars
  <2>1. TypeOK'
    BY <1>1 DEF IInv, TypeOK, vars, static
  <2>2. Running(cur_task)'
    BY <1>1 DEF IInv, vars, static, Running, InProgram, InHandler, InYield, InSwitch, Yielded, Base, Inner, Home
  <2>3. ASSUME NEW t \in Tasks \ {cur_task} PROVE Waiting(t)'
    BY <1>1, WaitingKept DEF IInv, vars, static
  <2> QED
    BY <1>1, <2>1, <2>2, <2>3 DEF IInv, vars, static
<1> QED
  BY <1>1, MkTaskInv, MapIrqInv, ComputeInv, TickInv, InterruptInv, HandlerInv, YieldInv,
     C8HandlerInv, IretInv DEF Next, Cpu

LEMMA Invariance == Spec => []IInv
BY InitInv, NextInv, PTL DEF Spec

(* Whoever runs has its registers as it left them.                         *)
THEOREM ContextIsKept == Spec => []ContextKept
<1>1. IInv => ContextKept
  BY DEF IInv, Running, InProgram, InHandler, InYield, InSwitch, Yielded, Home, ContextKept
<1> QED
  BY <1>1, Invariance, PTL

(* No task is interrupted deeper than by interrupt 0 and its switch.       *)
THEOREM NestingIsBounded == Spec => []NeverNested
<1>1. ASSUME IInv, NEW t \in Tasks PROVE Len(stack[t]) <= 2
  <2>1. \/ stack[t] = <<>> \/ stack[t] = <<Base(t)>>
        \/ stack[t] = <<Base(t), Inner(t)>>
    BY <1>1 DEF IInv, Running, InProgram, InHandler, InYield, InSwitch, Yielded,
                Waiting, Unmade, Fresh, Parked
  <2>2. Len(<<>>) = 0 /\ Len(<<Base(t)>>) = 1 /\ Len(<<Base(t), Inner(t)>>) = 2
    OBVIOUS
  <2>3. CASE stack[t] = <<>>
    BY <2>2, <2>3
  <2>4. CASE stack[t] = <<Base(t)>>
    BY <2>2, <2>4
  <2>5. CASE stack[t] = <<Base(t), Inner(t)>>
    BY <2>2, <2>5
  <2> QED
    BY <2>1, <2>3, <2>4, <2>5
<1>2. IInv => NeverNested
  BY <1>1 DEF NeverNested
<1> QED
  BY <1>2, Invariance, PTL
=============================================================================
