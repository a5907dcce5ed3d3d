-------------------------------- MODULE Tasks --------------------------------
(***************************************************************************)
(* The tasks that take turns on the timer (src/include/os/ctxsw.h): main   *)
(* makes them, the first one connects interrupt 0 to yield, and yield's    *)
(* interrupt 0xc8 saves the registers of one task and loads the next one's.*)
(* What interrupts a task is on its own stack: the frame of interrupt 0,   *)
(* with the registers its handler restores, and that of 0xc8 on top.       *)
(*                                                                         *)
(* A program that computes gives all registers a value of its choice.      *)
(***************************************************************************)
EXTENDS Integers, Sequences, SequencesExt

CONSTANTS
  task_cnt,   \* 4
  Values      \* what registers may hold

ASSUME TasksAssumption == task_cnt \in Nat \ {0} /\ 0 \in Values

Tasks == 0 .. task_cnt - 1
Regs  == {"eax", "ebx", "ecx", "edx", "esi", "edi", "ebp"}
All(v) == [r \in Regs |-> v]

VARIABLES
  at,         \* what runs: "main", "task", "handler" of interrupt 0,
              \*   its call of "yield", "c8", "yielded", back in the handler
  regs,       \* the registers
  IF_,        \* the flag that lets interrupts in
  stack,      \* task -> the interrupt frames on its stack
  tasks,      \* task -> at, registers and flag that are saved for it
  made,       \* how many tasks main has made
  cur_task,
  mapped,     \* interrupt 0 is connected to yield
  requested, in_service,  \* the PIC's bits for interrupt 0
  own,        \* history: what a task's program has in its registers
  inner       \* history: and what the handler had when it called yield

pic    == <<requested, in_service>>
static == <<tasks, made, cur_task, mapped>>
vars   == <<at, regs, IF_, stack, static, pic, own, inner>>

Init ==
  /\ at = "main" /\ regs = All(0) /\ IF_ = TRUE
  /\ stack = [t \in Tasks |-> <<>>]
  /\ tasks = [t \in Tasks |-> [at |-> "unmade", regs |-> All(0), flag |-> FALSE]]
  /\ made = 0 /\ cur_task = 0 /\ mapped = FALSE
  /\ requested = FALSE /\ in_service = FALSE
  /\ own = [t \in Tasks |-> 0] /\ inner = [t \in Tasks |-> 0]

(* mk_task: the registers of a task that has not run are those of static   *)
(* memory, and interrupts are on.                                          *)
MkTask ==
  /\ at = "main" /\ made < task_cnt
  /\ tasks' = [tasks EXCEPT ![made] = [at |-> "task", regs |-> @.regs, flag |-> TRUE]]
  /\ made' = made + 1
  /\ UNCHANGED <<at, regs, IF_, stack, cur_task, mapped, pic, own, inner>>

(* main becomes task 0, on main's own stack, which connects the timer.     *)
MapIrq ==
  /\ at = "main" /\ made = task_cnt
  /\ mapped' = TRUE
  /\ at' = "task"
  /\ UNCHANGED <<regs, IF_, stack, tasks, made, cur_task, pic, own, inner>>

Compute(v) ==
  /\ at = "task"
  /\ regs' = All(v) /\ own' = [own EXCEPT ![cur_task] = v]
  /\ UNCHANGED <<at, IF_, stack, static, pic, inner>>

-----------------------------------------------------------------------------
Tick ==
  /\ ~requested
  /\ requested' = TRUE
  /\ UNCHANGED <<at, regs, IF_, stack, static, in_service, own, inner>>

Frame == [at |-> at, regs |-> regs, flag |-> IF_]
Push  == [stack EXCEPT ![cur_task] = Append(@, Frame)]
Top   == Last(stack[cur_task])
Pop   == [stack EXCEPT ![cur_task] = Front(@)]

(* The CPU takes the interrupt: the handler saves what it will restore.    *)
Interrupt ==
  /\ IF_ /\ requested /\ ~in_service
  /\ requested' = FALSE /\ in_service' = TRUE
  /\ stack' = Push
  /\ IF_' = FALSE
  /\ at' = "handler"
  /\ UNCHANGED <<regs, static, own, inner>>

(* The handler ends the interrupt at the PIC, before it calls what is      *)
(* mapped.  It uses the registers for itself.                              *)
NoEoi   == TRUE   \* mutant
pic_eoi == FALSE

Handler(v) ==
  /\ at = "handler"
  /\ in_service' = pic_eoi
  /\ regs' = All(v) /\ inner' = [inner EXCEPT ![cur_task] = v]
  /\ at' = IF mapped THEN "yield" ELSE "yielded"
  /\ UNCHANGED <<IF_, stack, static, requested, own>>

(* int $0xc8, through an interrupt gate.                                   *)
Yield ==
  /\ at = "yield"
  /\ stack' = Push
  /\ IF_' = FALSE
  /\ at' = "c8"
  /\ UNCHANGED <<regs, static, pic, own, inner>>

(* c8_handler_i, with interrupts off.  It computes the address of the task *)
(* in eax, ebx and edx, which it has put on the stack before.              *)
StashedTwo == {"eax", "ebx"}  \* mutant
Stashed    == {"eax", "ebx", "edx"}
SavedRegs(junk) == [r \in Regs |-> IF r \in {"eax", "ebx", "edx"} \ Stashed THEN junk ELSE regs[r]]
FlagSet   == TRUE   \* mutant
SavedFlag == Top.flag

Following == (cur_task + 1) % task_cnt

C8Handler(junk) ==
  /\ at = "c8"
  /\ LET saved == [tasks EXCEPT ![cur_task] =
                     [at |-> "yielded", regs |-> SavedRegs(junk), flag |-> SavedFlag]]
         next  == saved[Following]
     IN  /\ tasks' = saved
         /\ at' = next.at /\ regs' = next.regs /\ IF_' = next.flag
  /\ stack' = Pop
  /\ cur_task' = Following
  /\ UNCHANGED <<made, mapped, pic, own, inner>>

(* yield returns, and so does the handler.                                 *)
IretFromHandler ==
  /\ at = "yielded"
  /\ at' = Top.at /\ regs' = Top.regs /\ IF_' = Top.flag
  /\ stack' = Pop
  /\ UNCHANGED <<static, pic, own, inner>>

-----------------------------------------------------------------------------
Cpu ==
  \/ MkTask \/ MapIrq
  \/ (\E v \in Values : Handler(v) \/ C8Handler(v))
  \/ Yield \/ IretFromHandler

Next ==
  \/ Cpu
  \/ \E v \in Values : Compute(v)
  \/ Tick \/ Interrupt

(* The timer ticks for ever, and the CPU goes on and takes interrupts.  It *)
(* runs an instruction of main between one interrupt and the next.         *)
Spec ==
  /\ Init /\ [][Next]_vars
  /\ WF_vars(Cpu) /\ SF_vars(MkTask \/ MapIrq)
  /\ WF_vars(Tick) /\ WF_vars(Interrupt)

-----------------------------------------------------------------------------
(* Whoever runs has its registers as it left them, whatever the handler    *)
(* and all the other tasks did in between: the program of a task, and the  *)
(* handler after its yield.                                                *)
ContextKept ==
  /\ at = "task" => regs = All(own[cur_task])
  /\ at = "yielded" => regs = All(inner[cur_task])

(* A task is interrupted once and no deeper, however long it waits for its *)
(* turn, so that interrupts never pile up on its stack.                    *)
NeverNested == \A t \in Tasks : Len(stack[t]) <= 2

(* Every task runs again and again.                                        *)
EveryTaskRuns == \A t \in Tasks : []<>(cur_task = t /\ at = "task")
=============================================================================
