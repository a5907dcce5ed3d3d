------------------------------- MODULE Syscall -------------------------------
(***************************************************************************)
(* The system calls of a program (src/include/os/syscall.h,                *)
(* src/syscall.cpp, run_indir of src/include/os/process.h) on top of the   *)
(* console.  The kernel prints and reads lines, then it runs a program.    *)
(* Its library puts the arguments of a call on the program's stack and     *)
(* executes int 0xc9; the kernel saves the program's registers in its one  *)
(* m_task, serves the call on the same stack with interrupts on, puts the  *)
(* result where the number of the call was and loads the registers again.  *)
(*                                                                         *)
(* The program is in ring 0, the one that process::run gives it.  Its      *)
(* stack grows down in words; an interrupt, and the kernel's own           *)
(* functions, may overwrite whatever lies below the stack pointer.         *)
(***************************************************************************)
EXTENDS Console

CONSTANTS
  StackSize,     \* words of the program's stack, TASK_STACK_SIZE / 4
  Values,        \* words the program computes with
  Junk,          \* a word that means nothing
  Chars,         \* the characters, in the order of their codes
  Pointers,      \* what malloc returns, 0 for a failure among them
  Message,       \* one line of what alloc and dirent print
  LineSize,      \* 100, what get_term gives getline
  MaxCalls,      \* bound: how many calls the program makes
  MaxBanner      \* bound: how many characters are there when it is run

ASSUME StackAssumption == StackSize \in Nat /\ StackSize > 13
ASSUME WordsAssumption ==
  /\ 0 \in Values /\ 0 \in Pointers /\ Values \cup Pointers \cup {Junk} \subseteq Int
  /\ LineSize \in Sizes /\ Message \in Seq(Glyphs \cup Controls) /\ Message # <<>>
  /\ Chars \in Seq(Glyphs \cup Controls) /\ Chars # <<>>
ASSUME BoundsAssumption == MaxCalls \in Nat /\ MaxBanner \in Nat

put_term == 1  get_term == 2  alloc == 3  dirent == 4
m_cmds   == put_term .. dirent
Unknown  == 5                \* of the numbers no function is installed for
HasArgument == {put_term, get_term, alloc}

Regs == {"eax", "ebx", "ecx", "edx", "esi", "edi", "ebp"}
Kept == Regs \ {"eax", "ebx", "ecx"}    \* by the library's syscall()
All(v) == [r \in Regs |-> v]

(* The addresses a program's eip can hold at an interrupt of interest, and *)
(* the word of its stack where its function keeps a local variable.        *)
Entry == 1  AfterInt == 2
Local == StackSize - 1

VARIABLES
  pc,         \* where the CPU is
  regs, esp, IF_,
  stack,      \* the program's stack
  m_task,     \* the context of the program that called
  indir,      \* the task run_indir was called with
  calls,      \* how many calls the program has made
  own,        \* history: what the program has in its registers and its local
  asked,      \* history: number and argument of the last call
  answer      \* history: what its function returned, what the program got

cpu     == <<regs, esp, IF_, stack>>
history == <<own, asked, answer>>
console == <<screen, line, todo, text>>
sysvars == <<console, pc, cpu, m_task, indir, calls, history>>

Task(at) == [regs |-> All(0), esp |-> Local, eip |-> at, flag |-> 1]

SysInit ==
  /\ Init
  /\ pc = "kernel"
  /\ regs = All(0) /\ esp = Local /\ IF_ = 1
  /\ stack = [i \in 0 .. StackSize - 1 |-> 0]
  /\ m_task = Task(0) /\ indir = Task(0)
  /\ calls = 0 /\ own = 0
  /\ asked = [cmd |-> 0, arg |-> 0]
  /\ answer = [given |-> 0, taken |-> 0]

Below(p) == [i \in DOMAIN stack |-> IF i < p THEN Junk ELSE stack[i]]
Pushed(s, p, words) ==  \* the first word lies highest
  [i \in DOMAIN s |-> IF i \in p - Len(words) .. p - 1 THEN words[p - i] ELSE s[i]]

(* The kernel uses its console before it runs a program.                   *)
KernelStep ==
  /\ pc = "kernel" /\ Next
  /\ UNCHANGED <<pc, cpu, m_task, indir, calls, history>>

(* process::run.  The task of a new process is clear but for its entry,    *)
(* its stack pointer and the flag that lets interrupts in.                 *)
Run ==
  /\ pc = "kernel" /\ Idle
  /\ Len(text) <= MaxBanner
  /\ indir' = Task(Entry)
  /\ pc' = "run_indir"
  /\ UNCHANGED <<console, cpu, m_task, calls, history>>

(* An interrupt at any instruction.  Its handler restores the registers,   *)
(* and leaves its frame and its own below the stack pointer.               *)
Irq ==
  /\ pc # "kernel" /\ IF_ = 1
  /\ stack' = Below(esp)
  /\ UNCHANGED <<console, pc, regs, esp, IF_, m_task, indir, calls, history>>

-----------------------------------------------------------------------------
(* The program.                                                            *)
Compute(v) ==
  /\ pc = "program"
  /\ regs' = All(v) /\ stack' = [stack EXCEPT ![Local] = v]
  /\ own' = v
  /\ UNCHANGED <<console, pc, esp, IF_, m_task, indir, calls, asked, answer>>

(* How much text a call may add: a bound on the model only.                *)
MostText(cmd) ==
  CASE cmd = put_term -> 1
    [] cmd = get_term -> LineSize - 1
    [] cmd \in {alloc, dirent} -> Len(Message)
    [] OTHER -> 0

(* The library's syscall(): arguments, their number and that of the call.  *)
Args(cmd, a) == IF cmd \in HasArgument THEN <<a, 1, cmd>> ELSE <<0, cmd>>

Syscall(cmd, a) ==
  /\ pc = "program"
  /\ calls < MaxCalls /\ Len(text) + MostText(cmd) <= MaxText
  /\ stack' = Pushed(stack, esp, Args(cmd, a))
  /\ esp' = esp - Len(Args(cmd, a))
  /\ regs' = [regs EXCEPT !["eax"] = Junk, !["ecx"] = 0]
  /\ pc' = "int"
  /\ calls' = calls + 1
  /\ asked' = [cmd |-> cmd, arg |-> a]
  /\ UNCHANGED <<console, IF_, m_task, indir, own, answer>>

(* int $0xc9: flags, code segment and return address, and through an       *)
(* interrupt gate.                                                         *)
IntC9 ==
  /\ pc = "int"
  /\ stack' = Pushed(stack, esp, <<IF_, 8, AfterInt>>)
  /\ esp' = esp - 3
  /\ IF_' = 0
  /\ pc' = "save_context_and_go"
  /\ UNCHANGED <<console, regs, m_task, indir, calls, history>>

(* save_context_and_go, up to its sti and its jump.  The registers it      *)
(* needs for itself are on the stack before: ebp, eax, ebx and edx.        *)
NoSti == 0  \* mutant
Sti   == 1

SaveContextAndGo ==
  /\ pc = "save_context_and_go"
  /\ m_task' = [regs |-> regs, esp |-> esp + 3, eip |-> stack[esp], flag |-> stack[esp + 2]]
  /\ stack' = Pushed(stack, esp, <<regs["ebp"], regs["eax"], regs["ebx"], regs["edx"], Junk, Junk>>)
  /\ esp' = esp - 6
  /\ IF_' = Sti
  /\ pc' = "syscall_handler"
  /\ UNCHANGED <<console, regs, indir, calls, history>>

-----------------------------------------------------------------------------
(* syscall_handler finds the frame of the interrupt, three words, below    *)
(* the stack pointer that was saved; what the program pushed is above it.  *)
frame == m_task.esp - 3
WithoutFlags == frame + 2  \* mutant
kernel_to_kernel_stack == frame + 3
Arg   == stack[kernel_to_kernel_stack + 2]    \* argc comes before it
CharOf(w) == Chars[(w % Len(Chars)) + 1]      \* (char)

SyscallHandler ==
  /\ pc = "syscall_handler"
  /\ LET cmd == stack[kernel_to_kernel_stack] IN
     IF cmd \in m_cmds
     THEN pc' = <<"put_term", "get_term", "alloc", "dirent">>[cmd] /\ UNCHANGED indir
     ELSE pc' = "run_indir" /\ indir' = m_task
  /\ regs' = All(Junk) /\ stack' = Below(esp)
  /\ UNCHANGED <<console, esp, IF_, m_task, calls, history>>

(* What the function returns takes the place of the call's number.         *)
Return(v) ==
  /\ stack' = [stack EXCEPT ![kernel_to_kernel_stack] = v]
  /\ indir' = m_task
  /\ pc' = "run_indir"
  /\ answer' = [answer EXCEPT !.given = v]
  /\ UNCHANGED <<regs, esp, IF_, m_task, calls, own, asked>>

Goto(l) == pc' = l /\ UNCHANGED <<cpu, m_task, indir, calls, history>>

PutTerm == pc = "put_term" /\ Putchar(CharOf(Arg)) /\ UNCHANGED <<line, todo>> /\ Return(0)

GetTerm == pc = "get_term" /\ Getline(LineSize) /\ Goto("getline")

(* wait_char spins until the handler of the keyboard's interrupt has a key.*)
TypeKey(c)  == pc = "getline" /\ IF_ = 1 /\ Key(c) /\ Goto("getline")
GetlineEnds == pc = "getline" /\ LineFull /\ Goto("getline")
GetTermReturns == pc = "getline" /\ size = NoLine /\ UNCHANGED console /\ Return(0)

(* alloc says so and calls malloc; dirent prints a line for every entry of *)
(* the tree.                                                               *)
Alloc  == pc = "alloc" /\ Printf(Message) /\ Goto("allocating")
Malloc(p) == pc = "allocating" /\ todo = <<>> /\ UNCHANGED console /\ Return(p)
Dirent == pc \in {"dirent", "listing"} /\ Printf(Message) /\ Goto("listing")
DirentReturns == pc = "listing" /\ todo = <<>> /\ UNCHANGED console /\ Return(0)
PrintLine == pc \in {"allocating", "listing"} /\ PrintfStep /\ Goto(pc)

-----------------------------------------------------------------------------
(* run_indir, with interrupts on: its stack pointer is the task's from the *)
(* first step on, and it pushes a new frame there for its iret.            *)
RunIndir ==
  /\ pc = "run_indir"
  /\ esp' = indir.esp
  /\ regs' = [r \in Regs |-> IF r \in {"eax", "ebx"} THEN Junk ELSE indir.regs[r]]
  /\ pc' = "push"
  /\ UNCHANGED <<console, IF_, stack, m_task, indir, calls, history>>

FrameStillThere == stack  \* mutant
FramePushed == Pushed(stack, esp, <<indir.flag, 8, indir.eip>>)

PushFrame ==
  /\ pc = "push"
  /\ stack' = FramePushed
  /\ esp' = esp - 3
  /\ regs' = [regs EXCEPT !["eax"] = indir.regs["eax"], !["ebx"] = indir.regs["ebx"]]
  /\ pc' = "iret"
  /\ UNCHANGED <<console, IF_, m_task, indir, calls, history>>

Iret ==
  /\ pc = "iret"
  /\ pc' = IF stack[esp] = Entry THEN "program" ELSE IF stack[esp] = AfterInt THEN "pop" ELSE "lost"
  /\ IF_' = stack[esp + 2]
  /\ esp' = esp + 3
  /\ UNCHANGED <<console, regs, stack, m_task, indir, calls, history>>

(* The end of the library's syscall(): the result, argc, the arguments.    *)
Pop ==
  /\ pc = "pop"
  /\ LET argc == stack[esp + 1] IN
     /\ regs' = [regs EXCEPT !["eax"] = stack[esp], !["ecx"] = 0,
                             !["ebx"] = IF argc = 0 THEN @ ELSE stack[esp + 1 + argc]]
     /\ esp' = esp + 2 + argc
  /\ answer' = [answer EXCEPT !.taken = stack[esp]]
  /\ pc' = "program"
  /\ UNCHANGED <<console, IF_, stack, m_task, indir, calls, own, asked>>

-----------------------------------------------------------------------------
Cpu ==
  \/ IntC9 \/ SaveContextAndGo \/ SyscallHandler
  \/ PutTerm \/ GetTerm \/ GetlineEnds \/ GetTermReturns
  \/ Alloc \/ DirentReturns \/ PrintLine
  \/ \E p \in Pointers : Malloc(p)
  \/ RunIndir \/ PushFrame \/ Iret \/ Pop

SysNext ==
  \/ Cpu
  \/ KernelStep \/ Run \/ Irq
  \/ \E v \in Values : Compute(v)
  \/ \E cmd \in m_cmds \cup {Unknown}, a \in Values : Syscall(cmd, a)
  \/ \E c \in Typable : TypeKey(c)
  \/ Dirent

(* The CPU goes on with a call, whoever waits for a key gets one, and the  *)
(* first line of dirent comes; the program need never call.                *)
SysSpec ==
  /\ SysInit /\ [][SysNext]_sysvars
  /\ WF_sysvars(Cpu)
  /\ WF_sysvars(\E c \in Typable : TypeKey(c))
  /\ WF_sysvars(pc = "dirent" /\ Dirent)

-----------------------------------------------------------------------------
(* The type of the variables the console does not have.                    *)
SysTypeOK ==
  /\ esp \in 0 .. Local /\ IF_ \in {0, 1}
  /\ DOMAIN stack = 0 .. Local /\ DOMAIN regs = Regs
  /\ calls \in 0 .. MaxCalls

(***************************************************************************)
(* A program that is back from a system call has the registers that its    *)
(* library's syscall() does not use, its stack pointer, its local and its  *)
(* interrupt flag as they were before the call, wherever interrupts came   *)
(* in; it gets what the function returned, or the number of the call when  *)
(* there is no such function; and what it wrote is the end of the console. *)
(***************************************************************************)
CallerKept ==
  /\ SysTypeOK /\ pc # "lost"
  /\ pc = "program" =>
       /\ \A r \in Kept : regs[r] = own
       /\ esp = Local /\ stack[Local] = own /\ IF_ = 1
       /\ answer.taken = IF asked.cmd = Unknown THEN Unknown ELSE answer.given
       /\ asked.cmd = put_term => Last(text) = CharOf(asked.arg)

(* Every call comes back to the program, as long as whoever is asked for a *)
(* line types on.                                                          *)
SyscallsReturn == pc = "int" ~> pc = "program"
=============================================================================
