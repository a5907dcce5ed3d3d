---------------------------- MODULE SyscallProofs ----------------------------
(* What a program finds when it is back from a system call, for every      *)
(* stack, every word and every console.                                    *)
EXTENDS Syscall, SequenceTheorems, WellFoundedInduction, TLAPS

Letters == Glyphs \cup Controls
Words   == [0 .. Local -> Int]
Tasks   == [regs : [Regs -> Int], esp : 0 .. Local, eip : Int, flag : Int]

(* While a call is served its arguments stand on the stack above the word  *)
(* that esp had at int 0xc9.                                               *)
argc == IF asked.cmd \in HasArgument THEN 1 ELSE 0
Top  == Local - 2 - argc
ArgsThere == stack[Top + 1] = argc /\ (argc = 1 => stack[Top + 2] = asked.arg)
Result    == IF asked.cmd = Unknown THEN Unknown ELSE answer.given
Written   == asked.cmd = put_term => Last(text) = CharOf(asked.arg)

Called == asked.cmd \in m_cmds \cup {Unknown}
Owns(r) == \A x \in Kept : r[x] = own

(* The task that run_indir is to load.                                     *)
Loadable(t) ==
  /\ Owns(t.regs) /\ t.flag = 1
  /\ \/ t.eip = Entry /\ t.esp = Local /\ asked.cmd = 0
     \/ t.eip = AfterInt /\ t.esp = Top /\ Called
Saved == Owns(m_task.regs) /\ m_task.flag = 1 /\ m_task.eip = AfterInt /\ m_task.esp = Top

Serving == {"syscall_handler", "put_term", "get_term", "getline", "alloc", "allocating",
            "dirent", "listing"}
Loading == {"run_indir", "push", "iret"}
Labels  == Serving \cup Loading \cup {"kernel", "program", "int", "save_context_and_go", "pop"}

ConsoleTypes ==
  /\ text \in Seq(Letters) /\ todo \in Seq(Letters)
  /\ m_cx \in Cols /\ m_cy \in Rows
  /\ m_buffer \in [Cols \X Rows -> Glyphs \cup {Blank}]

CpuTypes ==
  /\ pc \in Labels
  /\ regs \in [Regs -> Int] /\ esp \in 0 .. Local /\ IF_ \in {0, 1} /\ stack \in Words
  /\ m_task \in Tasks /\ indir \in Tasks
  /\ calls \in 0 .. MaxCalls /\ own \in Int
  /\ asked \in [cmd : {0} \cup m_cmds \cup {Unknown}, arg : Int]
  /\ answer \in [given : Int, taken : Int]

InKernel  == esp = Local /\ own = 0 /\ asked.cmd = 0
InProgram == esp = Local /\ Owns(regs) /\ answer.taken = Result /\ Written
InCall(p) == esp = p /\ Called /\ Owns(regs) /\ ArgsThere /\ stack[Top] = asked.cmd
Trapped   == InCall(Top - 3) /\ stack[esp] = AfterInt /\ stack[esp + 2] = 1
InHandler ==
  /\ esp = Top - 9 /\ Called /\ Saved /\ ArgsThere
  /\ stack[Top] = asked.cmd
  /\ pc # "syscall_handler" => asked.cmd # Unknown /\ (pc = "put_term" <=> asked.cmd = put_term)
Leaving ==
  /\ Loadable(indir) /\ esp <= indir.esp
  /\ asked.cmd # 0 => ArgsThere /\ stack[Top] = Result /\ Written
AtPush == esp = indir.esp /\ Owns(regs)
AtIret == esp = indir.esp - 3 /\ Owns(regs) /\ stack[esp] = indir.eip /\ stack[esp + 2] = 1
AtPop  == esp = Top /\ Called /\ Owns(regs) /\ ArgsThere /\ stack[Top] = Result /\ Written

IInv ==
  /\ ConsoleTypes /\ CpuTypes
  /\ stack[Local] = own
  /\ IF_ = IF pc = "save_context_and_go" THEN 0 ELSE 1
  /\ asked.cmd = 0 => answer.given = answer.taken
  /\ pc = "kernel" => InKernel
  /\ pc = "program" => InProgram
  /\ pc = "int" => InCall(Top)
  /\ pc = "save_context_and_go" => Trapped
  /\ pc \in Serving => InHandler
  /\ pc \in Loading => Leaving
  /\ pc = "push" => AtPush
  /\ pc = "iret" => AtIret
  /\ pc = "pop" => AtPop

-----------------------------------------------------------------------------
(* The console.                                                            *)
LEMMA LastAppended ==
  ASSUME NEW S, NEW s \in Seq(S), NEW c \in S
  PROVE  Append(s, c) \in Seq(S) /\ Last(Append(s, c)) = c
BY AppendProperties DEF Last

LEMMA TailIn ==
  ASSUME NEW S, NEW s \in Seq(S), s # <<>>
  PROVE  Head(s) \in S /\ Tail(s) \in Seq(S)
BY HeadTailProperties

LEMMA ScrollType ==
  ASSUME NEW cells \in [Cols \X Rows -> Glyphs \cup {Blank}]
  PROVE  Scroll(cells) \in [Cols \X Rows -> Glyphs \cup {Blank}]
<1>1. \A p \in Cols \X Rows : p[2] < Height - 1 => <<p[1], p[2] + 1>> \in Cols \X Rows
  BY ScreenAssumption DEF Cols, Rows
<1> QED
  BY <1>1 DEF Scroll

(* Wherever a character or a control wants the cursor, it stays on the     *)
(* screen.                                                                 *)
LEMMA MoveToType ==
  ASSUME NEW x \in Nat, NEW y \in 0 .. Height,
         NEW cells \in [Cols \X Rows -> Glyphs \cup {Blank}],
         x >= Width => y < Height, MoveTo(x, y, cells)
  PROVE  /\ m_cx' \in Cols /\ m_cy' \in Rows
         /\ m_buffer' \in [Cols \X Rows -> Glyphs \cup {Blank}]
<1>1. Wrap(x, y)[1] \in Cols /\ Wrap(x, y)[2] \in 0 .. Height
  BY ScreenAssumption DEF Wrap, Cols
<1> DEFINE w == Wrap(x, y)
<1>2. /\ m_cx' = w[1]
      /\ w[2] >= Height => m_cy' = w[2] - 1 /\ m_buffer' = Scroll(cells)
      /\ ~(w[2] >= Height) => m_cy' = w[2] /\ m_buffer' = cells
  BY DEF MoveTo
<1>3. w[1] \in Cols /\ w[2] \in 0 .. Height
  BY <1>1
<1> HIDE DEF w
<1> QED
  BY <1>2, <1>3, ScrollType, ScreenAssumption DEF Rows

LEMMA PutcharType ==
  ASSUME ConsoleTypes, NEW c \in Letters, Putchar(c)
  PROVE  /\ text' = Append(text, c) /\ text' \in Seq(Letters) /\ Last(text') = c
         /\ m_cx' \in Cols /\ m_cy' \in Rows
         /\ m_buffer' \in [Cols \X Rows -> Glyphs \cup {Blank}]
<1>1. text' = Append(text, c) /\ text' \in Seq(Letters) /\ Last(text') = c
  BY LastAppended DEF Putchar, ConsoleTypes
<1>2. m_cx \in 0 .. Width - 1 /\ m_cy \in 0 .. Height - 1
  BY DEF ConsoleTypes, Cols, Rows
<1>3. CASE ProcessControl(c)
  <2>1. \/ MoveTo(0, m_cy + 1, m_buffer)
        \/ MoveTo(0, m_cy, m_buffer)
        \/ MoveTo(m_cx + 4, m_cy, m_buffer)
    BY <1>3 DEF ProcessControl
  <2>2. m_buffer \in [Cols \X Rows -> Glyphs \cup {Blank}]
    BY DEF ConsoleTypes
  <2>3. m_cy + 1 \in 0 .. Height /\ m_cy \in 0 .. Height /\ m_cx + 4 \in Nat /\ m_cy < Height
        /\ 0 \in Nat /\ ~(0 >= Width)
    BY <1>2, ScreenAssumption
  <2> QED
    BY <1>1, <2>1, <2>2, <2>3, MoveToType
<1>4. CASE c \notin Controls /\ MoveTo(m_cx + 1, m_cy, [m_buffer EXCEPT ![<<m_cx, m_cy>>] = c])
  <2>1. [m_buffer EXCEPT ![<<m_cx, m_cy>>] = c] \in [Cols \X Rows -> Glyphs \cup {Blank}]
    BY <1>4 DEF ConsoleTypes, Letters
  <2>2. m_cx + 1 \in Nat /\ m_cy \in 0 .. Height /\ m_cy < Height
    BY <1>2, ScreenAssumption
  <2> QED
    BY <1>1, <1>4, <2>1, <2>2, MoveToType
<1> QED
  BY <1>3, <1>4 DEF Putchar

LEMMA PrintfType ==
  ASSUME ConsoleTypes, NEW s \in Seq(Letters), Printf(s)
  PROVE  ConsoleTypes'
BY DEF ConsoleTypes, Printf, screen, line

LEMMA PrintfStepChar ==
  ASSUME ConsoleTypes, todo # <<>>
  PROVE  Head(Percent(todo)) \in Letters /\ Tail(Percent(todo)) \in Seq(Letters)
<1>1. Percent(todo) \in Seq(Letters) /\ Percent(todo) # <<>>
  <2>1. todo \in Seq(Letters) /\ todo # <<>>
    BY DEF ConsoleTypes
  <2>2. Len(todo) > 1 => Tail(todo) \in Seq(Letters) /\ Len(Tail(todo)) > 0
    BY <2>1, HeadTailProperties
  <2>3. Percent(todo) = todo \/ (Len(todo) > 1 /\ Percent(todo) = Tail(todo))
    BY DEF Percent
  <2> QED
    BY <2>1, <2>2, <2>3, EmptySeq
<1> QED
  BY <1>1, TailIn

LEMMA PrintfStepType ==
  ASSUME ConsoleTypes, PrintfStep
  PROVE  ConsoleTypes'
<1>1. Head(Percent(todo)) \in Letters /\ Tail(Percent(todo)) \in Seq(Letters)
  BY PrintfStepChar DEF PrintfStep
<1> QED
  BY <1>1, PutcharType DEF PrintfStep, ConsoleTypes

LEMMA GetlineType ==
  ASSUME ConsoleTypes, \/ \E s \in Sizes : Getline(s)
                       \/ \E c \in Typable : Key(c)
                       \/ LineFull
  PROVE  ConsoleTypes'
<1>1. Typable \subseteq Letters
  BY DEF Typable, Letters, Controls
<1>2. ASSUME NEW c \in Typable, Key(c) PROVE ConsoleTypes'
  BY <1>1, <1>2, PutcharType DEF Key, ConsoleTypes
<1> QED
  BY <1>2 DEF ConsoleTypes, Getline, LineFull, screen

LEMMA ConsoleNext ==
  ASSUME ConsoleTypes, Next PROVE ConsoleTypes'
<1>1. ASSUME NEW c \in Letters, Put(c) PROVE ConsoleTypes'
  BY <1>1, PutcharType DEF Put, ConsoleTypes, line
<1>2. ASSUME NEW s \in {<<a, b>> : a, b \in Glyphs}, Printf(s) PROVE ConsoleTypes'
  <2>1. PICK a \in Glyphs, b \in Glyphs : s = <<a, b>>
    BY <1>2
  <2>2. a \in Letters /\ b \in Letters
    BY DEF Letters
  <2>3. s \in Seq(Letters)
    BY <2>1, <2>2
  <2> QED
    BY <1>2, <2>3, PrintfType
<1> QED
  BY <1>1, <1>2, PrintfStepType, GetlineType DEF Next, Letters

-----------------------------------------------------------------------------
(* The stack.                                                              *)
LEMMA PushedWords ==
  ASSUME NEW s \in Words, NEW w \in Seq(Int), NEW p \in 0 .. Local, Len(w) <= p
  PROVE  /\ Pushed(s, p, w) \in Words
         /\ \A i \in p .. Local : Pushed(s, p, w)[i] = s[i]
         /\ \A k \in 1 .. Len(w) : Pushed(s, p, w)[p - k] = w[k]
<1>1. DOMAIN s = 0 .. Local /\ Local \in Int
  BY StackAssumption DEF Words, Local
<1>2. \A i \in 0 .. Local : i \in p - Len(w) .. p - 1 => p - i \in 1 .. Len(w)
  BY <1>1
<1>3. \A k \in 1 .. Len(w) :
        p - k \in 0 .. Local /\ p - k \in p - Len(w) .. p - 1 /\ p - (p - k) = k
  BY <1>1
<1>4. \A k \in 1 .. Len(w) : w[k] \in Int
  OBVIOUS
<1>5. Pushed(s, p, w) \in Words
  BY <1>1, <1>2, <1>4 DEF Pushed, Words
<1> QED
  BY <1>1, <1>3, <1>5 DEF Pushed

LEMMA BelowWords ==
  ASSUME stack \in Words, NEW p \in 0 .. Local
  PROVE  /\ Below(p) \in Words
         /\ \A i \in p .. Local : Below(p)[i] = stack[i]
BY StackAssumption, WordsAssumption DEF Below, Words, Local

(* The arguments of a call fit, with room for what the kernel pushes.      *)
LEMMA TopBounds ==
  /\ argc \in {0, 1} /\ Top = Local - 2 - argc
  /\ Local \in Nat /\ Local >= 13
BY StackAssumption DEF argc, Top, Local

LEMMA AllType == ASSUME NEW v \in Int PROVE All(v) \in [Regs -> Int]
BY DEF All

LEMMA TaskType ==
  ASSUME NEW at \in Int
  PROVE  /\ Task(at) \in Tasks
         /\ Task(at).esp = Local /\ Task(at).eip = at /\ Task(at).flag = 1
         /\ \A r \in Regs : Task(at).regs[r] = 0
<1>1. All(0) \in [Regs -> Int] /\ \A r \in Regs : All(0)[r] = 0
  BY DEF All
<1>2. Local \in 0 .. Local
  BY TopBounds
<1> QED
  BY <1>1, <1>2 DEF Task, Tasks

-----------------------------------------------------------------------------
(* One lemma per step.                                                     *)
LEMMA InitIInv == ASSUME SysInit PROVE IInv
<1>1. ConsoleTypes
  BY ScreenAssumption, EmptySeq DEF SysInit, Init, ConsoleTypes, Cols, Rows
<1>2. Local \in 0 .. Local /\ 0 .. Local = 0 .. StackSize - 1
  BY TopBounds DEF Local
<1>3. stack \in Words /\ stack[Local] = 0
  BY StackAssumption DEF SysInit, Words, Local
<1>4. regs \in [Regs -> Int] /\ Task(0) \in Tasks
  BY TaskType, AllType DEF SysInit
<1>5. /\ pc = "kernel" /\ esp = Local /\ IF_ = 1 /\ calls = 0 /\ own = 0
      /\ asked.cmd = 0 /\ answer.given = 0 /\ answer.taken = 0
      /\ asked \in [cmd : {0} \cup m_cmds \cup {Unknown}, arg : Int]
      /\ answer \in [given : Int, taken : Int]
      /\ m_task \in Tasks /\ indir \in Tasks
  BY <1>4 DEF SysInit
<1>6. CpuTypes
  BY <1>2, <1>3, <1>4, <1>5, BoundsAssumption DEF CpuTypes, Labels
<1> QED
  BY <1>1, <1>3, <1>5, <1>6 DEF IInv, InKernel, Serving, Loading

LEMMA KernelStepKeeps == ASSUME IInv, KernelStep PROVE IInv'
<1>1. ConsoleTypes'
  BY ConsoleNext DEF IInv, KernelStep
<1>2. UNCHANGED <<pc, regs, esp, IF_, stack, m_task, indir, calls, own, asked, answer>>
  BY DEF KernelStep, cpu, history
<1>3. CpuTypes'
  BY <1>2 DEF IInv, CpuTypes
<1> QED
  BY <1>1, <1>2, <1>3 DEF KernelStep, IInv, InKernel, Serving, Loading

LEMMA RunKeeps == ASSUME IInv, Run PROVE IInv'
<1>1. UNCHANGED <<regs, esp, IF_, stack, m_task, calls, own, asked, answer>>
  BY DEF Run, cpu, history
<1>2. ConsoleTypes'
  BY DEF IInv, Run, console, screen, ConsoleTypes
<1>3. pc' = "run_indir" /\ indir' = Task(Entry) /\ esp = Local /\ own = 0 /\ asked.cmd = 0
  BY DEF Run, IInv, InKernel
<1>4. indir' \in Tasks /\ Loadable(indir)' /\ indir'.esp = Local
  BY <1>1, <1>3, TaskType DEF Loadable, Owns, Kept, Entry
<1>5. CpuTypes'
  BY <1>1, <1>3, <1>4 DEF IInv, CpuTypes, Labels, Loading
<1>6. Leaving'
  BY <1>1, <1>3, <1>4, TopBounds DEF Leaving
<1> QED
  BY <1>1, <1>2, <1>3, <1>5, <1>6 DEF IInv, Serving, Loading, Run

LEMMA IrqKeeps == ASSUME IInv, Irq PROVE IInv'
<1>1. UNCHANGED <<pc, regs, esp, IF_, m_task, indir, calls, own, asked, answer>>
  BY DEF Irq, history
<1>2. ConsoleTypes'
  BY DEF IInv, Irq, console, screen, ConsoleTypes
<1>3. stack' \in Words /\ \A i \in esp .. Local : stack'[i] = stack[i]
  BY BelowWords DEF Irq, IInv, CpuTypes
<1>4. CpuTypes'
  BY <1>1, <1>3 DEF IInv, CpuTypes
<1>5. pc # "save_context_and_go" /\ pc # "kernel"
  BY DEF Irq, IInv
<1>6. esp \in 0 .. Local /\ Local \in Nat /\ Top \in Nat /\ Top + 2 <= Local /\ (argc = 1 => Top + 3 <= Local)
  BY TopBounds DEF IInv, CpuTypes
<1>7. stack'[Local] = own'
  BY <1>1, <1>3, <1>6 DEF IInv
<1>8. esp <= Top =>
        stack'[Top] = stack[Top] /\ stack'[Top + 1] = stack[Top + 1]
        /\ (argc = 1 => stack'[Top + 2] = stack[Top + 2])
  BY <1>3, <1>6
<1>9. ASSUME esp <= Top, ArgsThere PROVE ArgsThere'
  BY <1>1, <1>8, <1>9 DEF ArgsThere, argc, Top
<1>10. UNCHANGED <<argc, Top, Result>>
  BY <1>1 DEF argc, Top, Result
<1>11. UNCHANGED text
  BY DEF Irq, console
<1>12. UNCHANGED Written
  BY <1>1, <1>11 DEF Written
<1>13. CASE pc = "program"
  BY <1>1, <1>2, <1>4, <1>7, <1>10, <1>12, <1>13
     DEF IInv, InProgram, Owns, Serving, Loading
<1>14. CASE pc = "int"
  <2>1. InCall(Top) /\ esp = Top
    BY <1>14 DEF IInv, InCall
  <2>2. InCall(Top)'
    BY <1>1, <1>8, <1>9, <1>10, <1>6, <2>1 DEF InCall, Called, Owns
  <2> QED
    BY <1>1, <1>2, <1>4, <1>7, <1>10, <1>14, <2>2 DEF IInv, Serving, Loading
<1>15. CASE pc \in Serving
  <2>1. InHandler /\ esp <= Top
    BY <1>6, <1>15 DEF IInv, InHandler
  <2>2. InHandler'
    BY <1>1, <1>8, <1>9, <1>10, <2>1 DEF InHandler, Called, Saved, Owns
  <2> QED
    BY <1>1, <1>2, <1>4, <1>7, <1>15, <2>2 DEF IInv, Serving, Loading
<1>16. CASE pc \in Loading
  <2>1. Leaving
    BY <1>16 DEF IInv
  <2>2. asked.cmd # 0 => esp <= Top
    BY <1>6, <2>1 DEF Leaving, Loadable
  <2>3. Leaving'
    BY <1>1, <1>8, <1>9, <1>10, <1>12, <2>1, <2>2 DEF Leaving, Loadable, Owns, Called
  <2>4. pc = "push" => AtPush'
    BY <1>1 DEF IInv, AtPush, Owns
  <2>5. pc = "iret" => AtIret'
    <3>1. ASSUME pc = "iret" PROVE esp + 2 \in esp .. Local /\ esp \in esp .. Local
      BY <1>6, <2>1, <3>1 DEF IInv, AtIret, CpuTypes, Tasks
    <3> QED
      BY <1>1, <1>3, <3>1 DEF IInv, AtIret, Owns
  <2> QED
    BY <1>1, <1>2, <1>4, <1>7, <1>16, <2>3, <2>4, <2>5 DEF IInv, Serving, Loading
<1>17. CASE pc = "pop"
  <2>1. AtPop /\ esp <= Top
    BY <1>6, <1>17 DEF IInv, AtPop
  <2>2. AtPop'
    BY <1>1, <1>8, <1>9, <1>10, <1>12, <2>1 DEF AtPop, Called, Owns
  <2> QED
    BY <1>1, <1>2, <1>4, <1>7, <1>17, <2>2 DEF IInv, Serving, Loading
<1> QED
  BY <1>5, <1>13, <1>14, <1>15, <1>16, <1>17 DEF IInv, CpuTypes, Labels

LEMMA ComputeKeeps == ASSUME IInv, NEW v \in Values, Compute(v) PROVE IInv'
<1>1. UNCHANGED <<pc, esp, IF_, m_task, indir, calls, asked, answer>> /\ pc = "program"
      /\ regs' = All(v) /\ own' = v
  BY DEF Compute
<1>2. v \in Int
  BY WordsAssumption
<1>3. ConsoleTypes'
  BY DEF IInv, Compute, console, screen, ConsoleTypes
<1>4. stack' \in Words /\ stack'[Local] = v
  BY <1>2, TopBounds DEF Compute, IInv, CpuTypes, Words
<1>5. CpuTypes'
  BY <1>1, <1>2, <1>4, AllType DEF IInv, CpuTypes
<1>6. UNCHANGED text
  BY DEF Compute, console
<1>7. Owns(regs)'
  BY <1>1 DEF Owns, Kept, All
<1>8. InProgram'
  BY <1>1, <1>6, <1>7 DEF IInv, InProgram, Result, Written
<1> QED
  BY <1>1, <1>3, <1>4, <1>5, <1>8 DEF IInv, Serving, Loading

LEMMA SyscallKeeps ==
  ASSUME IInv, NEW cmd \in m_cmds \cup {Unknown}, NEW a \in Values, Syscall(cmd, a)
  PROVE  IInv'
<1> DEFINE w == Args(cmd, a)
<1>1. UNCHANGED <<IF_, m_task, indir, own, answer>> /\ pc = "program" /\ pc' = "int"
      /\ asked' = [cmd |-> cmd, arg |-> a] /\ calls' = calls + 1 /\ calls < MaxCalls
      /\ stack' = Pushed(stack, esp, w) /\ esp' = esp - Len(w)
      /\ regs' = [regs EXCEPT !["eax"] = Junk, !["ecx"] = 0]
  BY DEF Syscall
<1>2. a \in Int /\ Junk \in Int /\ cmd \in Int /\ cmd # 0
  BY WordsAssumption DEF m_cmds, put_term, dirent, Unknown
<1>3. w \in Seq(Int) /\ Len(w) = 2 + argc' /\ argc' \in {0, 1}
  BY <1>1, <1>2 DEF argc, Args
<1>4. Len(w) = 2 + argc' /\ (argc' = 0 \/ argc' = 1)
  BY <1>3
<1>5. (argc' = 0 => w[1] = 0 /\ w[2] = cmd) /\ (argc' = 1 => w[1] = a /\ w[2] = 1 /\ w[3] = cmd)
  BY <1>1, <1>2 DEF argc, Args
<1>6. InProgram /\ esp = Local /\ Local \in Nat /\ Local >= 13
  BY <1>1, TopBounds DEF IInv, InProgram
<1> HIDE DEF w
<1>7. /\ stack' \in Words /\ stack'[Local] = stack[Local]
      /\ \A k \in 1 .. Len(w) : stack'[Local - k] = w[k]
  <2>1. stack \in Words /\ Local \in 0 .. Local /\ Len(w) <= Local /\ stack' = Pushed(stack, Local, w)
    <3>1. stack \in Words /\ stack' = Pushed(stack, Local, w)
      BY <1>1, <1>6 DEF IInv, CpuTypes
    <3>2. Len(w) <= Local
      BY <1>4, <1>6
    <3> QED
      BY <1>6, <3>1, <3>2
  <2>2. /\ Pushed(stack, Local, w) \in Words
        /\ \A i \in Local .. Local : Pushed(stack, Local, w)[i] = stack[i]
        /\ \A k \in 1 .. Len(w) : Pushed(stack, Local, w)[Local - k] = w[k]
    BY <1>3, <2>1, PushedWords
  <2>3. Local \in Local .. Local
    BY <1>6
  <2> QED
    BY <2>1, <2>2, <2>3
<1>8. Top' = Local - 2 - argc'
  BY DEF Top
<1>9. stack'[Top'] = cmd /\ stack'[Top' + 1] = argc' /\ (argc' = 1 => stack'[Top' + 2] = a)
  <2>1. CASE argc' = 0
    <3>1. Top' = Local - 2 /\ Top' + 1 = Local - 1 /\ 1 \in 1 .. Len(w) /\ 2 \in 1 .. Len(w)
      BY <1>3, <1>6, <1>8, <2>1
    <3>2. stack'[Local - 2] = w[2] /\ stack'[Local - 1] = w[1]
      BY <1>7, <3>1
    <3> QED
      BY <1>5, <2>1, <3>1, <3>2
  <2>2. CASE argc' = 1
    <3>1. /\ Top' = Local - 3 /\ Top' + 1 = Local - 2 /\ Top' + 2 = Local - 1
          /\ 1 \in 1 .. Len(w) /\ 2 \in 1 .. Len(w) /\ 3 \in 1 .. Len(w)
      BY <1>3, <1>6, <1>8, <2>2
    <3>2. stack'[Local - 3] = w[3] /\ stack'[Local - 2] = w[2] /\ stack'[Local - 1] = w[1]
      BY <1>7, <3>1
    <3> QED
      BY <1>5, <2>2, <3>1, <3>2
  <2> QED
    BY <1>3, <2>1, <2>2
<1>10. ConsoleTypes'
  BY DEF IInv, Syscall, console, screen, ConsoleTypes
<1>11. regs' \in [Regs -> Int] /\ Owns(regs)'
  BY <1>1, <1>2, <1>6 DEF IInv, CpuTypes, InProgram, Owns, Kept, Regs
<1>12. esp' \in 0 .. Local /\ esp' = Top'
  <2>1. esp' = Local - Len(w)
    BY <1>1, <1>6
  <2>2. Local - Len(w) \in 0 .. Local /\ Local - Len(w) = Local - 2 - argc'
    BY <1>4, <1>6
  <2> QED
    BY <1>8, <2>1, <2>2
<1>13. calls' \in 0 .. MaxCalls
  BY <1>1, BoundsAssumption DEF IInv, CpuTypes
<1>14. CpuTypes'
  BY <1>1, <1>2, <1>7, <1>11, <1>12, <1>13 DEF IInv, CpuTypes, Labels
<1>15. InCall(Top)'
  BY <1>1, <1>9, <1>11, <1>12 DEF InCall, Called, ArgsThere
<1> QED
  BY <1>1, <1>2, <1>7, <1>10, <1>14, <1>15 DEF IInv, Serving, Loading

LEMMA IntKeeps == ASSUME IInv, IntC9 PROVE IInv'
<1> DEFINE w == <<IF_, 8, AfterInt>>
<1>1. UNCHANGED <<regs, m_task, indir, calls, own, asked, answer>>
      /\ pc = "int" /\ pc' = "save_context_and_go" /\ IF_' = 0
      /\ stack' = Pushed(stack, esp, w) /\ esp' = esp - 3
  BY DEF IntC9, history
<1>2. w \in Seq(Int) /\ Len(w) = 3 /\ w[1] = 1 /\ w[3] = AfterInt
  BY <1>1 DEF IInv, AfterInt
<1>3. InCall(Top) /\ esp = Top /\ Top \in Nat /\ Top >= 10 /\ Local \in Nat
      /\ Top + 2 <= Local /\ (argc = 1 => Top + 3 <= Local)
  BY <1>1, TopBounds DEF IInv, InCall
<1> HIDE DEF w
<1>4. /\ stack' \in Words /\ \A i \in Top .. Local : stack'[i] = stack[i]
      /\ stack'[Top - 1] = 1 /\ stack'[Top - 3] = AfterInt
  <2>1. stack \in Words /\ Top \in 0 .. Local /\ Len(w) <= Top /\ stack' = Pushed(stack, Top, w)
    BY <1>1, <1>2, <1>3 DEF IInv, CpuTypes
  <2>2. 1 \in 1 .. Len(w) /\ 3 \in 1 .. Len(w)
    BY <1>2
  <2> QED
    BY <1>2, <2>1, <2>2, PushedWords
<1>5. ConsoleTypes'
  BY DEF IInv, IntC9, console, screen, ConsoleTypes
<1>6. UNCHANGED <<argc, Top>>
  BY <1>1 DEF argc, Top
<1>7. CpuTypes'
  BY <1>1, <1>3, <1>4 DEF IInv, CpuTypes, Labels
<1>8. ArgsThere' /\ stack'[Top] = asked.cmd /\ stack'[Local] = own
  BY <1>1, <1>3, <1>4, <1>6 DEF IInv, InCall, ArgsThere
<1>9. Trapped'
  BY <1>1, <1>3, <1>4, <1>6, <1>8 DEF Trapped, InCall, Called, Owns
<1> QED
  BY <1>1, <1>5, <1>7, <1>8, <1>9 DEF IInv, Serving, Loading

LEMMA SaveContextAndGoKeeps == ASSUME IInv, SaveContextAndGo PROVE IInv'
<1> DEFINE w == <<regs["ebp"], regs["eax"], regs["ebx"], regs["edx"], Junk, Junk>>
<1>1. UNCHANGED <<regs, indir, calls, own, asked, answer>>
      /\ pc = "save_context_and_go" /\ pc' = "syscall_handler" /\ IF_' = 1
      /\ stack' = Pushed(stack, esp, w) /\ esp' = esp - 6
      /\ m_task' = [regs |-> regs, esp |-> esp + 3, eip |-> stack[esp], flag |-> stack[esp + 2]]
  BY DEF SaveContextAndGo, history, Sti
<1>2. w \in Seq(Int) /\ Len(w) = 6
  BY WordsAssumption DEF IInv, CpuTypes, Regs
<1> HIDE DEF w
<1>3. Trapped /\ esp = Top - 3 /\ Top \in Nat /\ Top >= 10 /\ Local \in Nat
      /\ Top + 2 <= Local /\ (argc = 1 => Top + 3 <= Local)
  BY <1>1, TopBounds DEF IInv, Trapped, InCall
<1>4. stack' \in Words /\ \A i \in Top .. Local : stack'[i] = stack[i]
  <2>1. stack \in Words /\ esp \in 0 .. Local /\ 6 <= esp
    BY <1>3 DEF IInv, CpuTypes
  <2>2. /\ Pushed(stack, esp, w) \in Words
        /\ \A i \in esp .. Local : Pushed(stack, esp, w)[i] = stack[i]
    BY <1>2, <2>1, PushedWords
  <2> QED
    BY <1>1, <1>3, <2>2
<1>5. ConsoleTypes'
  BY DEF IInv, SaveContextAndGo, console, screen, ConsoleTypes
<1>6. UNCHANGED <<argc, Top>>
  BY <1>1 DEF argc, Top
<1>7. /\ m_task'.regs = regs /\ m_task'.esp = Top /\ m_task'.eip = AfterInt /\ m_task'.flag = 1
      /\ m_task' \in Tasks
  <2>1. esp + 3 = Top /\ Top \in 0 .. Local
    BY <1>3
  <2> QED
    BY <1>1, <1>3, <2>1 DEF IInv, CpuTypes, Trapped, Tasks, AfterInt
<1>8. esp' = Top - 9 /\ esp' \in 0 .. Local
  BY <1>1, <1>3
<1>9. CpuTypes'
  BY <1>1, <1>4, <1>7, <1>8 DEF IInv, CpuTypes, Labels, Serving
<1>10. ArgsThere' /\ stack'[Top] = asked.cmd /\ stack'[Local] = own
  BY <1>1, <1>3, <1>4, <1>6 DEF IInv, Trapped, InCall, ArgsThere
<1>11. Saved'
  BY <1>1, <1>3, <1>6, <1>7 DEF Saved, Owns, Trapped, InCall
<1>12. InHandler'
  BY <1>1, <1>3, <1>6, <1>8, <1>10, <1>11 DEF InHandler, Trapped, InCall, Called
<1> QED
  BY <1>1, <1>5, <1>9, <1>10, <1>12 DEF IInv, Serving, Loading

(* The frame that the kernel computes is the one that the call has left.   *)
LEMMA FrameFound ==
  ASSUME IInv, pc \in Serving
  PROVE  /\ kernel_to_kernel_stack = Top /\ stack[Top] = asked.cmd
         /\ argc = 1 => Arg = asked.arg
         /\ Top \in 0 .. Local /\ esp \in 0 .. Local /\ esp + 9 = Top
         /\ Top + 2 <= Local /\ (argc = 1 => Top + 3 <= Local)
         /\ InHandler /\ Local \in Nat
<1>1. InHandler /\ m_task.esp = Top /\ esp = Top - 9 /\ esp \in 0 .. Local
  BY DEF IInv, InHandler, Saved, CpuTypes
<1>2. Top \in 0 .. Local /\ Local \in Nat /\ Top + 2 <= Local /\ (argc = 1 => Top + 3 <= Local)
  BY TopBounds
<1>3. kernel_to_kernel_stack = Top
  BY <1>1, <1>2 DEF kernel_to_kernel_stack, frame
<1> QED
  BY <1>1, <1>2, <1>3 DEF InHandler, ArgsThere, Arg

LEMMA SyscallHandlerKeeps == ASSUME IInv, SyscallHandler PROVE IInv'
<1>1. UNCHANGED <<esp, IF_, m_task, calls, own, asked, answer>>
      /\ pc = "syscall_handler" /\ regs' = All(Junk) /\ stack' = Below(esp)
  BY DEF SyscallHandler, history
<1>2. pc \in Serving
  BY <1>1 DEF Serving
<1>3. \/ asked.cmd \in m_cmds /\ UNCHANGED indir
         /\ pc' = <<"put_term", "get_term", "alloc", "dirent">>[asked.cmd]
      \/ asked.cmd \notin m_cmds /\ indir' = m_task /\ pc' = "run_indir"
  BY <1>2, FrameFound DEF SyscallHandler
<1>4. stack' \in Words /\ \A i \in esp .. Local : stack'[i] = stack[i]
  BY <1>1, BelowWords DEF IInv, CpuTypes
<1>5. ConsoleTypes' /\ UNCHANGED text
  BY DEF IInv, SyscallHandler, console, screen, ConsoleTypes
<1>6. UNCHANGED <<argc, Top, Result>>
  BY <1>1 DEF argc, Top, Result
<1>7. ArgsThere' /\ stack'[Top] = asked.cmd /\ stack'[Local] = own
  BY <1>1, <1>2, <1>4, <1>6, FrameFound DEF IInv, InHandler, ArgsThere
<1>8. regs' \in [Regs -> Int]
  BY <1>1, AllType, WordsAssumption
<1>9. CASE asked.cmd \in m_cmds
  <2>1. /\ pc' \in {"put_term", "get_term", "alloc", "dirent"} /\ UNCHANGED indir
        /\ pc' = "put_term" <=> asked.cmd = put_term
    <3>1. asked.cmd \in {1, 2, 3, 4}
      BY <1>9 DEF m_cmds, put_term, dirent
    <3> QED
      BY <1>3, <1>9, <3>1 DEF put_term
  <2>2. CpuTypes'
    BY <1>1, <1>4, <1>8, <2>1 DEF IInv, CpuTypes, Labels, Serving
  <2>3. asked.cmd # Unknown
    BY <1>9 DEF m_cmds, Unknown, put_term, dirent
  <2>4. InHandler'
    BY <1>1, <1>2, <1>6, <1>7, <2>1, <2>3, FrameFound DEF InHandler, Saved, Called, Owns
  <2> QED
    BY <1>1, <1>5, <1>7, <2>1, <2>2, <2>4 DEF IInv, Serving, Loading
<1>10. CASE asked.cmd \notin m_cmds
  <2>1. pc' = "run_indir" /\ indir' = m_task
    BY <1>3, <1>10
  <2>2. InHandler /\ asked.cmd = Unknown /\ asked.cmd # put_term
    BY <1>2, <1>10, FrameFound DEF InHandler, Called, Unknown, put_term
  <2>3. CpuTypes'
    BY <1>1, <1>4, <1>8, <2>1 DEF IInv, CpuTypes, Labels, Loading
  <2>4. stack'[Top] = Result
    BY <1>7, <2>2 DEF Result
  <2>5. Loadable(indir)' /\ indir'.esp = Top
    BY <1>1, <1>6, <2>1, <2>2 DEF InHandler, Saved, Loadable, Called, Owns
  <2>6. Leaving'
    BY <1>1, <1>2, <1>6, <1>7, <2>2, <2>4, <2>5, FrameFound DEF Leaving, Written
  <2> QED
    BY <1>1, <1>5, <1>7, <2>1, <2>3, <2>6 DEF IInv, Serving, Loading
<1> QED
  BY <1>9, <1>10

(* What the functions of the calls have in common.                         *)
LEMMA ReturnKeeps ==
  ASSUME IInv, pc \in Serving \ {"syscall_handler"}, NEW v \in Int, Return(v),
         ConsoleTypes', Written'
  PROVE  IInv'
<1>1. UNCHANGED <<regs, esp, IF_, m_task, calls, own, asked>>
      /\ indir' = m_task /\ pc' = "run_indir"
      /\ answer' = [answer EXCEPT !.given = v]
  BY DEF Return
<1>2. stack' = [stack EXCEPT ![Top] = v] /\ InHandler /\ asked.cmd # Unknown /\ Called
      /\ Top \in 0 .. Local /\ Top + 2 <= Local /\ (argc = 1 => Top + 3 <= Local)
      /\ esp + 9 = Top /\ Local \in Nat /\ esp \in 0 .. Local
  BY FrameFound DEF Return, InHandler
<1>3. stack' \in Words /\ stack'[Top] = v /\ \A i \in Top + 1 .. Local : stack'[i] = stack[i]
  BY <1>2 DEF IInv, CpuTypes, Words
<1>4. UNCHANGED <<argc, Top>>
  BY <1>1 DEF argc, Top
<1>5. ArgsThere' /\ stack'[Local] = own
  BY <1>1, <1>2, <1>3, <1>4 DEF IInv, InHandler, ArgsThere
<1>6. answer' \in [given : Int, taken : Int] /\ answer'.given = v
  BY <1>1 DEF IInv, CpuTypes
<1>7. Result' = v
  BY <1>1, <1>2, <1>6 DEF Result
<1>8. CpuTypes'
  BY <1>1, <1>3, <1>6 DEF IInv, CpuTypes, Labels, Loading
<1>9. Loadable(indir)' /\ indir'.esp = Top
  BY <1>1, <1>2, <1>4 DEF InHandler, Saved, Loadable, Called, Owns
<1>10. Leaving'
  BY <1>1, <1>2, <1>3, <1>4, <1>5, <1>7, <1>9 DEF Leaving
<1>11. asked'.cmd # 0
  BY <1>1, <1>2 DEF Called, m_cmds, put_term, dirent, Unknown
<1> QED
  BY <1>1, <1>5, <1>8, <1>10, <1>11 DEF IInv, Serving, Loading

LEMMA GotoKeeps ==
  ASSUME IInv, pc \in Serving \ {"syscall_handler", "put_term"},
         NEW l \in Serving \ {"syscall_handler", "put_term"}, Goto(l), ConsoleTypes'
  PROVE  IInv'
<1>1. UNCHANGED <<regs, esp, IF_, stack, m_task, indir, calls, own, asked, answer>> /\ pc' = l
  BY DEF Goto, cpu, history
<1>2. UNCHANGED <<argc, Top>>
  BY <1>1 DEF argc, Top
<1>3. InHandler'
  BY <1>1, <1>2 DEF IInv, InHandler, ArgsThere, Called, Saved, Owns
<1>4. CpuTypes'
  BY <1>1 DEF IInv, CpuTypes, Labels
<1> QED
  BY <1>1, <1>3, <1>4 DEF IInv, Serving, Loading

LEMMA PutTermKeeps == ASSUME IInv, PutTerm PROVE IInv'
<1>1. pc = "put_term" /\ Putchar(CharOf(Arg)) /\ Return(0) /\ UNCHANGED <<line, todo, asked>>
  BY DEF PutTerm, Return
<1>2. pc \in Serving \ {"syscall_handler"}
  BY <1>1 DEF Serving
<1>3. asked.cmd = put_term /\ Arg = asked.arg /\ asked.arg \in Int
  <2>1. asked.cmd = put_term /\ asked.arg \in Int
    BY <1>1, <1>2, FrameFound DEF InHandler, IInv, CpuTypes
  <2>2. argc = 1
    BY <2>1 DEF argc, HasArgument
  <2> QED
    BY <1>2, <2>1, <2>2, FrameFound
<1>4. CharOf(Arg) \in Letters
  <2>1. Chars \in Seq(Letters) /\ Len(Chars) > 0
    BY WordsAssumption, EmptySeq DEF Letters
  <2>2. (Arg % Len(Chars)) + 1 \in 1 .. Len(Chars)
    BY <1>3, <2>1
  <2> QED
    BY <2>1, <2>2 DEF CharOf
<1>5. ConsoleTypes' /\ Last(text') = CharOf(Arg)
  BY <1>1, <1>4, PutcharType DEF IInv, ConsoleTypes
<1>6. Written'
  BY <1>1, <1>3, <1>5 DEF Written, CharOf
<1> QED
  BY <1>1, <1>2, <1>5, <1>6, ReturnKeeps

(* The calls that use the console for longer than a step, or not at all.   *)
LEMMA CallStepsKeep ==
  ASSUME IInv, \/ GetTerm \/ GetlineEnds \/ GetTermReturns \/ Alloc \/ Dirent
               \/ DirentReturns \/ PrintLine
               \/ \E p \in Pointers : Malloc(p)
               \/ \E c \in Typable : TypeKey(c)
  PROVE  IInv'
<1> DEFINE Later == Serving \ {"syscall_handler", "put_term"}
<1>1. ConsoleTypes /\ Message \in Seq(Letters) /\ LineSize \in Sizes /\ Pointers \subseteq Int
  BY WordsAssumption DEF IInv, Letters
<1>2. ASSUME pc \in Later, NEW v \in Int, Return(v), UNCHANGED console PROVE IInv'
  <2>1. ConsoleTypes'
    BY <1>1, <1>2 DEF ConsoleTypes, console, screen
  <2>2. asked' = asked /\ asked.cmd # put_term
    BY <1>2, FrameFound DEF Return, InHandler
  <2> QED
    BY <1>2, <2>1, <2>2, ReturnKeeps DEF Written
<1>3. /\ pc \in {"get_term", "getline", "alloc", "allocating", "dirent", "listing"} => pc \in Later
      /\ "getline" \in Later /\ "allocating" \in Later /\ "listing" \in Later
  BY DEF Serving
<1> HIDE DEF Later
<1>4. CASE GetTerm \/ GetlineEnds \/ \E c \in Typable : TypeKey(c)
  <2>1. ConsoleTypes' /\ pc \in Later /\ Goto("getline")
    BY <1>1, <1>3, <1>4, GetlineType DEF GetTerm, GetlineEnds, TypeKey
  <2> QED
    BY <1>3, <2>1, GotoKeeps DEF Later
<1>5. CASE Alloc \/ Dirent
  <2>1. ConsoleTypes' /\ pc \in Later /\ (Goto("allocating") \/ Goto("listing"))
    BY <1>1, <1>3, <1>5, PrintfType DEF Alloc, Dirent
  <2> QED
    BY <1>3, <2>1, GotoKeeps DEF Later
<1>6. CASE PrintLine
  <2>1. ConsoleTypes' /\ pc \in Later /\ Goto(pc)
    BY <1>1, <1>3, <1>6, PrintfStepType DEF PrintLine
  <2> QED
    BY <2>1, GotoKeeps DEF Later
<1>7. CASE GetTermReturns \/ DirentReturns \/ \E p \in Pointers : Malloc(p)
  BY <1>1, <1>2, <1>3, <1>7 DEF GetTermReturns, DirentReturns, Malloc
<1> QED
  BY <1>4, <1>5, <1>6, <1>7

LEMMA RunIndirKeeps == ASSUME IInv, RunIndir PROVE IInv'
<1>1. UNCHANGED <<IF_, stack, m_task, indir, calls, own, asked, answer, text>>
      /\ pc = "run_indir" /\ pc' = "push" /\ esp' = indir.esp
      /\ regs' = [r \in Regs |-> IF r \in {"eax", "ebx"} THEN Junk ELSE indir.regs[r]]
  BY DEF RunIndir, history, console
<1>2. Leaving /\ indir \in Tasks
  BY <1>1 DEF IInv, Loading, CpuTypes
<1>3. regs' \in [Regs -> Int] /\ esp' \in 0 .. Local /\ esp' <= indir.esp
  BY <1>1, <1>2, WordsAssumption, TopBounds DEF Tasks
<1>4. Owns(regs)'
  BY <1>1, <1>2 DEF Leaving, Loadable, Owns, Kept
<1>5. UNCHANGED <<argc, Top, Result, Written>>
  BY <1>1 DEF argc, Top, Result, Written
<1>6. Leaving' /\ AtPush'
  BY <1>1, <1>2, <1>3, <1>4, <1>5 DEF Leaving, AtPush, Loadable, Owns, Called, ArgsThere
<1>7. ConsoleTypes'
  BY DEF IInv, RunIndir, console, screen, ConsoleTypes
<1>8. CpuTypes'
  BY <1>1, <1>3 DEF IInv, CpuTypes, Labels, Loading
<1> QED
  BY <1>1, <1>6, <1>7, <1>8 DEF IInv, Serving, Loading

LEMMA PushFrameKeeps == ASSUME IInv, PushFrame PROVE IInv'
<1> DEFINE w == <<indir.flag, 8, indir.eip>>
<1>1. UNCHANGED <<IF_, m_task, indir, calls, own, asked, answer, text>>
      /\ pc = "push" /\ pc' = "iret" /\ esp' = esp - 3 /\ stack' = Pushed(stack, esp, w)
      /\ regs' = [regs EXCEPT !["eax"] = indir.regs["eax"], !["ebx"] = indir.regs["ebx"]]
  BY DEF PushFrame, FramePushed, history, console
<1>2. Leaving /\ AtPush /\ indir \in Tasks
  BY <1>1 DEF IInv, Loading, CpuTypes
<1>3. w \in Seq(Int) /\ Len(w) = 3 /\ w[1] = 1 /\ w[3] = indir.eip
  BY <1>2 DEF Leaving, Loadable, Tasks
<1> HIDE DEF w
<1>4. Local \in Nat /\ Local >= 13 /\ Top = Local - 2 - argc /\ (argc = 0 \/ argc = 1)
  BY TopBounds
<1>5. esp = indir.esp /\ (esp = Local \/ esp = Top) /\ (asked.cmd # 0 => esp = Top)
  BY <1>2 DEF Leaving, Loadable, AtPush, Called, m_cmds, put_term, dirent, Unknown
<1>6. esp \in 0 .. Local /\ 3 <= esp /\ esp - 3 \in 0 .. Local
  BY <1>4, <1>5
<1>7. stack' \in Words /\ (\A i \in esp .. Local : stack'[i] = stack[i])
      /\ stack'[esp - 1] = 1 /\ stack'[esp - 3] = indir.eip
  <2>1. stack \in Words /\ 1 \in 1 .. Len(w) /\ 3 \in 1 .. Len(w) /\ Len(w) <= esp
    BY <1>3, <1>6 DEF IInv, CpuTypes
  <2> QED
    BY <1>1, <1>3, <1>6, <2>1, PushedWords
<1>8. stack'[Local] = own
  BY <1>1, <1>4, <1>6, <1>7 DEF IInv
<1>9. UNCHANGED <<argc, Top, Result, Written>>
  BY <1>1 DEF argc, Top, Result, Written
<1>10. asked.cmd # 0 => ArgsThere' /\ stack'[Top] = Result /\ Written
  <2> SUFFICES ASSUME asked.cmd # 0 PROVE ArgsThere' /\ stack'[Top] = Result /\ Written
    OBVIOUS
  <2>1. ArgsThere /\ stack[Top] = Result /\ Written /\ esp = Top
    BY <1>2, <1>5 DEF Leaving
  <2>2. Top \in esp .. Local /\ Top + 1 \in esp .. Local /\ (argc = 1 => Top + 2 \in esp .. Local)
    BY <1>4, <2>1
  <2> QED
    BY <1>1, <1>7, <1>9, <2>1, <2>2 DEF ArgsThere
<1>11. regs' \in [Regs -> Int] /\ Owns(regs)'
  BY <1>1, <1>2 DEF IInv, CpuTypes, AtPush, Owns, Kept, Regs, Tasks
<1>12. Leaving'
  <2>1. esp' <= indir'.esp
    BY <1>1, <1>5, <1>6
  <2>2. Loadable(indir)'
    BY <1>1, <1>2, <1>9 DEF Leaving, Loadable, Owns, Called
  <2> QED
    BY <1>1, <1>9, <1>10, <2>1, <2>2 DEF Leaving
<1>13. AtIret'
  <2>1. esp' + 2 = esp - 1 /\ esp' = indir'.esp - 3
    BY <1>1, <1>5, <1>6
  <2> QED
    BY <1>1, <1>7, <1>11, <2>1 DEF AtIret
<1>14. ConsoleTypes'
  BY DEF IInv, PushFrame, console, screen, ConsoleTypes
<1>15. CpuTypes'
  BY <1>1, <1>6, <1>7, <1>11 DEF IInv, CpuTypes, Labels, Loading
<1> QED
  BY <1>1, <1>8, <1>12, <1>13, <1>14, <1>15 DEF IInv, Serving, Loading

LEMMA IretKeeps == ASSUME IInv, Iret PROVE IInv'
<1>1. UNCHANGED <<regs, stack, m_task, indir, calls, own, asked, answer, text>>
      /\ pc = "iret" /\ esp' = esp + 3 /\ IF_' = stack[esp + 2]
      /\ pc' = IF stack[esp] = Entry THEN "program" ELSE IF stack[esp] = AfterInt THEN "pop" ELSE "lost"
  BY DEF Iret, history, console
<1>2. Leaving /\ AtIret /\ indir \in Tasks /\ esp \in 0 .. Local
  BY <1>1 DEF IInv, Loading, CpuTypes
<1>3. Top \in 0 .. Local /\ Local \in 0 .. Local
  BY TopBounds
<1>4. esp' = indir.esp /\ IF_' = 1 /\ esp' \in 0 .. Local
  BY <1>1, <1>2, <1>3 DEF AtIret, Leaving, Loadable
<1>5. UNCHANGED <<argc, Top, Result, Written>>
  BY <1>1 DEF argc, Top, Result, Written
<1>6. ConsoleTypes'
  BY DEF IInv, Iret, console, screen, ConsoleTypes
<1>7. CASE indir.eip = Entry
  <2>1. pc' = "program" /\ esp' = Local /\ asked.cmd = 0
    BY <1>1, <1>2, <1>4, <1>7 DEF AtIret, Leaving, Loadable, Entry, AfterInt
  <2>2. Result = answer.taken /\ Written
    BY <2>1 DEF IInv, Result, Unknown, Written, put_term
  <2>3. InProgram'
    BY <1>1, <1>2, <1>5, <2>1, <2>2 DEF InProgram, AtIret, Owns
  <2>4. CpuTypes'
    BY <1>1, <1>4, <2>1 DEF IInv, CpuTypes, Labels
  <2> QED
    BY <1>1, <1>4, <1>6, <2>1, <2>3, <2>4 DEF IInv, Serving, Loading
<1>8. CASE indir.eip = AfterInt
  <2>1. pc' = "pop" /\ esp' = Top /\ Called
    BY <1>1, <1>2, <1>4, <1>8 DEF AtIret, Leaving, Loadable, Entry, AfterInt
  <2>2. asked.cmd # 0
    BY <2>1 DEF Called, m_cmds, put_term, dirent, Unknown
  <2>3. AtPop'
    BY <1>1, <1>2, <1>5, <2>1, <2>2 DEF AtPop, AtIret, Owns, Leaving, Called, ArgsThere
  <2>4. CpuTypes'
    BY <1>1, <1>4, <2>1 DEF IInv, CpuTypes, Labels
  <2> QED
    BY <1>1, <1>4, <1>6, <2>1, <2>3, <2>4 DEF IInv, Serving, Loading
<1> QED
  BY <1>2, <1>7, <1>8 DEF Leaving, Loadable

LEMMA PopKeeps == ASSUME IInv, Pop PROVE IInv'
<1>1. AtPop
  BY DEF IInv, Pop
<1>2. stack[esp + 1] = argc /\ stack[esp] = Result /\ esp = Top /\ Owns(regs) /\ Written /\ Called
  BY <1>1 DEF AtPop, ArgsThere
<1>3. Local \in Nat /\ Top = Local - 2 - argc /\ (argc = 0 \/ argc = 1) /\ Top \in 0 .. Local
  BY TopBounds
<1>4. UNCHANGED <<IF_, stack, m_task, indir, calls, own, asked, text>>
      /\ pc = "pop" /\ pc' = "program" /\ esp' = esp + 2 + argc
      /\ regs' = [regs EXCEPT !["eax"] = stack[esp], !["ecx"] = 0,
                              !["ebx"] = IF argc = 0 THEN @ ELSE stack[esp + 1 + argc]]
      /\ answer' = [answer EXCEPT !.taken = stack[esp]]
  BY <1>2 DEF Pop, console
<1>5. esp' = Local /\ Local \in 0 .. Local /\ (argc = 1 => esp + 1 + argc \in 0 .. Local)
  BY <1>2, <1>3, <1>4
<1>6. stack \in Words /\ Result \in Int
  BY <1>1, <1>2, <1>3 DEF IInv, CpuTypes, Words
<1>7. regs' \in [Regs -> Int]
  <2>1. regs \in [Regs -> Int] /\ stack[esp] \in Int
    BY <1>2, <1>6 DEF IInv, CpuTypes
  <2>2. argc = 1 => stack[esp + 1 + argc] \in Int
    BY <1>5, <1>6 DEF Words
  <2> DEFINE v == IF argc = 0 THEN regs["ebx"] ELSE stack[esp + 1 + argc]
  <2>3. v \in Int
    BY <1>3, <2>1, <2>2 DEF Regs
  <2>4. \A r \in Regs : regs'[r] = IF r = "eax" THEN stack[esp]
                                   ELSE IF r = "ecx" THEN 0
                                   ELSE IF r = "ebx" THEN v ELSE regs[r]
    BY <1>4, <2>1
  <2>5. regs' = [r \in Regs |-> regs'[r]]
    BY <1>4, <2>1
  <2> HIDE DEF v
  <2>6. \A r \in Regs : regs'[r] \in Int
    BY <2>1, <2>3, <2>4
  <2> QED
    BY <2>5, <2>6
<1>8. Owns(regs)'
  BY <1>2, <1>4 DEF IInv, CpuTypes, Owns, Kept, Regs
<1>9. answer' \in [given : Int, taken : Int] /\ answer'.given = answer.given /\ answer'.taken = Result
  BY <1>2, <1>4, <1>6 DEF IInv, CpuTypes
<1>10. Result' = Result /\ Written'
  BY <1>2, <1>4, <1>9 DEF Result, Written
<1>11. InProgram'
  BY <1>5, <1>8, <1>9, <1>10 DEF InProgram
<1>12. ConsoleTypes'
  BY DEF IInv, Pop, console, screen, ConsoleTypes
<1>13. CpuTypes'
  BY <1>4, <1>5, <1>7, <1>9 DEF IInv, CpuTypes, Labels
<1>14. asked'.cmd # 0
  BY <1>2, <1>4 DEF Called, m_cmds, put_term, dirent, Unknown
<1> QED
  BY <1>4, <1>11, <1>12, <1>13, <1>14 DEF IInv, Serving, Loading

LEMMA StutterKeeps == ASSUME IInv, UNCHANGED sysvars PROVE IInv'
<1>1. UNCHANGED <<pc, regs, esp, IF_, stack, m_task, indir, calls, own, asked, answer>>
      /\ UNCHANGED <<text, todo, m_cx, m_cy, m_buffer>>
  BY DEF sysvars, console, screen, cpu, history
<1>2. ConsoleTypes' /\ CpuTypes'
  BY <1>1 DEF IInv, ConsoleTypes, CpuTypes
<1> QED
  BY <1>1, <1>2 DEF IInv, InKernel, InProgram, InCall, Trapped, InHandler, Leaving, AtPush,
     AtIret, AtPop, Owns, Called, Saved, Loadable, ArgsThere, Result, Written, Top, argc

LEMMA SysNextKeeps == ASSUME IInv, [SysNext]_sysvars PROVE IInv'
BY KernelStepKeeps, RunKeeps, IrqKeeps, ComputeKeeps, SyscallKeeps, IntKeeps,
   SaveContextAndGoKeeps, SyscallHandlerKeeps, PutTermKeeps, CallStepsKeep, RunIndirKeeps,
   PushFrameKeeps, IretKeeps, PopKeeps, StutterKeeps
   DEF SysNext, Cpu

-----------------------------------------------------------------------------
(* The invariant of the whole, from which the others follow.               *)
THEOREM SyscallIInv == SysSpec => []IInv
<1>1. SysInit => IInv
  BY InitIInv
<1>2. IInv /\ [SysNext]_sysvars => IInv'
  BY SysNextKeeps
<1> QED
  BY <1>1, <1>2, PTL DEF SysSpec

(***************************************************************************)
(* A program is back from a system call with its registers, its stack and  *)
(* its flag, with the result that was for it and with its text on the      *)
(* console: for every stack of more than 13 words, every word and every    *)
(* console, however often and wherever it is interrupted.                  *)
(***************************************************************************)
THEOREM CallerIsKept == SysSpec => []CallerKept
<1>1. IInv => CallerKept
  <2> SUFFICES ASSUME IInv PROVE CallerKept
    OBVIOUS
  <2>1. SysTypeOK
    BY DEF IInv, CpuTypes, SysTypeOK, Words
  <2>2. pc # "lost"
    BY DEF IInv, CpuTypes, Labels, Serving, Loading
  <2>3. pc = "program" => InProgram /\ IF_ = 1 /\ stack[Local] = own
    BY DEF IInv
  <2> QED
    BY <2>1, <2>2, <2>3 DEF CallerKept, InProgram, Owns, Result, Written
<1> QED
  BY <1>1, SyscallIInv, PTL

(* The cursor is always on the screen, and the cells hold what can be      *)
(* printed, whatever the kernel and its programs write: putchar never      *)
(* stores outside the memory of the screen.                                *)
CursorOnScreen ==
  m_cx \in Cols /\ m_cy \in Rows /\ m_buffer \in [Cols \X Rows -> Glyphs \cup {Blank}]

THEOREM CursorStaysOnScreen == SysSpec => []CursorOnScreen
<1>1. IInv => CursorOnScreen
  BY DEF IInv, ConsoleTypes, CursorOnScreen
<1> QED
  BY <1>1, SyscallIInv, PTL
-----------------------------------------------------------------------------
(***************************************************************************)
(* The page without an end.  Paged(places) says that places are where the  *)
(* characters written so far go on it, the next one behind them, and that  *)
(* the screen is a window on it: its last rows up to that of the cursor.   *)
(***************************************************************************)
TopOf(row) == IF row < Height THEN 0 ELSE row - (Height - 1)

PlacesOf(s, places) ==
  /\ places \in [1 .. Len(s) + 1 -> Cols \X Nat]
  /\ places[1] = <<0, 0>>
  /\ \A i \in 1 .. Len(s) : places[i + 1] = After(places[i], s[i])
  /\ \A i \in 1 .. Len(s) + 1 : places[i][2] <= places[Len(s) + 1][2]

Paged(places) ==
  LET here == places[Len(text) + 1] IN
  /\ PlacesOf(text, places)
  /\ m_cx = here[1] /\ m_cy + TopOf(here[2]) = here[2]
  /\ \A a \in Cols, b \in Rows :
       m_buffer[<<a, b>>] = OnPage(text, places, <<a, b + TopOf(here[2])>>)

(* Induction, without a predicate as a parameter.                         *)
LEMMA Least ==
  ASSUME NEW T, T \subseteq Nat, T # {}
  PROVE  \E x \in T : \A y \in T : x <= y
<1>1. IsWellFoundedOn(OpToRel(<, Nat), Nat)
  BY NatLessThanWellFounded
<1>2. PICK x \in T : \A y \in T : ~ (<<y, x>> \in OpToRel(<, Nat))
  <2> HIDE DEF OpToRel, IsWellFoundedOn
  <2> QED BY <1>1, WFMin, Zenon
<1>3. \A y \in T : ~ (y < x)
  BY <1>2 DEF OpToRel
<1> QED BY <1>3

(* The definition of Places has one solution only.                         *)
LEMMA PlacesAreUnique ==
  ASSUME NEW s \in Seq(Letters), NEW places, PlacesOf(s, places)
  PROVE  Places(s) = places
<1> DEFINE Body(t) == [i \in 1 .. Len(s) + 1 |->
                         IF i = 1 THEN <<0, 0>> ELSE After(t[i - 1], s[i - 1])]
<1>1. Len(s) \in Nat
  OBVIOUS
<1>2. places = Body(places)
  <2>1. ASSUME NEW i \in 1 .. Len(s) + 1 PROVE places[i] = Body(places)[i]
    <3>1. CASE i = 1
      BY <3>1 DEF PlacesOf
    <3>2. CASE i # 1
      <4>1. i - 1 \in 1 .. Len(s) /\ (i - 1) + 1 = i
        BY <1>1, <3>2
      <4>2. places[(i - 1) + 1] = After(places[i - 1], s[i - 1])
        BY <4>1 DEF PlacesOf
      <4> QED BY <3>2, <4>1, <4>2
    <3> QED BY <3>1, <3>2
  <2>2. places = [i \in 1 .. Len(s) + 1 |-> places[i]]
    BY DEF PlacesOf
  <2> QED BY <2>1, <2>2
<1>3. Places(s) = Body(Places(s))
  <2>1. Places(s) = CHOOSE t : t = Body(t)
    BY DEF Places
  <2> HIDE DEF Body
  <2> QED BY <1>2, <2>1
<1> DEFINE t == Places(s)
<1>4. t = Body(t)
  BY <1>3
<1> HIDE DEF t
<1> DEFINE T == {i \in 1 .. Len(s) + 1 : t[i] # places[i]}
<1>5. T = {}
  <2> SUFFICES ASSUME T # {} PROVE FALSE
    OBVIOUS
  <2>1. PICK i \in T : \A j \in T : i <= j
    <3>1. T \subseteq Nat
      BY <1>1
    <3> HIDE DEF T
    <3> QED BY <3>1, Least
  <2>2. i # 1
    BY <1>2, <1>4, <2>1
  <2>3. i - 1 \in 1 .. Len(s) + 1 /\ i - 1 \notin T
    BY <1>1, <2>1, <2>2
  <2>4. t[i - 1] = places[i - 1]
    BY <2>3
  <2>5. t[i] = After(t[i - 1], s[i - 1]) /\ places[i] = After(places[i - 1], s[i - 1])
    BY <1>2, <1>4, <2>1, <2>2
  <2> QED BY <2>1, <2>4, <2>5
<1>6. t = places
  <2>1. \A i \in 1 .. Len(s) + 1 : t[i] = places[i]
    BY <1>5
  <2>2. t = [i \in 1 .. Len(s) + 1 |-> t[i]]
    BY <1>4
  <2>3. places = [i \in 1 .. Len(s) + 1 |-> places[i]]
    BY <1>2
  <2> QED BY <2>1, <2>2, <2>3
<1> QED BY <1>6 DEF t

(* What stands at a place is what was written there last.                  *)
LEMMA WrittenAt ==
  ASSUME NEW s \in Seq(Letters), NEW places, NEW p
  PROVE  \/ /\ \A i \in 1 .. Len(s) : s[i] \in Controls \/ places[i] # p
            /\ OnPage(s, places, p) = Blank
         \/ \E k \in 1 .. Len(s) :
              /\ s[k] \notin Controls /\ places[k] = p
              /\ \A i \in 1 .. Len(s) : s[i] \notin Controls /\ places[i] = p => i <= k
              /\ OnPage(s, places, p) = s[k]
<1> DEFINE at == {i \in DOMAIN s : s[i] \notin Controls /\ places[i] = p}
           last == CHOOSE i \in at : \A j \in at : j <= i
<1>1. Len(s) \in Nat /\ DOMAIN s = 1 .. Len(s)
  OBVIOUS
<1>2. OnPage(s, places, p) = IF at = {} THEN Blank ELSE s[last]
  BY DEF OnPage
<1>3. CASE at = {}
  BY <1>1, <1>2, <1>3
<1>4. CASE at # {}
  <2> DEFINE D == {Len(s) - i : i \in at}
  <2>1. D \subseteq Nat /\ D # {}
    BY <1>1, <1>4
  <2>2. PICK d \in D : \A e \in D : d <= e
    <3> HIDE DEF D
    <3> QED BY <2>1, Least
  <2>3. PICK k \in at : d = Len(s) - k
    BY <2>2
  <2>4. \A j \in at : j <= k
    <3> SUFFICES ASSUME NEW j \in at PROVE j <= k
      OBVIOUS
    <3>1. Len(s) - j \in D
      OBVIOUS
    <3>2. Len(s) - k <= Len(s) - j
      <4> HIDE DEF D
      <4> QED BY <2>2, <2>3, <3>1
    <3>3. j \in 1 .. Len(s) /\ k \in 1 .. Len(s)
      BY <1>1
    <3> HIDE DEF D, at
    <3> QED BY <1>1, <3>2, <3>3
  <2>5. last \in at /\ \A j \in at : j <= last
    <3> HIDE DEF at
    <3> QED BY <2>4
  <2> HIDE DEF last
  <2> QED BY <1>1, <1>2, <1>4, <2>5
<1> QED BY <1>3, <1>4

(* One more character changes the one place that it is written to.         *)
LEMMA WrittenNext ==
  ASSUME NEW s \in Seq(Letters), NEW c \in Letters, NEW places, NEW further,
         \A i \in 1 .. Len(s) + 1 : further[i] = places[i], NEW p
  PROVE  OnPage(Append(s, c), further, p) =
           IF c \notin Controls /\ places[Len(s) + 1] = p THEN c ELSE OnPage(s, places, p)
<1> DEFINE z == Append(s, c)
           n == Len(s)
<1>1. /\ n \in Nat /\ z \in Seq(Letters) /\ Len(z) = n + 1 /\ z[n + 1] = c
      /\ \A i \in 1 .. n : z[i] = s[i]
  BY AppendProperties
<1>2. \/ /\ \A i \in 1 .. n + 1 : z[i] \in Controls \/ further[i] # p
         /\ OnPage(z, further, p) = Blank
      \/ \E k \in 1 .. n + 1 :
           /\ z[k] \notin Controls /\ further[k] = p
           /\ \A i \in 1 .. n + 1 : z[i] \notin Controls /\ further[i] = p => i <= k
           /\ OnPage(z, further, p) = z[k]
  <2> HIDE DEF z
  <2> QED BY <1>1, WrittenAt
<1>3. \/ /\ \A i \in 1 .. n : s[i] \in Controls \/ places[i] # p
         /\ OnPage(s, places, p) = Blank
      \/ \E k \in 1 .. n :
           /\ s[k] \notin Controls /\ places[k] = p
           /\ \A i \in 1 .. n : s[i] \notin Controls /\ places[i] = p => i <= k
           /\ OnPage(s, places, p) = s[k]
  BY WrittenAt
<1> DEFINE new == OnPage(z, further, p)
           old == OnPage(s, places, p)
<1> SUFFICES new = IF c \notin Controls /\ places[n + 1] = p THEN c ELSE old
  OBVIOUS
<1> HIDE DEF z, n, new, old
<1>4. \A i \in 1 .. n + 1 : further[i] = places[i]
  BY DEF n
<1>5. CASE c \notin Controls /\ places[n + 1] = p
  <2>1. n + 1 \in 1 .. n + 1 /\ z[n + 1] \notin Controls /\ further[n + 1] = p
    BY <1>1, <1>4, <1>5
  <2>2. PICK k \in 1 .. n + 1 : n + 1 <= k /\ new = z[k]
    BY <1>2, <2>1 DEF new
  <2>3. k = n + 1
    BY <1>1, <2>2
  <2> QED BY <1>1, <1>5, <2>2, <2>3
<1>6. CASE ~(c \notin Controls /\ places[n + 1] = p)
  <2>1. \A i \in 1 .. n + 1 : z[i] \notin Controls /\ further[i] = p
          => i \in 1 .. n /\ s[i] \notin Controls /\ places[i] = p
    <3> SUFFICES ASSUME NEW i \in 1 .. n + 1, z[i] \notin Controls, further[i] = p
                 PROVE  i \in 1 .. n /\ s[i] \notin Controls /\ places[i] = p
      OBVIOUS
    <3>1. i # n + 1
      BY <1>1, <1>4, <1>6
    <3>2. i \in 1 .. n
      BY <1>1, <3>1
    <3> QED BY <1>1, <1>4, <3>2
  <2>2. \A i \in 1 .. n : s[i] \notin Controls /\ places[i] = p
          => i \in 1 .. n + 1 /\ z[i] \notin Controls /\ further[i] = p
    BY <1>1, <1>4
  <2>3. CASE \A i \in 1 .. n : s[i] \in Controls \/ places[i] # p
    <3>1. old = Blank
      BY <1>3, <2>3 DEF old
    <3>2. new = Blank
      BY <1>2, <2>1, <2>3 DEF new
    <3> QED BY <1>6, <3>1, <3>2
  <2>4. CASE ~\A i \in 1 .. n : s[i] \in Controls \/ places[i] # p
    <3>1. PICK k \in 1 .. n :
            /\ s[k] \notin Controls /\ places[k] = p /\ old = s[k]
            /\ \A i \in 1 .. n : s[i] \notin Controls /\ places[i] = p => i <= k
      BY <1>3, <2>4 DEF old
    <3>2. PICK j \in 1 .. n + 1 :
            /\ z[j] \notin Controls /\ further[j] = p /\ new = z[j]
            /\ \A i \in 1 .. n + 1 : z[i] \notin Controls /\ further[i] = p => i <= j
      BY <1>2, <2>2, <3>1 DEF new
    <3>3. j \in 1 .. n /\ j <= k
      BY <2>1, <3>1, <3>2
    <3>4. k <= j
      BY <2>2, <3>1, <3>2
    <3>5. j = k
      BY <1>1, <3>1, <3>3, <3>4
    <3> QED BY <1>1, <1>6, <3>1, <3>2, <3>3, <3>5
  <2> QED BY <2>3, <2>4
<1> QED BY <1>5, <1>6

(* How far the window is moved.                                            *)
LEMMA TopMoves ==
  ASSUME NEW row \in Nat, NEW r \in {row, row + 1}, row - TopOf(row) < Height
  PROVE  /\ TopOf(row) \in Nat
         /\ \/ /\ r - TopOf(row) = Height /\ r - TopOf(row) >= Height
               /\ TopOf(r) = TopOf(row) + 1 /\ r = row + 1
            \/ r - TopOf(row) < Height /\ ~(r - TopOf(row) >= Height) /\ TopOf(r) = TopOf(row)
BY ScreenAssumption DEF TopOf

(***************************************************************************)
(* The cursor goes on to the place (c, r) of the page, on the same row or  *)
(* on the next, on which there is nothing yet.                             *)
(***************************************************************************)
Window(cells, page, row) ==
  \A a \in Cols, b \in Rows : cells[<<a, b>>] = page[<<a, b + TopOf(row)>>]
Fresh(page, row, r) == r > row => \A a \in Cols : page[<<a, r>>] = Blank

Lands(cells, w) ==
  IF w >= Height THEN m_cy' = w - 1 /\ m_buffer' = Scroll(cells)
  ELSE m_cy' = w /\ m_buffer' = cells

LEMMA WindowMoves ==
  ASSUME NEW cells, NEW page, NEW row \in Nat, NEW r \in {row, row + 1},
         row - TopOf(row) < Height, Lands(cells, r - TopOf(row)),
         Window(cells, page, row), Fresh(page, row, r)
  PROVE  m_cy' + TopOf(r) = r /\ Window(m_buffer', page, r)
<1>1. /\ Height \in Nat /\ Height >= 1 /\ r \in Nat /\ r <= row + 1
      /\ \A b \in Rows : b \in Nat /\ b <= Height - 1
  BY ScreenAssumption DEF Rows
<1>2. PICK t \in Nat : t = TopOf(row)
  BY TopMoves
<1>3. PICK w : w = r - t
  OBVIOUS
<1>4. /\ w >= Height => m_cy' = w - 1 /\ m_buffer' = Scroll(cells)
      /\ ~(w >= Height) => m_cy' = w /\ m_buffer' = cells
  BY <1>2, <1>3 DEF Lands
<1>5. \A a \in Cols, b \in Rows : cells[<<a, b>>] = page[<<a, b + t>>]
  BY <1>2 DEF Window
<1>6. CASE w = Height /\ w >= Height /\ TopOf(r) = t + 1 /\ r = row + 1
  <2>1. m_cy' = Height - 1 /\ (Height - 1) + (t + 1) = r
    BY <1>1, <1>3, <1>4, <1>6
  <2>2. ASSUME NEW a \in Cols, NEW b \in Rows
        PROVE  m_buffer'[<<a, b>>] = page[<<a, b + (t + 1)>>]
    <3>1. m_buffer'[<<a, b>>] = IF b < Height - 1 THEN cells[<<a, b + 1>>] ELSE Blank
      BY <1>4, <1>6 DEF Scroll
    <3>2. CASE b < Height - 1
      <4>1. b + 1 \in Rows /\ (b + 1) + t = b + (t + 1)
        BY <1>1, <3>2 DEF Rows
      <4>2. cells[<<a, b + 1>>] = page[<<a, (b + 1) + t>>]
        BY <1>5, <4>1
      <4> QED BY <3>1, <3>2, <4>1, <4>2
    <3>3. CASE ~(b < Height - 1)
      <4>1. b + (t + 1) = r /\ r > row
        BY <1>1, <1>6, <2>1, <3>3
      <4> QED BY <3>1, <3>3, <4>1 DEF Fresh
    <3> QED BY <3>2, <3>3
  <2> QED BY <1>4, <1>6, <2>1, <2>2 DEF Window
<1>7. CASE w < Height /\ ~(w >= Height) /\ TopOf(r) = t
  <2>1. m_cy' = w /\ m_buffer' = cells /\ w + t = r
    BY <1>1, <1>3, <1>4, <1>7
  <2> QED BY <1>4, <1>5, <1>7, <2>1 DEF Window
<1> QED BY <1>2, <1>3, <1>6, <1>7, TopMoves

(* Where a character leaves the cursor, and what MoveTo is called with.    *)
LEMMA AfterGoes ==
  ASSUME NEW place \in Cols \X Nat, NEW c \in Letters
  PROVE  /\ After(place, c) \in Cols \X Nat
         /\ After(place, c)[2] \in {place[2], place[2] + 1}
<1>1. PICK x \in Cols, y \in Nat : place = <<x, y>>
  OBVIOUS
<1>2. 0 \in Cols /\ y + 1 \in Nat /\ place[1] = x /\ place[2] = y
  BY <1>1, ScreenAssumption DEF Cols
<1>3. \A v \in Nat : v < Width => v \in Cols
  BY ScreenAssumption DEF Cols
<1>4. x + 4 \in Nat /\ x + 1 \in Nat
  BY DEF Cols
<1>5. \/ After(place, c) \in {<<0, y + 1>>, <<0, y>>}
      \/ \E v \in Cols : After(place, c) = <<v, y>>
  BY <1>2, <1>3, <1>4 DEF After
<1> QED BY <1>2, <1>5

(* Where the x of a character or a tab is, as MoveTo wraps it.             *)
Far(x, y) == IF x < Width THEN <<x, y>> ELSE <<0, y + 1>>

LEMMA AfterCases ==
  ASSUME NEW x \in Nat, NEW y \in Nat, NEW c
  PROVE  /\ c = LF => After(<<x, y>>, c) = <<0, y + 1>>
         /\ c = CR => After(<<x, y>>, c) = <<0, y>>
         /\ c = TAB => After(<<x, y>>, c) = Far(x + 4, y)
         /\ c \notin Controls => After(<<x, y>>, c) = Far(x + 1, y)
BY DEF After, Far, LF, CR, TAB, Controls

LEMMA WrapGoes ==
  ASSUME NEW x \in Nat, NEW y \in Nat, NEW t \in Nat
  PROVE  /\ Far(x, y + t) = <<Wrap(x, y)[1], Wrap(x, y)[2] + t>>
         /\ Wrap(0, y) = <<0, y>>
         /\ \E v, w \in Nat : Wrap(x, y) = <<v, w>>
<1>1. (y + 1) + t = (y + t) + 1
  OBVIOUS
<1>2. CASE x < Width
  BY <1>2, ScreenAssumption DEF Far, Wrap
<1>3. CASE ~(x < Width)
  <2>1. Wrap(x, y) = <<0, y + 1>> /\ Far(x, y + t) = <<0, (y + t) + 1>>
    BY <1>3, ScreenAssumption DEF Far, Wrap
  <2>2. Wrap(0, y) = <<0, y>>
    BY ScreenAssumption DEF Wrap
  <2> QED BY <1>1, <2>1, <2>2
<1> QED BY <1>2, <1>3

LEMMA PutcharMoves ==
  ASSUME ConsoleTypes, NEW c \in Letters, Putchar(c),
         NEW t \in Nat
  PROVE  \E x \in Nat, y \in Nat :
           /\ MoveTo(x, y, IF c \in Controls THEN m_buffer
                           ELSE [m_buffer EXCEPT ![<<m_cx, m_cy>>] = c])
           /\ After(<<m_cx, m_cy + t>>, c) = <<Wrap(x, y)[1], Wrap(x, y)[2] + t>>
<1>1. m_cx \in Nat /\ m_cy \in Nat
  BY DEF ConsoleTypes, Cols, Rows
<1>2. /\ m_cy + t \in Nat /\ m_cy + 1 \in Nat /\ m_cx + 4 \in Nat /\ m_cx + 1 \in Nat
      /\ (m_cy + 1) + t = (m_cy + t) + 1
  BY <1>1
<1>3. LF \in Controls /\ CR \in Controls /\ TAB \in Controls
  BY DEF Controls
<1>4. CASE c = LF /\ MoveTo(0, m_cy + 1, m_buffer)
  <2>1. After(<<m_cx, m_cy + t>>, c) = <<0, (m_cy + t) + 1>>
    BY <1>1, <1>2, <1>4, AfterCases
  <2>2. Wrap(0, m_cy + 1) = <<0, m_cy + 1>>
    BY <1>2, WrapGoes
  <2> QED BY <1>2, <1>3, <1>4, <2>1, <2>2
<1>5. CASE c = CR /\ MoveTo(0, m_cy, m_buffer)
  <2>1. After(<<m_cx, m_cy + t>>, c) = <<0, m_cy + t>>
    BY <1>1, <1>2, <1>5, AfterCases
  <2>2. Wrap(0, m_cy) = <<0, m_cy>>
    BY <1>1, WrapGoes
  <2> QED BY <1>1, <1>3, <1>5, <2>1, <2>2
<1>6. CASE c = TAB /\ MoveTo(m_cx + 4, m_cy, m_buffer)
  <2>0. PICK v \in Nat : v = m_cx + 4
    BY <1>2
  <2>1. After(<<m_cx, m_cy + t>>, c) = Far(v, m_cy + t)
    BY <1>1, <1>2, <1>6, <2>0, AfterCases
  <2>2. Far(v, m_cy + t) = <<Wrap(v, m_cy)[1], Wrap(v, m_cy)[2] + t>>
    BY <1>1, WrapGoes
  <2> QED BY <1>1, <1>2, <1>3, <1>6, <2>0, <2>1, <2>2
<1>7. CASE c \notin Controls /\ MoveTo(m_cx + 1, m_cy, [m_buffer EXCEPT ![<<m_cx, m_cy>>] = c])
  <2>0. PICK v \in Nat : v = m_cx + 1
    BY <1>2
  <2>1. After(<<m_cx, m_cy + t>>, c) = Far(v, m_cy + t)
    BY <1>1, <1>2, <1>7, <2>0, AfterCases
  <2>2. Far(v, m_cy + t) = <<Wrap(v, m_cy)[1], Wrap(v, m_cy)[2] + t>>
    BY <1>1, WrapGoes
  <2> QED BY <1>1, <1>2, <1>7, <2>0, <2>1, <2>2
<1> QED BY <1>4, <1>5, <1>6, <1>7 DEF Putchar, ProcessControl

(* The window is kept by every character that is written.                  *)
LEMMA PutcharPaged ==
  ASSUME ConsoleTypes, NEW c \in Letters, Putchar(c), NEW places, Paged(places)
  PROVE  (\E further : Paged(further))'
<1> DEFINE n == Len(text)
           here == places[n + 1]
           new == After(here, c)
<1>1. /\ n \in Nat /\ text \in Seq(Letters) /\ text' = Append(text, c)
      /\ text' \in Seq(Letters) /\ Len(text') = n + 1
      /\ text'[n + 1] = c /\ \A i \in 1 .. n : text'[i] = text[i]
  BY PutcharType, AppendProperties DEF ConsoleTypes, Putchar
<1>2. /\ PlacesOf(text, places)
      /\ m_cx = here[1] /\ m_cy + TopOf(here[2]) = here[2]
      /\ \A a \in Cols, b \in Rows :
           m_buffer[<<a, b>>] = OnPage(text, places, <<a, b + TopOf(here[2])>>)
  BY DEF Paged
<1>3. /\ here \in Cols \X Nat
      /\ \A i \in 1 .. n + 1 : places[i] \in Cols \X Nat /\ places[i][2] <= here[2]
  BY <1>1, <1>2 DEF PlacesOf
<1>4. PICK row \in Nat : here = <<m_cx, row>> /\ here[2] = row
  BY <1>2, <1>3
<1>5. PICK x \in Nat, y \in Nat :
        /\ MoveTo(x, y, IF c \in Controls THEN m_buffer
                        ELSE [m_buffer EXCEPT ![<<m_cx, m_cy>>] = c])
        /\ new = <<Wrap(x, y)[1], Wrap(x, y)[2] + TopOf(row)>>
  <2>1. TopOf(row) \in Nat
    BY ScreenAssumption DEF TopOf
  <2>2. PICK t \in Nat : t = TopOf(row) /\ m_cy + t = row
    BY <1>2, <1>4, <2>1
  <2>3. PICK x \in Nat, y \in Nat :
          /\ MoveTo(x, y, IF c \in Controls THEN m_buffer
                          ELSE [m_buffer EXCEPT ![<<m_cx, m_cy>>] = c])
          /\ After(<<m_cx, m_cy + t>>, c) = <<Wrap(x, y)[1], Wrap(x, y)[2] + t>>
    BY PutcharMoves
  <2> QED BY <1>4, <2>2, <2>3
<1>6. PICK u \in Cols, r \in {row, row + 1} : new = <<u, r>> /\ new[2] = r /\ r \in Nat
  BY <1>3, <1>4, AfterGoes
<1>7. PICK further :
        further = [i \in 1 .. n + 2 |-> IF i = n + 2 THEN new ELSE places[i]]
  OBVIOUS
<1> HIDE DEF n, here, new
<1>8. /\ \A i \in 1 .. n + 1 : further[i] = places[i]
      /\ further[n + 2] = new
  BY <1>1, <1>7
<1>9. PlacesOf(text', further)
  <2>1. Len(text') + 1 = n + 2
    BY <1>1
  <2>2. further \in [1 .. n + 2 -> Cols \X Nat]
    BY <1>1, <1>3, <1>6, <1>7
  <2>3. further[1] = <<0, 0>>
    BY <1>1, <1>2, <1>8 DEF PlacesOf
  <2>4. ASSUME NEW i \in 1 .. n + 1 PROVE further[i + 1] = After(further[i], text'[i])
    <3>1. CASE i = n + 1
      BY <1>1, <1>8, <3>1 DEF new, here
    <3>2. CASE i # n + 1
      <4>1. i \in 1 .. n /\ i + 1 \in 1 .. n + 1
        BY <1>1, <3>2
      <4>2. places[i + 1] = After(places[i], text[i])
        BY <1>2, <4>1 DEF PlacesOf, n
      <4> QED BY <1>1, <1>8, <4>1, <4>2
    <3> QED BY <3>1, <3>2
  <2>5. ASSUME NEW i \in 1 .. n + 2 PROVE further[i][2] <= r
    <3>1. CASE i = n + 2
      BY <1>6, <1>8, <3>1
    <3>2. CASE i # n + 2
      <4>1. i \in 1 .. n + 1
        BY <1>1, <3>2
      <4>2. places[i][2] \in Nat /\ places[i][2] <= row
        BY <1>3, <1>4, <4>1
      <4> QED BY <1>6, <1>8, <4>1, <4>2
    <3> QED BY <3>1, <3>2
  <2> QED BY <1>1, <1>6, <1>8, <2>1, <2>2, <2>3, <2>4, <2>5 DEF PlacesOf
<1> DEFINE cells == IF c \in Controls THEN m_buffer
                    ELSE [m_buffer EXCEPT ![<<m_cx, m_cy>>] = c]
<1>10. PICK page : page = [q \in Cols \X Nat |-> OnPage(text', further, q)]
  OBVIOUS
<1>11. \A q \in Cols \X Nat :
         page[q] = IF c \notin Controls /\ here = q THEN c ELSE OnPage(text, places, q)
  <2>1. \A q : OnPage(text', further, q) =
                 IF c \notin Controls /\ here = q THEN c ELSE OnPage(text, places, q)
    BY <1>1, <1>8, WrittenNext DEF n, here
  <2> QED BY <1>10, <2>1
<1>12. page \in [Cols \X Nat -> Glyphs \cup {Blank}]
  <2>1. ASSUME NEW q \in Cols \X Nat PROVE OnPage(text', further, q) \in Glyphs \cup {Blank}
    <3>1. PICK s \in Seq(Letters) : s = text'
      BY <1>1
    <3>2. OnPage(s, further, q) \in Glyphs \cup {Blank}
      BY WrittenAt DEF Letters
    <3> QED BY <3>1, <3>2
  <2> QED BY <1>10, <2>1
<1>13. TopOf(row) \in Nat /\ row - TopOf(row) < Height /\ m_cy = row - TopOf(row)
       /\ m_cx \in Cols /\ m_cy \in Rows
  BY <1>2, <1>4, ScreenAssumption DEF ConsoleTypes, Rows, TopOf
<1>14. cells \in [Cols \X Rows -> Glyphs \cup {Blank}]
  BY DEF ConsoleTypes, Letters
<1>15. ASSUME NEW a \in Cols, NEW b \in Rows
       PROVE  cells[<<a, b>>] = page[<<a, b + TopOf(row)>>]
  <2>1. b \in Nat /\ <<a, b>> \in Cols \X Rows /\ <<a, b + TopOf(row)>> \in Cols \X Nat
    BY <1>13 DEF Rows
  <2>2. m_buffer[<<a, b>>] = OnPage(text, places, <<a, b + TopOf(row)>>)
    BY <1>2, <1>4
  <2>3. (<<a, b>> = <<m_cx, m_cy>>) <=> (here = <<a, b + TopOf(row)>>)
    <3>1. b = m_cy <=> row = b + TopOf(row)
      BY <1>13, <2>1
    <3> QED BY <1>4, <3>1
  <2>4. cells[<<a, b>>] = IF c \notin Controls /\ <<a, b>> = <<m_cx, m_cy>> THEN c
                          ELSE m_buffer[<<a, b>>]
    BY <2>1 DEF ConsoleTypes
  <2>5. page[<<a, b + TopOf(row)>>] =
          IF c \notin Controls /\ here = <<a, b + TopOf(row)>> THEN c
          ELSE OnPage(text, places, <<a, b + TopOf(row)>>)
    BY <1>11, <2>1
  <2> HIDE DEF cells
  <2> QED BY <2>2, <2>3, <2>4, <2>5
<1>16. ASSUME r > row, NEW a \in Cols PROVE page[<<a, r>>] = Blank
  <2>0. <<a, r>> \in Cols \X Nat /\ <<a, r>>[2] = r
    BY <1>6
  <2>1. PICK q \in Cols \X Nat : q = <<a, r>> /\ q[2] = r
    BY <2>0
  <2>2. here # q
    BY <1>4, <1>6, <1>16, <2>1
  <2>3. \A i \in 1 .. n : places[i] # q
    <3> SUFFICES ASSUME NEW i \in 1 .. n, places[i] = q PROVE FALSE
      OBVIOUS
    <3>1. i \in 1 .. n + 1
      BY <1>1
    <3>2. places[i][2] <= row
      BY <1>3, <1>4, <3>1
    <3> QED BY <1>6, <1>16, <2>1, <3>2
  <2>4. OnPage(text, places, q) = Blank
    BY <1>1, <2>3, WrittenAt DEF n
  <2>5. page[q] = Blank
    BY <1>11, <2>2, <2>4
  <2> QED BY <2>1, <2>5
<1>17. Wrap(x, y) = <<u, r - TopOf(row)>>
  <2>1. \E v, w \in Nat : Wrap(x, y) = <<v, w>>
    BY WrapGoes
  <2>2. PICK v \in Nat, w \in Nat : Wrap(x, y) = <<v, w>>
    BY <2>1
  <2>3. new = <<v, w + TopOf(row)>>
    BY <1>5, <2>2
  <2>4. v = u /\ w + TopOf(row) = r
    BY <1>6, <2>3
  <2>5. w = r - TopOf(row)
    BY <1>6, <1>13, <2>4
  <2> QED BY <2>2, <2>4, <2>5
<1>18. MoveTo(x, y, cells)
  BY <1>5
<1> HIDE DEF cells
<1>19. /\ m_cx' = u /\ m_cy' + TopOf(r) = r
       /\ \A a \in Cols, b \in Rows : m_buffer'[<<a, b>>] = page[<<a, b + TopOf(r)>>]
  <2>1. Window(cells, page, row)
    BY <1>15 DEF Window
  <2>2. Fresh(page, row, r)
    BY <1>16 DEF Fresh
  <2>3. m_cx' = u /\ Lands(cells, r - TopOf(row))
    BY <1>17, <1>18 DEF MoveTo, Lands
  <2>4. m_cy' + TopOf(r) = r /\ Window(m_buffer', page, r)
    BY <1>13, <2>1, <2>2, <2>3, WindowMoves
  <2> QED BY <2>3, <2>4 DEF Window
<1>20. further[Len(text') + 1] = new
  BY <1>1, <1>8
<1>21. ASSUME NEW a \in Cols, NEW b \in Rows
       PROVE  m_buffer'[<<a, b>>] = OnPage(text', further, <<a, b + TopOf(r)>>)
  <2>1. <<a, b + TopOf(r)>> \in Cols \X Nat
    BY <1>6, ScreenAssumption DEF Rows, TopOf
  <2> QED BY <1>10, <1>19, <2>1
<1>22. Paged(further)'
  BY <1>6, <1>9, <1>19, <1>20, <1>21 DEF Paged
<1> QED BY <1>22

-----------------------------------------------------------------------------
(***************************************************************************)
(* The line.  While getline runs, no one else writes: its keys are its     *)
(* buffer, without a line feed, and the end of the text.                   *)
(***************************************************************************)
LineTypes ==
  /\ size \in Sizes \cup {NoLine}
  /\ ch \in Seq(Glyphs \cup {"NUL"}) /\ keys \in Seq(Typable)
  /\ Len(text) <= MaxText

EndOf(s, t) ==
  Len(s) <= Len(t) /\ \A i \in 1 .. Len(s) : s[i] = t[Len(t) - Len(s) + i]

InLine ==
  size # NoLine =>
    /\ todo = <<>> /\ pc \in {"kernel", "getline"}
    /\ ch = keys /\ keys \in Seq(Glyphs) /\ Len(keys) < size
    /\ EndOf(keys, text)

ConsoleInv == LineTypes /\ InLine /\ \E places : Paged(places)

(* What a step of the system does to the console.                          *)
ConsoleStep ==
  \/ UNCHANGED console
  \/ \E c \in Letters : size = NoLine /\ Putchar(c) /\ UNCHANGED <<line, todo>>
  \/ size = NoLine /\ UNCHANGED <<line, screen, text>>
  \/ PrintfStep
  \/ \E s \in Sizes : Getline(s)
  \/ \E c \in Typable : Key(c)
  \/ LineFull

LEMMA ConsoleSteps ==
  ASSUME IInv, ConsoleInv, [SysNext]_sysvars
  PROVE  ConsoleStep /\ (size' # NoLine => pc' \in {"kernel", "getline"})
<1>1. pc \notin {"kernel", "getline"} => size = NoLine
  BY DEF ConsoleInv, InLine
<1>2. CASE KernelStep
  <2>1. pc' = "kernel" /\ Next
    BY <1>2 DEF KernelStep
  <2> QED BY <2>1 DEF Next, ConsoleStep, Put, Printf, Idle, Letters, line, screen
<1>3. CASE \/ Run \/ Irq \/ \E v \in Values : Compute(v)
           \/ \E cmd \in m_cmds \cup {Unknown}, a \in Values : Syscall(cmd, a)
           \/ IntC9 \/ SaveContextAndGo \/ SyscallHandler \/ RunIndir \/ PushFrame \/ Iret \/ Pop
           \/ UNCHANGED sysvars
  <2>1. UNCHANGED console /\ (pc' = pc \/ size = NoLine)
    BY <1>1, <1>3 DEF Run, Idle, Irq, Compute, Syscall, IntC9, SaveContextAndGo, SyscallHandler,
       RunIndir, PushFrame, Iret, Pop, sysvars
  <2>2. size' = size
    BY <2>1 DEF console, line
  <2> QED BY <1>1, <2>1, <2>2 DEF ConsoleStep
<1>4. CASE PutTerm
  <2>1. pc = "put_term" /\ Putchar(CharOf(Arg)) /\ UNCHANGED <<line, todo>>
    BY <1>4 DEF PutTerm
  <2>2. CharOf(Arg) \in Letters
    <3>1. IInv'
      BY <1>4, PutTermKeeps
    <3>2. text' = Append(text, CharOf(Arg)) /\ text \in Seq(Letters) /\ text' \in Seq(Letters)
      BY <2>1, <3>1 DEF IInv, ConsoleTypes, Putchar
    <3> QED BY <3>2
  <2> QED BY <1>1, <2>1, <2>2 DEF ConsoleStep, line
<1>5. CASE GetTerm \/ GetlineEnds \/ \E c \in Typable : TypeKey(c)
  BY <1>5, WordsAssumption DEF GetTerm, GetlineEnds, TypeKey, Goto, ConsoleStep
<1>6. CASE GetTermReturns \/ DirentReturns \/ \E p \in Pointers : Malloc(p)
  <2>1. UNCHANGED console /\ size = NoLine
    BY <1>1, <1>6 DEF GetTermReturns, DirentReturns, Malloc
  <2> QED BY <2>1 DEF ConsoleStep, console, line
<1>7. CASE Alloc \/ Dirent
  <2>1. Printf(Message) /\ size = NoLine
    BY <1>1, <1>7 DEF Alloc, Dirent
  <2> QED BY <2>1 DEF ConsoleStep, Printf, line
<1>8. CASE PrintLine
  <2>1. PrintfStep /\ size = NoLine
    BY <1>1, <1>8 DEF PrintLine
  <2> QED BY <2>1 DEF ConsoleStep, PrintfStep, line
<1> QED BY <1>2, <1>3, <1>4, <1>5, <1>6, <1>7, <1>8 DEF SysNext, Cpu

LEMMA InitConsoleInv == SysInit => ConsoleInv
<1> SUFFICES ASSUME SysInit PROVE ConsoleInv
  OBVIOUS
<1>1. /\ m_cx = 0 /\ m_cy = 0 /\ text = <<>> /\ size = NoLine /\ ch = <<>> /\ keys = <<>>
      /\ m_buffer = [p \in Cols \X Rows |-> Blank]
  BY DEF SysInit, Init
<1>2. LineTypes /\ InLine
  BY <1>1, GlyphsAssumption, EmptySeq DEF LineTypes, InLine
<1>3. PICK places : places = [i \in 1 .. 1 |-> <<0, 0>>]
  OBVIOUS
<1>4. text \in Seq(Letters) /\ Len(text) = 0
  BY <1>1, EmptySeq
<1>5. PlacesOf(text, places)
  <2>1. 0 \in Cols /\ 0 \in Nat /\ places \in [1 .. 0 + 1 -> Cols \X Nat]
    BY <1>3, ScreenAssumption DEF Cols
  <2> QED BY <1>3, <1>4, <2>1 DEF PlacesOf
<1>6. TopOf(0) = 0 /\ places[1] = <<0, 0>>
  BY <1>3, ScreenAssumption DEF TopOf
<1>7. ASSUME NEW p PROVE OnPage(text, places, p) = Blank
  <2>1. PICK s \in Seq(Letters) : s = text /\ Len(s) = 0
    BY <1>4
  <2>2. OnPage(s, places, p) = Blank \/ \E k \in 1 .. Len(s) : TRUE
    BY WrittenAt
  <2> QED BY <2>1, <2>2
<1>8. Paged(places)
  BY <1>1, <1>4, <1>5, <1>6, <1>7 DEF Paged
<1> QED BY <1>2, <1>8 DEF ConsoleInv

(* A character written to both keeps one the end of the other.             *)
LEMMA EndGrows ==
  ASSUME NEW S, NEW s \in Seq(S), NEW t \in Seq(S), EndOf(s, t), NEW c \in S
  PROVE  EndOf(Append(s, c), Append(t, c))
<1> DEFINE u == Append(s, c)
           v == Append(t, c)
<1>1. /\ Len(u) = Len(s) + 1 /\ Len(v) = Len(t) + 1 /\ u[Len(s) + 1] = c /\ v[Len(t) + 1] = c
      /\ \A i \in 1 .. Len(s) : u[i] = s[i]
      /\ \A i \in 1 .. Len(t) : v[i] = t[i]
      /\ Len(s) \in Nat /\ Len(t) \in Nat
  BY AppendProperties
<1>2. Len(s) <= Len(t) /\ \A i \in 1 .. Len(s) : s[i] = t[Len(t) - Len(s) + i]
  BY DEF EndOf
<1> HIDE DEF u, v
<1>3. ASSUME NEW i \in 1 .. Len(s) + 1 PROVE u[i] = v[Len(t) - Len(s) + i]
  <2>1. CASE i = Len(s) + 1
    BY <1>1, <1>2, <2>1
  <2>2. CASE i # Len(s) + 1
    <3>1. i \in 1 .. Len(s) /\ Len(t) - Len(s) + i \in 1 .. Len(t)
      BY <1>1, <1>2, <2>2
    <3> QED BY <1>1, <1>2, <3>1
  <2> QED BY <2>1, <2>2
<1>4. Len(v) - Len(u) = Len(t) - Len(s) /\ Len(u) <= Len(v)
  BY <1>1, <1>2
<1>5. EndOf(u, v)
  BY <1>1, <1>3, <1>4 DEF EndOf
<1> QED BY <1>5 DEF u, v

(* A key that is typed is the next of the line and of the text.            *)
LEMMA KeyTyped ==
  ASSUME ConsoleTypes, LineTypes, InLine, NEW c \in Typable, Key(c)
  PROVE  /\ size # NoLine /\ size \in Nat /\ Len(ch) < size - 1 /\ Putchar(c)
         /\ text' = Append(text, c) /\ keys' = Append(keys, c)
         /\ text' \in Seq(Letters) /\ keys' \in Seq(Typable)
         /\ EndOf(keys', text')
         /\ ch = keys /\ keys \in Seq(Glyphs)
<1>1. size # NoLine /\ Len(ch) < size - 1 /\ Putchar(c) /\ keys' = Append(keys, c)
  BY DEF Key, Room
<1>2. text' = Append(text, c) /\ size \in Nat
  BY <1>1, SizesAssumption DEF Putchar, LineTypes
<1>3. c \in Letters /\ Typable \subseteq Letters
  BY DEF Typable, Letters, Controls
<1>4. text \in Seq(Letters) /\ keys \in Seq(Typable) /\ keys \in Seq(Letters)
  BY <1>3 DEF ConsoleTypes, LineTypes
<1>5. EndOf(keys', text')
  BY <1>1, <1>2, <1>3, <1>4, EndGrows DEF InLine
<1>6. text' \in Seq(Letters) /\ keys' \in Seq(Typable)
  BY <1>1, <1>2, <1>3, <1>4, AppendProperties
<1> QED BY <1>1, <1>2, <1>5, <1>6 DEF InLine

LEMMA ConsoleInvKept ==
  ASSUME IInv, ConsoleInv, [SysNext]_sysvars
  PROVE  ConsoleInv'
<1>1. ConsoleStep /\ (size' # NoLine => pc' \in {"kernel", "getline"})
  BY ConsoleSteps
<1>2. ConsoleTypes /\ LineTypes /\ InLine /\ MaxText \in Nat
  BY GlyphsAssumption DEF IInv, ConsoleInv
<1>3. PICK places : Paged(places)
  BY DEF ConsoleInv
<1>4. ASSUME UNCHANGED <<m_cx, m_cy, m_buffer, text>> PROVE \E p : Paged(p)'
  <2>1. Paged(places)'
    BY <1>3, <1>4 DEF Paged
  <2> QED BY <2>1
<1>5. ASSUME NEW c \in Letters, Putchar(c) PROVE (\E p : Paged(p)') /\ Len(text') <= MaxText
  <2>1. Len(text') <= MaxText
    <3>1. Len(text) < MaxText /\ text \in Seq(Letters) /\ text' = Append(text, c)
      BY <1>2, <1>5 DEF Putchar, ConsoleTypes
    <3>2. Len(text') = Len(text) + 1 /\ Len(text) \in Nat
      BY <3>1, AppendProperties
    <3> QED BY <1>2, <3>1, <3>2
  <2> QED BY <1>2, <1>3, <1>5, <2>1, PutcharPaged
<1>6. CASE UNCHANGED console \/ (size = NoLine /\ UNCHANGED <<line, screen, text>>)
  <2>1. UNCHANGED <<m_cx, m_cy, m_buffer, text, size, ch, keys>> /\ (size = NoLine \/ todo' = todo)
    BY <1>6 DEF console, screen, line
  <2>2. LineTypes' /\ InLine'
    BY <1>1, <1>2, <2>1 DEF LineTypes, InLine
  <2> QED BY <1>4, <2>1, <2>2 DEF ConsoleInv
<1>7. ASSUME NEW c \in Letters, Putchar(c), size = NoLine, UNCHANGED line PROVE ConsoleInv'
  <2>1. UNCHANGED <<size, ch, keys>>
    BY <1>7 DEF line
  <2>2. LineTypes' /\ InLine'
    BY <1>2, <1>5, <1>7, <2>1 DEF LineTypes, InLine
  <2> QED BY <1>5, <1>7, <2>2 DEF ConsoleInv
<1>8. CASE PrintfStep
  <2>1. size = NoLine
    BY <1>2, <1>8 DEF PrintfStep, InLine
  <2>2. Head(Percent(todo)) \in Letters
    BY <1>2, <1>8, PrintfStepChar DEF PrintfStep
  <2> QED BY <1>7, <1>8, <2>1, <2>2 DEF PrintfStep
<1>9. CASE \E s \in Sizes : Getline(s)
  <2>1. PICK s \in Sizes : Getline(s)
    BY <1>9
  <2>2. /\ size' = s /\ ch' = <<>> /\ keys' = <<>> /\ todo' = <<>>
        /\ UNCHANGED <<m_cx, m_cy, m_buffer, text>> /\ size' # NoLine /\ s \in Nat /\ s > 0
    BY <2>1, SizesAssumption DEF Getline, Idle, screen, NoLine
  <2>3. LineTypes' /\ InLine'
    BY <1>1, <1>2, <2>2, EmptySeq DEF LineTypes, InLine, EndOf, ConsoleTypes
  <2> QED BY <1>4, <2>2, <2>3 DEF ConsoleInv
<1>10. CASE \E c \in Typable : Key(c)
  <2>1. PICK c \in Typable : Key(c)
    BY <1>10
  <2>2. /\ size # NoLine /\ size \in Nat /\ Len(ch) < size - 1 /\ Putchar(c)
        /\ text' = Append(text, c) /\ keys' = Append(keys, c)
        /\ keys' \in Seq(Typable) /\ EndOf(keys', text')
        /\ ch = keys /\ keys \in Seq(Glyphs)
    BY <1>2, <2>1, KeyTyped
  <2>3. c \in Letters
    BY DEF Typable, Letters, Controls
  <2>4. (\E p : Paged(p)') /\ Len(text') <= MaxText
    BY <1>5, <2>2, <2>3
  <2>5. CASE c = LF
    <3>1. size' = NoLine /\ ch' = Append(ch, "NUL")
      BY <2>1, <2>5 DEF Key
    <3>2. ch' \in Seq(Glyphs \cup {"NUL"})
      BY <1>2, <3>1, AppendProperties DEF LineTypes
    <3> QED BY <2>2, <2>4, <3>1, <3>2 DEF ConsoleInv, LineTypes, InLine
  <2>6. CASE c # LF
    <3>1. size' = size /\ ch' = Append(ch, c) /\ todo' = todo /\ c \in Glyphs
      BY <2>1, <2>6 DEF Key, Typable
    <3>2. /\ keys' \in Seq(Glyphs) /\ Len(keys') = Len(keys) + 1 /\ Len(keys) \in Nat
          /\ ch' = keys' /\ ch' \in Seq(Glyphs \cup {"NUL"})
      BY <2>2, <3>1, AppendProperties
    <3>3. InLine'
      BY <1>1, <1>2, <2>2, <3>1, <3>2 DEF InLine
    <3> QED BY <1>2, <2>2, <2>4, <3>1, <3>2, <3>3 DEF ConsoleInv, LineTypes
  <2> QED BY <2>5, <2>6
<1>11. CASE LineFull
  <2>1. /\ size' = NoLine /\ ch' = Append(ch, "NUL") /\ keys' = keys
        /\ UNCHANGED <<m_cx, m_cy, m_buffer, text>>
    BY <1>11 DEF LineFull, screen
  <2>2. ch' \in Seq(Glyphs \cup {"NUL"})
    BY <1>2, <2>1, AppendProperties DEF LineTypes
  <2> QED BY <1>2, <1>4, <2>1, <2>2 DEF ConsoleInv, LineTypes, InLine
<1> QED BY <1>1, <1>6, <1>7, <1>8, <1>9, <1>10, <1>11 DEF ConsoleStep

LEMMA AppendedFront ==
  ASSUME NEW S, NEW s \in Seq(S), NEW e \in S
  PROVE  /\ Front(Append(s, e)) = s /\ Last(Append(s, e)) = e
         /\ Len(Append(s, e)) = Len(s) + 1 /\ Len(s) \in Nat
<1> DEFINE u == Append(s, e)
<1>1. /\ u \in Seq(S) /\ Len(u) = Len(s) + 1 /\ u[Len(s) + 1] = e /\ Len(s) \in Nat
      /\ \A i \in 1 .. Len(s) : u[i] = s[i]
  BY AppendProperties
<1> HIDE DEF u
<1>2. Front(u) = [i \in 1 .. Len(s) |-> u[i]]
  BY <1>1 DEF Front
<1>3. s = [i \in 1 .. Len(s) |-> s[i]]
  OBVIOUS
<1>4. Front(u) = s /\ Last(u) = e
  BY <1>1, <1>2, <1>3 DEF Last
<1> QED BY <1>1, <1>4 DEF u

LEMMA EndIsSuffix ==
  ASSUME NEW S, NEW s \in Seq(S), NEW t \in Seq(S), EndOf(s, t)
  PROVE  IsSuffix(s, t)
<1>1. /\ Reverse(s) \in Seq(S) /\ Reverse(t) \in Seq(S)
      /\ Len(Reverse(s)) = Len(s) /\ Len(Reverse(t)) = Len(t)
  BY DEF Reverse
<1>2. Len(s) <= Len(t) /\ \A i \in 1 .. Len(s) : Reverse(s)[i] = Reverse(t)[i]
  BY DEF Reverse, EndOf
<1> QED
  BY <1>1, <1>2 DEF IsPrefix, IsSuffix

(* The two steps that end a getline: a line feed, or a full buffer.        *)
LEMMA ReturnsTheLine ==
  ASSUME IInv, ConsoleInv, [SysNext]_sysvars, size # NoLine, size' = NoLine
  PROVE  LineReturned
<1>1. ConsoleTypes /\ LineTypes /\ InLine
  BY DEF IInv, ConsoleInv
<1>2. Typable \subseteq Letters /\ LF \notin Glyphs /\ Glyphs \subseteq Typable
  BY GlyphsAssumption DEF Typable, Letters, Controls
<1>3. /\ ch = keys /\ keys \in Seq(Glyphs) /\ EndOf(keys, text)
      /\ Len(keys) < size /\ size \in Nat /\ text \in Seq(Letters)
  BY <1>1, SizesAssumption DEF InLine, LineTypes, ConsoleTypes
<1>4. LF \notin Range(keys)
  BY <1>2, <1>3 DEF Range
<1>5. CASE ch' = Append(ch, "NUL")
  <2>1. ch \in Seq(Glyphs \cup {"NUL"})
    BY <1>1 DEF LineTypes
  <2>2. Front(ch') = keys /\ Last(ch') = "NUL" /\ Len(ch') = Len(keys) + 1 /\ Len(keys) \in Nat
    BY <1>3, <1>5, <2>1, AppendedFront
  <2>3. CASE keys' = keys /\ text' = text
    <3>1. keys \in Seq(Letters)
      BY <1>2, <1>3
    <3>2. IsSuffix(keys', text')
      BY <1>3, <2>3, <3>1, EndIsSuffix
    <3> QED BY <1>3, <1>4, <2>2, <2>3, <3>2 DEF LineReturned
  <2>4. CASE /\ keys' = Append(keys, LF) /\ keys' \in Seq(Typable)
             /\ text' \in Seq(Letters) /\ EndOf(keys', text')
    <3>1. keys' \in Seq(Letters)
      BY <1>2, <2>4
    <3>2. IsSuffix(keys', text')
      BY <2>4, <3>1, EndIsSuffix
    <3> QED BY <1>3, <1>4, <2>2, <2>4, <3>2 DEF LineReturned
  <2>5. \/ keys' = keys /\ text' = text
        \/ /\ keys' = Append(keys, LF) /\ keys' \in Seq(Typable)
           /\ text' \in Seq(Letters) /\ EndOf(keys', text')
    <3>1. LineFull \/ \E c \in Typable : Key(c)
      <4>1. UNCHANGED console => size' = size
        BY DEF console, line
      <4>2. PrintfStep => size' = size
        BY DEF PrintfStep, line
      <4>3. \A s \in Sizes : ~Getline(s)
        BY DEF Getline, Idle
      <4> QED BY <4>1, <4>2, <4>3, ConsoleSteps DEF ConsoleStep
    <3>2. CASE LineFull
      BY <3>2 DEF LineFull
    <3>3. ASSUME NEW c \in Typable, Key(c)
          PROVE  /\ keys' = Append(keys, LF) /\ keys' \in Seq(Typable)
                 /\ text' \in Seq(Letters) /\ EndOf(keys', text')
      <4>1. c = LF
        BY <3>3 DEF Key
      <4> QED BY <1>1, <3>3, <4>1, KeyTyped
    <3> QED BY <3>1, <3>2, <3>3
  <2> QED BY <2>3, <2>4, <2>5
<1>6. ch' = Append(ch, "NUL")
  <2>1. UNCHANGED console => size' = size
    BY DEF console, line
  <2>2. PrintfStep => size' = size
    BY DEF PrintfStep, line
  <2>3. \A s \in Sizes : ~Getline(s)
    BY DEF Getline, Idle
  <2>4. LineFull \/ \E c \in Typable : Key(c)
    BY <2>1, <2>2, <2>3, ConsoleSteps DEF ConsoleStep
  <2> QED BY <2>4 DEF LineFull, Key
<1> QED BY <1>5, <1>6

LEMMA PagedShowsText == IInv /\ ConsoleInv => ScreenShowsText
<1> SUFFICES ASSUME IInv, ConsoleInv PROVE ScreenShowsText
  OBVIOUS
<1>1. PICK places : Paged(places)
  BY DEF ConsoleInv
<1>2. TypeOK
  BY DEF IInv, ConsoleTypes, ConsoleInv, LineTypes, TypeOK, Letters
<1>3. text \in Seq(Letters) /\ Len(text) \in Nat
  BY DEF IInv, ConsoleTypes
<1>4. Places(text) = places
  BY <1>1, <1>3, PlacesAreUnique DEF Paged
<1> DEFINE here == places[Len(text) + 1]
<1>5. /\ m_cx = here[1] /\ m_cy + TopOf(here[2]) = here[2] /\ here \in Cols \X Nat
      /\ \A a \in Cols, b \in Rows :
           m_buffer[<<a, b>>] = OnPage(text, places, <<a, b + TopOf(here[2])>>)
  BY <1>1, <1>3 DEF Paged, PlacesOf
<1>6. Last(places) = here
  <2>1. places \in [1 .. Len(text) + 1 -> Cols \X Nat]
    BY <1>1 DEF Paged, PlacesOf
  <2>2. Len(places) = Len(text) + 1
    BY <1>3, <2>1
  <2> QED BY <2>2 DEF Last
<1> HIDE DEF here
<1>7. PICK top : top = IF here[2] < Height THEN 0 ELSE here[2] - (Height - 1)
  OBVIOUS
<1>8. top = TopOf(here[2])
  BY <1>7 DEF TopOf
<1>9. <<m_cx, m_cy + top>> = here
  BY <1>5, <1>8
<1>10. \A p \in Cols \X Rows : m_buffer[p] = OnPage(text, places, <<p[1], p[2] + top>>)
  <2> SUFFICES ASSUME NEW p \in Cols \X Rows
               PROVE  m_buffer[p] = OnPage(text, places, <<p[1], p[2] + top>>)
    OBVIOUS
  <2>1. PICK a \in Cols, b \in Rows : p = <<a, b>> /\ p[1] = a /\ p[2] = b
    OBVIOUS
  <2> QED BY <1>5, <1>8, <2>1
<1> QED BY <1>2, <1>4, <1>6, <1>7, <1>9, <1>10 DEF ScreenShowsText

(* The invariant of the console, wherever its functions are called from.   *)
THEOREM ConsoleIInv == SysSpec => []ConsoleInv
<1>1. SysInit => ConsoleInv
  BY InitConsoleInv
<1>2. IInv /\ ConsoleInv /\ [SysNext]_sysvars => ConsoleInv'
  BY ConsoleInvKept
<1> QED
  BY <1>1, <1>2, SyscallIInv, PTL DEF SysSpec

(***************************************************************************)
(* The screen is the window on the page without an end that ends with the  *)
(* row of the cursor, for every size of the screen and every text the      *)
(* kernel, its getline and its programs write.                             *)
(***************************************************************************)
THEOREM ScreenShows == SysSpec => []ScreenShowsText
BY PagedShowsText, SyscallIInv, ConsoleIInv, PTL

(* getline returns what was typed, no more than fits, for every size.      *)
THEOREM GetlineReturns == SysSpec => GetlineReturnsTheLine
<1>1. IInv /\ ConsoleInv /\ [SysNext]_sysvars =>
        [size # NoLine /\ size' = NoLine => LineReturned]_vars
  BY ReturnsTheLine
<1> QED
  BY <1>1, SyscallIInv, ConsoleIInv, PTL DEF SysSpec, GetlineReturnsTheLine
=============================================================================
