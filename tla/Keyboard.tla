------------------------------ MODULE Keyboard ------------------------------
(***************************************************************************)
(* The keyboard driver (src/keyboard.cpp): the keyboard, the one byte of   *)
(* its controller that the CPU can see, the interrupt handler, which waits *)
(* in its middle for the bytes that belong to a key, and the program that  *)
(* is interrupted: keyboard::init, whose commands the controller answers   *)
(* with that same byte, and then calls of wait_char.                       *)
(*                                                                         *)
(* A key is an event: the flags the driver calls its type, and its code.   *)
(* A byte at the controller raises interrupt 1.  The 8259 keeps the edge   *)
(* even when the handler that is running reads the byte, so that the       *)
(* handler is also entered with nothing to read.                           *)
(*                                                                         *)
(* Up to ps2_initialize the controller translates what it shows: there is  *)
(* no byte for RELEASE, which sets the highest bit of the next one.        *)
(***************************************************************************)
EXTENDS Integers, Sequences, SequencesExt

CONSTANTS
  Events,     \* what the keyboard may report
  Keys,       \* the codes that scancodes.inc has a character for
  MaxEvents,  \* bound: how many events it reports
  Set1,       \* the translation of a code
  AnswersInterrupt  \* does an answer raise interrupt 1, the port disabled?

LeftShift == 18  \* 0x12
EXT    == 224    \* 0xe0
WIDE   == 225    \* 0xe1
RELEASE == 240   \* 0xf0
ConfigByte == 69  \* 0x45: interrupt 1, and translation
TestPassed == 85  \* PS2_CMD_CONTROLLER_TEST_REPLY
PortPassed == 0

Types == {{"normal"}, {"break"}, {"extended"}, {"break", "extended"},
          {"wide"}, {"break", "wide"}, {}}
ASSUME BoundAssumption == MaxEvents \in Nat
ASSUME KeysAssumption  == LeftShift \notin Keys

None == -1
NoChr == <<FALSE, 0>>

(* The bytes of an event: what the keyboard sends, set 2.  The code of a   *)
(* wide one has two bytes.                                                 *)
Word(lo, hi) == lo + 256 * hi
Bytes(e) ==
  LET lo == e.code % 256
      hi == e.code \div 256 IN
  CASE e.type = {"extended"}          -> <<EXT, e.code>>
    [] e.type = {"break", "extended"} -> <<EXT, RELEASE, e.code>>
    [] e.type = {"break"}             -> <<RELEASE, e.code>>
    [] e.type = {"wide"}              -> <<WIDE, lo, hi>>
    [] e.type = {"break", "wide"}     -> <<WIDE, RELEASE, lo, RELEASE, hi>>
    [] OTHER                          -> <<e.code>>

(* No byte of a code is a prefix, and F7 alone (type {}) has the high bit. *)
CodeBytes(e) == IF "wide" \in e.type THEN {e.code % 256, e.code \div 256} ELSE {e.code}
ASSUME EventsAssumption ==
  \A e \in Events :
    /\ e \in [type : Types, code : Nat]
    /\ CodeBytes(e) \subseteq 1 .. 255 \ {EXT, WIDE, RELEASE}
    /\ e.type = {"normal"} => e.code < 128
    /\ e.type = {} => e.code >= 128
    /\ \A b \in CodeBytes(e) : b \in DOMAIN Set1 /\ Set1[b] \in 1 .. 127

VARIABLES
  queue,      \* bytes still in the keyboard
  output,     \* the controller's output buffer
  irq,        \* interrupt 1 is latched
  cpu,        \* "main", or what ps2_read is about to read
  low,        \* the scancode read so far of a wide one
  shift, chr, waiting,
  main,       \* the program: a step of keyboard::init, or then "idle",
              \*   "spin" in wait_char, "leave" it
  mapped,     \* kbd_interrupt is connected to interrupt 1
  disabled,   \* the port: the keyboard keeps its bytes
  translating, released,  \* the translation, and a RELEASE it has seen
  asked,      \* the answers that the controller owes
  cut,        \* history: the port was disabled between two bytes of a key
  sent,       \* history: the events reported
  decoded,    \* history: the events the handler has read
  typed,      \* history: every value that chr was given
  calledAt    \* history: Len(typed) when wait_char was called

device  == <<queue, output, irq, sent, released, asked>>
driver  == <<shift, chr, waiting, decoded, typed>>
program == <<main, calledAt>>
setup   == <<mapped, disabled, translating, cut>>
vars == <<device, cpu, low, driver, program, setup>>

Init ==
  /\ queue = <<>> /\ output = None /\ irq = FALSE
  /\ cpu = "main" /\ low = None
  /\ shift = FALSE /\ chr = NoChr /\ waiting = FALSE
  /\ main = "map" /\ mapped = FALSE
  /\ disabled = FALSE /\ translating = TRUE /\ released = FALSE
  /\ asked = <<>> /\ cut = FALSE
  /\ sent = <<>> /\ decoded = <<>> /\ typed = <<>> /\ calledAt = 0

-----------------------------------------------------------------------------
(* The keyboard and its controller.                                        *)
Press(e) ==
  /\ Len(sent) < MaxEvents
  /\ sent' = Append(sent, e)
  /\ queue' = queue \o Bytes(e)
  /\ UNCHANGED <<output, irq, released, asked, cpu, low, driver, program, setup>>

Translation(b) ==
  IF b \in {EXT, WIDE} THEN b ELSE Set1[b] + (IF released THEN 128 ELSE 0)

Present ==
  /\ queue # <<>> /\ output = None /\ ~disabled
  /\ queue' = Tail(queue)
  /\ IF translating /\ Head(queue) = RELEASE
     THEN released' = TRUE /\ UNCHANGED <<output, irq>>
     ELSE /\ output' = IF translating THEN Translation(Head(queue)) ELSE Head(queue)
          /\ irq' = TRUE
          /\ released' = FALSE
  /\ UNCHANGED <<sent, asked, cpu, low, driver, program, setup>>

Answer ==
  /\ asked # <<>> /\ output = None
  /\ output' = Head(asked) /\ asked' = Tail(asked)
  /\ irq' = (irq \/ AnswersInterrupt)
  /\ UNCHANGED <<queue, sent, released, cpu, low, driver, program, setup>>

(* Interrupt 1 enters kbd_interrupt, once that is connected.               *)
Accept ==
  /\ cpu = "main" /\ irq
  /\ irq' = FALSE
  /\ cpu' = IF mapped THEN "first" ELSE "main"
  /\ UNCHANGED <<queue, output, sent, released, asked, low, driver, program, setup>>

-----------------------------------------------------------------------------
(* The rest of kbd_interrupt once ps2_read returns a type and a code.      *)
IsShiftNoMask(type, code) == code = LeftShift /\ type # {}  \* mutant
IsShift(type, code) == code = LeftShift /\ type \ {"extended"} # {}

TranslatedAny(type, code) == type = {"normal"}  \* mutant
Translated(type, code) == type = {"normal"} /\ code \in Keys

DispatchStillWaiting(type, code) ==  \* mutant
  IF Translated(type, code)
  THEN chr' = <<shift, code>> /\ typed' = Append(typed, chr') /\ UNCHANGED waiting
  ELSE UNCHANGED <<chr, waiting, typed>>
DispatchScancode(type, code) ==
  IF Translated(type, code)
  THEN /\ chr' = <<shift, code>>
       /\ waiting' = FALSE
       /\ typed' = Append(typed, chr')
  ELSE UNCHANGED <<chr, waiting, typed>>

ReturnsWith(type, code) ==
  /\ IF IsShift(type, code)
     THEN /\ shift' = (type # {"break"})
          /\ UNCHANGED <<chr, waiting, typed>>
     ELSE /\ DispatchScancode(type, code)
          /\ UNCHANGED shift
  /\ decoded' = Append(decoded, [type |-> type, code |-> code])
  /\ cpu' = "main"
  /\ low' = None

(* ps2_read reads a byte and goes on to the next, remembering the code.    *)
GoesOn(next, code) ==
  /\ cpu' = next
  /\ low' = code
  /\ UNCHANGED driver

Read(at) ==
  /\ cpu = at /\ output # None
  /\ output' = None
  /\ UNCHANGED <<queue, irq, sent, released, asked, program, setup>>

EmptyOrUnwanted == output = None \/ ~waiting  \* mutant
Empty == output = None
NothingToRead ==
  /\ cpu = "first" /\ Empty
  /\ cpu' = "main"
  /\ UNCHANGED <<device, low, driver, program, setup>>

AfterPrefix(b) ==
  CASE b = EXT -> "extended" [] b = WIDE -> "wide" [] b = RELEASE -> "break" [] OTHER -> "main"

ReadFirst ==
  /\ Read("first")
  /\ IF AfterPrefix(output) # "main"
     THEN GoesOn(AfterPrefix(output), None)
     ELSE ReturnsWith(IF output >= 128 THEN {} ELSE {"normal"}, output)

ReadBreak == Read("break") /\ ReturnsWith({"break"}, output)

ReadExtended ==
  /\ Read("extended")
  /\ IF output = RELEASE
     THEN GoesOn("extended break", None)
     ELSE ReturnsWith({"extended"}, output)

ReadExtendedBreak == Read("extended break") /\ ReturnsWith({"break", "extended"}, output)

AfterLowOneMore == "wide break again"  \* mutant
AfterLow == "wide high"
ReadWide ==
  /\ Read("wide")
  /\ IF output = RELEASE THEN GoesOn("wide break", None) ELSE GoesOn(AfterLow, output)

ReadWideHigh == Read("wide high") /\ ReturnsWith({"wide"}, Word(low, output))

AfterBreakLowNoSkip == "wide break high"  \* mutant
AfterBreakLow == "wide break again"
ReadWideBreak      == Read("wide break") /\ GoesOn(AfterBreakLow, output)
ReadWideBreakAgain == Read("wide break again") /\ GoesOn("wide break high", low)
ReadWideBreakHigh  == Read("wide break high") /\ ReturnsWith({"break", "wide"}, Word(low, output))

Handler ==
  \/ NothingToRead \/ ReadFirst \/ ReadBreak
  \/ ReadExtended \/ ReadExtendedBreak
  \/ ReadWide \/ ReadWideHigh
  \/ ReadWideBreak \/ ReadWideBreakAgain \/ ReadWideBreakHigh

-----------------------------------------------------------------------------
(* keyboard::init.  Its commands have their answers polled for, with       *)
(* interrupts on: what is pending interrupts before the next step.         *)
InitStep(from, to) ==
  /\ cpu = "main" /\ main = from
  /\ main' = to
  /\ UNCHANGED <<queue, cpu, low, driver, calledAt>>

MapIrq ==
  /\ InitStep("map", "disable")
  /\ mapped' = TRUE
  /\ UNCHANGED <<device, disabled, translating, cut>>

AllBytes(s) ==
  LET bytes[n \in 0 .. Len(s)] == IF n = 0 THEN <<>> ELSE bytes[n - 1] \o Bytes(s[n])
  IN  bytes[Len(s)]
Newest(n)    == SubSeq(sent, Len(sent) - n + 1, Len(sent))
Unsent      == {n \in 0 .. Len(sent) : queue = AllBytes(Newest(n))}

(* A byte may come with the very command that disables the port.           *)
DisablePorts ==
  /\ InitStep("disable", "flush")
  /\ disabled' = TRUE
  /\ cut' = (Unsent = {})
  /\ UNCHANGED <<device, mapped, translating>>

Poll(from, to) ==
  /\ InitStep(from, to)
  /\ ~irq /\ output # None
  /\ output' = None
  /\ UNCHANGED <<irq, sent, released, mapped, disabled, cut>>

NoFlush == TRUE  \* mutant
Flushed == output = None

Flush == Poll("flush", "flush") /\ UNCHANGED <<asked, translating>>

FlushOver ==
  /\ InitStep("flush", "ram0")
  /\ ~irq /\ Flushed
  /\ asked' = Append(asked, ConfigByte)
  /\ UNCHANGED <<output, irq, sent, released, setup>>

(* What is written back leaves the translation out.                        *)
ReadRam0 ==
  /\ Poll("ram0", "test")
  /\ translating' = FALSE
  /\ asked' = Append(asked, TestPassed)

ReadTest ==
  /\ Poll("test", IF output = TestPassed THEN "port" ELSE "bad")
  /\ asked' = IF output = TestPassed THEN Append(asked, PortPassed) ELSE asked
  /\ UNCHANGED translating

ReadPortTest ==
  /\ Poll("port", IF output = PortPassed THEN "enable" ELSE "bad")
  /\ UNCHANGED <<asked, translating>>

(* From here on the events are those read so far and those to come.        *)
EnableFirst ==
  /\ InitStep("enable", "idle")
  /\ ~irq
  /\ disabled' = FALSE
  /\ sent' = IF cut THEN sent ELSE decoded \o Newest(CHOOSE n \in Unsent : TRUE)
  /\ UNCHANGED <<output, irq, released, asked, mapped, translating, cut>>

Ready == {"idle", "spin", "leave"}

Initialize ==
  \/ MapIrq \/ DisablePorts \/ Flush \/ FlushOver
  \/ ReadRam0 \/ ReadTest \/ ReadPortTest \/ EnableFirst

-----------------------------------------------------------------------------
(* wait_char; an interrupt may come between any two of its steps.          *)
WaitCharNotArmed ==  \* mutant
  /\ cpu = "main" /\ main = "idle"
  /\ main' = "spin"
  /\ calledAt' = Len(typed)
  /\ UNCHANGED <<device, cpu, low, driver, setup>>
WaitChar ==
  /\ cpu = "main" /\ main = "idle"
  /\ waiting' = TRUE
  /\ main' = "spin"
  /\ calledAt' = Len(typed)
  /\ UNCHANGED <<device, cpu, low, shift, chr, decoded, typed, setup>>

WaitOver ==
  /\ cpu = "main" /\ main = "spin"
  /\ ~waiting
  /\ main' = "leave"
  /\ UNCHANGED <<device, cpu, low, driver, calledAt, setup>>

ReturnChr ==
  /\ cpu = "main" /\ main = "leave"
  /\ main' = "idle"
  /\ UNCHANGED <<device, cpu, low, driver, calledAt, setup>>

Next ==
  \/ \E e \in Events : Press(e)
  \/ Present \/ Answer \/ Accept \/ Handler
  \/ Initialize
  \/ WaitChar \/ WaitOver \/ ReturnChr

(* The keyboard sends what it has, the controller answers, and the CPU     *)
(* takes interrupts and goes on with the handler and, between interrupts,  *)
(* with the program.                                                       *)
Spec ==
  /\ Init /\ [][Next]_vars
  /\ WF_vars(Present) /\ WF_vars(Answer) /\ WF_vars(Accept) /\ WF_vars(Handler)
  /\ WF_vars(Initialize) /\ WF_vars(WaitOver) /\ WF_vars(ReturnChr)

-----------------------------------------------------------------------------
(* What the events mean, by definition: shift is held when the last event  *)
(* of the left shift key was not its release, and a key typed while it is  *)
(* held is its upper character.  The other byte sequences that contain the *)
(* shift key's code are no events of that key.                             *)
IsShiftKey(e) == e.code = LeftShift /\ e.type \in {{"normal"}, {"break"}}
Held(s, n) ==
  \E i \in 1 .. n : /\ IsShiftKey(s[i]) /\ s[i].type = {"normal"}
                    /\ \A j \in i + 1 .. n : ~IsShiftKey(s[j])
TypedBy(s) ==
  LET chars[n \in 0 .. Len(s)] ==
        IF n = 0 THEN <<>>
        ELSE IF s[n].type = {"normal"} /\ s[n].code \in Keys
        THEN Append(chars[n - 1], <<Held(s, n), s[n].code>>)
        ELSE chars[n - 1]
  IN  chars[Len(s)]

(* The type of every variable.                                             *)
TypeOK ==
  /\ \A i \in DOMAIN queue : queue[i] \in 0 .. 255
  /\ output \in -1 .. 255 /\ Range(asked) \subseteq 0 .. 255 /\ low \in -1 .. 255
  /\ {irq, shift, waiting, mapped, disabled, translating, released, cut} \subseteq BOOLEAN
  /\ cpu \in {"main", "first", "break", "extended", "extended break", "wide",
              "wide high", "wide break", "wide break again", "wide break high"}
  /\ chr \in {NoChr} \cup (BOOLEAN \X Keys)
  /\ main \in {"map", "disable", "flush", "ram0", "test", "port", "enable", "bad"} \cup Ready
  /\ calledAt \in 0 .. Len(typed)

(***************************************************************************)
(* ps2_read never loses its place: whatever interrupts come early, late or *)
(* for nothing, the events it has read are the first ones reported, and    *)
(* all of them once no byte is left and it has returned.  This holds from  *)
(* the end of keyboard::init on, unless a key was cut in two by it.        *)
(***************************************************************************)
FramingKept ==
  /\ TypeOK
  /\ main \in Ready /\ ~cut =>
       /\ IsPrefix(decoded, sent)
       /\ (cpu = "main" /\ queue = <<>> /\ output = None) => decoded = sent

(***************************************************************************)
(* The characters stored are those of the keys, each with the shift that   *)
(* was held when it was pressed, however late it is read.  Not after the   *)
(* release of a made-up shift (e0 f0 12): the driver compares its type     *)
(* with a plain release only and takes it for a press.                     *)
(***************************************************************************)
MadeUpRelease(e) == e.code = LeftShift /\ e.type = {"break", "extended"}
CharsMatchKeys ==
  (\E i \in DOMAIN decoded : MadeUpRelease(decoded[i])) \/ typed = TypedBy(decoded)

(***************************************************************************)
(* The loop of wait_char ends for a key stored since the call and for      *)
(* nothing else, and what it returns is the newest: no key is returned by  *)
(* two calls.                                                              *)
(***************************************************************************)
WaitEndsWithFreshKey ==
  /\ main = "spin" => waiting = (Len(typed) = calledAt)
  /\ main = "leave" => Len(typed) > calledAt /\ chr = Last(typed)

(***************************************************************************)
(* The handler, which waits for bytes with interrupts off, returns, and no *)
(* byte stays in the controller, where it would block all that follow:     *)
(* unless a key was cut in two, whose rest cannot come.                    *)
(***************************************************************************)
BytesAreRead ==
  /\ cpu # "main" ~> cpu = "main" \/ cut
  /\ output # None ~> output = None \/ cut

(***************************************************************************)
(* keyboard::init, which spins when an answer is missing or wrong, returns *)
(* whatever is typed during it, if answers do not interrupt and no key is  *)
(* cut in two.                                                             *)
(***************************************************************************)
InitReturns == ~AnswersInterrupt => <>(main \in Ready \/ cut)

(***************************************************************************)
(* A call of wait_char that waits while a key with a character is on its   *)
(* way returns.                                                            *)
(***************************************************************************)
KeyOnItsWay ==
  \E i \in Len(decoded) + 1 .. Len(sent) : Translated(sent[i].type, sent[i].code)
CallReturns == main = "spin" /\ KeyOnItsWay /\ ~cut ~> main = "idle"

(* What the kernel calls in the driver returns, the set-up and the wait.   *)
CallsReturn == InitReturns /\ CallReturns
=============================================================================
