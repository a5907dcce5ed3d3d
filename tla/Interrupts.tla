----------------------------- MODULE Interrupts -----------------------------
(***************************************************************************)
(* The dispatch of hardware interrupts (src/interrupt.cpp, src/pic.cpp):   *)
(* two 8259 interrupt controllers, the handler the kernel installs for     *)
(* every line, and wait_irq in the program that is interrupted.  The gates *)
(* clear the interrupt flag, so handlers do not nest.                      *)
(*                                                                         *)
(* A device asks by raising its line.  If the line falls before the CPU    *)
(* acknowledges, the controller has nothing to show and answers with a     *)
(* spurious interrupt on its last line, 7 or 15, without taking anything   *)
(* into service.                                                           *)
(***************************************************************************)
EXTENDS Integers, FiniteSets

CONSTANTS
  Lines,      \* the interrupt lines with a device
  Mapped,     \* those with a handler in m_irqs
  MaxRaises   \* bound: how often the devices raise their lines

Cascade == 2
ASSUME LinesAssumption  == Lines \subseteq (0 .. 15) \ {Cascade} /\ Mapped \subseteq Lines
ASSUME RaisesAssumption == MaxRaises \in Nat

Master == 0 .. 7
Slave  == 8 .. 15
None   == 16

VARIABLES
  raised,     \* how often a line has been raised
  line,       \* the lines that are up
  irr,        \* edges the controllers have latched
  isr,        \* bits in service, of both controllers
  cpu,        \* "main", or the step of the handler
  irq,        \* the line the handler is for
  m_irq_triggered,  \* the lines whose flag is up
  waiting,    \* the line wait_irq is waiting for
  served      \* history: lines taken into service since then

vars == <<raised, line, irr, isr, cpu, irq, m_irq_triggered, waiting, served>>

Init ==
  /\ raised = 0
  /\ line = {} /\ irr = {} /\ isr = {}
  /\ cpu = "main" /\ irq = None
  /\ m_irq_triggered = {}
  /\ waiting = None
  /\ served = {}

-----------------------------------------------------------------------------
(* The devices and the controllers.                                        *)
Raise(l) ==
  /\ l \notin line
  /\ raised < MaxRaises
  /\ raised' = raised + 1
  /\ line' = line \cup {l}
  /\ irr' = irr \cup {l}
  /\ UNCHANGED <<isr, cpu, irq, m_irq_triggered, waiting, served>>

(* A device gives up.  The controller may notice in time or may not.       *)
Withdraw(l) ==
  /\ l \in line
  /\ line' = line \ {l}
  /\ irr' \in {irr, irr \ {l}}
  /\ UNCHANGED <<raised, isr, cpu, irq, m_irq_triggered, waiting, served>>

(* A line blocks itself and those below it; the slave's lines come in      *)
(* where the cascade is.                                                   *)
Rank(l) == IF l \in Slave THEN Cascade * 16 + l ELSE l * 16
Blocked(l) == \/ \E s \in isr \cap Master : Rank(s) <= Rank(l)
              \/ l \in Slave /\ Cascade \in isr
              \/ l \in Slave /\ \E s \in isr \cap Slave : s <= l

(* The CPU acknowledges the most urgent request.                           *)
Accept(l) ==
  /\ cpu = "main"
  /\ l \in irr /\ ~Blocked(l)
  /\ \A k \in irr : ~Blocked(k) => Rank(l) <= Rank(k)
  /\ irr' = irr \ {l}
  /\ cpu' = "entry"
  /\ \/ /\ l \in line
        /\ irq' = l
        /\ isr' = isr \cup {l} \cup (IF l \in Slave THEN {Cascade} ELSE {})
        /\ served' = served \cup {l}
     \/ /\ l \notin line
        /\ irq' = IF l \in Slave THEN 15 ELSE 7
        /\ isr' = isr \cup (IF l \in Slave THEN {Cascade} ELSE {})
        /\ UNCHANGED served
  /\ UNCHANGED <<raised, line, m_irq_triggered, waiting>>

(* An end of interrupt ends the most urgent service of a controller.       *)
EndOf(S) == {s \in S : \A t \in S : s <= t}

-----------------------------------------------------------------------------
(* internal_handler<irq>::handler.                                         *)
SpuriousNever == FALSE  \* mutant
Spurious == irq \in {7, 15} /\ irq \notin isr

SpuriousNoEoi == UNCHANGED isr  \* mutant
SpuriousEoi == isr' = isr \ (IF irq = 15 THEN EndOf(isr \cap Master) ELSE {})

DismissSpurious ==
  /\ cpu = "entry"
  /\ Spurious
  /\ SpuriousEoi
  /\ cpu' = "main"
  /\ irq' = None
  /\ UNCHANGED <<raised, line, irr, m_irq_triggered, waiting, served>>

EoiMasterOnly(i) == isr \ EndOf(isr \cap Master)  \* mutant
PicEoi(i) == isr \ (EndOf(isr \cap Master)
                      \cup (IF i \in Slave THEN EndOf(isr \cap Slave) ELSE {}))

Acknowledge ==
  /\ cpu = "entry"
  /\ ~Spurious
  /\ isr' = PicEoi(irq)
  /\ m_irq_triggered' = m_irq_triggered \cup {irq}
  /\ cpu' = "handler"
  /\ UNCHANGED <<raised, line, irr, irq, waiting, served>>

(* The handler in m_irqs serves its device, which lets go of the line; a   *)
(* line without a handler stays as it is.                                  *)
Handle ==
  /\ cpu = "handler"
  /\ line' = line \ ({irq} \cap Mapped)
  /\ cpu' = "main"
  /\ irq' = None
  /\ UNCHANGED <<raised, irr, isr, m_irq_triggered, waiting, served>>

(* wait_irq, in the program that is interrupted.                           *)
WaitIrq(l) ==
  /\ cpu = "main" /\ waiting = None
  /\ m_irq_triggered' = m_irq_triggered \ {l}
  /\ waiting' = l
  /\ served' = {}
  /\ UNCHANGED <<raised, line, irr, isr, cpu, irq>>

WaitOver ==
  /\ cpu = "main" /\ waiting # None
  /\ waiting \in m_irq_triggered
  /\ waiting' = None
  /\ UNCHANGED <<raised, line, irr, isr, cpu, irq, m_irq_triggered, served>>

Cpu == \/ \E l \in Lines : Accept(l)
       \/ DismissSpurious \/ Acknowledge \/ Handle
Next ==
  \/ \E l \in Lines : Raise(l) \/ Withdraw(l) \/ WaitIrq(l)
  \/ Cpu
  \/ WaitOver

(* The CPU goes on: it takes interrupts and runs handlers to their end.    *)
Spec == Init /\ [][Next]_vars /\ WF_vars(Cpu) /\ WF_vars(WaitOver)

-----------------------------------------------------------------------------
TypeOK ==
  /\ raised \in 0 .. MaxRaises
  /\ line \subseteq Lines /\ irr \subseteq Lines
  /\ isr \subseteq Lines \cup {Cascade}
  /\ cpu \in {"main", "entry", "handler"}
  /\ irq \in Lines \cup {7, 15, None} /\ (cpu = "handler" => irq \in Lines)
  /\ m_irq_triggered \subseteq Lines
  /\ waiting \in Lines \cup {None}
  /\ served \subseteq Lines

(* What the handler finds in service: its own line, with the cascade for   *)
(* the slave, or the cascade alone if the slave's interrupt is spurious.   *)
Taken(l) == {l} \cup (IF l \in Slave THEN {Cascade} ELSE {})
InService ==
  IF cpu = "entry"
  THEN \/ irq \in Lines /\ isr = Taken(irq)
       \/ irq = 7 /\ isr = {}
       \/ irq = 15 /\ isr = {Cascade}
  ELSE isr = {}

(***************************************************************************)
(* The type of every variable, and: a controller has a bit in service only *)
(* at the entry of the handler that is to end it.  One that stayed behind  *)
(* would block its line and those below it for good; that includes the     *)
(* cascade's, which also a spurious interrupt of the slave sets.           *)
(***************************************************************************)
IInv == TypeOK /\ InService

(***************************************************************************)
(* While wait_irq waits its flag is up if and only if its line has been in *)
(* service since it cleared the flag; a spurious interrupt does not count. *)
(***************************************************************************)
TriggeredMeansServed ==
  (waiting # None /\ cpu # "entry") =>
    (waiting \in m_irq_triggered) = (waiting \in served)

(* A request that stays up is served, or the device withdraws it.          *)
RequestsServed == \A l \in Mapped : l \in line ~> l \notin line
=============================================================================
