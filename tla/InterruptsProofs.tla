-------------------------- MODULE InterruptsProofs --------------------------
(* What Interrupts promises, for any devices and any number of requests.   *)
EXTENDS Interrupts, TLAPS

LEMMA LineNumbers ==
  ASSUME NEW l \in Lines
  PROVE  l \in 0 .. 15 /\ l # Cascade /\ (l \in Slave <=> l \notin Master)
BY LinesAssumption DEF Master, Slave

LEMMA EndOfOne == ASSUME NEW x \in Int PROVE EndOf({x}) = {x}
BY DEF EndOf

(* One end of interrupt to each controller that has to have one ends all   *)
(* that the interrupt of a device has set.                                 *)
LEMMA EoiEndsAll ==
  ASSUME NEW l \in Lines, isr = Taken(l) PROVE PicEoi(l) = {}
<1>1. CASE l \in Slave
  <2>1. isr = {l, Cascade} /\ l \in 8 .. 15 /\ Cascade = 2
    BY <1>1 DEF Taken, Slave, Cascade
  <2>2. l \in Slave /\ l \notin Master /\ Cascade \in Master /\ Cascade \notin Slave
    BY <2>1 DEF Master, Slave
  <2>3. isr \cap Master = {Cascade} /\ isr \cap Slave = {l}
    BY <2>1, <2>2
  <2>4. EndOf(isr \cap Master) = {Cascade} /\ EndOf(isr \cap Slave) = {l}
    BY <2>1, <2>3, EndOfOne
  <2> QED
    BY <1>1, <2>1, <2>4 DEF PicEoi
<1>2. CASE l \notin Slave
  <2>1. isr = {l} /\ l \in 0 .. 7
    BY <1>2, LineNumbers DEF Taken, Master
  <2>2. isr \cap Master = {l}
    BY <2>1 DEF Master
  <2>3. EndOf(isr \cap Master) = {l}
    BY <2>1, <2>2, EndOfOne
  <2> QED
    BY <1>2, <2>1, <2>3 DEF PicEoi
<1> QED
  BY <1>1, <1>2

LEMMA SpuriousEoiEndsAll ==
  ASSUME InService, cpu = "entry", Spurious, SpuriousEoi PROVE isr' = {}
<1>1. CASE irq = 7
  <2>1. isr = {}
    BY <1>1 DEF InService, Spurious, Taken
  <2> QED
    BY <1>1, <2>1 DEF SpuriousEoi
<1>2. CASE irq = 15
  <2>1. isr = {Cascade} /\ Cascade = 2
    BY <1>2 DEF InService, Spurious, Taken, Cascade
  <2>2. EndOf(isr \cap Master) = {Cascade}
    BY <2>1 DEF EndOf, Master
  <2> QED
    BY <1>2, <2>1, <2>2 DEF SpuriousEoi
<1> QED
  BY <1>1, <1>2 DEF Spurious

LEMMA RealIsTaken ==
  ASSUME InService, cpu = "entry", ~Spurious PROVE irq \in Lines /\ isr = Taken(irq)
BY DEF InService, Spurious, Cascade

LEMMA InitInv == Init => IInv
BY RaisesAssumption DEF Init, IInv, TypeOK, InService, None

LEMMA NextInv == IInv /\ [Next]_vars => IInv'
<1> SUFFICES ASSUME IInv, [Next]_vars PROVE IInv'
  OBVIOUS
<1> USE DEF IInv
<1>1. ASSUME NEW l \in Lines, Raise(l) PROVE IInv'
  BY <1>1, RaisesAssumption DEF Raise, TypeOK, InService
<1>2. ASSUME NEW l \in Lines, Withdraw(l) PROVE IInv'
  BY <1>2 DEF Withdraw, TypeOK, InService
<1>3. ASSUME NEW l \in Lines, WaitIrq(l) PROVE IInv'
  BY <1>3 DEF WaitIrq, TypeOK, InService
<1>4. ASSUME NEW l \in Lines, Accept(l) PROVE IInv'
  <2>1. isr = {} /\ cpu' = "entry"
    BY <1>4 DEF Accept, InService
  <2>2. InService'
    <3>1. CASE irq' = l /\ isr' = isr \cup {l} \cup (IF l \in Slave THEN {Cascade} ELSE {})
      BY <2>1, <3>1 DEF InService, Taken
    <3>2. CASE irq' = (IF l \in Slave THEN 15 ELSE 7) /\ isr' = isr \cup (IF l \in Slave THEN {Cascade} ELSE {})
      BY <2>1, <3>2 DEF InService
    <3> QED
      BY <1>4, <3>1, <3>2 DEF Accept
  <2>3. TypeOK'
    <3>1. /\ irq' \in Lines \cup {7, 15, None} /\ isr' \subseteq Lines \cup {Cascade}
          /\ served' \subseteq Lines
      BY <1>4, <2>1 DEF Accept, TypeOK
    <3> QED
      BY <1>4, <2>1, <3>1 DEF Accept, TypeOK
  <2> QED
    BY <2>2, <2>3
<1>5. CASE DismissSpurious
  <2>1. isr' = {}
    BY <1>5, SpuriousEoiEndsAll DEF DismissSpurious
  <2> QED
    BY <1>5, <2>1 DEF DismissSpurious, TypeOK, InService
<1>6. CASE Acknowledge
  <2>1. irq \in Lines /\ isr' = {}
    BY <1>6, RealIsTaken, EoiEndsAll DEF Acknowledge
  <2> QED
    BY <1>6, <2>1 DEF Acknowledge, TypeOK, InService
<1>7. CASE Handle
  BY <1>7 DEF Handle, TypeOK, InService
<1>8. CASE WaitOver
  BY <1>8 DEF WaitOver, TypeOK, InService
<1>9. CASE UNCHANGED vars
  BY <1>9 DEF vars, TypeOK, InService
<1> QED
  BY <1>1, <1>2, <1>3, <1>4, <1>5, <1>6, <1>7, <1>8, <1>9 DEF Next, Cpu

(* A controller has a bit in service only at the entry of the handler that *)
(* is to end it, whatever lines there are.                                 *)
THEOREM InterruptsIInv == Spec => []IInv
BY InitInv, NextInv, PTL DEF Spec

-----------------------------------------------------------------------------
(* The flag of the line that is waited for, or the handler about to set it *)
(* tells that the line has been in service.                                *)
Announced == waiting \in m_irq_triggered \/ (cpu = "entry" /\ ~Spurious /\ irq = waiting)
FlagRight == waiting # None => (waiting \in served <=> Announced)

LEMMA FlagRightInit == Init => FlagRight
BY DEF Init, FlagRight

LEMMA FlagRightNext == IInv /\ FlagRight /\ [Next]_vars => FlagRight'
<1> SUFFICES ASSUME IInv, FlagRight, [Next]_vars PROVE FlagRight'
  OBVIOUS
<1> USE DEF IInv
<1>1. ASSUME NEW l \in Lines, Raise(l) PROVE FlagRight'
  BY <1>1 DEF Raise, FlagRight, Announced, Spurious
<1>2. ASSUME NEW l \in Lines, Withdraw(l) PROVE FlagRight'
  BY <1>2 DEF Withdraw, FlagRight, Announced, Spurious
<1>3. ASSUME NEW l \in Lines, WaitIrq(l) PROVE FlagRight'
  BY <1>3 DEF WaitIrq, FlagRight, Announced
<1>4. ASSUME NEW l \in Lines, Accept(l) PROVE FlagRight'
  <2>1. isr = {} /\ cpu = "main" /\ cpu' = "entry" /\ waiting' = waiting /\ m_irq_triggered' = m_irq_triggered
    BY <1>4 DEF Accept, InService
  <2>2. CASE /\ irq' = l /\ served' = served \cup {l}
             /\ isr' = isr \cup {l} \cup (IF l \in Slave THEN {Cascade} ELSE {})
    <3>1. ~Spurious'
      BY <2>2 DEF Spurious
    <3> QED
      BY <2>1, <2>2, <3>1 DEF FlagRight, Announced
  <2>3. CASE /\ irq' = (IF l \in Slave THEN 15 ELSE 7) /\ served' = served
             /\ isr' = isr \cup (IF l \in Slave THEN {Cascade} ELSE {})
    <3>1. Spurious'
      BY <2>1, <2>3 DEF Spurious, Cascade
    <3> QED
      BY <2>1, <2>3, <3>1 DEF FlagRight, Announced
  <2> QED
    BY <1>4, <2>2, <2>3 DEF Accept
<1>5. CASE DismissSpurious
  BY <1>5 DEF DismissSpurious, FlagRight, Announced
<1>6. CASE Acknowledge
  BY <1>6 DEF Acknowledge, FlagRight, Announced
<1>7. CASE Handle
  BY <1>7 DEF Handle, FlagRight, Announced
<1>8. CASE WaitOver
  BY <1>8 DEF WaitOver, FlagRight
<1>9. CASE UNCHANGED vars
  BY <1>9 DEF vars, FlagRight, Announced, Spurious
<1> QED
  BY <1>1, <1>2, <1>3, <1>4, <1>5, <1>6, <1>7, <1>8, <1>9 DEF Next, Cpu

(* wait_irq's flag is up if and only if its line has been in service since *)
(* it cleared the flag.                                                    *)
THEOREM WaitsForReal == Spec => []TriggeredMeansServed
<1>1. FlagRight => TriggeredMeansServed
  BY DEF FlagRight, Announced, TriggeredMeansServed
<1>2. Spec => []FlagRight
  BY InterruptsIInv, FlagRightInit, FlagRightNext, PTL DEF Spec
<1> QED
  BY <1>1, <1>2, PTL
=============================================================================
