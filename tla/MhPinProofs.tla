---------------------------- MODULE MhPinProofs ----------------------------
(* For any number of pins, any modes and any order of calls, the one        *)
(* interrupt entry of a port has one holder, and handlers run only while    *)
(* their client has them enabled.                                           *)
EXTENDS MhPin, TLAPS

\* The entry is the one client's that was told RT_EOK and not robbed of it.
Held ==
  /\ \A p \in Pins : client[p] # "none" /\ p \notin robbed => slot.pin = p
  /\ \A p \in Pins : slot.pin = p =>
       client[p] # "none" /\ p \notin robbed /\ slot = [pin |-> p, mode |-> want[p]]

\* A channel that nobody meddled with is on only for a holder that has enabled
\* it; an enabled holder's trigger is the one it asked for.  This carries
\* OnlyWhenEnabled across the calls and the steps of the handler.
Channel ==
  /\ nvic /\ ~meddled => slot.pin \in Pins /\ client[slot.pin] = "enabled"
  /\ \A p \in Pins : slot.pin = p /\ client[p] = "enabled" /\ want[p] \in EdgeModes
                       => trigger[p] = want[p]
  /\ isr # "idle" => nvic

IInv == TypeOK /\ Held /\ Channel

LEMMA InitIInv == Init => IInv
<1> SUFFICES ASSUME Init PROVE IInv
  OBVIOUS
<1>1. TypeOK
  <2>1. slot \in [pin : Pins, mode : Modes] \cup {Free} /\ nvic \in BOOLEAN /\ meddled \in BOOLEAN
    BY Zenon DEF Init
  <2> QED BY <2>1 DEF Init, TypeOK
<1>2. /\ \A p \in Pins : client[p] = "none"
      /\ slot.pin \notin Pins
      /\ ~nvic /\ isr = "idle"
  BY PinsAssumption DEF Init, Free
<1> QED BY <1>1, <1>2 DEF IInv, Held, Channel

LEMMA AttachIInv ==
  ASSUME IInv, NEW p \in Pins, NEW m \in Modes, Attach(p, m)
  PROVE  IInv'
<1>1. slot.pin = NoPin /\ slot.pin \notin Pins
  BY PinsAssumption DEF Attach, AttachOk
<1>2. \A q \in Pins : client[q] # "none" => q \in robbed
  BY <1>1 DEF IInv, Held
<1>3. TypeOK'
  BY DEF IInv, TypeOK, Attach
<1>4. /\ client'[p] = "attached" /\ want'[p] = m
      /\ slot' = [pin |-> p, mode |-> m] /\ slot'.pin = p
      /\ p \notin robbed'
  BY DEF Attach, IInv, TypeOK
<1>5. \A q \in Pins : q # p => client'[q] = client[q] /\ (q \in robbed' <=> q \in robbed)
  BY DEF Attach, IInv, TypeOK
<1>6. Held'
  BY <1>2, <1>4, <1>5 DEF Held
<1>7. ~(nvic /\ ~meddled)
  BY <1>1 DEF IInv, Channel
<1>8. Channel'
  BY <1>4, <1>7 DEF IInv, Channel, Attach
<1> QED BY <1>3, <1>6, <1>8 DEF IInv

LEMMA DetachIInv ==
  ASSUME IInv, NEW p \in Pins, Detach(p)
  PROVE  IInv'
<1>1. slot' = Free /\ slot'.pin \notin Pins
  BY PinsAssumption DEF Detach, Freed, Free
<1>2. TypeOK'
  BY <1>1, Zenon DEF IInv, TypeOK, Detach
<1>3. client'[p] = "none" /\ \A q \in Pins : q # p => client'[q] = client[q]
  BY DEF Detach, IInv, TypeOK
<1>4. \A q \in Pins : q # p /\ (q \in robbed \/ slot.pin = q) => q \in robbed'
  BY DEF Detach
<1>5. Held'
  BY <1>1, <1>3, <1>4 DEF Held, IInv
<1>6. ~(nvic' /\ ~meddled')
  BY DEF Detach, IInv, Channel
<1>7. Channel'
  BY <1>1, <1>6 DEF IInv, Channel, Detach
<1> QED BY <1>2, <1>5, <1>7 DEF IInv

LEMMA EnableIInv ==
  ASSUME IInv, NEW p \in Pins, Enable(p)
  PROVE  IInv'
<1>1. slot.pin \in Pins /\ slot.mode \in Modes
  BY DEF IInv, TypeOK, Enable, Free
<1>2. trigger' \in [Pins -> EdgeModes \cup {Off}]
  BY DEF Enable, LineConfig, IInv, TypeOK
<1>3. client' \in [Pins -> {"none", "attached", "enabled"}]
  BY DEF Enable, IInv, TypeOK
<1>4. TypeOK'
  BY <1>2, <1>3, Zenon DEF IInv, TypeOK, Enable
<1>5. \A q \in Pins : client'[q] = "none" <=> client[q] = "none"
  BY DEF Enable, IInv, TypeOK
<1>6. Held'
  BY <1>5 DEF Held, IInv, Enable
<1>7. ~meddled' => slot.pin = p /\ client'[p] = "enabled"
  BY DEF Enable, IInv, TypeOK, Held
<1>8. \A q \in Pins : q # p => trigger'[q] = trigger[q] /\ client'[q] = client[q]
  BY DEF Enable, LineConfig, IInv, TypeOK
<1>9. slot.pin = p /\ want[p] \in EdgeModes => trigger'[p] = want[p]
  BY DEF Enable, LineConfig, IInv, TypeOK, Held
<1>10. Channel'
  BY <1>1, <1>7, <1>8, <1>9 DEF IInv, Channel, Enable
<1> QED BY <1>4, <1>6, <1>10 DEF IInv

LEMMA DisableIInv ==
  ASSUME IInv, NEW p \in Pins, Disable(p)
  PROVE  IInv'
<1>1. client' \in [Pins -> {"none", "attached", "enabled"}]
  BY DEF IInv, TypeOK, Disable
<1>2. TypeOK'
  BY <1>1, Zenon DEF IInv, TypeOK, Disable
<1>3. \A q \in Pins : client'[q] = "none" <=> client[q] = "none"
  BY DEF Disable, IInv, TypeOK
<1>4. \A q \in Pins : client'[q] = "enabled" => client[q] = "enabled"
  BY DEF Disable, IInv, TypeOK
<1>5. Held'
  BY <1>3 DEF Held, IInv, Disable
<1>6. Channel'
  BY <1>4 DEF IInv, Channel, Disable
<1> QED BY <1>2, <1>5, <1>6 DEF IInv

LEMMA NextIInv == IInv /\ [Next]_vars => IInv'
<1> SUFFICES ASSUME IInv, [Next]_vars PROVE IInv'
  OBVIOUS
<1>1. CASE IsrEnter
  BY <1>1 DEF IsrEnter, IInv, TypeOK, Held, Channel
<1>2. CASE pin_irq_hdr
  BY <1>2 DEF pin_irq_hdr, IInv, TypeOK, Held, Channel
<1>3. CASE ClearITPendingBit
  BY <1>3 DEF ClearITPendingBit, IInv, TypeOK, Held, Channel
<1>4. ASSUME NEW p \in Pins, NEW e \in Edges, Edge(p, e) PROVE IInv'
  BY <1>4 DEF Edge, IInv, TypeOK, Held, Channel
<1>5. CASE UNCHANGED vars
  BY <1>5 DEF vars, IInv, TypeOK, Held, Channel
<1> QED
  BY <1>1, <1>2, <1>3, <1>4, <1>5, AttachIInv, DetachIInv, EnableIInv, DisableIInv
  DEF Next, Isr

\* The state of mh_pin_attach_irq's table, the EXTI registers and the clients
\* is well-formed in every reachable state.
THEOREM PinTypeCorrect == Spec => []TypeOK
<1>1. IInv => TypeOK
  BY DEF IInv
<1> QED BY <1>1, InitIInv, NextIInv, PTL DEF Spec

\* Of the clients of a port's pins, however many and in whatever order they call
\* the driver, the entry is the one's that mh_pin_attach_irq has told RT_EOK
\* last, and the others have lost it by another client's mh_pin_dettach_irq.
THEOREM PinOneHolder == Spec => []OneHolder
<1>1. IInv => OneHolder
  <2> SUFFICES ASSUME IInv, NEW p \in Pins
               PROVE  (client[p] # "none" /\ p \notin robbed) <=> (slot = [pin |-> p, mode |-> want[p]])
    BY DEF OneHolder
  <2>1. client[p] # "none" /\ p \notin robbed => slot = [pin |-> p, mode |-> want[p]]
    BY DEF IInv, Held
  <2>2. slot = [pin |-> p, mode |-> want[p]] => slot.pin = p
    OBVIOUS
  <2> QED BY <2>1, <2>2 DEF IInv, Held
<1> QED BY <1>1, InitIInv, NextIInv, PTL DEF Spec

\* As long as the holder has set the channel itself, a handler runs only for a
\* client that has its interrupt enabled, and one for edges with the trigger it
\* asked for, whatever happened on the port before and whoever calls what.
THEOREM PinOnlyWhenEnabled == Spec => []OnlyWhenEnabled
<1>1. IInv => OnlyWhenEnabled
  BY DEF OnlyWhenEnabled, IInv, TypeOK, Channel, Free
<1> QED BY <1>1, InitIInv, NextIInv, PTL DEF Spec
=============================================================================
