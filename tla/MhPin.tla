------------------------------- MODULE MhPin -------------------------------
(* Pin interrupts: mh_pin_attach_irq, mh_pin_dettach_irq, mh_pin_irq_enable *)
(* and the EXTIx_IRQHandlers of drv_gpio.c, with the EXTI registers behind  *)
(* them.  The sixteen pins of a port share one entry of pin_irq_hdr_tab,    *)
(* one EXTI line and one NVIC channel; ports share nothing, so that one     *)
(* port is modelled.                                                        *)
(*                                                                          *)
(* Every pin has a client, a thread with a handler of its own, that calls   *)
(* the driver in any order: nothing keeps a client that was refused from    *)
(* enabling, disabling or detaching the port all the same, nor a holder     *)
(* from detaching while the channel is on.  The driver's functions run with *)
(* interrupts disabled.                                                     *)
EXTENDS Naturals, FiniteSets

CONSTANTS Pins,       \* pins of the port that have a client
          NoPin,      \* -1, the pin of a free entry
          EdgeModes,  \* PIN_IRQ_MODE_RISING, ..._FALLING, ..._RISING_FALLING
          LevelModes, \* PIN_IRQ_MODE_HIGH_LEVEL, ..._LOW_LEVEL
          Edges,      \* the two directions in which a pin may change
          Off,        \* EXTI_Trigger_Off
          Fires(_, _) \* does a trigger fire for an edge?

Modes == EdgeModes \cup LevelModes

ASSUME PinsAssumption ==
  /\ NoPin \notin Pins /\ Off \notin Modes
  /\ \A m \in EdgeModes, e \in Edges : Fires(m, e) \in BOOLEAN

VARIABLES slot,     \* the entry of pin_irq_hdr_tab: pin (whose handler it is) and mode
          trigger,  \* INTP_TYPE, for each pin
          status,   \* INTP_STA: pins with an edge that is not cleared
          nvic,     \* is the channel of the port enabled?
          isr,      \* where EXTIx_IRQHandler is
          client,   \* what each client has got so far
          want,     \* the mode each client has asked for
          robbed,   \* clients whose entry another client has detached
          meddled   \* is the channel as others left it, not as the holder has set it?

vars == <<slot, trigger, status, nvic, isr, client, want, robbed, meddled>>

Free == [pin |-> NoPin, mode |-> Off]

Init ==
  /\ slot = Free
  /\ trigger = [p \in Pins |-> Off]
  /\ status = {} /\ nvic = FALSE /\ isr = "idle"
  /\ client = [p \in Pins |-> "none"]
  /\ want = [p \in Pins |-> Off]
  /\ robbed = {} /\ meddled = FALSE

-----------------------------------------------------------------------------
(* The driver's functions, called by the client of pin p.                  *)

\* Mutant: a taken entry is overwritten.
AttachOk_Always(p) == TRUE

AttachOk(p) == slot.pin = NoPin

\* mh_pin_attach_irq.  RT_EBUSY leaves all as it is, and so does RT_EOK for the
\* attachment that is there already.
Attach(p, m) ==
  /\ isr = "idle"
  /\ AttachOk(p)
  /\ slot' = [pin |-> p, mode |-> m]
  /\ client' = [client EXCEPT ![p] = "attached"]
  /\ want' = [want EXCEPT ![p] = m]
  /\ robbed' = robbed \ {p}
  /\ UNCHANGED <<trigger, status, nvic, isr, meddled>>

\* Mutant: the mode is not reset.
Freed_KeepsMode == [slot EXCEPT !.pin = NoPin]

Freed == Free

\* mh_pin_dettach_irq: the entry of the port is free, whoever had it and
\* whether the channel is on or not.  Trigger and channel stay.
Detach(p) ==
  /\ isr = "idle"
  /\ slot' = Freed
  /\ client' = [client EXCEPT ![p] = "none"]
  /\ want' = [want EXCEPT ![p] = Off]
  /\ robbed' = (robbed \cup ({slot.pin} \cap Pins)) \ {p}
  /\ meddled' = (meddled \/ (slot.pin \in Pins /\ client[slot.pin] = "enabled"))
  /\ UNCHANGED <<trigger, status, nvic, isr>>

\* The switch over the mode of the entry: the level modes have no case, and the
\* pin keeps the trigger it has.
LineConfig(p) ==
  trigger' = IF slot.mode \in EdgeModes THEN [trigger EXCEPT ![p] = slot.mode] ELSE trigger

\* Mutant: the channel is not switched on.
Enable_NoNvic(p) ==
  /\ isr = "idle" /\ slot.pin # NoPin
  /\ LineConfig(p)
  /\ client' = IF client[p] = "none" THEN client ELSE [client EXCEPT ![p] = "enabled"]
  /\ meddled' = (slot.pin # p)
  /\ UNCHANGED <<slot, status, nvic, isr, want, robbed>>

\* mh_pin_irq_enable(PIN_IRQ_ENABLE): the mode is that of the entry, whose ever
\* it is; RT_ENOSYS if the entry is free.
Enable(p) ==
  /\ isr = "idle" /\ slot.pin # NoPin
  /\ LineConfig(p)
  /\ nvic' = TRUE
  /\ client' = IF client[p] = "none" THEN client ELSE [client EXCEPT ![p] = "enabled"]
  /\ meddled' = (slot.pin # p)
  /\ UNCHANGED <<slot, status, isr, want, robbed>>

\* Mutant: the channel stays on.
Disable_KeepsNvic(p) ==
  /\ isr = "idle"
  /\ client' = IF client[p] = "none" THEN client ELSE [client EXCEPT ![p] = "attached"]
  /\ meddled' = (slot.pin \notin {p, NoPin})
  /\ UNCHANGED <<slot, trigger, status, nvic, isr, want, robbed>>

\* mh_pin_irq_enable(PIN_IRQ_DISABLE): the channel of the port is off; trigger
\* and status stay.
Disable(p) ==
  /\ isr = "idle"
  /\ nvic' = FALSE
  /\ client' = IF client[p] = "none" THEN client ELSE [client EXCEPT ![p] = "attached"]
  /\ meddled' = (slot.pin \notin {p, NoPin})
  /\ UNCHANGED <<slot, trigger, status, isr, want, robbed>>

-----------------------------------------------------------------------------
(* The pins and EXTIx_IRQHandler.                                          *)

\* The pin changes: its bit is set if the trigger is for such a change.
Edge(p, e) ==
  /\ trigger[p] # Off /\ Fires(trigger[p], e)
  /\ status' = status \cup {p}
  /\ UNCHANGED <<slot, trigger, nvic, isr, client, want, robbed, meddled>>

\* The interrupt is taken, and EXTI_GetITLineStatus is not zero.
IsrEnter ==
  /\ isr = "idle" /\ nvic /\ status # {}
  /\ isr' = "handler"
  /\ UNCHANGED <<slot, trigger, status, nvic, client, want, robbed, meddled>>

\* pin_irq_hdr: the handler of the entry, if there is one, runs.
pin_irq_hdr ==
  /\ isr = "handler"
  /\ isr' = "clear"
  /\ UNCHANGED <<slot, trigger, status, nvic, client, want, robbed, meddled>>

\* Mutant: the bit of the attached pin is the only one that is cleared.
ClearITPendingBit_Own ==
  /\ isr = "clear"
  /\ status' = status \ {slot.pin}
  /\ isr' = "idle"
  /\ UNCHANGED <<slot, trigger, nvic, client, want, robbed, meddled>>

\* EXTI_ClearITPendingBit clears the bits of all pins, of an edge that came
\* after the handler too.
ClearITPendingBit ==
  /\ isr = "clear"
  /\ status' = {}
  /\ isr' = "idle"
  /\ UNCHANGED <<slot, trigger, nvic, client, want, robbed, meddled>>

-----------------------------------------------------------------------------

Isr == IsrEnter \/ pin_irq_hdr \/ ClearITPendingBit

Next ==
  \/ Isr
  \/ \E p \in Pins :
       \/ \E m \in Modes : Attach(p, m)
       \/ Detach(p) \/ Enable(p) \/ Disable(p)
       \/ \E e \in Edges : Edge(p, e)

Spec == Init /\ [][Next]_vars

\* An interrupt that stays pending and enabled is taken, and a handler comes to
\* its end.
FairSpec == Spec /\ WF_vars(Isr)

-----------------------------------------------------------------------------
(* Properties.                                                             *)

\* The entry is free or one client's; a trigger is one of the edge triggers.
TypeOK ==
  /\ slot \in [pin : Pins, mode : Modes] \cup {Free}
  /\ trigger \in [Pins -> EdgeModes \cup {Off}]
  /\ status \subseteq Pins
  /\ nvic \in BOOLEAN /\ meddled \in BOOLEAN
  /\ isr \in {"idle", "handler", "clear"}
  /\ client \in [Pins -> {"none", "attached", "enabled"}]
  /\ want \in [Pins -> Modes \cup {Off}]
  /\ robbed \subseteq Pins

\* The sixteen pins of a port are one resource: of all clients that
\* mh_pin_attach_irq has told RT_EOK, the entry holds the handler and the mode of
\* one; every other one has lost it to a client that called mh_pin_dettach_irq
\* for a pin of its own, which is the only way to lose it.
OneHolder ==
  \A p \in Pins :
    client[p] # "none" /\ p \notin robbed <=> slot = [pin |-> p, mode |-> want[p]]

\* A handler runs only between its own client's mh_pin_irq_enable calls, and one
\* for edges with the trigger of its pin set to the mode that its client asked
\* for; however often the port has changed hands, with edges latched and triggers
\* left behind by others.  The exception is a channel that the holder has not
\* set itself: an earlier holder has detached without disabling it, or another
\* client has enabled or disabled it for a pin of its own.
OnlyWhenEnabled ==
  isr = "handler" /\ slot.pin # NoPin /\ ~meddled =>
    /\ client[slot.pin] = "enabled"
    /\ want[slot.pin] \in EdgeModes => trigger[slot.pin] = want[slot.pin]

\* An edge on an enabled pin that is not being served already gets its handler
\* run, unless its client disables or detaches it first or another client
\* meddles with the port.
EdgeServed ==
  \A p \in Pins :
    (p \in status /\ slot.pin = p /\ client[p] = "enabled" /\ ~meddled /\ isr = "idle")
      ~> (isr = "handler" /\ slot.pin = p) \/ client[p] # "enabled" \/ slot.pin # p \/ meddled

\* No edge keeps the interrupt asserted for ever, one of a pin that is no
\* longer attached neither: the port comes to rest.
NoStorm == (nvic /\ status # {}) ~> (status = {} \/ ~nvic)
=============================================================================
