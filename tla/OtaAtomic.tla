------------------------------ MODULE OtaAtomic ------------------------------
(***************************************************************************)
(* What the upgrade of the board promises, without flash sectors: there is *)
(* always one whole application; a package the board has accepted replaces *)
(* it in a single step, while the bootloader runs or is cut off, and       *)
(* before any application runs again.                                      *)
(***************************************************************************)
CONSTANTS Images, Bootable, Initial, None

VARIABLES
  image,     \* the application the next power-up ends in
  pending,   \* accepted package not yet recorded as installed, or None
  power      \* "off", "boot" (bootloader) or "run" (application)

Init == image = Initial /\ pending = None /\ power = "off"

\* The running application takes in a new package, or spoils the last one.
Receive ==
  /\ power = "run"
  /\ pending' \in Images \cup {None}
  /\ image' = image

\* The bootloader replaces the application by the pending package ...
Upgrade ==
  /\ power = "boot"
  /\ pending \in Bootable
  /\ image' = pending
  /\ pending' = pending

\* ... and records that it has done so.
Commit ==
  /\ power = "boot"
  /\ pending = image
  /\ pending' = None
  /\ image' = image

Flash == Receive \/ Upgrade \/ Commit \/ UNCHANGED <<image, pending>>

\* Power can go at any moment.
Work == Flash /\ power' \in {power, "off"}

PowerUp == power = "off" /\ power' = "boot" /\ UNCHANGED <<image, pending>>

\* The application runs only when no accepted package is waiting.
Run ==
  /\ power = "boot" /\ pending = None
  /\ power' = "run"
  /\ UNCHANGED <<image, pending>>

Next == Work \/ PowerUp \/ Run

Spec == Init /\ [][Next]_<<image, pending, power>>
=============================================================================
