------------------------------ MODULE MCYmodem ------------------------------
(* Small sessions for Ymodem: packets of two bytes (STX: four), sequence    *)
(* numbers modulo three, sectors of four bytes and a partition of six.      *)
EXTENDS Ymodem

S(p, a, c, l, d) == [peer |-> p, app |-> a, code |-> c, files |-> l, dirty |-> d]

\* sy, with files that are empty, end inside a packet or with one, have packets
\* enough for the sequence number to wrap; for ymodem_ota also one that is too large.
SySessions ==
  {S("sy", "ry", "SOH", <<n>>, FALSE) : n \in {0, 1, 2, 5}}
    \cup {S("sy", "ota", "SOH", <<n>>, TRUE) : n \in {0, 3, 7}}

\* A terminal program, with one file or two.
PcSessions ==
  {S("pc", a, c, l, TRUE) : a \in {"ry", "ota"}, c \in {"SOH", "STX"}, l \in {<<5>>, <<0>>, <<2, 3>>}}
    \cup {S("pc", "ota", "SOH", <<1, 7>>, TRUE)}

AllSessions == SySessions \cup PcSessions

\* Sessions whose data packets are sent again.
ResendSessions == {S("pc", "ota", "SOH", <<4>>, TRUE)}
=============================================================================
