---------------------------- MODULE YmodemProofs ----------------------------
(***************************************************************************)
(* Theorems about Ymodem, for every session, any number of files of any    *)
(* length, and any number of faults, tries and packets that are sent       *)
(* again.                                                                  *)
(***************************************************************************)
EXTENDS Ymodem, SequenceTheorems, TLAPS

-----------------------------------------------------------------------------
(* The inductive invariant.                                                *)

Load == Seq(Nat \X Nat)

\* Only a packet of SOH or STX has anything to carry.
Packets ==
  {p \in [c : {"SOH", "STX", "EOT", "junk"}, seq : 0..(SeqRange - 1), load : Load,
          bad : {"no", "short", "seq", "crc"}] : p.c \in {"EOT", "junk"} => p.load = <<>>}

Codes == {"C", "ACK", "NAK", "CAN", "junk"}

WireTypes == ses \in Sessions /\ toR \in Seq(Packets) /\ toS \in Seq(Codes)

ReceiverTypes ==
  /\ rpc \in {"off", "hs", "trans", "fin1", "fin2", "ret"}
  /\ stage \in {"NONE", "ESTABLISHING", "ESTABLISHED", "TRANSMITTING", "FINISHING", "FINISHED"}
  /\ rtries \in 0..(Tries - 1)
  /\ rret \in {"none", "OK", "TMO", "CODE", "SEQ", "CRC", "DSZ", "CAN"}
  /\ store \in Load /\ flen \in Int /\ flen >= -1
  /\ fds \in Nat /\ done \in Seq(Load)

SenderTypes ==
  /\ spc \in DOMAIN Expected \cup {"off", "ret"}
  /\ file \in 1..Len(ses.files) /\ idx \in 0..Blocks(file)
  /\ last \in Packets /\ stries \in 0..Tries
  /\ spc \in {"off", "hs"} => stries # Tries
  /\ sret \in {"none", "OK", "TMO", "CODE", "ACK"}

GhostTypes ==
  /\ faults \in 0..MaxFaults /\ resent \in 0..MaxResend
  /\ dup \in BOOLEAN /\ nowrite \in BOOLEAN

Types == WireTypes /\ ReceiverTypes /\ SenderTypes /\ GhostTypes

\* Who has returned stays where it is.
ReturnInv ==
  /\ rret # "none" => rpc = "ret"
  /\ sret # "none" => spc = "ret"

\* A header or a data packet, an EOT, and the packet that ends the session.
IsLoad(p) == p.load # <<>>
IsEot(p)  == p.c = "EOT"
IsNull(p) == IsPacket(p) /\ p.load = <<>>

\* What a pc would send again.
LastInv ==
  /\ spc \in {"ack0", "c0", "ackd"} => IsLoad(last)
  /\ spc \in {"nak", "ack1", "c1"} => IsEot(last)
  /\ spc = "ackf" => IsNull(last)

NoLoad(s) == \A i \in 1..Len(s) : ~IsLoad(s[i])
NoEot(s)  == \A i \in 1..Len(s) : ~IsEot(s[i])
NoNull(s) == \A i \in 1..Len(s) : ~IsNull(s[i])

\* All that is carried comes before the first EOT.
LoadsFirst(s) == \A i, j \in 1..Len(s) : i < j /\ IsEot(s[i]) => ~IsLoad(s[j])

\* At most the end of one file and what comes of the next,
TwoFiles(s) ==
  \A i, j, k \in 1..Len(s) : i < j /\ j < k /\ IsLoad(s[i]) /\ IsEot(s[j]) => ~IsLoad(s[k])

\* without the EOT of the next.
OneEnd(s) == \A i, j \in 1..Len(s) : i < j /\ IsLoad(s[i]) => ~IsEot(s[j])

NoNak(s)  == \A i \in 1..Len(s) : s[i] # "NAK"
OneNak(s) == \A i, j \in 1..Len(s) : s[i] = "NAK" /\ s[j] = "NAK" => i = j
OnlyC(s)  == \A i \in 1..Len(s) : s[i] \in {"C", "junk"}

\* The sender has not come to the EOT of its file yet; it has been told that the
\* receiver has.
Early  == spc \in {"off", "hs", "ack0", "c0", "ackd"}
Passed == spc \in {"ack1", "c1", "ackf"} \/ sret = "OK"

\* Before its first header the receiver has sent nothing but C.
BeforeInv ==
  rpc \in {"off", "hs"} =>
    /\ Len(done) = 0 /\ file = 1 /\ spc \in {"off", "hs", "ack0", "ret"}
    /\ NoEot(toR) /\ NoNull(toR) /\ OnlyC(toS)

\* The receiver is in the sender's file or in the one before it.  A NAK that is
\* on its way is the only one, and the sender still needs it.
CountInv ==
  /\ Len(done) <= file /\ file <= Len(done) + 1
  /\ rpc = "trans" => Len(done) < file
  /\ Passed => Len(done) = file
  /\ OneNak(toS) /\ (~NoNak(toS) => ~Passed /\ Len(done) = file)

\* The line is in the order of the files.
LineInv ==
  /\ rpc = "trans" => LoadsFirst(toR) /\ (Early => NoEot(toR))
  /\ rpc \in {"fin1", "fin2"} =>
       /\ Len(done) = file => NoLoad(toR) /\ ~Early
       /\ TwoFiles(toR) /\ (Early => OneEnd(toR))

\* The packet that ends the session follows the last file, and so does success.
EndInv ==
  /\ ~NoNull(toR) => file = Len(ses.files) /\ Len(done) = file
  /\ spc = "ackf" \/ "OK" \in {rret, sret} => file = Len(ses.files) /\ Len(done) = file

AgreeInv == BeforeInv /\ CountInv /\ LineInv /\ EndInv

\* A file is open while its data are received, and only then, unless the receiver
\* has failed.
FdInv ==
  ses.app = "ry" => /\ rpc \in {"off", "hs", "fin1", "fin2"} => fds = 0
                    /\ rpc = "trans" => fds = 1
                    /\ fds \in {0, 1}
                    /\ rret = "OK" => fds = 0

YInv == Types /\ ReturnInv /\ LastInv /\ AgreeInv /\ FdInv

-----------------------------------------------------------------------------
(* The line.                                                               *)

\* The headers and data packets of t are among those of s, in their order.
SubLine(s, t) ==
  \E m \in [1..Len(t) -> 1..Len(s)] :
    /\ \A i, j \in 1..Len(t) : i < j => m[i] < m[j]
    /\ \A i \in 1..Len(t) : IsLoad(t[i]) => /\ t[i].load = s[m[i]].load
                                            /\ t[i].seq = s[m[i]].seq

\* t comes from s when packets are lost, damaged or read.
Thinner(s, t) ==
  /\ NoLoad(s) => NoLoad(t)
  /\ NoEot(s) => NoEot(t)
  /\ NoNull(s) => NoNull(t)
  /\ LoadsFirst(s) => LoadsFirst(t)
  /\ TwoFiles(s) => TwoFiles(t)
  /\ OneEnd(s) => OneEnd(t)
  /\ SubLine(s, t)

Quieter(s, t) ==
  /\ NoNak(s) => NoNak(t)
  /\ OneNak(s) => OneNak(t)

\* q stands where p stood.
Fainter(p, q) ==
  /\ IsLoad(q) => IsLoad(p) /\ q.load = p.load /\ q.seq = p.seq
  /\ IsEot(q) => IsEot(p)
  /\ IsNull(q) => IsNull(p)

LEMMA ThinnerSame == \A s : Thinner(s, s) /\ Quieter(s, s)
<1> TAKE s
<1> DEFINE m == [i \in 1..Len(s) |-> i]
<1>1. /\ m \in [1..Len(s) -> 1..Len(s)]
      /\ \A i, j \in 1..Len(s) : i < j => m[i] < m[j]
      /\ \A i \in 1..Len(s) : s[i].load = s[m[i]].load /\ s[i].seq = s[m[i]].seq
  OBVIOUS
<1> HIDE DEF m
<1>2. SubLine(s, s)
  BY <1>1 DEF SubLine
<1> QED
  BY <1>2 DEF Thinner, Quieter

\* Packets are taken out of the line and keep their order.
LEMMA ThinnerByMap ==
  ASSUME NEW s \in Seq(Packets), NEW t \in Seq(Packets),
         NEW m \in [1..Len(t) -> 1..Len(s)],
         \A i, j \in 1..Len(t) : i < j => m[i] < m[j],
         \A i \in 1..Len(t) : Fainter(s[m[i]], t[i])
  PROVE  Thinner(s, t)
<1> USE DEF Fainter
<1>1. NoLoad(s) => NoLoad(t)
  BY DEF NoLoad
<1>2. NoEot(s) => NoEot(t)
  BY DEF NoEot
<1>3. NoNull(s) => NoNull(t)
  BY DEF NoNull
<1>4. LoadsFirst(s) => LoadsFirst(t)
  BY DEF LoadsFirst
<1>5. TwoFiles(s) => TwoFiles(t)
  BY DEF TwoFiles
<1>6. OneEnd(s) => OneEnd(t)
  BY DEF OneEnd
<1>7. SubLine(s, t)
  BY DEF SubLine
<1> QED
  BY <1>1, <1>2, <1>3, <1>4, <1>5, <1>6, <1>7 DEF Thinner

\* A sequence without its k-th element.
LEMMA RemoveAtProperties ==
  ASSUME NEW S, NEW s \in Seq(S), NEW k \in 1..Len(s)
  PROVE  /\ RemoveAt(s, k) \in Seq(S) /\ Len(RemoveAt(s, k)) = Len(s) - 1
         /\ \A i \in 1..(Len(s) - 1) : RemoveAt(s, k)[i] = IF i < k THEN s[i] ELSE s[i + 1]
<1> DEFINE a == SubSeq(s, 1, k - 1)
           b == SubSeq(s, k + 1, Len(s))
<1>1. Len(s) \in Nat /\ k \in Int /\ \A i \in 1..Len(s) : s[i] \in S
  BY LenProperties, ElementOfSeq
<1>2. /\ a \in Seq(S) /\ Len(a) = k - 1
      /\ \A i \in 1..(k - 1) : a[i] = s[i]
  <2>1. \A i \in 1..(k - 1) : s[i] \in S
    BY <1>1
  <2>2. /\ a \in Seq(S) /\ Len(a) = IF 1 <= k - 1 THEN (k - 1) - 1 + 1 ELSE 0
        /\ \A i \in 1..((k - 1) - 1 + 1) : a[i] = s[1 + i - 1]
    BY <1>1, <2>1, SubSeqProperties
  <2> HIDE DEF a
  <2> QED
    BY <1>1, <2>2
<1>3. /\ b \in Seq(S) /\ Len(b) = Len(s) - k
      /\ \A i \in 1..(Len(s) - k) : b[i] = s[k + i]
  <2>1. \A i \in (k + 1)..Len(s) : s[i] \in S
    BY <1>1
  <2>2. /\ b \in Seq(S) /\ Len(b) = IF k + 1 <= Len(s) THEN Len(s) - (k + 1) + 1 ELSE 0
        /\ \A i \in 1..(Len(s) - (k + 1) + 1) : b[i] = s[(k + 1) + i - 1]
    BY <1>1, <2>1, SubSeqProperties
  <2> HIDE DEF b
  <2> QED
    BY <1>1, <2>2
<1>4. RemoveAt(s, k) = a \o b
  BY DEF RemoveAt
<1> HIDE DEF a, b
<1>5. /\ a \o b \in Seq(S) /\ Len(a \o b) = Len(s) - 1
      /\ \A i \in 1..(Len(s) - 1) : (a \o b)[i] = IF i <= Len(a) THEN a[i] ELSE b[i - Len(a)]
  <2>1. /\ a \o b \in Seq(S) /\ Len(a \o b) = Len(a) + Len(b)
        /\ \A i \in 1..(Len(a) + Len(b)) :
             (a \o b)[i] = IF i <= Len(a) THEN a[i] ELSE b[i - Len(a)]
    BY <1>2, <1>3, ConcatProperties
  <2>2. Len(a) + Len(b) = Len(s) - 1
    BY <1>1, <1>2, <1>3
  <2> QED
    BY <2>1, <2>2
<1>6. ASSUME NEW i \in 1..(Len(s) - 1)
      PROVE  (a \o b)[i] = IF i < k THEN s[i] ELSE s[i + 1]
  <2>1. CASE i < k
    <3>1. i <= Len(a) /\ i \in 1..(k - 1)
      BY <1>1, <1>2, <2>1
    <3> QED
      BY <1>2, <1>5, <2>1, <3>1
  <2>2. CASE ~(i < k)
    <3>1. ~(i <= Len(a)) /\ i - Len(a) \in 1..(Len(s) - k) /\ k + (i - Len(a)) = i + 1
      BY <1>1, <1>2, <2>2
    <3> QED
      BY <1>3, <1>5, <2>2, <3>1
  <2> QED
    BY <2>1, <2>2
<1> QED
  BY <1>4, <1>5, <1>6

LEMMA RemovedThinner ==
  ASSUME NEW s \in Seq(Packets), NEW k \in 1..Len(s)
  PROVE  RemoveAt(s, k) \in Seq(Packets) /\ Thinner(s, RemoveAt(s, k))
<1> DEFINE t == RemoveAt(s, k)
           m == [i \in 1..Len(t) |-> IF i < k THEN i ELSE i + 1]
<1>1. /\ t \in Seq(Packets) /\ Len(t) = Len(s) - 1 /\ Len(s) \in Nat
      /\ \A i \in 1..(Len(s) - 1) : t[i] = IF i < k THEN s[i] ELSE s[i + 1]
  BY RemoveAtProperties, LenProperties
<1> HIDE DEF t
<1>2. m \in [1..Len(t) -> 1..Len(s)]
  BY <1>1
<1>3. \A i, j \in 1..Len(t) : i < j => m[i] < m[j]
  BY <1>1
<1>4. \A i \in 1..Len(t) : Fainter(s[m[i]], t[i])
  BY <1>1 DEF Fainter
<1> HIDE DEF m
<1>5. Thinner(s, t)
  BY <1>1, <1>2, <1>3, <1>4, ThinnerByMap
<1> QED
  BY <1>1, <1>5 DEF t

LEMMA TailThinner ==
  ASSUME NEW s \in Seq(Packets), s # <<>>
  PROVE  Tail(s) \in Seq(Packets) /\ Thinner(s, Tail(s))
<1> DEFINE t == Tail(s)
           m == [i \in 1..Len(t) |-> i + 1]
<1>1. /\ t \in Seq(Packets) /\ Len(t) = Len(s) - 1 /\ Len(s) \in Nat
      /\ \A i \in 1..Len(t) : t[i] = s[i + 1]
  BY HeadTailProperties, LenProperties
<1> HIDE DEF t
<1>2. m \in [1..Len(t) -> 1..Len(s)]
  BY <1>1
<1>3. \A i, j \in 1..Len(t) : i < j => m[i] < m[j]
  BY <1>1
<1>4. \A i \in 1..Len(t) : Fainter(s[m[i]], t[i])
  BY <1>1 DEF Fainter
<1> HIDE DEF m
<1>5. Thinner(s, t)
  BY <1>1, <1>2, <1>3, <1>4, ThinnerByMap
<1> QED
  BY <1>1, <1>5 DEF t

\* Another packet in the place of the k-th.
LEMMA ReplacedThinner ==
  ASSUME NEW s \in Seq(Packets), NEW k \in 1..Len(s), NEW q \in Packets, Fainter(s[k], q)
  PROVE  [s EXCEPT ![k] = q] \in Seq(Packets) /\ Thinner(s, [s EXCEPT ![k] = q])
<1> DEFINE t == [s EXCEPT ![k] = q]
           m == [i \in 1..Len(t) |-> i]
<1>1. /\ t \in Seq(Packets) /\ Len(t) = Len(s) /\ Len(s) \in Nat
      /\ \A i \in 1..Len(s) : t[i] = IF i = k THEN q ELSE s[i]
  BY ExceptSeq, LenProperties
<1> HIDE DEF t
<1>2. m \in [1..Len(t) -> 1..Len(s)]
  BY <1>1
<1>3. \A i, j \in 1..Len(t) : i < j => m[i] < m[j]
  OBVIOUS
<1>4. \A i \in 1..Len(t) : Fainter(s[m[i]], t[i])
  BY <1>1 DEF Fainter
<1> HIDE DEF m
<1>5. Thinner(s, t)
  BY <1>1, <1>2, <1>3, <1>4, ThinnerByMap
<1> QED
  BY <1>1, <1>5 DEF t

\* A damaged packet stands where the packet stood.
LEMMA DamagedThinner ==
  ASSUME NEW s \in Seq(Packets), NEW i \in 1..Len(s), NEW b \in {"short", "seq", "crc"},
         IsPacket(s[i])
  PROVE  [s EXCEPT ![i].bad = b] \in Seq(Packets) /\ Thinner(s, [s EXCEPT ![i].bad = b])
<1> DEFINE q == [s[i] EXCEPT !.bad = b]
<1>1. s[i] \in Packets
  BY ElementOfSeq
<1>2. /\ s[i] \in [c : {"SOH", "STX", "EOT", "junk"}, seq : 0..(SeqRange - 1), load : Load,
                   bad : {"no", "short", "seq", "crc"}]
      /\ s[i].c \in {"EOT", "junk"} => s[i].load = <<>>
  BY <1>1 DEF Packets
<1>3. /\ q \in [c : {"SOH", "STX", "EOT", "junk"}, seq : 0..(SeqRange - 1), load : Load,
                bad : {"no", "short", "seq", "crc"}]
      /\ q.c = s[i].c /\ q.load = s[i].load /\ q.seq = s[i].seq
  BY <1>2
<1>4. [s EXCEPT ![i].bad = b] = [s EXCEPT ![i] = q]
  OBVIOUS
<1> HIDE DEF q
<1>5. q \in Packets /\ Fainter(s[i], q)
  BY <1>2, <1>3 DEF Packets, Fainter, IsLoad, IsEot, IsNull, IsPacket
<1> QED
  BY <1>4, <1>5, ReplacedThinner

\* What is known of the rest from the packet that was read.
LEMMA HeadTells ==
  ASSUME NEW s \in Seq(Packets), s # <<>>
  PROVE  /\ Head(s) \in Packets
         /\ IsEot(Head(s)) /\ LoadsFirst(s) => NoLoad(Tail(s))
         /\ IsEot(Head(s)) => ~NoEot(s)
         /\ IsLoad(Head(s)) /\ TwoFiles(s) => LoadsFirst(Tail(s))
         /\ IsLoad(Head(s)) /\ OneEnd(s) => NoEot(Tail(s))
         /\ IsLoad(Head(s)) => ~NoLoad(s)
         /\ IsNull(Head(s)) => ~NoNull(s)
<1> DEFINE t == Tail(s)
           h == Head(s)
<1>1. /\ t \in Seq(Packets) /\ Len(t) = Len(s) - 1 /\ Len(s) \in Nat \ {0}
      /\ \A i \in 1..Len(t) : t[i] = s[i + 1]
  BY HeadTailProperties, EmptySeq
<1>2. h = s[1] /\ h \in Packets
  BY HeadTailProperties, <1>1
<1> HIDE DEF t, h
<1>3. 1 \in 1..Len(s) /\ \A i \in 1..Len(t) : i + 1 \in 1..Len(s) /\ 1 < i + 1
  BY <1>1
<1>4. IsEot(h) /\ LoadsFirst(s) => NoLoad(t)
  BY <1>1, <1>2, <1>3 DEF LoadsFirst, NoLoad
<1>5. (IsEot(h) => ~NoEot(s)) /\ (IsLoad(h) => ~NoLoad(s)) /\ (IsNull(h) => ~NoNull(s))
  BY <1>2, <1>3 DEF NoEot, NoLoad, NoNull
<1>6. IsLoad(h) /\ TwoFiles(s) => LoadsFirst(t)
  <2> SUFFICES ASSUME IsLoad(s[1]), TwoFiles(s), NEW i \in 1..Len(t), NEW j \in 1..Len(t),
                      i < j, IsEot(t[i])
               PROVE  ~IsLoad(t[j])
    BY <1>2 DEF LoadsFirst
  <2>1. /\ i + 1 \in 1..Len(s) /\ j + 1 \in 1..Len(s) /\ 1 < i + 1 /\ i + 1 < j + 1
        /\ t[i] = s[i + 1] /\ t[j] = s[j + 1]
    BY <1>1, <1>3
  <2> QED
    BY <1>3, <2>1 DEF TwoFiles
<1>7. IsLoad(h) /\ OneEnd(s) => NoEot(t)
  BY <1>1, <1>2, <1>3 DEF OneEnd, NoEot
<1> QED
  BY <1>2, <1>4, <1>5, <1>6, <1>7 DEF t, h

\* A packet is sent.
LEMMA AppendTells ==
  ASSUME NEW s \in Seq(Packets), NEW p \in Packets, NEW t, t = Append(s, p)
  PROVE  /\ t \in Seq(Packets)
         /\ ~IsLoad(p) /\ NoLoad(s) => NoLoad(t)
         /\ ~IsEot(p) /\ NoEot(s) => NoEot(t)
         /\ ~IsNull(p) /\ NoNull(s) => NoNull(t)
         /\ NoEot(s) \/ (~IsLoad(p) /\ LoadsFirst(s)) => LoadsFirst(t)
         /\ OneEnd(s) \/ (~IsLoad(p) /\ TwoFiles(s)) => TwoFiles(t)
         /\ ~IsEot(p) /\ OneEnd(s) => OneEnd(t)
         /\ NoLoad(s) => OneEnd(s)
<1>1. /\ t \in Seq(Packets) /\ Len(t) = Len(s) + 1 /\ Len(s) \in Nat
      /\ \A i \in 1..Len(s) : t[i] = s[i]
      /\ t[Len(s) + 1] = p
  BY AppendProperties, LenProperties
<1>2. \A i \in 1..Len(t) : i \in 1..Len(s) \/ i = Len(s) + 1
  BY <1>1
<1>3. \A i, j \in 1..Len(t) : i < j => i \in 1..Len(s)
  BY <1>1
<1>4. /\ ~IsLoad(p) /\ NoLoad(s) => NoLoad(t)
      /\ ~IsEot(p) /\ NoEot(s) => NoEot(t)
      /\ ~IsNull(p) /\ NoNull(s) => NoNull(t)
  BY <1>1, <1>2 DEF NoLoad, NoEot, NoNull
<1>5. NoEot(s) => LoadsFirst(t)
  BY <1>1, <1>3 DEF NoEot, LoadsFirst
<1>6. ~IsLoad(p) /\ LoadsFirst(s) => LoadsFirst(t)
  BY <1>1, <1>2, <1>3 DEF LoadsFirst
<1>7. OneEnd(s) => TwoFiles(t)
  BY <1>1, <1>3 DEF OneEnd, TwoFiles
<1>8. ~IsLoad(p) /\ TwoFiles(s) => TwoFiles(t)
  BY <1>1, <1>2, <1>3 DEF TwoFiles
<1>9. ~IsEot(p) /\ OneEnd(s) => OneEnd(t)
  BY <1>1, <1>2, <1>3 DEF OneEnd
<1>10. NoLoad(s) => OneEnd(s)
  BY DEF NoLoad, OneEnd
<1> QED
  BY <1>1, <1>4, <1>5, <1>6, <1>7, <1>8, <1>9, <1>10

LEMMA CodesTail ==
  ASSUME NEW s \in Seq(Codes), s # <<>>
  PROVE  /\ Head(s) \in Codes /\ Tail(s) \in Seq(Codes) /\ Quieter(s, Tail(s))
         /\ OnlyC(s) => OnlyC(Tail(s)) /\ Head(s) \in {"C", "junk"}
         /\ Head(s) = "NAK" => ~NoNak(s) /\ (OneNak(s) => NoNak(Tail(s)))
<1> DEFINE t == Tail(s)
           h == Head(s)
<1>1. /\ t \in Seq(Codes) /\ Len(t) = Len(s) - 1 /\ Len(s) \in Nat \ {0}
      /\ \A i \in 1..Len(t) : t[i] = s[i + 1]
  BY HeadTailProperties, EmptySeq
<1>2. h = s[1] /\ h \in Codes
  BY HeadTailProperties, <1>1
<1> HIDE DEF t, h
<1>3. 1 \in 1..Len(s) /\ \A i \in 1..Len(t) : i + 1 \in 1..Len(s) /\ 1 # i + 1
  BY <1>1
<1>4. NoNak(s) => NoNak(t)
  BY <1>1, <1>3 DEF NoNak
<1>5. OneNak(s) => OneNak(t)
  <2> SUFFICES ASSUME OneNak(s), NEW i \in 1..Len(t), NEW j \in 1..Len(t),
                      t[i] = "NAK", t[j] = "NAK"
               PROVE  i = j
    BY DEF OneNak
  <2>1. i + 1 = j + 1
    BY <1>1, <1>3 DEF OneNak
  <2> QED
    BY <1>1, <2>1
<1>6. OnlyC(s) => OnlyC(t) /\ h \in {"C", "junk"}
  BY <1>1, <1>2, <1>3 DEF OnlyC
<1>7. h = "NAK" => ~NoNak(s) /\ (OneNak(s) => NoNak(t))
  BY <1>1, <1>2, <1>3 DEF NoNak, OneNak
<1> QED
  BY <1>1, <1>2, <1>4, <1>5, <1>6, <1>7 DEF Quieter, t, h

LEMMA CodesLost ==
  ASSUME NEW s \in Seq(Codes), NEW k \in 1..Len(s)
  PROVE  /\ RemoveAt(s, k) \in Seq(Codes) /\ Quieter(s, RemoveAt(s, k))
         /\ OnlyC(s) => OnlyC(RemoveAt(s, k))
<1> DEFINE t == RemoveAt(s, k)
<1>1. /\ t \in Seq(Codes) /\ Len(t) = Len(s) - 1 /\ Len(s) \in Nat
      /\ \A i \in 1..(Len(s) - 1) : t[i] = IF i < k THEN s[i] ELSE s[i + 1]
  BY RemoveAtProperties, LenProperties
<1> HIDE DEF t
<1>2. ASSUME NEW i \in 1..Len(t)
      PROVE  /\ i \in 1..Len(s) /\ i + 1 \in 1..Len(s)
             /\ (t[i] = s[i] /\ i < k) \/ (t[i] = s[i + 1] /\ i >= k)
  BY <1>1
<1>3. NoNak(s) => NoNak(t)
  BY <1>2 DEF NoNak
<1>4. OneNak(s) => OneNak(t)
  <2> SUFFICES ASSUME OneNak(s), NEW i \in 1..Len(t), NEW j \in 1..Len(t),
                      t[i] = "NAK", t[j] = "NAK"
               PROVE  i = j
    BY DEF OneNak
  <2>1. PICK a \in 1..Len(s) : s[a] = "NAK" /\ ((a = i /\ i < k) \/ (a = i + 1 /\ i >= k))
    BY <1>2
  <2>2. PICK b \in 1..Len(s) : s[b] = "NAK" /\ ((b = j /\ j < k) \/ (b = j + 1 /\ j >= k))
    BY <1>2
  <2>3. a = b
    BY <2>1, <2>2 DEF OneNak
  <2> QED
    BY <1>1, <2>1, <2>2, <2>3
<1>5. OnlyC(s) => OnlyC(t)
  BY <1>2 DEF OnlyC
<1> QED
  BY <1>1, <1>3, <1>4, <1>5 DEF Quieter, t

LEMMA CodesDamaged ==
  ASSUME NEW s \in Seq(Codes), NEW k \in 1..Len(s)
  PROVE  /\ [s EXCEPT ![k] = "junk"] \in Seq(Codes) /\ Quieter(s, [s EXCEPT ![k] = "junk"])
         /\ OnlyC(s) => OnlyC([s EXCEPT ![k] = "junk"])
<1> DEFINE t == [s EXCEPT ![k] = "junk"]
<1>1. /\ t \in Seq(Codes) /\ Len(t) = Len(s)
      /\ \A i \in 1..Len(s) : t[i] = IF i = k THEN "junk" ELSE s[i]
  BY ExceptSeq DEF Codes
<1> HIDE DEF t
<1>2. (NoNak(s) => NoNak(t)) /\ (OneNak(s) => OneNak(t)) /\ (OnlyC(s) => OnlyC(t))
  BY <1>1 DEF NoNak, OneNak, OnlyC
<1> QED
  BY <1>1, <1>2 DEF Quieter, t

\* The receiver answers.
LEMMA CodesSent ==
  ASSUME NEW s \in Seq(Codes), NEW c \in Codes
  PROVE  /\ Append(s, c) \in Seq(Codes)
         /\ c # "NAK" => Quieter(s, Append(s, c))
         /\ c \in {"C", "junk"} /\ OnlyC(s) => OnlyC(Append(s, c))
         /\ NoNak(s) => OneNak(Append(s, c))
<1> DEFINE t == Append(s, c)
<1>1. /\ t \in Seq(Codes) /\ Len(t) = Len(s) + 1 /\ Len(s) \in Nat
      /\ \A i \in 1..Len(s) : t[i] = s[i]
      /\ t[Len(s) + 1] = c
  BY AppendProperties, LenProperties
<1> HIDE DEF t
<1>2. \A i \in 1..Len(t) : i \in 1..Len(s) \/ i = Len(s) + 1
  BY <1>1
<1>3. c # "NAK" => (NoNak(s) => NoNak(t)) /\ (OneNak(s) => OneNak(t))
  BY <1>1, <1>2 DEF NoNak, OneNak
<1>4. c \in {"C", "junk"} /\ OnlyC(s) => OnlyC(t)
  BY <1>1, <1>2 DEF OnlyC
<1>5. NoNak(s) => OneNak(t)
  BY <1>1, <1>2 DEF NoNak, OneNak
<1> QED
  BY <1>1, <1>3, <1>4, <1>5 DEF Quieter, t

LEMMA CodesSentTwo ==
  ASSUME NEW s \in Seq(Codes)
  PROVE  s \o <<"ACK", "C">> \in Seq(Codes) /\ Quieter(s, s \o <<"ACK", "C">>)
<1> DEFINE t == s \o <<"ACK", "C">>
<1>1. <<"ACK", "C">> \in Seq(Codes) /\ Len(<<"ACK", "C">>) = 2
      /\ \A j \in 1..2 : <<"ACK", "C">>[j] # "NAK"
  BY DEF Codes
<1>2. /\ t \in Seq(Codes) /\ Len(t) = Len(s) + 2 /\ Len(s) \in Nat
      /\ \A i \in 1..(Len(s) + 2) : t[i] = IF i <= Len(s) THEN s[i] ELSE <<"ACK", "C">>[i - Len(s)]
  BY <1>1, ConcatProperties, LenProperties
<1> HIDE DEF t
<1>3. \A i \in 1..Len(t) : (i \in 1..Len(s) /\ t[i] = s[i]) \/ t[i] # "NAK"
  <2> TAKE i \in 1..Len(t)
  <2>1. CASE i <= Len(s)
    BY <1>2, <2>1
  <2>2. CASE ~(i <= Len(s))
    <3>1. i - Len(s) \in 1..2
      BY <1>2, <2>2
    <3>2. t[i] = <<"ACK", "C">>[i - Len(s)]
      BY <1>2, <2>2
    <3> QED
      BY <1>1, <3>1, <3>2
  <2> QED
    BY <2>1, <2>2
<1>4. (NoNak(s) => NoNak(t)) /\ (OneNak(s) => OneNak(t))
  BY <1>3 DEF NoNak, OneNak
<1> QED
  BY <1>2, <1>4 DEF Quieter, t

LEMMA CodesFlushed ==
  <<>> \in Seq(Codes) /\ NoNak(<<>>) /\ OneNak(<<>>) /\ OnlyC(<<>>)
  BY DEF NoNak, OneNak, OnlyC

LEMMA QuieterTwice ==
  \A s, t, u : Quieter(s, t) /\ Quieter(t, u) => Quieter(s, u)
  BY DEF Quieter

\* A text of ymodem_ota.
LEMMA TextSent ==
  ASSUME toS \in Seq(Codes), NEW t \in {Printed, Append(toS, "junk")}
  PROVE  t \in Seq(Codes) /\ Quieter(toS, t) /\ (OnlyC(toS) => OnlyC(t))
<1>1. t = toS \/ t = Append(toS, "junk")
  BY DEF Printed
<1>2. CASE t = toS
  BY <1>2, ThinnerSame
<1>3. CASE t = Append(toS, "junk")
  BY <1>3, CodesSent DEF Codes
<1> QED
  BY <1>1, <1>2, <1>3

-----------------------------------------------------------------------------
(* What the two ends have counted, step by step.                           *)

LEMMA SessionTypes ==
  ASSUME ses \in Sessions
  PROVE  /\ Len(ses.files) \in Nat \ {0} /\ Width \in Nat \ {0}
         /\ \A f \in 1..Len(ses.files) : Size(f) \in Nat /\ Blocks(f) \in Nat
         /\ ses.app \in {"ry", "ota"} /\ ses.peer \in {"sy", "pc"} /\ ses.code \in {"SOH", "STX"}
<1>1. /\ ses.files \in Seq(Nat) /\ ses.files # <<>>
      /\ ses.app \in {"ry", "ota"} /\ ses.peer \in {"sy", "pc"} /\ ses.code \in {"SOH", "STX"}
  BY YmodemAssumption DEF Session
<1>2. Len(ses.files) \in Nat \ {0}
  BY <1>1, EmptySeq
<1>3. Width \in Nat \ {0}
  BY YmodemAssumption DEF Width
<1>4. ASSUME NEW f \in 1..Len(ses.files) PROVE Size(f) \in Nat /\ Blocks(f) \in Nat
  <2>1. PICK z \in Nat : z = Size(f)
    BY <1>1, ElementOfSeq DEF Size
  <2>2. PICK w \in Nat \ {0} : w = Width
    BY <1>3
  <2>3. z \div w \in Nat /\ (z + w - 1) \div w \in Nat
    OBVIOUS
  <2>4. Blocks(f) = IF ses.peer = "sy" THEN z \div w + 1 ELSE (z + w - 1) \div w
    BY <2>1, <2>2 DEF Blocks
  <2> QED
    BY <2>1, <2>3, <2>4, SMTT(20)
<1> QED
  BY <1>1, <1>2, <1>3, <1>4

\* Both ends, as numbers.
LEMMA Counts ==
  ASSUME Types
  PROVE  /\ Len(done) \in Nat /\ file \in Nat \ {0} /\ Len(ses.files) \in Nat \ {0}
         /\ file <= Len(ses.files)
<1>1. Len(done) \in Nat
  BY LenProperties DEF Types, ReceiverTypes
<1>2. Len(ses.files) \in Nat \ {0} /\ file \in 1..Len(ses.files)
  BY SessionTypes DEF Types, WireTypes, SenderTypes
<1> QED
  BY <1>1, <1>2

\* The receiver waits on, or gives up; packets and answers that are no NAK may
\* come off the line or go into it.
LEMMA AgreeQuiet ==
  ASSUME AgreeInv, UNCHANGED <<ses, done, file, spc, sret>>,
         rpc' \in {rpc, "ret"} \/ (rpc = "off" /\ rpc' = "hs"),
         rret' = rret \/ rret' # "OK",
         Thinner(toR, toR'), Quieter(toS, toS'),
         rpc' \in {"off", "hs"} /\ OnlyC(toS) => OnlyC(toS')
  PROVE  AgreeInv'
<1>1. BeforeInv'
  BY DEF AgreeInv, BeforeInv, Thinner
<1>2. CountInv'
  BY DEF AgreeInv, CountInv, Passed, Quieter
<1>3. LineInv'
  BY DEF AgreeInv, LineInv, Early, Thinner
<1>4. EndInv'
  BY DEF AgreeInv, EndInv, Thinner
<1> QED
  BY <1>1, <1>2, <1>3, <1>4 DEF AgreeInv

\* A header is accepted.
LEMMA AgreeBegin ==
  ASSUME Types, AgreeInv, UNCHANGED <<ses, done, file, spc, sret, rret>>,
         rpc \in {"hs", "fin2"}, rpc' = "trans",
         toR # <<>>, IsLoad(Head(toR)), toR' = Tail(toR), Quieter(toS, toS')
  PROVE  AgreeInv'
<1>1. Thinner(toR, toR')
  BY TailThinner DEF Types, WireTypes
<1>2. /\ TwoFiles(toR) => LoadsFirst(toR')
      /\ OneEnd(toR) => NoEot(toR')
      /\ ~NoLoad(toR)
  BY HeadTells DEF Types, WireTypes
<1>3. NoEot(toR) => LoadsFirst(toR')
  <2>1. NoEot(toR) => NoEot(toR')
    BY <1>1 DEF Thinner
  <2> QED
    BY <2>1 DEF NoEot, LoadsFirst
<1>4. Len(done) \in Nat /\ file \in Nat
  BY Counts
<1>5. BeforeInv'
  BY DEF BeforeInv
<1>6. CountInv'
  <2>1. Len(done) < file
    BY <1>2, <1>4 DEF AgreeInv, CountInv, BeforeInv, LineInv
  <2> QED
    BY <2>1 DEF AgreeInv, CountInv, Passed, Quieter
<1>7. LineInv'
  BY <1>1, <1>2, <1>3 DEF AgreeInv, BeforeInv, LineInv, Early, Thinner
<1>8. EndInv'
  BY <1>1 DEF AgreeInv, EndInv, Thinner
<1> QED
  BY <1>5, <1>6, <1>7, <1>8 DEF AgreeInv

\* The first EOT: the NAK is the only one, and the sender waits for it.
LEMMA AgreeEot ==
  ASSUME Types, AgreeInv, ReturnInv, UNCHANGED <<ses, file, spc, sret, rret>>,
         rpc = "trans", rpc' = "fin1", Len(done') = Len(done) + 1,
         toR # <<>>, IsEot(Head(toR)), toR' = Tail(toR), toS' = Append(toS, "NAK")
  PROVE  AgreeInv'
<1>1. Thinner(toR, toR')
  BY TailThinner DEF Types, WireTypes
<1>2. NoLoad(toR') /\ ~Early
  BY HeadTells DEF Types, WireTypes, AgreeInv, LineInv
<1>3. Len(done) \in Nat /\ file \in Nat
  BY Counts
<1>4. Len(done') = file /\ Len(done) # file
  BY <1>3 DEF AgreeInv, CountInv
<1>5. ~Passed /\ NoNak(toS)
  BY <1>4 DEF AgreeInv, CountInv
<1>6. OneNak(toS')
  BY <1>5, CodesSent DEF Types, WireTypes, Codes
<1>7. BeforeInv'
  BY DEF BeforeInv
<1>8. CountInv'
  BY <1>3, <1>4, <1>5, <1>6 DEF CountInv, Passed
<1>9. LineInv'
  <2>1. TwoFiles(toR')
    BY <1>2 DEF NoLoad, TwoFiles
  <2> QED
    BY <1>2, <2>1 DEF LineInv, Early
<1>10. EndInv'
  <2>1. NoNull(toR) /\ sret # "OK" /\ rret # "OK" /\ spc # "ackf"
    BY <1>4, <1>5 DEF AgreeInv, EndInv, Passed
  <2> QED
    BY <1>1, <2>1 DEF EndInv, Thinner
<1> QED
  BY <1>7, <1>8, <1>9, <1>10 DEF AgreeInv

\* The second EOT, and the end of the session.
LEMMA AgreeFin ==
  ASSUME Types, AgreeInv, UNCHANGED <<ses, done, file, spc, sret>>,
         \/ rpc = "fin1" /\ rpc' = "fin2" /\ rret' = rret
         \/ rpc = "fin2" /\ rpc' = "ret" /\ IsNull(Head(toR)),
         toR # <<>>, toR' = Tail(toR), Quieter(toS, toS')
  PROVE  AgreeInv'
<1>1. Thinner(toR, toR')
  BY TailThinner DEF Types, WireTypes
<1>2. IsNull(Head(toR)) => ~NoNull(toR)
  BY HeadTells DEF Types, WireTypes
<1>3. BeforeInv'
  BY DEF BeforeInv
<1>4. CountInv'
  BY DEF AgreeInv, CountInv, Passed, Quieter
<1>5. LineInv'
  BY <1>1 DEF AgreeInv, LineInv, Early, Thinner
<1>6. EndInv'
  BY <1>1, <1>2 DEF AgreeInv, EndInv, Thinner
<1> QED
  BY <1>3, <1>4, <1>5, <1>6 DEF AgreeInv

\* The sender gives up.
LEMMA AgreeQuit ==
  ASSUME AgreeInv, UNCHANGED <<ses, done, file, rpc, rret, toR>>,
         spc' = "ret", sret' # "OK", Quieter(toS, toS'), OnlyC(toS) => OnlyC(toS')
  PROVE  AgreeInv'
  BY DEF AgreeInv, BeforeInv, CountInv, LineInv, EndInv, Early, Passed, Quieter

\* It waits for the next answer.
LEMMA AgreeWait ==
  ASSUME AgreeInv, UNCHANGED <<ses, done, file, rpc, rret, toR, sret>>,
         \/ spc \in {"off", "hs"} /\ spc' = "hs"
         \/ spc = "ack0" /\ spc' = "c0" /\ ~OnlyC(toS)
         \/ spc = "ack1" /\ spc' = "c1"
         \/ spc \notin {"off", "hs"} /\ spc' = spc,
         Quieter(toS, toS'), OnlyC(toS) => OnlyC(toS')
  PROVE  AgreeInv'
<1>1. BeforeInv'
  BY DEF AgreeInv, BeforeInv
<1>2. CountInv'
  BY DEF AgreeInv, CountInv, Passed, Quieter
<1>3. LineInv'
  BY DEF AgreeInv, LineInv, Early
<1>4. EndInv'
  BY DEF AgreeInv, EndInv
<1> QED
  BY <1>1, <1>2, <1>3, <1>4 DEF AgreeInv

\* It sends a header or a data packet of its file, for the first time or again.
LEMMA AgreeSendLoad ==
  ASSUME Types, AgreeInv, UNCHANGED <<ses, done, file, rpc, rret, sret>>,
         \/ spc = "hs" /\ spc' = "ack0"
         \/ spc \in {"c0", "ackd"} /\ spc' = "ackd"
         \/ spc \in {"ack0", "c0", "ackd"} /\ spc' = spc,
         NEW p \in Packets, IsLoad(p), toR' = Append(toR, p),
         Quieter(toS, toS'), OnlyC(toS) => OnlyC(toS')
  PROVE  AgreeInv'
<1>1. ~IsEot(p) /\ ~IsNull(p)
  BY DEF Packets, IsLoad, IsEot, IsNull
<1>2. /\ NoEot(toR) => NoEot(toR') /\ LoadsFirst(toR')
      /\ NoNull(toR) => NoNull(toR')
      /\ OneEnd(toR) => TwoFiles(toR') /\ OneEnd(toR')
  BY <1>1, AppendTells DEF Types, WireTypes
<1>3. BeforeInv'
  BY <1>2 DEF AgreeInv, BeforeInv
<1>4. CountInv'
  BY DEF AgreeInv, CountInv, Passed, Quieter
<1>5. LineInv'
  BY <1>2 DEF AgreeInv, LineInv, Early
<1>6. EndInv'
  BY <1>2 DEF AgreeInv, EndInv
<1> QED
  BY <1>3, <1>4, <1>5, <1>6 DEF AgreeInv

\* It sends an EOT.
LEMMA AgreeSendEot ==
  ASSUME Types, AgreeInv, UNCHANGED <<ses, done, file, rpc, rret, sret>>,
         \/ spc \in {"c0", "ackd"} /\ spc' = "nak"
         \/ spc \in {"nak", "ack1", "c1"} /\ spc' = spc,
         NEW p \in Packets, IsEot(p), toR' = Append(toR, p), Quieter(toS, toS')
  PROVE  AgreeInv'
<1>1. ~IsLoad(p) /\ ~IsNull(p)
  BY DEF Packets, IsLoad, IsEot, IsNull, IsPacket
<1>2. /\ NoLoad(toR) => NoLoad(toR')
      /\ NoNull(toR) => NoNull(toR')
      /\ LoadsFirst(toR) => LoadsFirst(toR')
      /\ TwoFiles(toR) => TwoFiles(toR')
  BY <1>1, AppendTells DEF Types, WireTypes
<1>3. BeforeInv'
  BY DEF AgreeInv, BeforeInv
<1>4. CountInv'
  BY DEF AgreeInv, CountInv, Passed, Quieter
<1>5. LineInv'
  BY <1>2 DEF AgreeInv, LineInv, Early
<1>6. EndInv'
  BY <1>2 DEF AgreeInv, EndInv
<1> QED
  BY <1>3, <1>4, <1>5, <1>6 DEF AgreeInv

\* The NAK: the receiver has come to the end of the file.
LEMMA AgreePassed ==
  ASSUME Types, AgreeInv, UNCHANGED <<ses, done, file, rpc, rret, sret>>,
         spc = "nak", spc' = "ack1", toS # <<>>, Head(toS) = "NAK", toS' = Tail(toS),
         NEW p \in Packets, IsEot(p), toR' = Append(toR, p)
  PROVE  AgreeInv'
<1>1. ~IsLoad(p) /\ ~IsNull(p)
  BY DEF Packets, IsLoad, IsEot, IsNull, IsPacket
<1>2. /\ NoLoad(toR) => NoLoad(toR')
      /\ NoNull(toR) => NoNull(toR')
      /\ TwoFiles(toR) => TwoFiles(toR')
  BY <1>1, AppendTells DEF Types, WireTypes
<1>3. ~NoNak(toS) /\ NoNak(toS') /\ OneNak(toS')
  BY CodesTail DEF Types, WireTypes, AgreeInv, CountInv, Quieter
<1>4. Len(done) = file /\ file \in Nat /\ rpc # "trans"
  BY <1>3, Counts DEF AgreeInv, CountInv
<1>5. BeforeInv'
  BY DEF AgreeInv, BeforeInv
<1>6. CountInv'
  BY <1>3, <1>4 DEF CountInv
<1>7. LineInv'
  BY <1>2, <1>4 DEF AgreeInv, LineInv, Early
<1>8. EndInv'
  BY <1>2 DEF AgreeInv, EndInv
<1> QED
  BY <1>5, <1>6, <1>7, <1>8 DEF AgreeInv

\* The header of the next file.
LEMMA AgreeNextFile ==
  ASSUME Types, AgreeInv, ReturnInv, UNCHANGED <<ses, done, rpc, rret, sret>>,
         spc = "c1", spc' = "ack0", file < Len(ses.files), file' = file + 1,
         NEW p \in Packets, IsLoad(p), toR' = Append(toR, p), Quieter(toS, toS')
  PROVE  AgreeInv'
<1>1. ~IsEot(p) /\ ~IsNull(p)
  BY DEF Packets, IsLoad, IsEot, IsNull
<1>2. /\ NoLoad(toR) => TwoFiles(toR') /\ OneEnd(toR')
      /\ NoNull(toR) => NoNull(toR')
  BY <1>1, AppendTells DEF Types, WireTypes
<1>3. file \in Nat /\ Len(done) = file /\ file # Len(ses.files) /\ rpc # "trans"
  BY Counts DEF AgreeInv, CountInv, Passed
<1>4. NoNak(toS') /\ OneNak(toS') /\ sret = "none"
  BY DEF AgreeInv, CountInv, Passed, Quieter, ReturnInv
<1>5. NoNull(toR) /\ rret # "OK"
  BY <1>3 DEF AgreeInv, EndInv
<1>6. BeforeInv'
  BY DEF AgreeInv, BeforeInv
<1>7. CountInv'
  BY <1>3, <1>4 DEF CountInv, Passed
<1>8. LineInv'
  BY <1>2, <1>3 DEF AgreeInv, LineInv
<1>9. EndInv'
  BY <1>2, <1>4, <1>5 DEF EndInv
<1> QED
  BY <1>6, <1>7, <1>8, <1>9 DEF AgreeInv

\* The packet that ends the session, for the first time or again, and the return.
LEMMA AgreeSendNull ==
  ASSUME Types, AgreeInv, UNCHANGED <<ses, done, file, rpc, rret>>,
         file = Len(ses.files),
         spc \in {"c1", "ackf"}, (spc' = "ackf" /\ sret' = sret) \/ (spc' = "ret" /\ sret' = "OK"),
         \/ toR' = toR
         \/ \E p \in Packets : IsNull(p) /\ toR' = Append(toR, p),
         Quieter(toS, toS')
  PROVE  AgreeInv'
<1>1. Len(done) = file /\ file \in Nat /\ rpc # "trans" /\ NoNak(toS') /\ OneNak(toS')
  BY Counts DEF AgreeInv, CountInv, Passed, Quieter
<1>2. /\ NoLoad(toR) => NoLoad(toR')
      /\ TwoFiles(toR) => TwoFiles(toR')
  <2>1. CASE toR' = toR
    BY <2>1
  <2>2. CASE \E p \in Packets : IsNull(p) /\ toR' = Append(toR, p)
    <3>1. PICK p \in Packets : IsNull(p) /\ toR' = Append(toR, p)
      BY <2>2
    <3>2. ~IsLoad(p)
      BY <3>1 DEF IsNull, IsLoad
    <3> QED
      BY <3>1, <3>2, AppendTells DEF Types, WireTypes
  <2> QED
    BY <2>1, <2>2
<1>3. BeforeInv'
  BY DEF AgreeInv, BeforeInv
<1>4. CountInv'
  BY <1>1 DEF CountInv
<1>5. LineInv'
  BY <1>1, <1>2 DEF AgreeInv, LineInv, Early
<1>6. EndInv'
  BY <1>1 DEF EndInv
<1> QED
  BY <1>3, <1>4, <1>5, <1>6 DEF AgreeInv

-----------------------------------------------------------------------------
(* The steps of the receiver.                                              *)

Stages == {"NONE", "ESTABLISHING", "ESTABLISHED", "TRANSMITTING", "FINISHING", "FINISHED"}
Errors == {"TMO", "CODE", "SEQ", "CRC", "DSZ", "CAN"}

LEMMA SenderKept ==
  ASSUME YInv, UNCHANGED <<ses, svars>> PROVE SenderTypes' /\ LastInv'
  BY DEF YInv, Types, SenderTypes, LastInv, svars, Blocks, Size, Width, Expected

LEMMA FaultType == ASSUME GhostTypes, Fault PROVE faults' \in 0..MaxFaults
  BY YmodemAssumption DEF GhostTypes, Fault

\* A step after which the receiver waits for the same, or has failed.
LEMMA ReceiverStays ==
  ASSUME YInv, UNCHANGED <<ses, svars, resent, dup, fds, done>>,
         (rpc' = rpc /\ rret' = rret) \/ (rpc' = "ret" /\ rret' \in Errors),
         store' \in Load, flen' \in Int, flen' >= -1, stage' \in Stages, rtries' \in 0..(Tries - 1),
         toR' \in Seq(Packets), Thinner(toR, toR'),
         toS' \in Seq(Codes), Quieter(toS, toS'),
         rpc' \in {"off", "hs"} /\ OnlyC(toS) => OnlyC(toS'),
         faults' \in 0..MaxFaults, nowrite' \in BOOLEAN
  PROVE  YInv'
<1>1. UNCHANGED <<ses, done, file, spc, sret>>
  BY DEF svars
<1>2. AgreeInv'
  <2>1. AgreeInv
    BY DEF YInv
  <2>2. rret' = rret \/ rret' # "OK"
    BY DEF Errors
  <2>3. rpc' \in {rpc, "ret"}
    OBVIOUS
  <2> QED
    BY <1>1, <2>1, <2>2, <2>3, AgreeQuiet
<1>3. ReceiverTypes'
  BY DEF YInv, Types, ReceiverTypes, Errors, Stages
<1>4. WireTypes' /\ GhostTypes'
  BY DEF YInv, Types, WireTypes, GhostTypes
<1>5. ReturnInv'
  BY <1>1 DEF YInv, ReturnInv
<1>6. FdInv'
  BY DEF YInv, FdInv, Errors
<1>7. SenderTypes' /\ LastInv'
  BY SenderKept
<1> QED
  BY <1>2, <1>3, <1>4, <1>5, <1>6, <1>7 DEF YInv, Types

LEMMA RecvOpenYInv == ASSUME YInv, RecvOpen PROVE YInv'
<1>1. /\ rpc = "off" /\ rpc' = "hs" /\ stage' = "ESTABLISHING" /\ toS' = Append(Printed, "C")
      /\ UNCHANGED <<ses, toR, rtries, rret, store, flen, fds, done, svars, faults, resent, dup, nowrite>>
  BY DEF RecvOpen
<1>2. toS' \in Seq(Codes) /\ Quieter(toS, toS') /\ (OnlyC(toS) => OnlyC(toS'))
  <2>1. Printed \in Seq(Codes) /\ Quieter(toS, Printed) /\ (OnlyC(toS) => OnlyC(Printed))
    BY TextSent DEF YInv, Types, WireTypes
  <2>2. /\ Append(Printed, "C") \in Seq(Codes) /\ Quieter(Printed, Append(Printed, "C"))
        /\ OnlyC(Printed) => OnlyC(Append(Printed, "C"))
    BY <2>1, CodesSent DEF Codes
  <2> QED
    BY <1>1, <2>1, <2>2, QuieterTwice
<1>3. UNCHANGED <<ses, done, file, spc, sret>>
  BY <1>1 DEF svars
<1>4. AgreeInv'
  <2>1. Thinner(toR, toR') /\ AgreeInv
    BY <1>1, ThinnerSame DEF YInv
  <2> QED
    BY <1>1, <1>2, <1>3, <2>1, AgreeQuiet
<1>5. ReceiverTypes' /\ WireTypes' /\ GhostTypes'
  BY <1>1, <1>2 DEF YInv, Types, ReceiverTypes, WireTypes, GhostTypes
<1>6. ReturnInv'
  BY <1>1, <1>3 DEF YInv, ReturnInv
<1>7. FdInv'
  BY <1>1 DEF YInv, FdInv
<1>8. SenderTypes' /\ LastInv'
  BY <1>1, SenderKept
<1> QED
  BY <1>4, <1>5, <1>6, <1>7, <1>8 DEF YInv, Types

\* A header is accepted or refused.
LEMMA BeginYInv ==
  ASSUME YInv, rpc \in {"hs", "fin2"}, toR # <<>>, IsLoad(Head(toR)), toR' = Tail(toR),
         NEW n \in Nat, Begin(n), rtries' = rtries, UNCHANGED <<ses, svars, resent, dup, nowrite>>
  PROVE  YInv'
<1>1. toR' \in Seq(Packets) /\ Thinner(toR, toR')
  BY TailThinner DEF YInv, Types, WireTypes
<1>2. CASE /\ BeginOK(n) /\ toS' = Printed \o TransCodes
           /\ rpc' = "trans" /\ stage' = "ESTABLISHED"
           /\ UNCHANGED <<rret, done, faults>>
  <2>1. toS' \in Seq(Codes) /\ Quieter(toS, toS')
    <3>1. Printed \in Seq(Codes) /\ Quieter(toS, Printed)
      BY TextSent DEF YInv, Types, WireTypes
    <3>2. Printed \o TransCodes \in Seq(Codes) /\ Quieter(Printed, Printed \o TransCodes)
      BY <3>1, CodesSentTwo DEF TransCodes
    <3> QED
      BY <1>2, <3>1, <3>2, QuieterTwice
  <2>2. UNCHANGED <<ses, done, file, spc, sret, rret>> /\ rpc' = "trans"
    BY <1>2 DEF svars
  <2>3. AgreeInv'
    BY <2>1, <2>2, AgreeBegin DEF YInv
  <2>4. /\ store' = <<>> /\ flen' \in Int /\ flen' >= -1
        /\ \/ ses.app = "ry" /\ fds' = fds + 1
           \/ ses.app = "ota" /\ fds' = fds
    BY <1>2 DEF BeginOK
  <2>5. ReceiverTypes'
    BY <1>2, <2>4 DEF YInv, Types, ReceiverTypes, Load
  <2>6. WireTypes' /\ GhostTypes'
    BY <1>1, <1>2, <2>1 DEF YInv, Types, WireTypes, GhostTypes
  <2>7. ReturnInv'
    BY <2>2 DEF YInv, ReturnInv
  <2>8. FdInv'
    BY <2>2, <2>4 DEF YInv, FdInv, ReturnInv
  <2>9. SenderTypes' /\ LastInv'
    BY SenderKept
  <2> QED
    BY <2>3, <2>5, <2>6, <2>7, <2>8, <2>9 DEF YInv, Types
<1>3. CASE /\ BeginCan(n) /\ toS' \in {Printed, Append(toS, "junk")}
           /\ RReturn("CAN") /\ stage' = stage
  <2>1. faults' \in 0..MaxFaults
    BY <1>3, FaultType DEF BeginCan, YInv, Types, GhostTypes
  <2>2. /\ rpc' = "ret" /\ rret' \in Errors
        /\ UNCHANGED <<stage, store, flen, fds, done>>
    BY <1>3 DEF RReturn, Errors
  <2>3. toS' \in Seq(Codes) /\ Quieter(toS, toS') /\ nowrite' \in BOOLEAN
    BY <1>3, TextSent DEF YInv, Types, WireTypes, GhostTypes
  <2>4. store' \in Load /\ flen' \in Int /\ flen' >= -1 /\ stage' \in Stages /\ rtries' \in 0..(Tries - 1)
    BY <2>2 DEF YInv, Types, ReceiverTypes, Stages
  <2> QED
    BY <1>1, <2>1, <2>2, <2>3, <2>4, ReceiverStays
<1> QED
  BY <1>2, <1>3 DEF Begin

\* It returns an error, whatever it has read.
LEMMA FailYInv ==
  ASSUME YInv, NEW r \in Errors, RReturn(r), toR' = toR \/ (toR # <<>> /\ toR' = Tail(toR)),
         stage' \in Stages, UNCHANGED <<ses, svars, toS, rtries, resent, dup, nowrite>>,
         faults' \in 0..MaxFaults
  PROVE  YInv'
<1>1. toR' \in Seq(Packets) /\ Thinner(toR, toR')
  BY TailThinner, ThinnerSame DEF YInv, Types, WireTypes
<1>2. /\ rpc' = "ret" /\ rret' \in Errors
      /\ UNCHANGED <<store, flen, fds, done>>
  BY DEF RReturn
<1>3. toS' \in Seq(Codes) /\ Quieter(toS, toS') /\ nowrite' \in BOOLEAN
  BY ThinnerSame DEF YInv, Types, WireTypes, GhostTypes
<1>4. store' \in Load /\ flen' \in Int /\ flen' >= -1 /\ rtries' \in 0..(Tries - 1)
  BY <1>2 DEF YInv, Types, ReceiverTypes
<1> QED
  BY <1>1, <1>2, <1>3, <1>4, ReceiverStays

\* The handshake goes on, or is given up.
LEMMA AgainYInv ==
  ASSUME YInv, rpc = "hs", HandshakeAgain, toR' = toR \/ (toR # <<>> /\ toR' = Tail(toR)),
         UNCHANGED <<ses, svars, stage, faults, resent, dup, nowrite>>
  PROVE  YInv'
<1>1. CASE rtries + 1 = Tries
  <2>1. RReturn("TMO") /\ UNCHANGED <<toS, rtries>>
    BY <1>1 DEF HandshakeAgain
  <2>2. "TMO" \in Errors /\ stage' \in Stages /\ faults' \in 0..MaxFaults
    BY DEF Errors, Stages, YInv, Types, ReceiverTypes, GhostTypes
  <2> QED
    BY <2>1, <2>2, FailYInv
<1>2. CASE rtries + 1 # Tries
  <2>1. /\ rtries' = rtries + 1 /\ toS' = Append(toS, "C")
        /\ UNCHANGED <<rpc, rret, store, flen, fds, done>>
    BY <1>2 DEF HandshakeAgain
  <2>2. toR' \in Seq(Packets) /\ Thinner(toR, toR')
    BY TailThinner, ThinnerSame DEF YInv, Types, WireTypes
  <2>3. toS' \in Seq(Codes) /\ Quieter(toS, toS') /\ (OnlyC(toS) => OnlyC(toS'))
    BY <2>1, CodesSent DEF YInv, Types, WireTypes, Codes
  <2>4. rtries' \in 0..(Tries - 1)
    BY <1>2, <2>1, YmodemAssumption DEF YInv, Types, ReceiverTypes
  <2>5. /\ store' \in Load /\ flen' \in Int /\ flen' >= -1 /\ stage' \in Stages
        /\ faults' \in 0..MaxFaults /\ nowrite' \in BOOLEAN
    BY <2>1 DEF YInv, Types, ReceiverTypes, GhostTypes, Stages
  <2> QED
    BY <2>1, <2>2, <2>3, <2>4, <2>5, ReceiverStays
<1> QED
  BY <1>1, <1>2

\* The size in a header.
LEMMA HeaderSize ==
  ASSUME NEW p \in Packets, IsLoad(p) PROVE p.load[1][2] \in Nat
<1>1. p.load \in Seq(Nat \X Nat) /\ p.load # <<>>
  BY DEF Packets, Load, IsLoad
<1>2. Len(p.load) \in Nat \ {0}
  BY <1>1, EmptySeq
<1>3. p.load[1] \in Nat \X Nat
  BY <1>1, <1>2, ElementOfSeq
<1> QED
  BY <1>3

LEMMA RHandshakeYInv == ASSUME YInv, RHandshake PROVE YInv'
<1> DEFINE p == Head(toR)
<1>1. /\ rpc = "hs" /\ toR # <<>> /\ toR' = Tail(toR)
      /\ UNCHANGED <<ses, svars, resent, dup, nowrite>>
  BY DEF RHandshake
<1>2. p \in Packets /\ ~IsNull(p)
  BY <1>1, HeadTells DEF YInv, Types, WireTypes, AgreeInv, BeforeInv
<1> HIDE DEF p
<1>3. CASE IsPacket(p) /\ Begin(p.load[1][2]) /\ rtries' = rtries
  <2>1. IsLoad(p)
    BY <1>2, <1>3 DEF IsNull, IsLoad
  <2>2. p.load[1][2] \in Nat
    BY <1>2, <2>1, HeaderSize
  <2> QED
    BY <1>1, <1>3, <2>1, <2>2, BeginYInv DEF p
<1>4. CASE /\ \E e \in {"DSZ", "SEQ", "CRC"} : RReturn(e)
           /\ UNCHANGED <<toS, stage, rtries, faults>>
  <2>1. PICK e \in Errors : RReturn(e)
    BY <1>4 DEF Errors
  <2>2. stage' \in Stages /\ faults' \in 0..MaxFaults
    BY <1>4 DEF Stages, YInv, Types, ReceiverTypes, GhostTypes
  <2> QED
    BY <1>1, <1>4, <2>1, <2>2, FailYInv
<1>5. CASE HandshakeAgain /\ UNCHANGED <<stage, faults>>
  BY <1>1, <1>5, AgainYInv
<1> QED
  BY <1>3, <1>4, <1>5 DEF RHandshake, p

\* ry writes what belongs to the file.
LEMMA RyDataTypes ==
  ASSUME YInv, NEW d \in Load, RyData(d)
  PROVE  /\ store' \in Load /\ flen' \in Int /\ flen' >= -1
         /\ faults' \in 0..MaxFaults /\ nowrite' \in BOOLEAN
<1> DEFINE w == IF flen = -1 THEN Len(d) ELSE Least(Len(d), flen)
<1>1. Len(d) \in Nat /\ flen \in Int /\ flen >= -1 /\ store \in Load
  BY LenProperties DEF Load, YInv, Types, ReceiverTypes
<1>2. w \in 0..Len(d) /\ (flen # -1 => w <= flen)
  BY <1>1 DEF Least
<1> HIDE DEF w
<1>3. /\ flen' = IF flen = -1 THEN -1 ELSE flen - w
      /\ \/ store' = store \o SubSeq(d, 1, w) /\ UNCHANGED <<faults, nowrite>>
         \/ Fault /\ store' = store /\ nowrite' = TRUE
  BY DEF RyData, w
<1>4. flen' \in Int /\ flen' >= -1
  BY <1>1, <1>2, <1>3
<1>5. SubSeq(d, 1, w) \in Load
  <2>1. \A i \in 1..w : d[i] \in Nat \X Nat
    BY <1>1, <1>2, ElementOfSeq DEF Load
  <2>2. w \in Int
    BY <1>1, <1>2
  <2> QED
    BY <2>1, <2>2, SubSeqProperties DEF Load
<1>6. store \o SubSeq(d, 1, w) \in Load
  BY <1>1, <1>5, ConcatProperties DEF Load
<1>7. store' \in Load
  BY <1>1, <1>3, <1>6
<1>8. CASE UNCHANGED <<faults, nowrite>>
  BY <1>4, <1>7, <1>8 DEF YInv, Types, GhostTypes
<1>9. CASE Fault /\ nowrite' = TRUE
  <2>1. faults' \in 0..MaxFaults
    BY <1>9, FaultType DEF YInv, Types
  <2>2. nowrite' \in BOOLEAN
    BY <1>9
  <2> QED
    BY <1>4, <1>7, <2>1, <2>2
<1> QED
  BY <1>3, <1>8, <1>9

LEMMA RTransPacketYInv == ASSUME YInv, RTransPacket PROVE YInv'
<1> DEFINE p == Head(toR)
<1>1. /\ rpc = "trans" /\ toR # <<>> /\ toR' = Tail(toR)
      /\ UNCHANGED <<ses, rtries, svars, resent, dup>>
  BY DEF RTransPacket
<1>2. p \in Packets
  BY <1>1, HeadTells DEF YInv, Types, WireTypes
<1>3. p.load \in Load
  BY <1>2 DEF Packets
<1>4. toR' \in Seq(Packets) /\ Thinner(toR, toR')
  BY <1>1, TailThinner DEF YInv, Types, WireTypes
<1>5. /\ toS \in Seq(Codes) /\ Quieter(toS, toS) /\ store \in Load /\ flen \in Int /\ flen >= -1
      /\ stage \in Stages /\ rtries' \in 0..(Tries - 1) /\ faults \in 0..MaxFaults
      /\ nowrite \in BOOLEAN
  BY <1>1, ThinnerSame DEF YInv, Types, WireTypes, ReceiverTypes, GhostTypes, Stages
<1>6. Append(toS, "ACK") \in Seq(Codes) /\ Quieter(toS, Append(toS, "ACK"))
  BY <1>5, CodesSent DEF Codes
<1> HIDE DEF p
<1>7. CASE /\ \E e \in {"DSZ", "SEQ", "CRC"} : RReturn(e) /\ stage' \in {stage, "TRANSMITTING"}
           /\ UNCHANGED <<toS, faults, nowrite>>
  <2>1. PICK e \in Errors : RReturn(e) /\ stage' \in {stage, "TRANSMITTING"}
    BY <1>7 DEF Errors
  <2>2. stage' \in Stages /\ faults' \in 0..MaxFaults
    BY <1>5, <1>7, <2>1 DEF Stages
  <2> QED
    BY <1>1, <1>7, <2>1, <2>2, FailYInv
<1>8. CASE UNCHANGED <<rpc, stage, rret, store, flen, fds, done, toS, faults, nowrite>>
  BY <1>1, <1>4, <1>5, <1>8, ReceiverStays
<1>9. CASE /\ stage' = "TRANSMITTING" /\ RyData(p.load) /\ toS' = Append(toS, "ACK")
           /\ UNCHANGED <<rpc, rret, fds, done>>
  <2>1. /\ store' \in Load /\ flen' \in Int /\ flen' >= -1
        /\ faults' \in 0..MaxFaults /\ nowrite' \in BOOLEAN
    BY <1>3, <1>9, RyDataTypes
  <2>2. stage' \in Stages
    BY <1>9 DEF Stages
  <2> QED
    BY <1>1, <1>4, <1>5, <1>6, <1>9, <2>1, <2>2, ReceiverStays
<1>10. CASE stage' = "TRANSMITTING" /\ OtaData(p.load) /\ nowrite' = nowrite
  <2>1. stage' \in Stages /\ nowrite' \in BOOLEAN
    BY <1>5, <1>10 DEF Stages
  <2>2. CASE /\ store' = store \o p.load /\ toS' = Append(toS, "ACK")
             /\ UNCHANGED <<rpc, rret, flen, fds, done, faults>>
    <3>1. store' \in Load
      BY <1>3, <1>5, <2>2, ConcatProperties DEF Load
    <3>2. flen' \in Int /\ flen' >= -1 /\ faults' \in 0..MaxFaults
      BY <1>5, <2>2
    <3> QED
      BY <1>1, <1>4, <1>5, <1>6, <2>1, <2>2, <3>1, <3>2, ReceiverStays
  <2>3. CASE /\ Fault \/ faults' = faults
             /\ toS' = Append(Printed, "CAN") /\ RReturn("CAN")
    <3>1. faults' \in 0..MaxFaults
      BY <1>5, <2>3, FaultType DEF YInv, Types
    <3>2. toS' \in Seq(Codes) /\ Quieter(toS, toS')
      <4>1. Printed \in Seq(Codes) /\ Quieter(toS, Printed)
        BY <1>5, TextSent
      <4>2. Append(Printed, "CAN") \in Seq(Codes) /\ Quieter(Printed, Append(Printed, "CAN"))
        BY <4>1, CodesSent DEF Codes
      <4> QED
        BY <2>3, <4>1, <4>2, QuieterTwice
    <3>3. /\ rpc' = "ret" /\ rret' \in Errors
          /\ UNCHANGED <<store, flen, fds, done>>
      BY <2>3 DEF RReturn, Errors
    <3>4. store' \in Load /\ flen' \in Int /\ flen' >= -1
      BY <1>5, <3>3
    <3> QED
      BY <1>1, <1>4, <1>5, <2>1, <3>1, <3>2, <3>3, <3>4, ReceiverStays
  <2> QED
    BY <1>10, <2>2, <2>3 DEF OtaData
<1> QED
  BY <1>7, <1>8, <1>9, <1>10 DEF RTransPacket, p

LEMMA RTransEotYInv == ASSUME YInv, RTransEot PROVE YInv'
<1>1. /\ rpc = "trans" /\ toR # <<>> /\ IsEot(Head(toR)) /\ toR' = Tail(toR)
      /\ stage' = "FINISHING" /\ rpc' = "fin1"
      /\ fds' = (IF ses.app = "ry" THEN fds - 1 ELSE fds) /\ done' = Append(done, store)
      /\ toS' = Append(toS, "NAK")
      /\ UNCHANGED <<ses, rtries, rret, store, flen, svars, faults, resent, dup, nowrite>>
  BY DEF RTransEot, IsEot, EndFds
<1>2. toR' \in Seq(Packets) /\ toS' \in Seq(Codes)
  BY <1>1, TailThinner, CodesSent DEF YInv, Types, WireTypes, Codes
<1>3. done' \in Seq(Load) /\ Len(done') = Len(done) + 1
  BY <1>1, AppendProperties DEF YInv, Types, ReceiverTypes
<1>4. UNCHANGED <<ses, file, spc, sret, rret>>
  BY <1>1 DEF svars
<1>5. AgreeInv'
  BY <1>1, <1>3, <1>4, AgreeEot DEF YInv
<1>6. fds' \in Nat /\ FdInv'
  BY <1>1 DEF YInv, FdInv, ReturnInv, Types, ReceiverTypes
<1>7. ReceiverTypes'
  BY <1>1, <1>3, <1>6 DEF YInv, Types, ReceiverTypes
<1>8. WireTypes' /\ GhostTypes' /\ ReturnInv'
  BY <1>1, <1>2, <1>4 DEF YInv, Types, WireTypes, GhostTypes, ReturnInv
<1>9. SenderTypes' /\ LastInv'
  BY <1>1, SenderKept
<1> QED
  BY <1>5, <1>6, <1>7, <1>8, <1>9 DEF YInv, Types

\* The second EOT, and the packet that ends the session.
LEMMA FinYInv ==
  ASSUME YInv, toR # <<>>, toR' = Tail(toR),
         \/ rpc = "fin1" /\ rpc' = "fin2" /\ rret' = rret
         \/ rpc = "fin2" /\ rpc' = "ret" /\ rret' = "OK" /\ IsNull(Head(toR)),
         stage' \in Stages, toS' \in Seq(Codes), Quieter(toS, toS'),
         UNCHANGED <<ses, rtries, store, flen, fds, done, svars, faults, resent, dup, nowrite>>
  PROVE  YInv'
<1>1. toR' \in Seq(Packets)
  BY TailThinner DEF YInv, Types, WireTypes
<1>2. UNCHANGED <<ses, done, file, spc, sret>>
  BY DEF svars
<1>3. AgreeInv'
  BY <1>2, AgreeFin DEF YInv
<1>4. ReceiverTypes'
  BY DEF YInv, Types, ReceiverTypes, Stages
<1>5. WireTypes' /\ GhostTypes'
  BY <1>1 DEF YInv, Types, WireTypes, GhostTypes
<1>6. ReturnInv'
  BY <1>2 DEF YInv, ReturnInv
<1>7. FdInv'
  BY DEF YInv, FdInv
<1>8. SenderTypes' /\ LastInv'
  BY SenderKept
<1> QED
  BY <1>3, <1>4, <1>5, <1>6, <1>7, <1>8 DEF YInv, Types

LEMMA RFinEotYInv == ASSUME YInv, RFinEot PROVE YInv'
<1>1. toS' \in Seq(Codes) /\ Quieter(toS, toS')
  BY CodesSentTwo DEF RFinEot, YInv, Types, WireTypes
<1>2. stage' \in Stages
  BY DEF RFinEot, YInv, Types, ReceiverTypes, Stages
<1> QED
  BY <1>1, <1>2, FinYInv DEF RFinEot

LEMMA RFinPacketYInv == ASSUME YInv, RFinPacket PROVE YInv'
<1> DEFINE p == Head(toR)
<1>1. /\ rpc = "fin2" /\ toR # <<>> /\ IsPacket(p) /\ toR' = Tail(toR)
      /\ UNCHANGED <<ses, rtries, svars, resent, dup, nowrite>>
  BY DEF RFinPacket
<1>2. p \in Packets
  BY <1>1, HeadTells DEF YInv, Types, WireTypes
<1>3. toS \in Seq(Codes) /\ stage \in Stages /\ faults \in 0..MaxFaults
  BY DEF YInv, Types, WireTypes, ReceiverTypes, GhostTypes, Stages
<1> HIDE DEF p
<1>4. CASE IsLoad(p) /\ Begin(p.load[1][2])
  <2>1. p.load[1][2] \in Nat
    BY <1>2, <1>4, HeaderSize
  <2> QED
    BY <1>1, <1>4, <2>1, BeginYInv DEF p
<1>5. CASE /\ ~IsLoad(p) /\ stage' = "FINISHED" /\ toS' = Append(toS, "ACK")
           /\ RReturn("OK") /\ faults' = faults
  <2>1. IsNull(p) /\ stage' \in Stages
    BY <1>1, <1>5 DEF IsLoad, IsNull, Stages
  <2>2. toS' \in Seq(Codes) /\ Quieter(toS, toS')
    BY <1>3, <1>5, CodesSent DEF Codes
  <2>3. rpc' = "ret" /\ rret' = "OK" /\ UNCHANGED <<store, flen, fds, done>>
    BY <1>5 DEF RReturn
  <2> QED
    BY <1>1, <1>5, <2>1, <2>2, <2>3, FinYInv DEF p
<1>6. CASE /\ \E e \in {"DSZ", "SEQ", "CRC"} : RReturn(e)
           /\ UNCHANGED <<toS, stage, faults>>
  <2>1. PICK e \in Errors : RReturn(e)
    BY <1>6 DEF Errors
  <2> QED
    BY <1>1, <1>3, <1>6, <2>1, FailYInv
<1> QED
  BY <1>4, <1>5, <1>6 DEF RFinPacket, NextFile, IsLoad, p

LEMMA RWrongCodeYInv == ASSUME YInv, RWrongCode PROVE YInv'
<1>1. "CODE" \in Errors /\ stage' \in Stages /\ faults' \in 0..MaxFaults
  BY DEF RWrongCode, Errors, Stages, YInv, Types, ReceiverTypes, GhostTypes
<1> QED
  BY <1>1, FailYInv DEF RWrongCode

LEMMA RTimeoutYInv == ASSUME YInv, RTimeout PROVE YInv'
<1>1. /\ UNCHANGED <<ses, toR, stage, svars, resent, dup, nowrite>>
      /\ stage' \in Stages /\ faults \in 0..MaxFaults /\ "CODE" \in Errors
  BY DEF RTimeout, Errors, Stages, YInv, Types, ReceiverTypes, GhostTypes
<1>2. CASE rpc = "hs" /\ HandshakeAgain /\ faults' = faults
  BY <1>1, <1>2, AgainYInv
<1>3. CASE /\ RReturn("CODE") /\ UNCHANGED <<toS, rtries>>
           /\ faults' = IF SenderQuiet THEN faults ELSE Least(faults + 1, MaxFaults)
  <2>1. faults' \in 0..MaxFaults
    BY <1>1, <1>3, YmodemAssumption DEF Least
  <2> QED
    BY <1>1, <1>3, <2>1, FailYInv
<1> QED
  BY <1>2, <1>3 DEF RTimeout

-----------------------------------------------------------------------------
(* The steps of the sender.                                                *)

Waits == {"hs", "ack0", "c0", "ackd", "nak", "ack1", "c1", "ackf"}

LEMMA ExpectedIs ==
  /\ DOMAIN Expected = Waits
  /\ Expected["ack0"] = "ACK" /\ Expected["ackd"] = "ACK" /\ Expected["ack1"] = "ACK"
  /\ Expected["nak"] = "NAK"
  BY DEF Expected, Waits

LEMMA PacketTypes ==
  /\ Char("EOT") \in Packets /\ IsEot(Char("EOT"))
  /\ Char("junk") \in Packets
  /\ ~IsLoad(Char("junk")) /\ ~IsEot(Char("junk")) /\ ~IsNull(Char("junk"))
  /\ \A c \in {"SOH", "STX"} : Null(c) \in Packets /\ IsNull(Null(c))
<1>1. 0 % SeqRange \in 0..(SeqRange - 1)
  BY YmodemAssumption
<1>2. <<>> \in Load
  BY DEF Load
<1>3. \A c \in {"SOH", "STX", "EOT", "junk"} :
        /\ Pkt(c, 0, <<>>) \in Packets /\ Pkt(c, 0, <<>>).c = c /\ Pkt(c, 0, <<>>).load = <<>>
  BY <1>1, <1>2 DEF Pkt, Packets
<1> QED
  BY <1>3 DEF Char, Null, IsLoad, IsEot, IsNull, IsPacket

LEMMA HeaderType ==
  ASSUME ses \in Sessions, NEW f \in 1..Len(ses.files)
  PROVE  Header(f) \in Packets /\ IsLoad(Header(f))
<1>1. 0 % SeqRange \in 0..(SeqRange - 1)
  BY YmodemAssumption
<1>2. <<0, Size(f)>> \in Nat \X Nat
  BY SessionTypes
<1>3. <<<<0, Size(f)>>>> \in Load /\ <<<<0, Size(f)>>>> # <<>>
  BY <1>2 DEF Load
<1> QED
  BY <1>1, <1>3 DEF Header, Pkt, Packets, IsLoad

LEMMA DataType ==
  ASSUME ses \in Sessions, NEW f \in 1..Len(ses.files), NEW i \in Nat \ {0}
  PROVE  Data(f, i) \in Packets /\ IsLoad(Data(f, i))
<1> DEFINE l == [j \in 1..Width |-> LET at == (i - 1) * Width + j
                                    IN  IF at <= Size(f) THEN <<f, at>> ELSE Pad]
<1>1. i % SeqRange \in 0..(SeqRange - 1)
  BY YmodemAssumption
<1>2. Width \in Nat \ {0} /\ f \in Nat /\ ses.code \in {"SOH", "STX"}
  BY SessionTypes
<1>3. ASSUME NEW j \in 1..Width PROVE l[j] \in Nat \X Nat
  <2>1. (i - 1) * Width \in Nat
    BY <1>2
  <2>2. PICK at \in Nat : at = (i - 1) * Width + j
    BY <1>2, <2>1
  <2>3. l[j] = IF at <= Size(f) THEN <<f, at>> ELSE Pad
    BY <2>2
  <2> QED
    BY <1>2, <2>2, <2>3 DEF Pad
<1>4. l \in [1..Width -> Nat \X Nat]
  BY <1>3
<1>5. Data(f, i) = Pkt(ses.code, i, l)
  BY DEF Data
<1> HIDE DEF l
<1>6. l \in Load /\ Len(l) = Width
  BY <1>2, <1>4 DEF Load
<1>7. l # <<>>
  BY <1>2, <1>6
<1>8. Pkt(ses.code, i, l) = [c |-> ses.code, seq |-> i % SeqRange, load |-> l, bad |-> "no"]
  BY DEF Pkt
<1> QED
  BY <1>1, <1>2, <1>5, <1>6, <1>7, <1>8 DEF Packets, IsLoad

\* A step of the sender leaves the receiver as it is.
LEMMA SenderMoves ==
  ASSUME YInv, UNCHANGED <<ses, rvars>>, toR' \in Seq(Packets), toS' \in Seq(Codes),
         spc' \in Waits \cup {"off", "ret"}, file' \in 1..Len(ses.files), idx' \in 0..Blocks(file'),
         last' \in Packets, stries' \in 0..Tries, sret' \in {"none", "OK", "TMO", "CODE", "ACK"},
         GhostTypes', LastInv', AgreeInv', sret' # "none" => spc' = "ret",
         spc' \in {"off", "hs"} => stries' # Tries
  PROVE  YInv'
<1>1. SenderTypes'
  BY ExpectedIs DEF SenderTypes, Blocks, Size, Width
<1>2. ReceiverTypes' /\ FdInv'
  BY DEF YInv, Types, ReceiverTypes, FdInv, rvars
<1>3. WireTypes' /\ ReturnInv'
  BY DEF YInv, Types, WireTypes, ReturnInv, rvars
<1> QED
  BY <1>1, <1>2, <1>3 DEF YInv, Types

LEMMA SendOpenYInv == ASSUME YInv, SendOpen PROVE YInv'
<1>1. /\ spc = "off" /\ spc' = "hs" /\ toS' \in {toS, <<>>}
      /\ UNCHANGED <<ses, toR, rvars, file, idx, last, stries, sret, faults, resent, dup, nowrite>>
  BY DEF SendOpen
<1>2. toS' \in Seq(Codes) /\ Quieter(toS, toS') /\ (OnlyC(toS) => OnlyC(toS'))
  BY <1>1, ThinnerSame, CodesFlushed DEF YInv, Types, WireTypes, Quieter
<1>3. AgreeInv'
  BY <1>1, <1>2, AgreeWait DEF YInv, rvars
<1>4. GhostTypes' /\ LastInv' /\ (sret' # "none" => spc' = "ret")
  BY <1>1 DEF YInv, Types, GhostTypes, LastInv, ReturnInv
<1>5. /\ file' \in 1..Len(ses.files) /\ idx' \in 0..Blocks(file') /\ last' \in Packets
      /\ stries' \in 0..Tries /\ sret' \in {"none", "OK", "TMO", "CODE", "ACK"}
      /\ stries' # Tries
  BY <1>1 DEF YInv, Types, SenderTypes
<1>6. toR' \in Seq(Packets) /\ spc' \in Waits
  BY <1>1 DEF YInv, Types, WireTypes, Waits
<1> QED
  BY <1>1, <1>2, <1>3, <1>4, <1>5, <1>6, SenderMoves

\* The sender gives up.
LEMMA QuitYInv ==
  ASSUME YInv, NEW r \in {"TMO", "CODE", "ACK"}, SReturn(r),
         toS' = toS \/ (toS # <<>> /\ toS' = Tail(toS)),
         UNCHANGED <<ses, rvars, file, idx, resent, dup, nowrite>>,
         stries' \in 0..Tries, faults' \in 0..MaxFaults
  PROVE  YInv'
<1>1. spc' = "ret" /\ sret' = r /\ UNCHANGED <<toR, last>>
  BY DEF SReturn
<1>2. toS' \in Seq(Codes) /\ Quieter(toS, toS') /\ (OnlyC(toS) => OnlyC(toS'))
  BY ThinnerSame, CodesTail DEF YInv, Types, WireTypes
<1>3. AgreeInv'
  BY <1>1, <1>2, AgreeQuit DEF YInv, rvars
<1>4. GhostTypes' /\ LastInv'
  BY <1>1 DEF YInv, Types, GhostTypes, LastInv
<1>5. /\ file' \in 1..Len(ses.files) /\ idx' \in 0..Blocks(file') /\ last' \in Packets
      /\ toR' \in Seq(Packets)
  BY <1>1 DEF YInv, Types, SenderTypes, WireTypes
<1> QED
  BY <1>1, <1>2, <1>3, <1>4, <1>5, SenderMoves

\* It waits for something else, or has been told nothing.
LEMMA WaitYInv ==
  ASSUME YInv, UNCHANGED <<ses, rvars, file, idx, last, sret, toR, faults, resent, dup, nowrite>>,
         stries' \in 0..Tries, spc' = "hs" => stries' # Tries,
         \/ spc = "hs" /\ spc' = "hs"
         \/ spc = "ack0" /\ spc' = "c0" /\ ~OnlyC(toS)
         \/ spc = "ack1" /\ spc' = "c1"
         \/ spc \in Waits \ {"hs"} /\ spc' = spc,
         toS' = toS \/ (toS # <<>> /\ toS' = Tail(toS))
  PROVE  YInv'
<1>1. toS' \in Seq(Codes) /\ Quieter(toS, toS') /\ (OnlyC(toS) => OnlyC(toS'))
  BY ThinnerSame, CodesTail DEF YInv, Types, WireTypes
<1>2. AgreeInv'
  BY <1>1, AgreeWait DEF YInv, rvars, Waits
<1>3. GhostTypes' /\ LastInv' /\ (sret' # "none" => spc' = "ret")
  BY DEF YInv, Types, GhostTypes, LastInv, ReturnInv, Waits
<1>4. /\ file' \in 1..Len(ses.files) /\ idx' \in 0..Blocks(file') /\ last' \in Packets
      /\ toR' \in Seq(Packets) /\ sret' \in {"none", "OK", "TMO", "CODE", "ACK"}
      /\ spc' \in Waits /\ (spc' \in {"off", "hs"} => stries' # Tries)
  BY DEF YInv, Types, SenderTypes, WireTypes, Waits
<1> QED
  BY <1>1, <1>2, <1>3, <1>4, SenderMoves

\* The sender moves on with a packet.
LEMMA SendYInv ==
  ASSUME YInv, Sending, toS # <<>>, toS' = Tail(toS), NEW p \in Packets, NEW then \in Waits \ {"hs"},
         Send(p, then), UNCHANGED <<ses, rvars, stries, faults, resent, dup, nowrite>>,
         file' \in 1..Len(ses.files), idx' \in 0..Blocks(file'),
         then = "ack0" \/ then = "ackd" => IsLoad(p),
         then = "nak" \/ then = "ack1" => IsEot(p),
         then = "ackf" => IsNull(p),
         then \notin {"c0", "c1"}, AgreeInv'
  PROVE  YInv'
<1>1. toR' = Append(toR, p) /\ last' = p /\ spc' = then /\ sret' = sret
  BY DEF Send
<1>2. toR' \in Seq(Packets) /\ toS' \in Seq(Codes)
  BY <1>1, AppendTells, CodesTail DEF YInv, Types, WireTypes
<1>3. LastInv'
  BY <1>1 DEF LastInv, Waits
<1>4. sret = "none"
  BY ExpectedIs DEF YInv, ReturnInv, Sending, Waits
<1>5. GhostTypes' /\ stries' \in 0..Tries
  BY DEF YInv, Types, GhostTypes, SenderTypes
<1> QED
  BY <1>1, <1>2, <1>3, <1>4, <1>5, SenderMoves DEF Waits

LEMMA SGetExpectedYInv == ASSUME YInv, SGetExpected PROVE YInv'
<1>1. /\ Sending /\ toS # <<>> /\ Head(toS) = Expected[spc] /\ toS' = Tail(toS)
      /\ UNCHANGED <<ses, rvars, stries, faults, resent, dup, nowrite>>
      /\ UNCHANGED <<done, rpc, rret>>
  BY DEF SGetExpected, rvars
<1>2. Types /\ AgreeInv /\ ReturnInv /\ ses \in Sessions /\ toS \in Seq(Codes)
  BY DEF YInv, Types, WireTypes
<1>3. /\ toS' \in Seq(Codes) /\ Quieter(toS, toS') /\ (OnlyC(toS) => OnlyC(toS'))
      /\ (OnlyC(toS) => Head(toS) \in {"C", "junk"})
  BY <1>1, <1>2, CodesTail
<1>4. /\ file \in 1..Len(ses.files) /\ idx \in 0..Blocks(file) /\ stries \in 0..Tries
      /\ sret = "none" /\ toR \in Seq(Packets) /\ last \in Packets
      /\ Blocks(file) \in Nat /\ Len(ses.files) \in Nat
  BY <1>1, <1>2, ExpectedIs, SessionTypes
     DEF Types, WireTypes, SenderTypes, ReturnInv, Sending, Waits
<1>5. CASE spc = "hs" /\ Send(Header(file), "ack0") /\ UNCHANGED <<file, idx>>
  <2>1. Header(file) \in Packets /\ IsLoad(Header(file))
    BY <1>2, <1>4, HeaderType
  <2>2. idx' \in 0..Blocks(file')
    BY <1>1, <1>4, <1>5 DEF Blocks, Size, Width
  <2>3. AgreeInv'
    BY <1>1, <1>2, <1>3, <1>5, <2>1, AgreeSendLoad DEF Send
  <2> QED
    BY <1>1, <1>4, <1>5, <2>1, <2>2, <2>3, SendYInv DEF Waits
<1>6. CASE spc = "ack0" /\ SWait("c0") /\ UNCHANGED <<file, idx>>
  <2>1. ~OnlyC(toS)
    BY <1>1, <1>3, <1>6, ExpectedIs
  <2> QED
    BY <1>1, <1>4, <1>6, <2>1, WaitYInv DEF SWait
<1>7. CASE /\ spc \in {"c0", "ackd"} /\ idx < Blocks(file) /\ Send(Data(file, idx + 1), "ackd")
           /\ idx' = idx + 1 /\ file' = file
  <2>1. Data(file, idx + 1) \in Packets /\ IsLoad(Data(file, idx + 1))
    BY <1>2, <1>4, DataType
  <2>2. idx' \in 0..Blocks(file)
    BY <1>4, <1>7
  <2>3. idx' \in 0..Blocks(file')
    BY <1>1, <1>7, <2>2 DEF Blocks, Size, Width
  <2>4. AgreeInv'
    BY <1>1, <1>2, <1>3, <1>7, <2>1, AgreeSendLoad DEF Send
  <2> QED
    BY <1>1, <1>4, <1>7, <2>1, <2>3, <2>4, SendYInv DEF Waits
<1>8. CASE /\ spc \in {"c0", "ackd"} /\ Send(Char("EOT"), "nak") /\ UNCHANGED <<file, idx>>
  <2>1. AgreeInv'
    BY <1>1, <1>2, <1>3, <1>8, PacketTypes, AgreeSendEot DEF Send
  <2>2. idx' \in 0..Blocks(file')
    BY <1>1, <1>4, <1>8 DEF Blocks, Size, Width
  <2> QED
    BY <1>1, <1>4, <1>8, <2>1, <2>2, PacketTypes, SendYInv DEF Waits
<1>9. CASE spc = "nak" /\ Send(Char("EOT"), "ack1") /\ UNCHANGED <<file, idx>>
  <2>1. Head(toS) = "NAK"
    BY <1>1, <1>9, ExpectedIs
  <2>2. AgreeInv'
    BY <1>1, <1>2, <1>9, <2>1, PacketTypes, AgreePassed DEF Send
  <2>3. idx' \in 0..Blocks(file')
    BY <1>1, <1>4, <1>9 DEF Blocks, Size, Width
  <2> QED
    BY <1>1, <1>4, <1>9, <2>2, <2>3, PacketTypes, SendYInv DEF Waits
<1>10. CASE spc = "ack1" /\ SWait("c1") /\ UNCHANGED <<file, idx>>
  BY <1>1, <1>4, <1>10, WaitYInv DEF SWait
<1>11. CASE /\ spc = "c1" /\ file < Len(ses.files)
            /\ file' = file + 1 /\ idx' = 0 /\ Send(Header(file'), "ack0")
  <2>1. file + 1 \in 1..Len(ses.files) /\ file' = file + 1 /\ idx' = 0
    BY <1>4, <1>11
  <2>2. Header(file + 1) \in Packets /\ IsLoad(Header(file + 1))
    BY <1>2, <2>1, HeaderType
  <2>3. Header(file') = Header(file + 1)
    BY <2>1
  <2>4. Blocks(file + 1) \in Nat /\ Blocks(file') = Blocks(file + 1)
    BY <1>2, <2>1, SessionTypes
  <2>5. AgreeInv'
    BY <1>1, <1>2, <1>3, <1>11, <2>1, <2>2, <2>3, AgreeNextFile DEF Send
  <2>6. Send(Header(file + 1), "ack0")
    BY <1>11, <2>3
  <2>7. idx' \in 0..Blocks(file') /\ file' \in 1..Len(ses.files)
    BY <2>1, <2>4
  <2> QED
    BY <1>1, <2>2, <2>5, <2>6, <2>7, SendYInv DEF Waits
<1>12. CASE /\ spc = "c1" /\ file = Len(ses.files) /\ UNCHANGED <<file, idx>>
            /\ toR' = Append(toR, Null("SOH"))
            /\ last' = last /\ spc' = "ret" /\ sret' = "OK"
  <2>1. Null("SOH") \in Packets /\ IsNull(Null("SOH"))
    BY PacketTypes
  <2>2. AgreeInv'
    BY <1>1, <1>2, <1>3, <1>12, <2>1, AgreeSendNull
  <2>3. toR' \in Seq(Packets)
    BY <1>4, <1>12, <2>1, AppendTells
  <2>4. GhostTypes' /\ LastInv' /\ idx' \in 0..Blocks(file')
    BY <1>1, <1>2, <1>4, <1>12 DEF Types, GhostTypes, LastInv, Blocks, Size, Width
  <2> QED
    BY <1>1, <1>3, <1>4, <1>12, <2>2, <2>3, <2>4, SenderMoves
<1>13. CASE /\ spc = "c1" /\ file = Len(ses.files) /\ UNCHANGED <<file, idx>>
            /\ \E c \in {"SOH", ses.code} : Send(Null(c), "ackf")
  <2>1. PICK c \in {"SOH", "STX"} : Send(Null(c), "ackf")
    BY <1>2, <1>13, SessionTypes
  <2>2. Null(c) \in Packets /\ IsNull(Null(c))
    BY PacketTypes
  <2>3. AgreeInv'
    BY <1>1, <1>2, <1>3, <1>13, <2>1, <2>2, AgreeSendNull DEF Send
  <2>4. idx' \in 0..Blocks(file')
    BY <1>1, <1>4, <1>13 DEF Blocks, Size, Width
  <2> QED
    BY <1>1, <1>4, <1>13, <2>1, <2>2, <2>3, <2>4, SendYInv DEF Waits
<1>14. CASE spc = "ackf" /\ SReturn("OK") /\ UNCHANGED <<file, idx>>
  <2>1. file = Len(ses.files)
    BY <1>2, <1>14 DEF AgreeInv, EndInv
  <2>2. spc' = "ret" /\ sret' = "OK" /\ UNCHANGED <<toR, last>>
    BY <1>14 DEF SReturn
  <2>3. AgreeInv'
    BY <1>1, <1>2, <1>3, <1>14, <2>1, <2>2, AgreeSendNull
  <2>4. GhostTypes' /\ LastInv' /\ idx' \in 0..Blocks(file')
    BY <1>1, <1>2, <1>4, <1>14, <2>2 DEF Types, GhostTypes, LastInv, Blocks, Size, Width
  <2> QED
    BY <1>1, <1>3, <1>4, <1>14, <2>2, <2>3, <2>4, SenderMoves
<1> QED
  BY <1>5, <1>6, <1>7, <1>8, <1>9, <1>10, <1>11, <1>12, <1>13, <1>14 DEF SGetExpected

LEMMA SBeginFailsYInv == ASSUME YInv, SBeginFails PROVE YInv'
<1>1. faults' \in 0..MaxFaults /\ stries' \in 0..Tries
  BY FaultType DEF SBeginFails, YInv, Types, SenderTypes
<1> QED
  BY <1>1, QuitYInv DEF SBeginFails

LEMMA SyWrongYInv == ASSUME YInv, SyWrong PROVE YInv'
<1>1. /\ Sending /\ (toS' = toS \/ (toS # <<>> /\ toS' = Tail(toS)))
      /\ UNCHANGED <<ses, rvars, file, idx, faults, resent, dup, nowrite>>
      /\ faults' \in 0..MaxFaults /\ stries \in 0..Tries
  BY DEF SyWrong, YInv, Types, SenderTypes, GhostTypes
<1>2. CASE SReturn("ACK") /\ stries' = stries
  BY <1>1, <1>2, QuitYInv
<1>3. CASE /\ spc = "hs" /\ stries' \in {stries + 1, Tries}
           /\ IF stries' = Tries THEN SReturn("TMO") ELSE SWait("hs")
  <2>1. stries' \in 0..Tries
    BY <1>1, <1>3, YmodemAssumption DEF YInv, Types, SenderTypes
  <2>2. CASE SReturn("TMO")
    BY <1>1, <2>1, <2>2, QuitYInv
  <2>3. CASE stries' # Tries /\ SWait("hs")
    BY <1>1, <1>3, <2>1, <2>3, WaitYInv DEF SWait
  <2> QED
    BY <1>3, <2>2, <2>3
<1> QED
  BY <1>2, <1>3 DEF SyWrong

LEMMA PcIgnoreYInv == ASSUME YInv, PcIgnore PROVE YInv'
<1>1. spc \in Waits /\ stries' \in 0..Tries /\ (spc' = "hs" => stries' # Tries) /\ spc' = spc
  BY ExpectedIs DEF PcIgnore, Sending, svars, YInv, Types, SenderTypes
<1> QED
  BY <1>1, WaitYInv DEF PcIgnore, svars, Waits

LEMMA PcGiveUpYInv == ASSUME YInv, PcGiveUp PROVE YInv'
<1>1. faults' \in 0..MaxFaults /\ stries' \in 0..Tries
  BY DEF PcGiveUp, YInv, Types, SenderTypes, GhostTypes
<1> QED
  BY <1>1, QuitYInv DEF PcGiveUp

LEMMA PcResendYInv == ASSUME YInv, PcResend PROVE YInv'
<1>1. /\ spc \in Waits \ {"hs"} /\ (toS' = toS \/ (toS # <<>> /\ toS' = Tail(toS)))
      /\ resent < MaxResend /\ resent' = resent + 1 /\ toR' = Append(toR, last)
      /\ UNCHANGED <<ses, rvars, svars, faults, nowrite>>
      /\ UNCHANGED <<done, rpc, rret>>
      /\ UNCHANGED <<spc, file, idx, last, stries, sret>>
  BY ExpectedIs DEF PcResend, Sending, rvars, svars
<1>2. Types /\ AgreeInv /\ LastInv /\ toR \in Seq(Packets) /\ last \in Packets
  BY DEF YInv, Types, WireTypes, SenderTypes
<1>3. toS' \in Seq(Codes) /\ Quieter(toS, toS') /\ (OnlyC(toS) => OnlyC(toS'))
  BY <1>1, <1>2, CodesTail, ThinnerSame DEF Types, WireTypes
<1>4. AgreeInv'
  <2>1. CASE spc \in {"ack0", "c0", "ackd"}
    BY <1>1, <1>2, <1>3, <2>1, AgreeSendLoad DEF LastInv
  <2>2. CASE spc \in {"nak", "ack1", "c1"}
    BY <1>1, <1>2, <1>3, <2>2, AgreeSendEot DEF LastInv
  <2>3. CASE spc = "ackf"
    <3>1. file = Len(ses.files) /\ IsNull(last)
      BY <1>2, <2>3 DEF AgreeInv, EndInv, LastInv
    <3> QED
      BY <1>1, <1>2, <1>3, <2>3, <3>1, AgreeSendNull
  <2> QED
    BY <1>1, <2>1, <2>2, <2>3 DEF Waits
<1>5. dup' \in BOOLEAN
  BY DEF PcResend
<1>6. resent' \in 0..MaxResend
  BY <1>1, <1>2, YmodemAssumption DEF Types, GhostTypes
<1>7. GhostTypes'
  BY <1>1, <1>2, <1>5, <1>6 DEF Types, GhostTypes
<1>8. LastInv' /\ (sret' # "none" => spc' = "ret") /\ spc' \notin {"off", "hs"}
  BY <1>1, <1>2 DEF LastInv, YInv, ReturnInv, Waits
<1>9. toR' \in Seq(Packets)
  BY <1>1, <1>2, AppendTells
<1>10. /\ file' \in 1..Len(ses.files) /\ idx' \in 0..Blocks(file') /\ last' \in Packets
       /\ stries' \in 0..Tries /\ sret' \in {"none", "OK", "TMO", "CODE", "ACK"}
  BY <1>1, <1>2 DEF Types, SenderTypes, Blocks, Size, Width
<1> QED
  BY <1>1, <1>3, <1>4, <1>7, <1>8, <1>9, <1>10, SenderMoves

-----------------------------------------------------------------------------
(* The faults of the line, and the theorems.                               *)

\* What is on the line is less, or worse.
LEMMA LineYInv ==
  ASSUME YInv, Fault, UNCHANGED <<ses, rvars, svars, resent, dup, nowrite>>,
         toR' \in Seq(Packets), Thinner(toR, toR'),
         toS' \in Seq(Codes), Quieter(toS, toS'), OnlyC(toS) => OnlyC(toS')
  PROVE  YInv'
<1>1. faults' \in 0..MaxFaults
  BY FaultType DEF YInv, Types
<1>2. /\ store' \in Load /\ flen' \in Int /\ flen' >= -1 /\ stage' \in Stages
      /\ rtries' \in 0..(Tries - 1) /\ nowrite' \in BOOLEAN
  BY DEF YInv, Types, ReceiverTypes, GhostTypes, rvars, Stages
<1>3. UNCHANGED <<fds, done, rpc, rret>>
  BY DEF rvars
<1> QED
  BY <1>1, <1>2, <1>3, ReceiverStays

LEMMA LoseYInv == ASSUME YInv, Lose PROVE YInv'
<1>1. Fault /\ UNCHANGED <<ses, rvars, svars, resent, dup, nowrite>>
  BY DEF Lose
<1>2. toR \in Seq(Packets) /\ toS \in Seq(Codes) /\ Thinner(toR, toR) /\ Quieter(toS, toS)
  BY ThinnerSame DEF YInv, Types, WireTypes
<1>3. CASE \E i \in 1..Len(toR) : toR' = RemoveAt(toR, i) /\ toS' = toS
  BY <1>1, <1>2, <1>3, RemovedThinner, LineYInv
<1>4. CASE \E i \in 1..Len(toS) : toS' = RemoveAt(toS, i) /\ toR' = toR
  BY <1>1, <1>2, <1>4, CodesLost, LineYInv
<1> QED
  BY <1>3, <1>4 DEF Lose

LEMMA DamageYInv == ASSUME YInv, Damage PROVE YInv'
<1>1. Fault /\ UNCHANGED <<ses, rvars, svars, resent, dup, nowrite>>
  BY DEF Damage
<1>2. toR \in Seq(Packets) /\ toS \in Seq(Codes) /\ Thinner(toR, toR) /\ Quieter(toS, toS)
  BY ThinnerSame DEF YInv, Types, WireTypes
<1>3. ASSUME NEW i \in 1..Len(toR), NEW b \in {"short", "seq", "crc"}, IsPacket(toR[i]),
             toR' = [toR EXCEPT ![i].bad = b], toS' = toS
      PROVE  YInv'
  BY <1>1, <1>2, <1>3, DamagedThinner, LineYInv
<1>4. ASSUME NEW i \in 1..Len(toR), toR' = [toR EXCEPT ![i] = Char("junk")], toS' = toS
      PROVE  YInv'
  <2>1. Char("junk") \in Packets /\ Fainter(toR[i], Char("junk"))
    BY PacketTypes DEF Fainter
  <2> QED
    BY <1>1, <1>2, <1>4, <2>1, ReplacedThinner, LineYInv
<1>5. CASE \E i \in 1..Len(toS) : toS' = [toS EXCEPT ![i] = "junk"] /\ toR' = toR
  BY <1>1, <1>2, <1>5, CodesDamaged, LineYInv
<1> QED
  BY <1>3, <1>4, <1>5 DEF Damage

LEMMA InitYInv == Init => YInv
<1> SUFFICES ASSUME Init PROVE YInv
  OBVIOUS
<1> USE DEF Init
<1>1. ses \in Sessions /\ Len(ses.files) \in Nat \ {0} /\ Blocks(1) \in Nat
  BY SessionTypes
<1>2. WireTypes /\ ReturnInv /\ LastInv /\ FdInv
  BY DEF WireTypes, ReturnInv, LastInv, FdInv
<1>3. ReceiverTypes
  BY YmodemAssumption DEF ReceiverTypes, Load
<1>4. SenderTypes
  BY <1>1, PacketTypes, YmodemAssumption DEF SenderTypes
<1>5. /\ NoEot(toR) /\ NoNull(toR) /\ OnlyC(toS) /\ NoNak(toS) /\ OneNak(toS) /\ Len(done) = 0
  BY DEF NoEot, NoNull, OnlyC, NoNak, OneNak
<1>6. AgreeInv
  BY <1>5 DEF AgreeInv, BeforeInv, CountInv, LineInv, EndInv, Passed
<1>7. GhostTypes
  <2>1. faults \in 0..MaxFaults /\ resent \in 0..MaxResend
    BY YmodemAssumption
  <2> QED
    BY <2>1, Zenon DEF GhostTypes
<1> QED
  BY <1>2, <1>3, <1>4, <1>6, <1>7 DEF YInv, Types

LEMMA StutterYInv == ASSUME YInv, UNCHANGED vars PROVE YInv'
<1>1. /\ UNCHANGED <<ses, svars, resent, dup, fds, done, rpc, rret, store, flen, stage, rtries>>
      /\ UNCHANGED <<toR, toS, faults, nowrite>>
  BY DEF vars, rvars
<1>2. /\ store' \in Load /\ flen' \in Int /\ flen' >= -1 /\ stage' \in Stages
      /\ rtries' \in 0..(Tries - 1) /\ nowrite' \in BOOLEAN /\ faults' \in 0..MaxFaults
      /\ toR' \in Seq(Packets) /\ toS' \in Seq(Codes)
  BY <1>1 DEF YInv, Types, WireTypes, ReceiverTypes, GhostTypes, Stages
<1>3. Thinner(toR, toR') /\ Quieter(toS, toS')
  BY <1>1, ThinnerSame
<1> QED
  BY <1>1, <1>2, <1>3, ReceiverStays

LEMMA NextYInv == YInv /\ [Next]_vars => YInv'
<1> SUFFICES ASSUME YInv, [Next]_vars PROVE YInv'
  OBVIOUS
<1>1. CASE Receive
  BY <1>1, RHandshakeYInv, RTransPacketYInv, RTransEotYInv, RFinEotYInv, RFinPacketYInv,
     RWrongCodeYInv, RTimeoutYInv DEF Receive
<1>2. CASE SendStep
  BY <1>2, SGetExpectedYInv, SyWrongYInv DEF SendStep
<1>3. CASE RecvOpen \/ SendOpen
  BY <1>3, RecvOpenYInv, SendOpenYInv
<1>4. CASE SBeginFails \/ PcIgnore \/ PcResend \/ PcGiveUp
  BY <1>4, SBeginFailsYInv, PcIgnoreYInv, PcResendYInv, PcGiveUpYInv
<1>5. CASE Lose \/ Damage
  BY <1>5, LoseYInv, DamageYInv
<1>6. CASE UNCHANGED vars
  BY <1>6, StutterYInv
<1> QED
  BY <1>1, <1>2, <1>3, <1>4, <1>5, <1>6 DEF Next

LEMMA YmodemInductive == Spec => []YInv
  BY InitYInv, NextYInv, PTL DEF Spec

\* Every state of a session has the types that the two ends of ymodem.c rely on:
\* a sequence number is a byte, a try of the handshake is below the limit, the
\* number of a data packet never passes the end of its file.
THEOREM YmodemTypeCorrect == Spec => []TypeOK
<1>1. YInv => TypeOK
  <2> SUFFICES ASSUME YInv PROVE TypeOK
    OBVIOUS
  <2>1. /\ toR \in Seq(Packets) /\ toS \in Seq(Codes) /\ ses \in Sessions
        /\ SenderTypes /\ ReceiverTypes /\ GhostTypes
    BY DEF YInv, Types, WireTypes
  <2>2. \A i \in 1..Len(toR) : toR[i] \in Packets
    BY <2>1, ElementOfSeq
  <2>3. \A i \in 1..Len(toS) : toS[i] \in Codes
    BY <2>1, ElementOfSeq
  <2>4. \A i \in 1..Len(toR) : /\ toR[i].c \in {"SOH", "STX", "EOT", "junk"}
                               /\ toR[i].seq \in 0..(SeqRange - 1)
                               /\ toR[i].bad \in {"no", "short", "seq", "crc"}
    BY <2>2 DEF Packets
  <2> QED
    BY <2>1, <2>3, <2>4 DEF TypeOK, SenderTypes, ReceiverTypes, GhostTypes, Codes
<1> QED
  BY <1>1, YmodemInductive, PTL

\* When either _rym_do_send or _rym_do_recv returns RT_EOK the receiver has come
\* to the end of every file, whatever was lost, damaged or sent again on the way.
\* The argument is in CountInv and LineInv: a NAK is sent once for each file, at
\* its end, the sender takes none for another, and no EOT of a file overtakes the
\* packets before it.
THEOREM AgreeOnSuccessHolds == Spec => []AgreeOnSuccess
<1>1. YInv => AgreeOnSuccess
  BY DEF YInv, AgreeInv, EndInv, AgreeOnSuccess
<1> QED
  BY <1>1, YmodemInductive, PTL

\* ry holds one file open while _rym_do_trans runs, none between files and none
\* after a session that succeeded: on_begin and on_end are called in turn.
THEOREM FileClosedHolds == Spec => []FileClosed
<1>1. YInv => FileClosed
  BY DEF YInv, FdInv, FileClosed
<1> QED
  BY <1>1, YmodemInductive, PTL

-----------------------------------------------------------------------------
(* What is stored.  As long as no data packet is sent twice and no write   *)
(* fails, the two ends go in step: the data packet that the sender waits   *)
(* for is on its way or lost, or it has been stored, and then its ACK is   *)
(* the only one.                                                           *)

\* The bytes of the first n packets of file f, as they are stored.
Byte(f, j) == IF j <= Size(f) THEN <<f, j>> ELSE Pad
Stored(f, n) == IF ses.app = "ry" /\ Size(f) > 0 THEN Least(n * Width, Size(f)) ELSE n * Width
Holds(s, f, n) == Len(s) = Stored(f, n) /\ \A j \in 1..Len(s) : s[j] = Byte(f, j)

\* What is to come, for _rym_recv_data; the size, for ymodem_on_data.
FlenIs == flen = IF ses.app = "ota" THEN Size(file)
                 ELSE IF Size(file) = 0 THEN -1 ELSE Size(file) - Len(store)

\* The header of the sender's file, and the data packet it sent last, whole or
\* damaged.
IsHeader(p) == p.seq = 0 /\ p.load = <<<<0, Size(file)>>>>
IsData(p)   == idx > 0 /\ p.seq = idx % SeqRange /\ p.load = Data(file, idx).load

\* A header that the receiver takes for what it is.
IsAgain(p) == stage = "ESTABLISHED" /\ IsHeader(p)

OnlyHeaders(s) == \A i \in 1..Len(s) : IsLoad(s[i]) => IsHeader(s[i])
OnlyAgain(s)   == \A i \in 1..Len(s) : IsLoad(s[i]) => IsAgain(s[i])

\* At most one data packet, behind all headers.
OneData(s) ==
  /\ \A i \in 1..Len(s) : IsLoad(s[i]) => IsAgain(s[i]) \/ IsData(s[i])
  /\ \A i, j \in 1..Len(s) : i < j /\ IsLoad(s[i]) /\ IsLoad(s[j]) => IsAgain(s[i])

NoAck(s)  == \A i \in 1..Len(s) : s[i] # "ACK"
OneAck(s) == \A i, j \in 1..Len(s) : s[i] = "ACK" /\ s[j] = "ACK" => i = j

\* The sender still listens.
Listens == spc # "ret"

\* What the sender is at.
PositionInv ==
  /\ spc \in {"off", "hs", "ack0", "c0"} => idx = 0
  /\ spc \in {"ack0", "c0"} => last = Header(file)
  /\ spc = "ackd" => idx > 0
  /\ spc = "nak" => idx = Blocks(file)

HandshakeInv ==
  /\ store = <<>> /\ done = <<>> /\ idx = 0 /\ OnlyHeaders(toR)
  /\ spc \in {"off", "hs"} => NoLoad(toR)

\* Its last data packet has not been stored yet,
Pending ==
  /\ idx > 0 /\ Holds(store, file, idx - 1)
  /\ NoEot(toR) /\ OneData(toR)
  /\ spc \in {"ackd", "ret"} /\ (Listens => NoAck(toS))

\* or it has.
Settled ==
  /\ Holds(store, file, idx) /\ OnlyAgain(toR)
  /\ ~NoEot(toR) => idx = Blocks(file)
  /\ Listens => OneAck(toS) /\ (~NoAck(toS) => spc \in {"ack0", "ackd"})

TransInv ==
  /\ stage \in {"ESTABLISHED", "TRANSMITTING"} /\ spc \notin {"off", "hs"} /\ FlenIs
  /\ stage = "TRANSMITTING" => idx > 0
  /\ \/ Pending /\ (stage = "ESTABLISHED" => idx = 1)
     \/ Settled /\ (stage = "ESTABLISHED" => idx = 0)

\* Between two files.
BetweenInv ==
  /\ rpc = "fin1" => Len(done) = file /\ spc \in {"nak", "ack1", "ret"} /\ (Listens => NoAck(toS))
  /\ rpc = "fin2" =>
       /\ Listens => OneAck(toS) /\ (~NoAck(toS) => spc \in {"nak", "ack1"})
       /\ Len(done) # file => /\ spc \in {"ack0", "ret"} /\ idx = 0
                              /\ OnlyHeaders(toR) /\ OneEnd(toR)

\* What is asked for.
Intact == InSequence /\ \A f \in 1..Len(done) : done[f] = Whole(f)

StepInv ==
  /\ Intact
  /\ rpc \in {"off", "hs"} => HandshakeInv
  /\ rpc = "trans" => TransInv
  /\ BetweenInv

SInv == PositionInv /\ (~dup /\ ~nowrite => StepInv)

-----------------------------------------------------------------------------
(* Files and packets.                                                      *)

\* The packets of a file carry all of it.
LEMMA BlocksCover ==
  ASSUME ses \in Sessions, NEW f \in 1..Len(ses.files)
  PROVE  Size(f) <= Blocks(f) * Width
<1>1. PICK z \in Nat : z = Size(f)
  BY SessionTypes
<1>2. PICK w \in Nat \ {0} : w = Width
  BY SessionTypes
<1>3. z < (z \div w + 1) * w
  <2>1. z = w * (z \div w) + (z % w) /\ z % w \in 0..(w - 1) /\ z \div w \in Nat
    OBVIOUS
  <2>2. PICK q \in Nat : q = z \div w
    BY <2>1
  <2>3. (q + 1) * w = w * q + w
    OBVIOUS
  <2> QED
    BY <2>1, <2>2, <2>3
<1>4. z <= ((z + w - 1) \div w) * w
  <2>1. PICK y \in Nat : y = z + w - 1
    OBVIOUS
  <2>2. y = w * (y \div w) + (y % w) /\ y % w \in 0..(w - 1) /\ y \div w \in Nat
    OBVIOUS
  <2>3. PICK q \in Nat : q = y \div w
    BY <2>2
  <2>4. q * w = w * q
    OBVIOUS
  <2> QED
    BY <2>1, <2>2, <2>3, <2>4
<1> QED
  BY <1>1, <1>2, <1>3, <1>4 DEF Blocks

\* How much is stored, as numbers.
LEMMA StoredIs ==
  ASSUME ses \in Sessions, NEW f \in 1..Len(ses.files), NEW n \in Nat
  PROVE  /\ Stored(f, n) \in Nat /\ Stored(f, 0) = 0
         /\ Stored(f, n) <= n * Width /\ n * Width \in Nat
         /\ (n + 1) * Width = n * Width + Width
         /\ n <= Blocks(f) => Stored(f, n) <= Stored(f, Blocks(f))
<1>1. /\ Size(f) \in Nat /\ Width \in Nat \ {0} /\ Blocks(f) \in Nat
  BY SessionTypes
<1>2. n * Width \in Nat /\ 0 * Width = 0 /\ Blocks(f) * Width \in Nat
      /\ (n + 1) * Width = n * Width + Width
  BY <1>1
<1>3. n <= Blocks(f) => n * Width <= Blocks(f) * Width
  BY <1>1
<1> QED
  BY <1>1, <1>2, <1>3 DEF Stored, Least

\* What the whole file looks like when it is stored.
LEMMA WholeIs ==
  ASSUME ses \in Sessions, NEW f \in 1..Len(ses.files)
  PROVE  /\ Whole(f) \in Load /\ Len(Whole(f)) = Stored(f, Blocks(f))
         /\ \A j \in 1..Len(Whole(f)) : Whole(f)[j] = Byte(f, j)
<1>1. /\ Size(f) \in Nat /\ Width \in Nat \ {0} /\ Blocks(f) \in Nat /\ f \in Nat
  BY SessionTypes
<1>2. PICK n \in Nat : n = Blocks(f) * Width
  BY <1>1
<1>3. Size(f) <= n
  BY <1>2, BlocksCover
<1>4. Sent(f) = [j \in 1..n |-> Byte(f, j)]
  BY <1>2 DEF Sent, Byte
<1>5. \A j \in 1..n : Byte(f, j) \in Nat \X Nat
  BY <1>1 DEF Byte, Pad
<1>6. Sent(f) \in Load /\ Len(Sent(f)) = n /\ \A j \in 1..n : Sent(f)[j] = Byte(f, j)
  BY <1>4, <1>5 DEF Load
<1>7. CASE ses.app = "ry" /\ Size(f) > 0
  <2>1. Whole(f) = SubSeq(Sent(f), 1, Size(f)) /\ Stored(f, Blocks(f)) = Size(f)
    BY <1>1, <1>2, <1>3, <1>7 DEF Whole, Stored, Least
  <2>2. \A j \in 1..Size(f) : j \in 1..n /\ Sent(f)[j] \in Nat \X Nat
    BY <1>1, <1>3, <1>5, <1>6
  <2>3. /\ SubSeq(Sent(f), 1, Size(f)) \in Seq(Nat \X Nat)
        /\ Len(SubSeq(Sent(f), 1, Size(f))) = IF 1 <= Size(f) THEN Size(f) - 1 + 1 ELSE 0
        /\ \A j \in 1..(Size(f) - 1 + 1) : SubSeq(Sent(f), 1, Size(f))[j] = Sent(f)[1 + j - 1]
    BY <1>1, <2>2, SubSeqProperties
  <2>4. Len(Whole(f)) = Size(f) /\ Whole(f) \in Load
    BY <1>1, <1>7, <2>1, <2>3 DEF Load
  <2>5. \A j \in 1..Size(f) : Whole(f)[j] = Byte(f, j)
    BY <1>1, <1>6, <2>1, <2>2, <2>3
  <2> QED
    BY <2>1, <2>4, <2>5
<1>8. CASE ~(ses.app = "ry" /\ Size(f) > 0)
  BY <1>2, <1>6, <1>8 DEF Whole, Stored
<1> QED
  BY <1>7, <1>8

\* So many packets are the beginning of the file, and all of them are the file.
LEMMA HoldsPrefix ==
  ASSUME ses \in Sessions, NEW f \in 1..Len(ses.files), NEW s \in Load,
         NEW n \in 0..Blocks(f), Holds(s, f, n)
  PROVE  IsPrefix(s, Whole(f)) /\ (n = Blocks(f) => s = Whole(f))
<1> DEFINE t == Whole(f)
           l == Len(s)
<1>1. Blocks(f) \in Nat /\ n \in Nat /\ n <= Blocks(f)
  BY SessionTypes
<1>2. /\ t \in Load /\ Len(t) = Stored(f, Blocks(f)) /\ \A j \in 1..Len(t) : t[j] = Byte(f, j)
  BY WholeIs
<1>3. l = Stored(f, n) /\ \A j \in 1..l : s[j] = Byte(f, j)
  BY DEF Holds
<1>4. l \in Nat /\ Len(t) \in Nat /\ l <= Len(t)
  BY <1>1, <1>2, <1>3, StoredIs
<1> HIDE DEF t, l
<1>5. \A j \in 1..l : j \in 1..Len(t) /\ s[j] = t[j] /\ s[j] \in Nat \X Nat /\ t[j] \in Nat \X Nat
  <2>1. \A j \in 1..l : j \in 1..Len(t)
    BY <1>4
  <2>2. \A j \in 1..l : s[j] \in Nat \X Nat
    BY ElementOfSeq DEF Load, l
  <2> QED
    BY <1>2, <1>3, <2>1, <2>2
<1>6. SubSeq(s, 1, l) = SubSeq(t, 1, l)
  <2>1. /\ SubSeq(s, 1, l) \in Seq(Nat \X Nat)
        /\ Len(SubSeq(s, 1, l)) = IF 1 <= l THEN l - 1 + 1 ELSE 0
        /\ \A j \in 1..(l - 1 + 1) : SubSeq(s, 1, l)[j] = s[1 + j - 1]
    BY <1>4, <1>5, SubSeqProperties
  <2>2. /\ SubSeq(t, 1, l) \in Seq(Nat \X Nat)
        /\ Len(SubSeq(t, 1, l)) = IF 1 <= l THEN l - 1 + 1 ELSE 0
        /\ \A j \in 1..(l - 1 + 1) : SubSeq(t, 1, l)[j] = t[1 + j - 1]
    BY <1>4, <1>5, SubSeqProperties
  <2>3. Len(SubSeq(s, 1, l)) = l /\ Len(SubSeq(t, 1, l)) = l
    BY <1>4, <2>1, <2>2
  <2>4. \A j \in 1..l : SubSeq(s, 1, l)[j] = SubSeq(t, 1, l)[j]
    BY <1>4, <1>5, <2>1, <2>2
  <2> QED
    BY <2>1, <2>2, <2>3, <2>4, SeqEqual
<1>7. IsPrefix(s, t)
  BY <1>4, <1>6 DEF IsPrefix, l
<1>8. n = Blocks(f) => s = t
  <2> SUFFICES ASSUME n = Blocks(f) PROVE s = t
    OBVIOUS
  <2>1. Len(s) = Len(t) /\ \A j \in 1..Len(s) : s[j] = t[j]
    BY <1>2, <1>3, <1>5 DEF l
  <2> QED
    BY <1>2, <2>1, SeqEqual DEF Load
<1> QED
  BY <1>7, <1>8 DEF t

\* What a data packet carries.
LEMMA DataIs ==
  ASSUME ses \in Sessions, NEW f \in 1..Len(ses.files), NEW n \in Nat
  PROVE  /\ Data(f, n + 1).load \in Load /\ Len(Data(f, n + 1).load) = Width
         /\ \A j \in 1..Width : Data(f, n + 1).load[j] = Byte(f, n * Width + j)
<1> DEFINE l == [j \in 1..Width |-> LET at == ((n + 1) - 1) * Width + j
                                    IN  IF at <= Size(f) THEN <<f, at>> ELSE Pad]
<1>1. Data(f, n + 1).load = l
  BY DEF Data, Pkt
<1>2. Width \in Nat \ {0} /\ ((n + 1) - 1) * Width = n * Width
  BY SessionTypes
<1>3. l = [j \in 1..Width |-> Byte(f, n * Width + j)]
  BY <1>2 DEF Byte
<1>4. Data(f, n + 1) \in Packets
  BY DataType
<1>5. Data(f, n + 1).load \in Load
  BY <1>4 DEF Packets
<1> HIDE DEF l
<1> QED
  BY <1>1, <1>2, <1>3, <1>5 DEF Load

\* One packet more, of which so many bytes are stored.
LEMMA HoldsMore ==
  ASSUME ses \in Sessions, NEW f \in 1..Len(ses.files), NEW s \in Load, NEW n \in Nat,
         Holds(s, f, n), NEW w \in Nat, w <= Width, Len(s) + w = Stored(f, n + 1),
         w > 0 => Len(s) = n * Width
  PROVE  Holds(s \o SubSeq(Data(f, n + 1).load, 1, w), f, n + 1)
<1> DEFINE d == Data(f, n + 1).load
           e == SubSeq(d, 1, w)
<1>1. /\ d \in Load /\ Len(d) = Width /\ Width \in Nat
      /\ \A j \in 1..Width : d[j] = Byte(f, n * Width + j)
  BY DataIs, SessionTypes
<1>2. Len(s) \in Nat /\ n * Width \in Nat
  BY StoredIs, LenProperties DEF Load
<1> HIDE DEF d
<1>3. \A j \in 1..w : j \in 1..Width /\ d[j] \in Nat \X Nat
  <2>1. \A j \in 1..w : j \in 1..Len(d)
    BY <1>1
  <2> QED
    BY <1>1, <2>1, ElementOfSeq DEF Load
<1>4. /\ e \in Seq(Nat \X Nat) /\ Len(e) = (IF 1 <= w THEN w - 1 + 1 ELSE 0)
      /\ \A j \in 1..(w - 1 + 1) : e[j] = d[1 + j - 1]
  BY <1>3, SubSeqProperties
<1> HIDE DEF e
<1>5. Len(e) = w /\ \A j \in 1..w : e[j] = Byte(f, n * Width + j)
  <2>1. Len(e) = w
    BY <1>4
  <2>2. ASSUME NEW j \in 1..w PROVE e[j] = Byte(f, n * Width + j)
    <3>1. j \in 1..(w - 1 + 1) /\ 1 + j - 1 = j
      OBVIOUS
    <3>2. e[j] = d[j]
      BY <1>4, <3>1
    <3> QED
      BY <1>1, <1>3, <3>2
  <2> QED
    BY <2>1, <2>2
<1>6. /\ Len(s \o e) = Len(s) + Len(e)
      /\ \A i \in 1..(Len(s) + Len(e)) : (s \o e)[i] = IF i <= Len(s) THEN s[i] ELSE e[i - Len(s)]
  BY <1>4, ConcatProperties DEF Load
<1>7. ASSUME NEW j \in 1..Len(s \o e) PROVE (s \o e)[j] = Byte(f, j)
  <2>1. CASE j <= Len(s)
    <3>1. j \in 1..Len(s) /\ j \in 1..(Len(s) + Len(e))
      BY <1>2, <1>5, <1>6, <2>1
    <3> QED
      BY <1>6, <2>1, <3>1 DEF Holds
  <2>2. CASE ~(j <= Len(s))
    <3>1. j \in 1..(Len(s) + Len(e)) /\ j - Len(s) \in 1..w /\ w > 0
      BY <1>2, <1>5, <1>6, <2>2
    <3>2. (s \o e)[j] = Byte(f, n * Width + (j - Len(s)))
      BY <1>5, <1>6, <2>2, <3>1
    <3>3. n * Width + (j - Len(s)) = j
      BY <1>2, <3>1
    <3> QED
      BY <3>2, <3>3
  <2> QED
    BY <2>1, <2>2
<1>8. Len(s \o e) = Stored(f, n + 1)
  BY <1>5, <1>6
<1> QED
  BY <1>7, <1>8 DEF Holds, e, d

\* _rym_recv_data stores what the file still has of the packet.
LEMMA RyStores ==
  ASSUME ses \in Sessions, ses.app = "ry", file \in 1..Len(ses.files), store \in Load,
         NEW n \in Nat, Holds(store, file, n), FlenIs, RyData(Data(file, n + 1).load), ~nowrite'
  PROVE  /\ Holds(store', file, n + 1)
         /\ flen' = IF Size(file) = 0 THEN -1 ELSE Size(file) - Len(store')
<1> DEFINE d == Data(file, n + 1).load
           w == IF flen = -1 THEN Len(d) ELSE Least(Len(d), flen)
<1>1. /\ Len(d) = Width /\ Width \in Nat \ {0} /\ Size(file) \in Nat
  BY DataIs, SessionTypes
<1>2. /\ Len(store) = Stored(file, n) /\ Len(store) \in Nat /\ n * Width \in Nat
      /\ (n + 1) * Width = n * Width + Width /\ Stored(file, n + 1) \in Nat
  <2>1. Len(store) = Stored(file, n)
    BY DEF Holds
  <2>2. n + 1 \in Nat
    OBVIOUS
  <2> QED
    BY <1>1, <2>1, <2>2, StoredIs
<1>3. flen = IF Size(file) = 0 THEN -1 ELSE Size(file) - Len(store)
  BY DEF FlenIs
<1>4. flen' = (IF flen = -1 THEN -1 ELSE flen - w) /\ store' = store \o SubSeq(d, 1, w)
  <2>1. /\ flen' = IF flen = -1 THEN -1 ELSE flen - w
        /\ \/ store' = store \o SubSeq(d, 1, w) /\ UNCHANGED <<faults, nowrite>>
           \/ Fault /\ store' = store /\ nowrite' = TRUE
    BY DEF RyData
  <2> HIDE DEF d, w
  <2>2. nowrite' # TRUE
    BY Zenon
  <2> QED
    BY <2>1, <2>2
<1> HIDE DEF d
<1>5. CASE Size(file) = 0
  <2>1. w = Width /\ Stored(file, n) = n * Width /\ Stored(file, n + 1) = n * Width + Width
    BY <1>1, <1>2, <1>3, <1>5 DEF Stored
  <2> HIDE DEF w
  <2>2. w \in Nat /\ w <= Width /\ Len(store) + w = Stored(file, n + 1) /\ Len(store) = n * Width
    BY <1>1, <1>2, <2>1
  <2>3. Holds(store', file, n + 1)
    BY <1>4, <2>2, HoldsMore DEF d
  <2> QED
    BY <1>3, <1>4, <1>5, <2>3
<1>6. CASE Size(file) # 0
  <2>1. /\ Stored(file, n) = Least(n * Width, Size(file))
        /\ Stored(file, n + 1) = Least(n * Width + Width, Size(file))
    BY <1>1, <1>2, <1>6 DEF Stored
  <2>2. flen = Size(file) - Len(store) /\ flen >= 0 /\ flen # -1 /\ w = Least(Width, flen)
    BY <1>1, <1>2, <1>3, <1>6, <2>1 DEF Least
  <2> HIDE DEF w
  <2>3. /\ w \in Nat /\ w <= Width /\ w <= flen /\ Len(store) + w = Stored(file, n + 1)
        /\ w > 0 => Len(store) = n * Width
    BY <1>1, <1>2, <2>1, <2>2, SMTT(20) DEF Least
  <2>4. Holds(store', file, n + 1)
    BY <1>4, <2>3, HoldsMore DEF d
  <2>5. Len(store') = Len(store) + w
    BY <2>3, <2>4 DEF Holds
  <2>6. flen' = flen - w
    BY <1>4, <2>2
  <2>7. flen' = Size(file) - Len(store')
    <3>1. Len(store) \in Nat /\ Size(file) \in Nat /\ w \in Nat /\ flen = Size(file) - Len(store)
      BY <1>1, <1>2, <2>2, <2>3
    <3> QED
      BY <2>5, <2>6, <3>1
  <2> QED
    BY <1>6, <2>4, <2>7
<1> QED
  BY <1>5, <1>6

\* ymodem_on_data stores all of it.
LEMMA OtaStores ==
  ASSUME ses \in Sessions, ses.app = "ota", file \in 1..Len(ses.files), store \in Load,
         NEW n \in Nat, Holds(store, file, n), store' = store \o Data(file, n + 1).load
  PROVE  Holds(store', file, n + 1)
<1>1. /\ Data(file, n + 1).load \in Load /\ Len(Data(file, n + 1).load) = Width /\ Width \in Nat
  BY DataIs, SessionTypes
<1>2. SubSeq(Data(file, n + 1).load, 1, Width) = Data(file, n + 1).load
  BY <1>1, SubSeqFull DEF Load
<1>3. /\ Stored(file, n) = n * Width /\ Stored(file, n + 1) = n * Width + Width
      /\ Len(store) = n * Width
  BY StoredIs DEF Stored, Holds
<1>4. store' = store \o SubSeq(Data(file, n + 1).load, 1, Width)
  BY <1>2
<1>5. Width <= Width /\ Len(store) + Width = Stored(file, n + 1)
  BY <1>1, <1>3
<1> QED
  BY <1>1, <1>3, <1>4, <1>5, HoldsMore

-----------------------------------------------------------------------------
(* The line, as far as headers, data and ACKs go.                          *)

\* t has no ACK that s has not.
Fewer(s, t) == (NoAck(s) => NoAck(t)) /\ (OneAck(s) => OneAck(t))

LEMMA FewerByMap ==
  ASSUME NEW s, NEW t, NEW m \in [1..Len(t) -> 1..Len(s)],
         \A i, j \in 1..Len(t) : m[i] = m[j] => i = j,
         \A i \in 1..Len(t) : t[i] = "ACK" => s[m[i]] = "ACK"
  PROVE  Fewer(s, t)
<1>1. NoAck(s) => NoAck(t)
  BY DEF NoAck
<1>2. OneAck(s) => OneAck(t)
  BY DEF OneAck
<1> QED
  BY <1>1, <1>2 DEF Fewer

LEMMA AcksTail ==
  ASSUME NEW s \in Seq(Codes), s # <<>>
  PROVE  /\ Fewer(s, Tail(s))
         /\ Head(s) = "ACK" => ~NoAck(s) /\ (OneAck(s) => NoAck(Tail(s)))
<1> DEFINE t == Tail(s)
           h == Head(s)
           m == [i \in 1..Len(t) |-> i + 1]
<1>1. /\ t \in Seq(Codes) /\ Len(t) = Len(s) - 1 /\ Len(s) \in Nat \ {0}
      /\ \A i \in 1..Len(t) : t[i] = s[i + 1]
  BY HeadTailProperties, EmptySeq
<1>2. h = s[1]
  BY HeadTailProperties, <1>1
<1> HIDE DEF t, h
<1>3. 1 \in 1..Len(s) /\ \A i \in 1..Len(t) : i + 1 \in 1..Len(s) /\ 1 # i + 1
  BY <1>1
<1>4. h = "ACK" => ~NoAck(s) /\ (OneAck(s) => NoAck(t))
  BY <1>1, <1>2, <1>3 DEF NoAck, OneAck
<1>5. /\ m \in [1..Len(t) -> 1..Len(s)]
      /\ \A i, j \in 1..Len(t) : m[i] = m[j] => i = j
      /\ \A i \in 1..Len(t) : t[i] = "ACK" => s[m[i]] = "ACK"
  BY <1>1, <1>3
<1> HIDE DEF m
<1>6. Fewer(s, t)
  BY <1>5, FewerByMap
<1> QED
  BY <1>4, <1>6 DEF t, h

LEMMA AcksLost ==
  ASSUME NEW s \in Seq(Codes), NEW k \in 1..Len(s)
  PROVE  Fewer(s, RemoveAt(s, k))
<1> DEFINE t == RemoveAt(s, k)
           m == [i \in 1..Len(t) |-> IF i < k THEN i ELSE i + 1]
<1>1. /\ Len(t) = Len(s) - 1 /\ Len(s) \in Nat
      /\ \A i \in 1..(Len(s) - 1) : t[i] = IF i < k THEN s[i] ELSE s[i + 1]
  BY RemoveAtProperties, LenProperties
<1> HIDE DEF t
<1>2. /\ m \in [1..Len(t) -> 1..Len(s)]
      /\ \A i, j \in 1..Len(t) : m[i] = m[j] => i = j
      /\ \A i \in 1..Len(t) : t[i] = "ACK" => s[m[i]] = "ACK"
  BY <1>1
<1> HIDE DEF m
<1> QED
  BY <1>2, FewerByMap DEF t

LEMMA AcksDamaged ==
  ASSUME NEW s \in Seq(Codes), NEW k \in 1..Len(s)
  PROVE  Fewer(s, [s EXCEPT ![k] = "junk"])
<1> DEFINE t == [s EXCEPT ![k] = "junk"]
<1>1. /\ Len(t) = Len(s)
      /\ \A i \in 1..Len(s) : t[i] = IF i = k THEN "junk" ELSE s[i]
  BY ExceptSeq DEF Codes
<1> HIDE DEF t
<1>2. Fewer(s, t)
  BY <1>1 DEF NoAck, OneAck, Fewer
<1> QED
  BY <1>2 DEF t

\* The receiver answers.
LEMMA AcksSent ==
  ASSUME NEW s \in Seq(Codes), NEW c \in Codes
  PROVE  /\ c # "ACK" => Fewer(s, Append(s, c))
         /\ NoAck(s) => OneAck(Append(s, c)) /\ OneAck(s \o <<"ACK", "C">>)
<1> DEFINE t == Append(s, c)
           u == s \o <<"ACK", "C">>
<1>1. /\ Len(t) = Len(s) + 1 /\ Len(s) \in Nat
      /\ \A i \in 1..Len(s) : t[i] = s[i]
      /\ t[Len(s) + 1] = c
  BY AppendProperties, LenProperties
<1>2. <<"ACK", "C">> \in Seq(Codes) /\ Len(<<"ACK", "C">>) = 2 /\ <<"ACK", "C">>[2] # "ACK"
  BY DEF Codes
<1>3. /\ Len(u) = Len(s) + 2
      /\ \A i \in 1..(Len(s) + 2) : u[i] = IF i <= Len(s) THEN s[i] ELSE <<"ACK", "C">>[i - Len(s)]
  BY <1>1, <1>2, ConcatProperties
<1> HIDE DEF t, u
<1>4. \A i \in 1..Len(t) : i \in 1..Len(s) \/ i = Len(s) + 1
  BY <1>1
<1>5. c # "ACK" => Fewer(s, t)
  BY <1>1, <1>4 DEF NoAck, OneAck, Fewer
<1>6. NoAck(s) => OneAck(t)
  BY <1>1, <1>4 DEF NoAck, OneAck
<1>7. ASSUME NoAck(s), NEW i \in 1..Len(u), u[i] = "ACK" PROVE i = Len(s) + 1
  <2>1. ~(i <= Len(s))
    BY <1>1, <1>3, <1>7 DEF NoAck
  <2>2. i - Len(s) # 2
    BY <1>2, <1>3, <1>7, <2>1
  <2> QED
    BY <1>1, <1>3, <2>1, <2>2
<1>8. NoAck(s) => OneAck(u)
  BY <1>7 DEF OneAck
<1> QED
  BY <1>5, <1>6, <1>8 DEF t, u

\* Packets are lost, damaged or read.
LEMMA LineKept ==
  ASSUME Thinner(toR, toR'), UNCHANGED <<ses, file, idx, stage>>
  PROVE  /\ OnlyHeaders(toR) => OnlyHeaders(toR)'
         /\ OnlyAgain(toR) => OnlyAgain(toR)'
         /\ OneData(toR) => OneData(toR)'
<1>1. PICK m \in [1..Len(toR') -> 1..Len(toR)] :
        /\ \A i, j \in 1..Len(toR') : i < j => m[i] < m[j]
        /\ \A i \in 1..Len(toR') : IsLoad(toR'[i]) => /\ toR'[i].load = toR[m[i]].load
                                                      /\ toR'[i].seq = toR[m[i]].seq
  BY DEF Thinner, SubLine
<1>2. \A i \in 1..Len(toR') : IsLoad(toR'[i]) => IsLoad(toR[m[i]])
  BY <1>1 DEF IsLoad
<1>3. \A i \in 1..Len(toR') : IsLoad(toR'[i]) =>
        /\ IsHeader(toR[m[i]]) => IsHeader(toR[i])'
        /\ IsAgain(toR[m[i]]) => IsAgain(toR[i])'
        /\ IsData(toR[m[i]]) => IsData(toR[i])'
  BY <1>1 DEF IsHeader, IsAgain, IsData, Data, Pkt, Size, Width
<1>4. OnlyHeaders(toR) => OnlyHeaders(toR)'
  BY <1>1, <1>2, <1>3 DEF OnlyHeaders
<1>5. OnlyAgain(toR) => OnlyAgain(toR)'
  BY <1>1, <1>2, <1>3 DEF OnlyAgain
<1>6. OneData(toR) => OneData(toR)'
  BY <1>1, <1>2, <1>3 DEF OneData
<1> QED
  BY <1>4, <1>5, <1>6

\* A packet is sent that is no data.
LEMMA LineMore ==
  ASSUME toR \in Seq(Packets), NEW p \in Packets, toR' = Append(toR, p),
         UNCHANGED <<ses, file, stage>>
  PROVE  /\ OnlyHeaders(toR) /\ (IsLoad(p) => IsHeader(p)) => OnlyHeaders(toR)'
         /\ OnlyAgain(toR) /\ (IsLoad(p) => IsAgain(p)) => OnlyAgain(toR)'
<1>1. /\ Len(toR') = Len(toR) + 1 /\ Len(toR) \in Nat
      /\ \A i \in 1..Len(toR) : toR'[i] = toR[i]
      /\ toR'[Len(toR) + 1] = p
  BY AppendProperties, LenProperties
<1>2. \A i \in 1..Len(toR') : i \in 1..Len(toR) \/ i = Len(toR) + 1
  BY <1>1
<1>3. ASSUME OnlyHeaders(toR), IsLoad(p) => IsHeader(p) PROVE OnlyHeaders(toR)'
  <2> SUFFICES ASSUME NEW i \in 1..Len(toR'), IsLoad(toR'[i])
               PROVE  toR'[i].seq = 0 /\ toR'[i].load = <<<<0, Size(file)>>>>
    BY DEF OnlyHeaders, IsHeader, Size
  <2>1. CASE i \in 1..Len(toR)
    BY <1>1, <1>3, <2>1 DEF OnlyHeaders, IsHeader
  <2>2. CASE i = Len(toR) + 1
    BY <1>1, <1>3, <2>2 DEF IsHeader
  <2> QED
    BY <1>2, <2>1, <2>2
<1>4. ASSUME OnlyAgain(toR), IsLoad(p) => IsAgain(p) PROVE OnlyAgain(toR)'
  <2> SUFFICES ASSUME NEW i \in 1..Len(toR'), IsLoad(toR'[i])
               PROVE  /\ stage = "ESTABLISHED"
                      /\ toR'[i].seq = 0 /\ toR'[i].load = <<<<0, Size(file)>>>>
    BY DEF OnlyAgain, IsAgain, IsHeader, Size
  <2>1. CASE i \in 1..Len(toR)
    BY <1>1, <1>4, <2>1 DEF OnlyAgain, IsAgain, IsHeader
  <2>2. CASE i = Len(toR) + 1
    BY <1>1, <1>4, <2>2 DEF IsAgain, IsHeader
  <2> QED
    BY <1>2, <2>1, <2>2
<1> QED
  BY <1>3, <1>4

\* The next data packet is sent.
LEMMA LineData ==
  ASSUME toR \in Seq(Packets), ses \in Sessions, file \in 1..Len(ses.files), idx \in Nat,
         toR' = Append(toR, Data(file, idx + 1)), idx' = idx + 1,
         UNCHANGED <<ses, file, stage>>, OnlyAgain(toR)
  PROVE  OneData(toR)'
<1> DEFINE p == Data(file, idx + 1)
<1>1. p \in Packets
  BY DataType
<1>2. p.seq = idx' % SeqRange /\ p.load = Data(file, idx').load
  BY DEF Data, Pkt
<1> HIDE DEF p
<1>3. /\ Len(toR') = Len(toR) + 1 /\ Len(toR) \in Nat
      /\ \A i \in 1..Len(toR) : toR'[i] = toR[i]
      /\ toR'[Len(toR) + 1] = p
  BY <1>1, AppendProperties, LenProperties DEF p
<1>4. \A i \in 1..Len(toR') : i \in 1..Len(toR) \/ i = Len(toR) + 1
  BY <1>3
<1>5. \A i, j \in 1..Len(toR') : i < j => i \in 1..Len(toR)
  BY <1>3
<1>6. \A i \in 1..Len(toR) : IsLoad(toR'[i]) => IsAgain(toR[i])'
  <2> TAKE i \in 1..Len(toR)
  <2>1. IsLoad(toR'[i]) => stage = "ESTABLISHED" /\ toR'[i].seq = 0 /\ toR'[i].load = <<<<0, Size(file)>>>>
    BY <1>3 DEF OnlyAgain, IsAgain, IsHeader
  <2> QED
    BY <2>1 DEF IsAgain, IsHeader, Size
<1>7. IsData(toR[Len(toR)])'
  <2>1. toR'[Len(toR')] = p /\ idx' > 0
    BY <1>3
  <2> QED
    BY <1>2, <2>1 DEF IsData, Data, Pkt, Size, Width
<1>8. \A i \in 1..Len(toR') : IsLoad(toR'[i]) => IsAgain(toR[i])' \/ IsData(toR[i])'
  BY <1>3, <1>4, <1>6, <1>7
<1> QED
  BY <1>5, <1>6, <1>8 DEF OneData

-----------------------------------------------------------------------------
(* The steps, as far as the two ends go in step.                           *)

LEMMA IntactKept ==
  ASSUME Intact, UNCHANGED <<ses, store, done>>, nowrite => nowrite' PROVE Intact'
<1>1. InSequence'
  BY DEF Intact, InSequence, Whole, Sent, Blocks, Size, Width
<1>2. (\A f \in 1..Len(done) : done[f] = Whole(f))'
  BY DEF Intact, Whole, Sent, Blocks, Size, Width
<1> QED
  BY <1>1, <1>2 DEF Intact

\* The receiver returns.
LEMMA StepReturn ==
  ASSUME StepInv, rpc' = "ret", UNCHANGED <<ses, store, done>>, nowrite => nowrite' PROVE StepInv'
<1>1. Intact'
  BY IntactKept DEF StepInv
<1> QED
  BY <1>1 DEF StepInv, BetweenInv

\* Nothing happens but that the line has less, or that the sender gives up.
LEMMA StepQuiet ==
  ASSUME StepInv, UNCHANGED <<ses, stage, store, flen, done, file, idx, nowrite>>,
         rpc' = rpc \/ (rpc = "off" /\ rpc' = "hs"),
         spc' \in {spc, "ret"} \/ (spc = "off" /\ spc' = "hs"),
         Thinner(toR, toR'), Fewer(toS, toS')
  PROVE  StepInv'
<1>1. Intact'
  BY IntactKept DEF StepInv
<1>2. /\ OnlyHeaders(toR) => OnlyHeaders(toR)'
      /\ OnlyAgain(toR) => OnlyAgain(toR)'
      /\ OneData(toR) => OneData(toR)'
  BY LineKept
<1>3. /\ NoLoad(toR) => NoLoad(toR')
      /\ NoEot(toR) => NoEot(toR')
      /\ OneEnd(toR) => OneEnd(toR')
      /\ NoAck(toS) => NoAck(toS')
      /\ OneAck(toS) => OneAck(toS')
  BY DEF Thinner, Fewer
<1>4. ASSUME HandshakeInv PROVE HandshakeInv'
  BY <1>2, <1>3, <1>4 DEF HandshakeInv
<1>5. ASSUME Pending PROVE Pending'
  <2>1. Holds(store, file, idx - 1)'
    BY <1>5 DEF Pending, Holds, Stored, Byte, Size, Width
  <2> QED
    BY <1>2, <1>3, <1>5, <2>1 DEF Pending, Listens
<1>6. ASSUME Settled, spc \notin {"off", "hs"} PROVE Settled'
  <2>1. Holds(store, file, idx)'
    BY <1>6 DEF Settled, Holds, Stored, Byte, Size, Width
  <2>2. Blocks(file)' = Blocks(file)
    BY DEF Blocks, Size, Width
  <2> QED
    BY <1>2, <1>3, <1>6, <2>1, <2>2 DEF Settled, Listens
<1>7. ASSUME TransInv PROVE TransInv'
  <2>1. FlenIs'
    BY <1>7 DEF TransInv, FlenIs, Size
  <2> QED
    BY <1>5, <1>6, <1>7, <2>1 DEF TransInv
<1>8. ASSUME BetweenInv, rpc' \in {"fin1", "fin2"} PROVE BetweenInv'
  BY <1>2, <1>3, <1>8 DEF BetweenInv, Listens
<1> QED
  BY <1>1, <1>4, <1>7, <1>8 DEF StepInv, BetweenInv

\* A header is accepted.
LEMMA StepBegin ==
  ASSUME YInv, StepInv, rpc \in {"hs", "fin2"}, toR # <<>>, IsLoad(Head(toR)), toR' = Tail(toR),
         BeginOK(Head(toR).load[1][2]), toS' = Printed \o <<"ACK", "C">>,
         rpc' = "trans", stage' = "ESTABLISHED", UNCHANGED <<ses, done, spc, file, idx>>
  PROVE  StepInv'
<1>1. /\ toR \in Seq(Packets) /\ toS \in Seq(Codes) /\ ses \in Sessions
      /\ file \in 1..Len(ses.files)
  BY DEF YInv, Types, WireTypes, SenderTypes
<1>2. /\ ~NoLoad(toR) /\ (OneEnd(toR) => NoEot(toR')) /\ (NoEot(toR) => NoEot(toR'))
  BY <1>1, HeadTells, TailThinner DEF Thinner
<1>3. /\ spc \in {"ack0", "ret"} /\ idx = 0 /\ OnlyHeaders(toR) /\ NoEot(toR')
      /\ Listens => NoAck(toS)
  <2>1. CASE rpc = "hs"
    <3>1. OnlyC(toS) => NoAck(toS)
      BY DEF OnlyC, NoAck
    <3> QED
      BY <1>2, <2>1, <3>1 DEF YInv, AgreeInv, BeforeInv, StepInv, HandshakeInv
  <2>2. CASE rpc = "fin2"
    BY <1>2, <2>2 DEF YInv, AgreeInv, LineInv, StepInv, BetweenInv, Listens
  <2> QED
    BY <2>1, <2>2
<1>4. Head(toR) = toR[1] /\ 1 \in 1..Len(toR)
  BY <1>1, EmptySeq, HeadTailProperties
<1>5. Head(toR).load = <<<<0, Size(file)>>>> /\ Size(file) \in Nat
  BY <1>1, <1>3, <1>4, SessionTypes DEF OnlyHeaders, IsHeader
<1>6. Head(toR).load[1][2] = Size(file)
  BY <1>5
<1>7. store' = <<>> /\ flen' = (IF ses.app = "ota" THEN Size(file)
                                ELSE IF Size(file) = 0 THEN -1 ELSE Size(file))
  BY <1>6 DEF BeginOK
<1>8. Holds(store, file, idx)'
  <2>1. Stored(file, 0) = 0
    BY <1>1, StoredIs
  <2>2. Stored(file, idx)' = 0
    BY <1>3, <2>1 DEF Stored, Size, Width
  <2> QED
    BY <1>7, <2>2 DEF Holds
<1>9. OnlyAgain(toR)'
  <2>1. /\ Len(toR') = Len(toR) - 1 /\ Len(toR) \in Nat
        /\ \A i \in 1..Len(toR') : toR'[i] = toR[i + 1] /\ i + 1 \in 1..Len(toR)
    BY <1>1, HeadTailProperties, LenProperties
  <2>2. \A i \in 1..Len(toR') :
          IsLoad(toR'[i]) => toR'[i].seq = 0 /\ toR'[i].load = <<<<0, Size(file)>>>>
    BY <1>3, <2>1 DEF OnlyHeaders, IsHeader
  <2> QED
    BY <2>2 DEF OnlyAgain, IsAgain, IsHeader, Size
<1>10. Listens' => OneAck(toS') /\ spc' = "ack0"
  <2>1. Printed \in Seq(Codes) /\ Fewer(toS, Printed)
    <3>1. Printed \in Seq(Codes) /\ (Printed = toS \/ Printed = Append(toS, "junk"))
      BY <1>1, TextSent DEF Printed
    <3> QED
      BY <1>1, <3>1, AcksSent DEF Fewer, Codes
  <2>2. NoAck(toS) => OneAck(toS')
    BY <2>1, AcksSent DEF Fewer, Codes
  <2> QED
    BY <1>3, <2>2 DEF Listens
<1>11. Settled'
  BY <1>3, <1>8, <1>9, <1>10 DEF Settled
<1>12. FlenIs'
  BY <1>5, <1>7 DEF FlenIs, Size
<1>13. TransInv'
  BY <1>3, <1>11, <1>12 DEF TransInv
<1>14. Intact'
  <2>1. IsPrefix(<<>>, Whole(file))
    <3>1. Stored(file, 0) = 0 /\ 0 \in 0..Blocks(file) /\ <<>> \in Load
      BY <1>1, StoredIs, SessionTypes DEF Load
    <3>2. Holds(<<>>, file, 0)
      BY <3>1 DEF Holds
    <3> QED
      BY <1>1, <3>1, <3>2, HoldsPrefix
  <2>2. InSequence'
    BY <1>1, <1>7, <2>1 DEF InSequence, Whole, Sent, Blocks, Size, Width
  <2>3. (\A f \in 1..Len(done) : done[f] = Whole(f))'
    BY DEF StepInv, Intact, Whole, Sent, Blocks, Size, Width
  <2> QED
    BY <2>2, <2>3 DEF Intact
<1> QED
  BY <1>13, <1>14 DEF StepInv, BetweenInv

\* What is stored is the beginning of the sender's file.
LEMMA IntactHeld ==
  ASSUME ses \in Sessions, file \in 1..Len(ses.files), store' \in Load, UNCHANGED <<ses, done>>,
         NEW n \in 0..Blocks(file), Holds(store', file, n), Intact
  PROVE  Intact'
<1>1. PICK g \in 1..Len(ses.files) : IsPrefix(store', Whole(g))
  BY HoldsPrefix
<1>2. InSequence'
  BY <1>1 DEF InSequence, Whole, Sent, Blocks, Size, Width
<1>3. (\A f \in 1..Len(done) : done[f] = Whole(f))'
  BY DEF Intact, Whole, Sent, Blocks, Size, Width
<1> QED
  BY <1>2, <1>3 DEF Intact

\* A data packet is stored.
LEMMA StepData ==
  ASSUME YInv, StepInv, rpc = "trans", rpc' = "trans", toR # <<>>, toR' = Tail(toR),
         IsPacket(Head(toR)), ~RepeatedHeader(Head(toR)), stage' = "TRANSMITTING",
         toS' = Append(toS, "ACK"), UNCHANGED <<ses, done, spc, file, idx>>, ~nowrite',
         store' \in Load,
         \/ ses.app = "ry" /\ RyData(Head(toR).load)
         \/ ses.app = "ota" /\ store' = store \o Head(toR).load /\ flen' = flen
  PROVE  StepInv'
<1> DEFINE p == Head(toR)
<1>1. /\ toR \in Seq(Packets) /\ toS \in Seq(Codes) /\ ses \in Sessions
      /\ file \in 1..Len(ses.files) /\ store \in Load /\ idx \in 0..Blocks(file)
      /\ Blocks(file) \in Nat
  BY SessionTypes DEF YInv, Types, WireTypes, SenderTypes, ReceiverTypes
<1>2. /\ toR' \in Seq(Packets) /\ (NoEot(toR) => NoEot(toR')) /\ (IsNull(p) => ~NoNull(toR))
  BY <1>1, HeadTells, TailThinner DEF Thinner
<1>3. NoNull(toR)
  BY Counts DEF YInv, AgreeInv, CountInv, EndInv
<1>4. IsLoad(p)
  BY <1>2, <1>3 DEF IsNull, IsLoad
<1>5. /\ p = toR[1] /\ 1 \in 1..Len(toR) /\ Len(toR') = Len(toR) - 1 /\ Len(toR) \in Nat
      /\ \A i \in 1..Len(toR') : toR'[i] = toR[i + 1] /\ i + 1 \in 1..Len(toR) /\ 1 < i + 1
  BY <1>1, EmptySeq, HeadTailProperties
<1> HIDE DEF p
<1>6. ~IsAgain(p)
  BY DEF RepeatedHeader, IsAgain, IsHeader, p
<1>7. TransInv
  BY DEF StepInv
<1>8. Pending
  <2>1. ~OnlyAgain(toR)
    BY <1>4, <1>5, <1>6 DEF OnlyAgain
  <2> QED
    BY <1>7, <2>1 DEF TransInv, Settled
<1>9. IsData(p) /\ NoLoad(toR')
  <2>1. OneData(toR)
    BY <1>8 DEF Pending
  <2>2. IsData(p)
    BY <1>4, <1>5, <1>6, <2>1 DEF OneData
  <2>3. NoLoad(toR')
    BY <1>4, <1>5, <1>6, <2>1 DEF OneData, NoLoad
  <2> QED
    BY <2>2, <2>3
<1>10. PICK n \in Nat : idx = n + 1 /\ idx - 1 = n
  BY <1>1, <1>8 DEF Pending
<1>11. p.load = Data(file, n + 1).load /\ Holds(store, file, n)
  BY <1>8, <1>9, <1>10 DEF IsData, Pending
<1>12. Holds(store', file, n + 1) /\ FlenIs'
  <2>1. CASE ses.app = "ry" /\ RyData(p.load)
    <3>1. /\ Holds(store', file, n + 1)
          /\ flen' = IF Size(file) = 0 THEN -1 ELSE Size(file) - Len(store')
      BY <1>1, <1>7, <1>11, <2>1, RyStores DEF TransInv
    <3> QED
      BY <2>1, <3>1 DEF FlenIs, Size
  <2>2. CASE ses.app = "ota" /\ store' = store \o p.load /\ flen' = flen
    <3>1. Holds(store', file, n + 1)
      BY <1>1, <1>11, <2>2, OtaStores
    <3> QED
      BY <1>7, <2>2, <3>1 DEF TransInv, FlenIs, Size
  <2> QED
    BY <2>1, <2>2 DEF p
<1>13. Holds(store, file, idx)'
  BY <1>10, <1>12 DEF Holds, Stored, Byte, Size, Width
<1>14. OnlyAgain(toR)'
  BY <1>9 DEF OnlyAgain, NoLoad
<1>15. Listens' => OneAck(toS') /\ spc' = "ackd"
  BY <1>1, <1>8, AcksSent DEF Pending, Listens, Codes
<1>16. Settled'
  <2>1. NoEot(toR')
    BY <1>2, <1>8 DEF Pending
  <2> QED
    BY <1>13, <1>14, <1>15, <2>1 DEF Settled
<1>17. TransInv'
  BY <1>7, <1>8, <1>12, <1>16 DEF TransInv, Pending
<1>18. Intact'
  <2>1. n + 1 \in 0..Blocks(file) /\ Intact
    BY <1>1, <1>10 DEF StepInv
  <2> QED
    BY <1>1, <1>12, <2>1, IntactHeld
<1> QED
  BY <1>17, <1>18 DEF StepInv, BetweenInv

\* The first EOT: all of the file has been stored.
LEMMA StepEnd ==
  ASSUME YInv, StepInv, rpc = "trans", rpc' = "fin1", toR # <<>>, IsEot(Head(toR)),
         done' = Append(done, store), toS' = Append(toS, "NAK"),
         UNCHANGED <<ses, store, spc, file, idx, nowrite>>
  PROVE  StepInv'
<1>1. /\ toR \in Seq(Packets) /\ toS \in Seq(Codes) /\ ses \in Sessions
      /\ file \in 1..Len(ses.files) /\ store \in Load /\ idx \in 0..Blocks(file)
      /\ done \in Seq(Load) /\ Len(done) \in Nat /\ file \in Nat
  BY Counts DEF YInv, Types, WireTypes, SenderTypes, ReceiverTypes
<1>2. ~NoEot(toR)
  BY <1>1, HeadTells
<1>3. Settled /\ idx = Blocks(file)
  BY <1>2 DEF StepInv, TransInv, Pending, Settled
<1>4. store = Whole(file)
  BY <1>1, <1>3, HoldsPrefix DEF Settled
<1>5. file = Len(done) + 1
  BY <1>1 DEF YInv, AgreeInv, CountInv
<1>6. /\ Len(done') = Len(done) + 1
      /\ \A i \in 1..Len(done) : done'[i] = done[i]
      /\ done'[Len(done) + 1] = store
  BY <1>1, AppendProperties
<1>7. Intact'
  <2>1. InSequence'
    BY SMTT(20) DEF StepInv, Intact, InSequence, Whole, Sent, Blocks, Size, Width
  <2>2. \A f \in 1..Len(done') : done'[f] = Whole(f)
    BY <1>1, <1>4, <1>5, <1>6 DEF StepInv, Intact
  <2>3. (\A f \in 1..Len(done) : done[f] = Whole(f))'
    BY <2>2 DEF Whole, Sent, Blocks, Size, Width
  <2> QED
    BY <2>1, <2>3 DEF Intact
<1>8. spc \in {"nak", "ret"}
  <2>1. ~Early /\ ~Passed
    BY <1>1, <1>2, <1>5 DEF YInv, AgreeInv, LineInv, CountInv
  <2> QED
    BY <2>1, ExpectedIs DEF YInv, Types, SenderTypes, Early, Passed, Waits
<1>9. Listens' => NoAck(toS')
  <2>1. Listens => NoAck(toS)
    BY <1>3, <1>8 DEF Settled
  <2> QED
    BY <1>1, <2>1, AcksSent DEF Listens, Fewer, Codes
<1>10. BetweenInv'
  BY <1>5, <1>6, <1>8, <1>9 DEF BetweenInv
<1> QED
  BY <1>7, <1>10 DEF StepInv

\* The second.
LEMMA StepFin ==
  ASSUME YInv, StepInv, rpc = "fin1", rpc' = "fin2", toS' = toS \o <<"ACK", "C">>,
         UNCHANGED <<ses, store, done, spc, file, nowrite>>
  PROVE  StepInv'
<1>1. Intact'
  BY IntactKept DEF StepInv
<1>2. /\ Len(done) = file /\ spc \in {"nak", "ack1", "ret"}
      /\ Listens => NoAck(toS)
  BY DEF StepInv, BetweenInv
<1>3. Listens' => OneAck(toS')
  BY <1>2, AcksSent DEF Listens, YInv, Types, WireTypes, Codes
<1>4. BetweenInv'
  BY <1>2, <1>3 DEF BetweenInv, Listens
<1> QED
  BY <1>1, <1>4 DEF StepInv

\* Where the receiver may be, from where the sender is.
LEMMA Apart ==
  ASSUME YInv, StepInv
  PROVE  /\ spc = "hs" => rpc \in {"off", "hs", "ret"}
         /\ spc = "ack0" => \/ rpc \in {"off", "hs", "ret"}
                            \/ rpc = "trans" /\ Settled
                            \/ rpc = "fin2" /\ Len(done) # file
         /\ spc \in {"c0", "ackd"} => rpc \in {"trans", "ret"}
         /\ spc = "c0" /\ rpc = "trans" => Settled /\ NoAck(toS)
         /\ spc = "nak" => rpc \in {"trans", "fin1", "fin2", "ret"} /\ (rpc = "trans" => Settled /\ NoAck(toS))
         /\ spc = "ack1" => rpc \in {"fin1", "fin2", "ret"}
         /\ spc \in {"c1", "ackf"} => rpc \in {"fin2", "ret"} /\ (rpc = "fin2" => NoAck(toS))
<1>1. rpc \in {"off", "hs", "trans", "fin1", "fin2", "ret"} /\ Len(done) \in Nat /\ file \in Nat
  BY Counts DEF YInv, Types, ReceiverTypes
<1>2. rpc \in {"off", "hs"} => spc \in {"off", "hs", "ack0", "ret"}
  BY DEF YInv, AgreeInv, BeforeInv
<1>3. rpc = "trans" => /\ spc \notin {"off", "hs", "ack1", "c1", "ackf"}
                       /\ spc \in {"ack0", "c0", "nak"} => Settled
                       /\ spc \in {"c0", "nak"} => NoAck(toS)
  BY <1>1 DEF StepInv, TransInv, Pending, Settled, Listens, YInv, AgreeInv, CountInv, Passed
<1>4. rpc = "fin1" => spc \in {"nak", "ack1", "ret"}
  BY DEF StepInv, BetweenInv
<1>5. rpc = "fin2" => /\ spc \in {"off", "hs", "ack0", "c0", "ackd"} => spc = "ack0" /\ Len(done) # file
                      /\ spc \in {"c1", "ackf"} => NoAck(toS)
  BY DEF StepInv, BetweenInv, YInv, AgreeInv, LineInv, Early, Listens
<1> QED
  BY <1>1, <1>2, <1>3, <1>4, <1>5

LEMMA HeaderIs ==
  /\ IsHeader(Header(file)) /\ Header(file).load # <<>>
<1>1. 0 % SeqRange = 0
  BY YmodemAssumption
<1> QED
  BY <1>1 DEF IsHeader, Header, Pkt

\* The sender sends its header, for the first time or again.
LEMMA StepHeader ==
  ASSUME YInv, PositionInv, StepInv, UNCHANGED <<ses, rvars, file, idx, nowrite>>,
         \/ spc = "hs" /\ spc' = "ack0"
         \/ spc \in {"ack0", "c0"} /\ spc' = spc,
         toR' = Append(toR, Header(file)), Fewer(toS, toS')
  PROVE  StepInv'
<1>1. UNCHANGED <<rpc, stage, store, flen, done>>
  BY DEF rvars
<1>2. toR \in Seq(Packets) /\ ses \in Sessions /\ file \in 1..Len(ses.files)
  BY DEF YInv, Types, WireTypes, SenderTypes
<1>3. Header(file) \in Packets /\ IsLoad(Header(file)) /\ ~IsEot(Header(file)) /\ IsHeader(Header(file))
  BY <1>2, HeaderType, HeaderIs DEF Packets, IsLoad, IsEot
<1>4. /\ OnlyHeaders(toR) => OnlyHeaders(toR)'
      /\ OnlyAgain(toR) /\ stage = "ESTABLISHED" => OnlyAgain(toR)'
      /\ NoEot(toR) => NoEot(toR')
      /\ OneEnd(toR) => OneEnd(toR')
  BY <1>1, <1>2, <1>3, LineMore, AppendTells DEF IsAgain
<1>5. idx = 0 /\ Intact'
  BY <1>1, IntactKept DEF PositionInv, StepInv
<1>6. CASE rpc \in {"off", "hs"}
  <2>1. HandshakeInv'
    BY <1>1, <1>4, <1>5, <1>6 DEF StepInv, HandshakeInv, NoLoad, OnlyHeaders
  <2> QED
    BY <1>1, <1>5, <1>6, <2>1 DEF StepInv, BetweenInv
<1>7. CASE rpc = "trans"
  <2>1. Settled /\ stage = "ESTABLISHED" /\ NoEot(toR)
    BY <1>5, <1>7, Apart DEF StepInv, TransInv, YInv, AgreeInv, LineInv, Early
  <2>2. Holds(store, file, idx)'
    BY <1>1, <2>1 DEF Settled, Holds, Stored, Byte, Size, Width
  <2>3. Settled'
    BY <1>4, <2>1, <2>2 DEF Settled, Listens, Fewer
  <2>4. FlenIs' /\ stage' = "ESTABLISHED" /\ idx' = 0
    BY <1>1, <1>5, <1>7, <2>1 DEF StepInv, TransInv, FlenIs, Size
  <2>5. TransInv'
    BY <2>3, <2>4 DEF TransInv
  <2> QED
    BY <1>1, <1>5, <1>7, <2>5 DEF StepInv, BetweenInv
<1>8. CASE rpc = "fin2"
  <2>1. spc = "ack0" /\ Len(done) # file
    BY <1>8, Apart
  <2>2. BetweenInv'
    BY <1>1, <1>4, <1>5, <1>8, <2>1 DEF StepInv, BetweenInv, Listens, Fewer
  <2> QED
    BY <1>1, <1>5, <1>8, <2>2 DEF StepInv
<1>9. CASE rpc = "ret"
  BY <1>1, <1>5, <1>9 DEF StepInv, BetweenInv
<1> QED
  BY <1>6, <1>7, <1>8, <1>9, Apart

\* The ACK of the header is there.
LEMMA StepAnswered ==
  ASSUME YInv, StepInv, UNCHANGED <<ses, rvars, file, idx, toR, nowrite>>,
         spc = "ack0", spc' = "c0", toS # <<>>, Head(toS) = "ACK", toS' = Tail(toS)
  PROVE  StepInv'
<1>1. UNCHANGED <<rpc, stage, store, flen, done>>
  BY DEF rvars
<1>2. ~NoAck(toS) /\ (OneAck(toS) => NoAck(toS')) /\ Fewer(toS, toS') /\ ~OnlyC(toS)
  BY AcksTail, CodesTail DEF YInv, Types, WireTypes
<1>3. Intact'
  BY <1>1, IntactKept DEF StepInv
<1>4. rpc \notin {"off", "hs"}
  BY <1>2 DEF YInv, AgreeInv, BeforeInv
<1>5. CASE rpc = "trans"
  <2>1. Settled
    BY <1>5, Apart
  <2>2. Holds(store, file, idx)' /\ OnlyAgain(toR)' /\ Blocks(file)' = Blocks(file)
    BY <1>1, <2>1 DEF Settled, Holds, Stored, Byte, Size, Width, OnlyAgain, IsAgain, IsHeader, Blocks
  <2>3. Settled'
    BY <1>2, <2>1, <2>2 DEF Settled, Listens, Fewer
  <2>4. FlenIs'
    BY <1>1, <1>5 DEF StepInv, TransInv, FlenIs, Size
  <2>5. (stage = "ESTABLISHED" => idx = 0) /\ (stage = "TRANSMITTING" => idx > 0)
        /\ stage \in {"ESTABLISHED", "TRANSMITTING"}
    BY <1>5 DEF StepInv, TransInv, Pending
  <2>6. TransInv'
    BY <1>1, <2>3, <2>4, <2>5 DEF TransInv
  <2> QED
    BY <1>1, <1>3, <1>5, <2>6 DEF StepInv, BetweenInv
<1>6. CASE rpc = "fin2"
  BY <1>2, <1>6, Apart DEF StepInv, BetweenInv, Listens
<1>7. CASE rpc = "ret"
  BY <1>1, <1>3, <1>7 DEF StepInv, BetweenInv
<1> QED
  BY <1>4, <1>5, <1>6, <1>7, Apart

\* The sender is told to go on with its data: what it sent last has been stored.
LEMMA GoesOn ==
  ASSUME YInv, StepInv, rpc = "trans", toS # <<>>, toS' = Tail(toS),
         spc = "c0" \/ (spc = "ackd" /\ Head(toS) = "ACK")
  PROVE  ~Pending /\ Settled /\ NoEot(toR) /\ NoAck(toS')
<1>1. /\ Head(toS) = "ACK" => ~NoAck(toS) /\ (OneAck(toS) => NoAck(toS'))
      /\ NoAck(toS) => NoAck(toS')
  BY AcksTail DEF YInv, Types, WireTypes, Fewer
<1>2. NoEot(toR)
  BY DEF YInv, AgreeInv, LineInv, Early
<1>3. CASE spc = "c0"
  BY <1>1, <1>2, <1>3, Apart DEF Pending
<1>4. CASE spc = "ackd" /\ Head(toS) = "ACK"
  <2>1. ~Pending /\ Settled
    BY <1>1, <1>4 DEF StepInv, TransInv, Pending, Listens
  <2> QED
    BY <1>1, <1>2, <1>4, <2>1 DEF Settled, Listens
<1> QED
  BY <1>3, <1>4

\* The next data packet.
LEMMA StepNextData ==
  ASSUME YInv, PositionInv, StepInv, UNCHANGED <<ses, rvars, file, nowrite>>,
         toS # <<>>, toS' = Tail(toS), spc = "c0" \/ (spc = "ackd" /\ Head(toS) = "ACK"),
         spc' = "ackd", idx' = idx + 1, toR' = Append(toR, Data(file, idx + 1))
  PROVE  StepInv'
<1>1. UNCHANGED <<rpc, stage, store, flen, done>>
  BY DEF rvars
<1>2. /\ toR \in Seq(Packets) /\ ses \in Sessions /\ file \in 1..Len(ses.files) /\ idx \in Nat
  BY SessionTypes DEF YInv, Types, WireTypes, SenderTypes
<1>3. Intact'
  BY <1>1, IntactKept DEF StepInv
<1>4. CASE rpc = "trans"
  <2>1. ~Pending /\ Settled /\ NoEot(toR) /\ NoAck(toS')
    BY <1>4, GoesOn
  <2>2. OneData(toR)'
    BY <1>1, <1>2, <2>1, LineData DEF Settled
  <2>3. Data(file, idx + 1) \in Packets /\ ~IsEot(Data(file, idx + 1))
    BY <1>2, DataType DEF Packets, IsLoad, IsEot
  <2>4. NoEot(toR')
    <3> DEFINE p == Data(file, idx + 1)
    <3>1. toR' = Append(toR, p) /\ p \in Packets /\ ~IsEot(p)
      BY <2>3
    <3> HIDE DEF p
    <3> QED
      BY <1>2, <2>1, <3>1, AppendTells
  <2>5. Holds(store, file, idx - 1)'
    <3>1. idx' - 1 = idx
      BY <1>2
    <3> QED
      BY <1>1, <2>1, <3>1 DEF Settled, Holds, Stored, Byte, Size, Width
  <2>6. idx' > 0
    BY <1>2
  <2>7. Pending'
    BY <2>1, <2>2, <2>4, <2>5, <2>6 DEF Pending
  <2>8. FlenIs'
    BY <1>1, <1>4 DEF StepInv, TransInv, FlenIs, Size
  <2>9. (stage = "ESTABLISHED" => idx' = 1) /\ stage \in {"ESTABLISHED", "TRANSMITTING"}
    <3>1. stage = "ESTABLISHED" => idx = 0
      BY <1>4, <2>1 DEF StepInv, TransInv
    <3> QED
      BY <1>4, <3>1 DEF StepInv, TransInv
  <2>10. TransInv'
    BY <1>1, <2>6, <2>7, <2>8, <2>9 DEF TransInv
  <2> QED
    BY <1>1, <1>3, <1>4, <2>10 DEF StepInv, BetweenInv
<1>5. CASE rpc = "ret"
  BY <1>1, <1>3, <1>5 DEF StepInv, BetweenInv
<1> QED
  BY <1>4, <1>5, Apart

\* An EOT, for the first time or again, while the receiver waits for data.
LEMMA StepSendEot ==
  ASSUME YInv, StepInv, UNCHANGED <<ses, rvars, file, idx, nowrite>>,
         rpc = "trans", ~Pending, Settled, idx = Blocks(file), spc' = "nak", NoAck(toS'),
         NEW p \in Packets, IsEot(p), toR' = Append(toR, p)
  PROVE  StepInv'
<1>1. UNCHANGED <<rpc, stage, store, flen, done>>
  BY DEF rvars
<1>2. Intact'
  BY <1>1, IntactKept DEF StepInv
<1>3. OnlyAgain(toR)'
  <2>1. ~IsLoad(p) /\ toR \in Seq(Packets)
    BY DEF Packets, IsLoad, IsEot, YInv, Types, WireTypes
  <2> QED
    BY <1>1, <2>1, LineMore DEF Settled
<1>4. Holds(store, file, idx)' /\ Blocks(file)' = Blocks(file)
  BY <1>1 DEF Settled, Holds, Stored, Byte, Size, Width, Blocks
<1>5. OneAck(toS')
  BY DEF NoAck, OneAck
<1>6. Settled'
  BY <1>3, <1>4, <1>5 DEF Settled
<1>7. FlenIs'
  BY <1>1 DEF StepInv, TransInv, FlenIs, Size
<1>8. TransInv'
  BY <1>1, <1>6, <1>7 DEF StepInv, TransInv
<1> QED
  BY <1>1, <1>2, <1>8 DEF StepInv, BetweenInv

\* The sender goes on between two files, or gives up.
LEMMA StepBetween ==
  ASSUME YInv, StepInv, UNCHANGED <<ses, rvars, file, nowrite>>, Fewer(toS, toS'),
         spc \in {"nak", "ack1", "c1", "ackf"}, rpc # "trans",
         \/ spc' \in {"nak", "ack1", "ret"}
         \/ spc' \in {"c1", "ackf"} /\ rpc # "fin1" /\ (rpc = "fin2" => NoAck(toS'))
  PROVE  StepInv'
<1>1. UNCHANGED <<rpc, stage, store, flen, done>>
  BY DEF rvars
<1>2. Intact' /\ rpc \notin {"off", "hs"}
  BY <1>1, IntactKept, Apart DEF StepInv
<1>3. rpc = "fin2" => Len(done) = file
  BY DEF StepInv, BetweenInv
<1>4. rpc = "fin1" => Len(done) = file /\ NoAck(toS) /\ (spc' \in {"nak", "ack1", "ret"})
  BY DEF StepInv, BetweenInv, Listens
<1>5. rpc = "fin2" => OneAck(toS)
  BY DEF StepInv, BetweenInv, Listens
<1>6. BetweenInv'
  BY <1>1, <1>3, <1>4, <1>5 DEF BetweenInv, Listens, Fewer
<1> QED
  BY <1>1, <1>2, <1>6 DEF StepInv

\* The header of the next file.
LEMMA StepNextFile ==
  ASSUME YInv, StepInv, UNCHANGED <<ses, rvars, nowrite>>, toS # <<>>, toS' = Tail(toS),
         spc = "c1", spc' = "ack0", file < Len(ses.files), file' = file + 1, idx' = 0,
         toR' = Append(toR, Header(file + 1))
  PROVE  StepInv'
<1>1. UNCHANGED <<rpc, stage, store, flen, done>>
  BY DEF rvars
<1>2. /\ toR \in Seq(Packets) /\ ses \in Sessions /\ Len(done) = file /\ file \in Nat
      /\ file + 1 \in 1..Len(ses.files)
  BY Counts DEF YInv, Types, WireTypes, SenderTypes, AgreeInv, CountInv, Passed
<1>3. Intact' /\ rpc \in {"fin2", "ret"} /\ (rpc = "fin2" => NoAck(toS))
  BY <1>1, IntactKept, Apart DEF StepInv
<1>4. CASE rpc = "fin2"
  <2>1. NoLoad(toR)
    BY <1>2, <1>4 DEF YInv, AgreeInv, LineInv
  <2>2. NoAck(toS') /\ OneAck(toS')
    <3>1. NoAck(toS')
      BY <1>3, <1>4, AcksTail DEF YInv, Types, WireTypes, Fewer
    <3> QED
      BY <3>1 DEF NoAck, OneAck
  <2> DEFINE p == Header(file + 1)
  <2>3. p \in Packets /\ IsLoad(p) /\ ~IsEot(p)
    BY <1>2, HeaderType DEF Packets, IsLoad, IsEot
  <2>4. p.seq = 0 /\ p.load = <<<<0, Size(file + 1)>>>>
    <3>1. 0 % SeqRange = 0
      BY YmodemAssumption
    <3> QED
      BY <3>1 DEF Header, Pkt
  <2>5. toR' = Append(toR, p)
    OBVIOUS
  <2> HIDE DEF p
  <2>6. OneEnd(toR')
    <3>1. NoLoad(toR) => OneEnd(toR)
      BY DEF NoLoad, OneEnd
    <3> QED
      BY <1>2, <2>1, <2>3, <2>5, <3>1, AppendTells
  <2>7. OnlyHeaders(toR)'
    <3>1. /\ Len(toR') = Len(toR) + 1 /\ Len(toR) \in Nat
          /\ \A i \in 1..Len(toR) : toR'[i] = toR[i]
          /\ toR'[Len(toR) + 1] = p
      BY <1>2, <2>3, <2>5, AppendProperties, LenProperties
    <3>2. \A i \in 1..Len(toR') : IsLoad(toR'[i]) => toR'[i] = p
      BY <2>1, <3>1 DEF NoLoad
    <3> QED
      BY <2>4, <3>2 DEF OnlyHeaders, IsHeader, Size
  <2>8. BetweenInv'
    BY <1>1, <1>4, <2>2, <2>6, <2>7 DEF BetweenInv
  <2> QED
    BY <1>1, <1>3, <1>4, <2>8 DEF StepInv
<1>5. CASE rpc = "ret"
  BY <1>1, <1>3, <1>5 DEF StepInv, BetweenInv
<1> QED
  BY <1>3, <1>4, <1>5

-----------------------------------------------------------------------------
(* The actions.                                                            *)

LEMMA PositionKept ==
  ASSUME SInv, UNCHANGED <<ses, svars>> PROVE PositionInv'
  BY DEF SInv, PositionInv, svars, Header, Pkt, Blocks, Size, Width

LEMMA InStep ==
  ASSUME SInv, dup => dup', nowrite => nowrite', ~dup', ~nowrite' PROVE PositionInv /\ StepInv
  BY DEF SInv

LEMMA RecvOpenSInv == ASSUME YInv, SInv, RecvOpen PROVE SInv'
<1>1. PositionInv'
  BY PositionKept DEF RecvOpen
<1>2. ASSUME ~dup', ~nowrite' PROVE StepInv'
  <2>1. StepInv
    BY <1>2, InStep DEF RecvOpen
  <2>2. /\ UNCHANGED <<ses, store, flen, done, spc, file, idx, nowrite>>
        /\ rpc = "off" /\ rpc' = "hs"
    BY DEF RecvOpen, svars
  <2>3. OnlyHeaders(toR)' /\ (NoLoad(toR) => NoLoad(toR')) /\ HandshakeInv
    BY <2>1, <2>2 DEF RecvOpen, StepInv, HandshakeInv, OnlyHeaders, IsHeader, Size
  <2>4. HandshakeInv'
    BY <2>2, <2>3 DEF HandshakeInv
  <2>5. Intact'
    BY <2>1, <2>2, IntactKept DEF StepInv
  <2> QED
    BY <2>2, <2>4, <2>5 DEF StepInv, BetweenInv
<1> QED
  BY <1>1, <1>2 DEF SInv

\* The receiver waits on, and what comes off the line is passed over; or it
\* returns.
LEMMA ReceiverSInv ==
  ASSUME YInv, SInv, UNCHANGED <<ses, svars, store, done, dup, nowrite>>,
         \/ rpc' = "ret"
         \/ rpc' = rpc /\ UNCHANGED <<stage, flen>> /\ Thinner(toR, toR') /\ Fewer(toS, toS')
  PROVE  SInv'
<1>1. PositionInv'
  BY PositionKept
<1>2. ASSUME ~dup', ~nowrite' PROVE StepInv'
  <2>1. StepInv
    BY <1>2, InStep
  <2>2. UNCHANGED <<spc, file, idx>>
    BY DEF svars
  <2> QED
    BY <2>1, <2>2, StepReturn, StepQuiet
<1> QED
  BY <1>1, <1>2 DEF SInv

LEMMA AgainSInv ==
  ASSUME YInv, SInv, HandshakeAgain, toR' = toR \/ (toR # <<>> /\ toR' = Tail(toR)),
         UNCHANGED <<ses, svars, stage, dup, nowrite>>
  PROVE  SInv'
<1>1. CASE rtries + 1 = Tries
  BY <1>1, ReceiverSInv DEF HandshakeAgain, RReturn
<1>2. CASE rtries + 1 # Tries
  <2>1. toS' = Append(toS, "C") /\ UNCHANGED <<rpc, store, flen, done>>
    BY <1>2 DEF HandshakeAgain
  <2>2. Thinner(toR, toR')
    BY TailThinner, ThinnerSame DEF YInv, Types, WireTypes
  <2>3. Fewer(toS, toS')
    BY <2>1, AcksSent DEF YInv, Types, WireTypes, Codes
  <2> QED
    BY <2>1, <2>2, <2>3, ReceiverSInv
<1> QED
  BY <1>1, <1>2

LEMMA BeginSInv ==
  ASSUME YInv, SInv, rpc \in {"hs", "fin2"}, toR # <<>>, IsLoad(Head(toR)), toR' = Tail(toR),
         Begin(Head(toR).load[1][2]), UNCHANGED <<ses, svars, dup, nowrite>>
  PROVE  SInv'
<1> DEFINE n == Head(toR).load[1][2]
<1> HIDE DEF n
<1>1. CASE /\ BeginOK(n) /\ toS' = Printed \o TransCodes
           /\ rpc' = "trans" /\ stage' = "ESTABLISHED" /\ done' = done
  <2>1. PositionInv'
    BY PositionKept
  <2>2. ASSUME ~dup', ~nowrite' PROVE StepInv'
    <3>1. StepInv
      BY <2>2, InStep
    <3>2. UNCHANGED <<spc, file, idx>> /\ toS' = Printed \o <<"ACK", "C">>
      BY <1>1 DEF svars, TransCodes
    <3> QED
      BY <1>1, <3>1, <3>2, StepBegin DEF n
  <2> QED
    BY <2>1, <2>2 DEF SInv
<1>2. CASE RReturn("CAN")
  BY <1>2, ReceiverSInv DEF RReturn
<1> QED
  BY <1>1, <1>2 DEF Begin, n

LEMMA RHandshakeSInv == ASSUME YInv, SInv, RHandshake PROVE SInv'
<1> DEFINE p == Head(toR)
<1>1. /\ rpc = "hs" /\ toR # <<>> /\ toR' = Tail(toR)
      /\ UNCHANGED <<ses, svars, dup, nowrite>>
  BY DEF RHandshake
<1>2. ~IsNull(p)
  BY <1>1, HeadTells DEF YInv, Types, WireTypes, AgreeInv, BeforeInv
<1> HIDE DEF p
<1>3. CASE IsPacket(p) /\ Begin(p.load[1][2])
  <2>1. IsLoad(p)
    BY <1>2, <1>3 DEF IsNull, IsLoad
  <2> QED
    BY <1>1, <1>3, <2>1, BeginSInv DEF p
<1>4. CASE \E e \in {"DSZ", "SEQ", "CRC"} : RReturn(e)
  BY <1>1, <1>4, ReceiverSInv DEF RReturn
<1>5. CASE HandshakeAgain /\ UNCHANGED <<stage, faults>>
  BY <1>1, <1>5, AgainSInv
<1> QED
  BY <1>3, <1>4, <1>5 DEF RHandshake, p

LEMMA RTransPacketSInv == ASSUME YInv, SInv, RTransPacket PROVE SInv'
<1> DEFINE p == Head(toR)
<1>1. /\ rpc = "trans" /\ toR # <<>> /\ IsPacket(p) /\ toR' = Tail(toR)
      /\ UNCHANGED <<ses, svars, dup>> /\ UNCHANGED <<spc, file, idx>>
  BY DEF RTransPacket, svars
<1>2. Thinner(toR, toR') /\ Fewer(toS, toS) /\ p \in Packets
  BY <1>1, TailThinner, HeadTells DEF YInv, Types, WireTypes, Fewer
<1>3. p.load \in Load /\ store \in Load
  BY <1>2 DEF Packets, YInv, Types, ReceiverTypes
<1> HIDE DEF p
<1>4. CASE /\ \E e \in {"DSZ", "SEQ", "CRC", "CAN"} : RReturn(e)
           /\ nowrite' = nowrite
  BY <1>1, <1>4, ReceiverSInv DEF RReturn
<1>5. CASE UNCHANGED <<rpc, stage, rret, store, flen, fds, done, toS, faults, nowrite>>
  BY <1>1, <1>2, <1>5, ReceiverSInv
<1>6. CASE /\ ~RepeatedHeader(p) /\ stage' = "TRANSMITTING"
           /\ toS' = Append(toS, "ACK") /\ UNCHANGED <<rpc, done>>
           /\ \/ ses.app = "ry" /\ RyData(p.load)
              \/ ses.app = "ota" /\ store' = store \o p.load /\ flen' = flen /\ nowrite' = nowrite
  <2>1. PositionInv'
    BY <1>1, PositionKept
  <2>2. store' \in Load
    <3>1. CASE RyData(p.load)
      BY <1>3, <3>1, RyDataTypes
    <3>2. CASE store' = store \o p.load
      BY <1>3, <3>2, ConcatProperties DEF Load
    <3> QED
      BY <1>6, <3>1, <3>2
  <2>3. nowrite => nowrite'
    <3>1. CASE RyData(p.load)
      <4>1. nowrite' = nowrite \/ nowrite' = TRUE
        BY <3>1 DEF RyData
      <4> QED
        BY <4>1, Zenon
    <3> QED
      BY <1>6, <3>1
  <2>4. ASSUME ~dup', ~nowrite' PROVE StepInv'
    <3>1. StepInv
      BY <1>1, <2>3, <2>4, InStep
    <3> QED
      BY <1>1, <1>6, <2>2, <2>4, <3>1, StepData DEF p
  <2> QED
    BY <2>1, <2>4 DEF SInv
<1> QED
  BY <1>4, <1>5, <1>6 DEF RTransPacket, OtaData, p

LEMMA RTransEotSInv == ASSUME YInv, SInv, RTransEot PROVE SInv'
<1>1. PositionInv'
  BY PositionKept DEF RTransEot
<1>2. ASSUME ~dup', ~nowrite' PROVE StepInv'
  <2>1. StepInv
    BY <1>2, InStep DEF RTransEot
  <2>2. UNCHANGED <<spc, file, idx>>
    BY DEF RTransEot, svars
  <2> QED
    BY <2>1, <2>2, StepEnd DEF RTransEot, IsEot
<1> QED
  BY <1>1, <1>2 DEF SInv

LEMMA RFinEotSInv == ASSUME YInv, SInv, RFinEot PROVE SInv'
<1>1. PositionInv'
  BY PositionKept DEF RFinEot
<1>2. ASSUME ~dup', ~nowrite' PROVE StepInv'
  <2>1. StepInv
    BY <1>2, InStep DEF RFinEot
  <2>2. UNCHANGED <<spc, file, idx>>
    BY DEF RFinEot, svars
  <2> QED
    BY <2>1, <2>2, StepFin DEF RFinEot
<1> QED
  BY <1>1, <1>2 DEF SInv

LEMMA RFinPacketSInv == ASSUME YInv, SInv, RFinPacket PROVE SInv'
<1> DEFINE p == Head(toR)
<1>1. /\ rpc = "fin2" /\ toR # <<>> /\ toR' = Tail(toR)
      /\ UNCHANGED <<ses, svars, dup, nowrite>>
  BY DEF RFinPacket
<1> HIDE DEF p
<1>2. CASE IsLoad(p) /\ Begin(p.load[1][2])
  BY <1>1, <1>2, BeginSInv DEF p
<1>3. CASE \E e \in {"DSZ", "SEQ", "CRC", "OK"} : RReturn(e)
  BY <1>1, <1>3, ReceiverSInv DEF RReturn
<1> QED
  BY <1>2, <1>3 DEF RFinPacket, NextFile, IsLoad, p

LEMMA RWrongCodeSInv == ASSUME YInv, SInv, RWrongCode PROVE SInv'
  BY ReceiverSInv DEF RWrongCode, RReturn

LEMMA RTimeoutSInv == ASSUME YInv, SInv, RTimeout PROVE SInv'
<1>1. UNCHANGED <<ses, toR, stage, svars, dup, nowrite>>
  BY DEF RTimeout
<1>2. CASE HandshakeAgain
  BY <1>1, <1>2, AgainSInv
<1>3. CASE RReturn("CODE")
  BY <1>1, <1>3, ReceiverSInv DEF RReturn
<1> QED
  BY <1>2, <1>3 DEF RTimeout

\* The sender passes something over, or gives up.
LEMMA SenderSInv ==
  ASSUME YInv, SInv, UNCHANGED <<ses, rvars, toR, file, idx, dup, nowrite>>,
         \/ spc' = "ret"
         \/ spc' = spc /\ last' = last
         \/ spc = "off" /\ spc' = "hs",
         toS' \in {toS, <<>>} \/ (toS # <<>> /\ toS' = Tail(toS))
  PROVE  SInv'
<1>1. PositionInv'
  BY DEF SInv, PositionInv, Header, Pkt, Blocks, Size, Width
<1>2. Fewer(toS, toS') /\ Thinner(toR, toR')
  <2>1. Fewer(toS, toS) /\ Fewer(toS, <<>>)
    BY DEF Fewer, NoAck, OneAck
  <2> QED
    BY <2>1, AcksTail, ThinnerSame DEF YInv, Types, WireTypes
<1>3. ASSUME ~dup', ~nowrite' PROVE StepInv'
  <2>1. StepInv
    BY <1>3, InStep
  <2>2. UNCHANGED <<rpc, stage, store, flen, done>>
    BY DEF rvars
  <2> QED
    BY <1>2, <2>1, <2>2, StepQuiet
<1> QED
  BY <1>1, <1>3 DEF SInv

LEMMA SyWrongSInv == ASSUME YInv, SInv, SyWrong PROVE SInv'
<1>1. /\ UNCHANGED <<ses, rvars, file, idx, dup, nowrite>>
      /\ toS' = toS \/ (toS # <<>> /\ toS' = Tail(toS))
      /\ toR' = toR /\ (spc' = "ret" \/ (spc' = spc /\ last' = last))
  BY DEF SyWrong, SReturn, SWait
<1> QED
  BY <1>1, SenderSInv

LEMMA QuietSInv ==
  ASSUME YInv, SInv, SendOpen \/ SBeginFails \/ PcIgnore \/ PcGiveUp PROVE SInv'
<1>1. CASE SendOpen
  BY <1>1, SenderSInv DEF SendOpen
<1>2. CASE SBeginFails
  BY <1>2, SenderSInv DEF SBeginFails, SReturn
<1>3. CASE PcIgnore
  BY <1>3, SenderSInv DEF PcIgnore, svars
<1>4. CASE PcGiveUp
  BY <1>4, SenderSInv DEF PcGiveUp, SReturn
<1> QED
  BY <1>1, <1>2, <1>3, <1>4

LEMMA SGetExpectedSInv == ASSUME YInv, SInv, SGetExpected PROVE SInv'
<1>1. /\ Sending /\ toS # <<>> /\ Head(toS) = Expected[spc] /\ toS' = Tail(toS)
      /\ UNCHANGED <<ses, rvars, stries, faults, resent, dup, nowrite>> /\ rpc' = rpc
  BY DEF SGetExpected, rvars
<1>2. /\ Fewer(toS, toS') /\ PositionInv
      /\ Head(toS) = "ACK" => ~NoAck(toS) /\ (OneAck(toS) => NoAck(toS'))
  BY <1>1, AcksTail DEF YInv, Types, WireTypes, SInv
<1>3. /\ file \in 1..Len(ses.files) /\ idx \in 0..Blocks(file) /\ Blocks(file) \in Nat
      /\ Char("EOT") \in Packets /\ IsEot(Char("EOT"))
  BY SessionTypes, PacketTypes DEF YInv, Types, WireTypes, SenderTypes
<1>4. /\ spc = "ack0" \/ spc = "ackd" \/ spc = "ack1" => Head(toS) = "ACK"
      /\ spc = "nak" => Head(toS) = "NAK"
  BY <1>1, ExpectedIs
<1> USE DEF SInv
<1>5. CASE spc = "hs" /\ Send(Header(file), "ack0") /\ UNCHANGED <<file, idx>>
  <2>1. toR' = Append(toR, Header(file)) /\ last' = Header(file) /\ spc' = "ack0"
    BY <1>5 DEF Send
  <2>2. PositionInv'
    BY <1>1, <1>2, <1>5, <2>1 DEF PositionInv, Header, Pkt, Size
  <2>3. ASSUME ~dup', ~nowrite' PROVE StepInv'
    BY <1>1, <1>2, <1>5, <2>1, <2>3, InStep, StepHeader
  <2> QED
    BY <2>2, <2>3
<1>6. CASE spc = "ack0" /\ SWait("c0") /\ UNCHANGED <<file, idx>>
  <2>1. toR' = toR /\ last' = last /\ spc' = "c0"
    BY <1>6 DEF SWait
  <2>2. PositionInv'
    BY <1>1, <1>2, <1>6, <2>1 DEF PositionInv, Header, Pkt, Size
  <2>3. ASSUME ~dup', ~nowrite' PROVE StepInv'
    BY <1>1, <1>4, <1>6, <2>1, <2>3, InStep, StepAnswered
  <2> QED
    BY <2>2, <2>3
<1>7. CASE /\ spc \in {"c0", "ackd"} /\ idx < Blocks(file) /\ Send(Data(file, idx + 1), "ackd")
           /\ idx' = idx + 1 /\ file' = file
  <2>1. toR' = Append(toR, Data(file, idx + 1)) /\ spc' = "ackd"
    BY <1>7 DEF Send
  <2>2. PositionInv'
    BY <1>3, <1>7, <2>1 DEF PositionInv
  <2>3. ASSUME ~dup', ~nowrite' PROVE StepInv'
    BY <1>1, <1>2, <1>4, <1>7, <2>1, <2>3, InStep, StepNextData
  <2> QED
    BY <2>2, <2>3
<1>8. CASE /\ spc \in {"c0", "ackd"} /\ idx = Blocks(file) /\ Send(Char("EOT"), "nak")
           /\ UNCHANGED <<file, idx>>
  <2>1. toR' = Append(toR, Char("EOT")) /\ spc' = "nak"
    BY <1>8 DEF Send
  <2>2. PositionInv'
    BY <1>1, <1>8, <2>1 DEF PositionInv, Blocks, Size, Width
  <2>3. ASSUME ~dup', ~nowrite' PROVE StepInv'
    <3>1. StepInv
      BY <1>1, <2>3, InStep
    <3>2. CASE rpc = "trans"
      <4>1. ~Pending /\ Settled /\ NoAck(toS')
        BY <1>1, <1>4, <1>8, <3>1, <3>2, GoesOn
      <4> QED
        BY <1>1, <1>3, <1>8, <2>1, <3>1, <3>2, <4>1, StepSendEot
    <3>3. CASE rpc = "ret"
      BY <1>1, <3>1, <3>3, StepReturn DEF rvars
    <3> QED
      BY <1>8, <3>1, <3>2, <3>3, Apart
  <2> QED
    BY <2>2, <2>3
<1>9. CASE spc = "nak" /\ Send(Char("EOT"), "ack1") /\ UNCHANGED <<file, idx>>
  <2>1. spc' = "ack1"
    BY <1>9 DEF Send
  <2>2. PositionInv'
    BY <2>1 DEF PositionInv
  <2>3. rpc # "trans"
    <3>1. ~NoNak(toS)
      BY <1>1, <1>4, <1>9, CodesTail DEF YInv, Types, WireTypes
    <3> QED
      BY <3>1, Counts DEF YInv, AgreeInv, CountInv
  <2>4. ASSUME ~dup', ~nowrite' PROVE StepInv'
    BY <1>1, <1>2, <1>9, <2>1, <2>3, <2>4, InStep, StepBetween
  <2> QED
    BY <2>2, <2>4
<1>10. CASE spc = "ack1" /\ SWait("c1") /\ UNCHANGED <<file, idx>>
  <2>1. spc' = "c1"
    BY <1>10 DEF SWait
  <2>2. PositionInv'
    BY <2>1 DEF PositionInv
  <2>3. ASSUME ~dup', ~nowrite' PROVE StepInv'
    <3>1. StepInv
      BY <1>1, <2>3, InStep
    <3>2. rpc # "trans" /\ rpc # "fin1" /\ (rpc = "fin2" => NoAck(toS'))
      BY <1>2, <1>4, <1>10, <3>1, Apart DEF StepInv, BetweenInv, Listens
    <3> QED
      BY <1>1, <1>2, <1>10, <2>1, <3>1, <3>2, StepBetween
  <2> QED
    BY <2>2, <2>3
<1>11. CASE /\ spc = "c1" /\ file < Len(ses.files)
            /\ file' = file + 1 /\ idx' = 0 /\ Send(Header(file'), "ack0")
  <2>1. file' = file + 1
    BY <1>11
  <2>2. Header(file') = Header(file + 1)
    BY <2>1
  <2>3. toR' = Append(toR, Header(file + 1)) /\ last' = Header(file + 1) /\ spc' = "ack0" /\ idx' = 0
    BY <1>11, <2>2 DEF Send
  <2>4. PositionInv'
    BY <1>1, <2>1, <2>3 DEF PositionInv, Header, Pkt, Size
  <2>5. ASSUME ~dup', ~nowrite' PROVE StepInv'
    BY <1>1, <1>11, <2>1, <2>3, <2>5, InStep, StepNextFile
  <2> QED
    BY <2>4, <2>5
<1>12. CASE spc \in {"c1", "ackf"} /\ spc' \in {"ackf", "ret"} /\ UNCHANGED <<file, idx>>
  <2>1. PositionInv'
    BY <1>12 DEF PositionInv
  <2>2. ASSUME ~dup', ~nowrite' PROVE StepInv'
    <3>1. StepInv
      BY <1>1, <2>2, InStep
    <3>2. rpc # "trans" /\ rpc # "fin1" /\ (rpc = "fin2" => NoAck(toS'))
      BY <1>2, <1>12, <3>1, Apart DEF Fewer
    <3> QED
      BY <1>1, <1>2, <1>12, <3>1, <3>2, StepBetween
  <2> QED
    BY <2>1, <2>2
<1> QED
  BY <1>5, <1>6, <1>7, <1>8, <1>9, <1>10, <1>11, <1>12 DEF SGetExpected, Send, SReturn

LEMMA PcResendSInv == ASSUME YInv, SInv, PcResend PROVE SInv'
<1>1. /\ spc \in Waits \ {"hs"} /\ (toS' = toS \/ (toS # <<>> /\ toS' = Tail(toS)))
      /\ toR' = Append(toR, last) /\ UNCHANGED <<ses, rvars, svars, nowrite>>
      /\ UNCHANGED <<rpc, spc, file, idx, last>>
  BY ExpectedIs DEF PcResend, Sending, rvars, svars
<1>2. PositionInv'
  BY <1>1, PositionKept
<1>3. dup' = (dup \/ spc = "ackd")
  BY DEF PcResend
<1>4. Fewer(toS, toS')
  <2>1. Fewer(toS, toS)
    BY DEF Fewer
  <2> QED
    BY <1>1, <2>1, AcksTail DEF YInv, Types, WireTypes
<1>5. ASSUME ~dup', ~nowrite' PROVE StepInv'
  <2>1. spc # "ackd" /\ ~dup
    BY <1>3, <1>5, Zenon
  <2>2. PositionInv /\ StepInv
    BY <1>1, <1>5, <2>1 DEF SInv
  <2>3. CASE spc \in {"ack0", "c0"}
    BY <1>1, <1>4, <2>2, <2>3, StepHeader DEF PositionInv
  <2>4. CASE spc = "nak" /\ rpc = "trans"
    <3>1. Settled /\ NoAck(toS') /\ ~Pending /\ idx = Blocks(file)
      BY <1>4, <2>2, <2>4, Apart DEF Fewer, Pending, PositionInv
    <3>2. last \in Packets /\ IsEot(last)
      BY <2>4 DEF YInv, Types, SenderTypes, LastInv
    <3> QED
      BY <1>1, <2>2, <2>4, <3>1, <3>2, StepSendEot
  <2>5. CASE spc \in {"nak", "ack1", "c1", "ackf"} /\ rpc # "trans"
    BY <1>1, <1>4, <2>2, <2>5, Apart, StepBetween DEF Fewer
  <2> QED
    BY <1>1, <2>1, <2>2, <2>3, <2>4, <2>5, Apart DEF Waits
<1> QED
  BY <1>2, <1>5 DEF SInv

\* What is on the line is less, or worse.
LEMMA LineSInv ==
  ASSUME YInv, SInv, UNCHANGED <<ses, rvars, svars, dup, nowrite>>,
         Thinner(toR, toR'), Fewer(toS, toS')
  PROVE  SInv'
  BY ReceiverSInv DEF rvars

LEMMA LoseSInv == ASSUME YInv, SInv, Lose PROVE SInv'
<1>1. UNCHANGED <<ses, rvars, svars, dup, nowrite>>
  BY DEF Lose
<1>2. toR \in Seq(Packets) /\ toS \in Seq(Codes) /\ Thinner(toR, toR) /\ Fewer(toS, toS)
  BY ThinnerSame DEF YInv, Types, WireTypes, Fewer
<1>3. CASE \E i \in 1..Len(toR) : toR' = RemoveAt(toR, i) /\ toS' = toS
  BY <1>1, <1>2, <1>3, RemovedThinner, LineSInv
<1>4. CASE \E i \in 1..Len(toS) : toS' = RemoveAt(toS, i) /\ toR' = toR
  BY <1>1, <1>2, <1>4, AcksLost, LineSInv
<1> QED
  BY <1>3, <1>4 DEF Lose

LEMMA DamageSInv == ASSUME YInv, SInv, Damage PROVE SInv'
<1>1. UNCHANGED <<ses, rvars, svars, dup, nowrite>>
  BY DEF Damage
<1>2. toR \in Seq(Packets) /\ toS \in Seq(Codes) /\ Thinner(toR, toR) /\ Fewer(toS, toS)
  BY ThinnerSame DEF YInv, Types, WireTypes, Fewer
<1>3. ASSUME NEW i \in 1..Len(toR), NEW b \in {"short", "seq", "crc"}, IsPacket(toR[i]),
             toR' = [toR EXCEPT ![i].bad = b], toS' = toS
      PROVE  SInv'
  BY <1>1, <1>2, <1>3, DamagedThinner, LineSInv
<1>4. ASSUME NEW i \in 1..Len(toR), toR' = [toR EXCEPT ![i] = Char("junk")], toS' = toS
      PROVE  SInv'
  <2>1. Char("junk") \in Packets /\ Fainter(toR[i], Char("junk"))
    BY PacketTypes DEF Fainter
  <2> QED
    BY <1>1, <1>2, <1>4, <2>1, ReplacedThinner, LineSInv
<1>5. CASE \E i \in 1..Len(toS) : toS' = [toS EXCEPT ![i] = "junk"] /\ toR' = toR
  BY <1>1, <1>2, <1>5, AcksDamaged, LineSInv
<1> QED
  BY <1>3, <1>4, <1>5 DEF Damage

LEMMA InitSInv == Init => SInv
<1> SUFFICES ASSUME Init PROVE SInv
  OBVIOUS
<1> USE DEF Init
<1>1. ses \in Sessions /\ 1 \in 1..Len(ses.files)
  BY SessionTypes
<1>2. IsPrefix(<<>>, Whole(1))
  <2>1. Stored(1, 0) = 0 /\ 0 \in 0..Blocks(1) /\ <<>> \in Load
    BY <1>1, StoredIs, SessionTypes DEF Load
  <2>2. Holds(<<>>, 1, 0)
    BY <2>1 DEF Holds
  <2> QED
    BY <1>1, <2>1, <2>2, HoldsPrefix
<1>3. Intact
  BY <1>1, <1>2 DEF Intact, InSequence
<1>4. HandshakeInv
  BY DEF HandshakeInv, OnlyHeaders, NoLoad
<1> QED
  BY <1>3, <1>4 DEF SInv, PositionInv, StepInv, BetweenInv

LEMMA NextSInv == YInv /\ SInv /\ [Next]_vars => SInv'
<1> SUFFICES ASSUME YInv, SInv, [Next]_vars PROVE SInv'
  OBVIOUS
<1>1. CASE Receive
  BY <1>1, RHandshakeSInv, RTransPacketSInv, RTransEotSInv, RFinEotSInv, RFinPacketSInv,
     RWrongCodeSInv, RTimeoutSInv DEF Receive
<1>2. CASE SendStep
  BY <1>2, SGetExpectedSInv, SyWrongSInv DEF SendStep
<1>3. CASE RecvOpen \/ PcResend
  BY <1>3, RecvOpenSInv, PcResendSInv
<1>4. CASE SendOpen \/ SBeginFails \/ PcIgnore \/ PcGiveUp
  BY <1>4, QuietSInv
<1>5. CASE Lose \/ Damage
  BY <1>5, LoseSInv, DamageSInv
<1>6. CASE UNCHANGED vars
  <2>1. UNCHANGED <<ses, svars, toR, toS, rpc, stage, store, flen, done, dup, nowrite>>
    BY <1>6 DEF vars, rvars
  <2>2. Thinner(toR, toR') /\ Fewer(toS, toS')
    BY <2>1, ThinnerSame DEF Fewer
  <2> QED
    BY <2>1, <2>2, ReceiverSInv
<1> QED
  BY <1>1, <1>2, <1>3, <1>4, <1>5, <1>6 DEF Next

\* However packets and answers are lost or damaged, and although _rym_trans_data
\* does not compare the sequence number with the one that is due: as long as no
\* data packet is sent twice and no write fails, what is stored is the beginning
\* of one file, and every file whose end was received is whole.  The argument is
\* in Pending and Settled: while the sender listens there is never more than one
\* data packet, or one ACK, on its way, so that an ACK is always for the packet
\* that was sent last, and an EOT follows only when the last packet was stored.
THEOREM StoredIntactHolds == Spec => []StoredIntact
<1>1. SInv => StoredIntact
  BY DEF SInv, StepInv, Intact, StoredIntact
<1>2. Spec => []SInv
  BY InitSInv, NextSInv, YmodemInductive, PTL DEF Spec
<1> QED
  BY <1>1, <1>2, PTL
-----------------------------------------------------------------------------
(* A session with sy on a line without faults.  ry and sy go in lockstep:  *)
(* there is always exactly one of them that has something to read.         *)
(* ymodem_ota and sy come no further than the header: the answer to it has *)
(* a text before it.                                                       *)

\* The session has failed because a second C met sy where it waits for an ACK.
Disturbed == sret = "ACK" /\ rtries > 0

\* The handshake is not over, or was given up.
InHandshake == rpc = "hs" \/ (rpc = "ret" /\ rret = "TMO")

\* Nothing has been sent but C's, one for each try.
BeforeHeader ==
  /\ rpc = "off" \/ InHandshake
  /\ spc \in {"off", "hs"} \/ (spc = "ret" /\ sret = "TMO")
  /\ idx = 0 /\ toR = <<>>
  /\ Len(toS) <= (IF rpc = "off" THEN 0 ELSE rtries + 1)
  /\ \A i \in 1..Len(toS) : toS[i] = "C"

\* A C that is still there when the header has been sent.
Leftover == rtries > 0 /\ toS # <<>> /\ Head(toS) = "C"

HeaderSent ==
  /\ InHandshake /\ spc = "ack0"
  /\ idx = 0 /\ toR = <<Header(file)>> /\ (toS = <<>> \/ Leftover)

HeaderAnswered ==
  /\ rpc = "trans" /\ stage = "ESTABLISHED" /\ toR = <<>> /\ idx = 0
  /\ \/ spc = "ack0" /\ (toS = <<"ACK", "C">> \/ Leftover)
     \/ spc = "c0" /\ toS = <<"C">>

DataSent ==
  /\ rpc = "trans" /\ spc = "ackd" /\ idx > 0
  /\ stage = "ESTABLISHED" => idx = 1
  /\ toR = <<Data(file, idx)>> /\ toS = <<>>

DataAnswered ==
  /\ rpc = "trans" /\ spc = "ackd" /\ idx > 0
  /\ stage = "TRANSMITTING"
  /\ toR = <<>> /\ toS = <<"ACK">>

\* The two EOTs and the packet that ends the session.
Ending ==
  \/ rpc = "trans" /\ spc = "nak"  /\ toR = <<Char("EOT")>> /\ toS = <<>>
  \/ rpc = "fin1"  /\ spc = "nak"  /\ toR = <<>> /\ toS = <<"NAK">>
  \/ rpc = "fin1"  /\ spc = "ack1" /\ toR = <<Char("EOT")>> /\ toS = <<>>
  \/ rpc = "fin2"  /\ spc = "ack1" /\ toR = <<>> /\ toS = <<"ACK", "C">>
  \/ rpc = "fin2"  /\ spc = "c1"   /\ toR = <<>> /\ toS = <<"C">>
  \/ rpc = "fin2"  /\ spc = "ret"  /\ sret = "OK" /\ toR = <<Null("SOH")>>
  \/ rpc = "ret"   /\ spc = "ret"  /\ sret = "OK" /\ rret = "OK"

LockStep == BeforeHeader \/ HeaderSent \/ HeaderAnswered \/ DataSent \/ DataAnswered \/ Ending

\* Nothing is stored; as long as sy waits for an ACK, the next that it reads is
\* none.
NeverTaken ==
  /\ store = <<>> /\ done = <<>>
  /\ rpc \in {"off", "hs", "trans", "ret"} /\ rret # "OK"
  /\ spc \in {"off", "hs", "ack0", "ret"} /\ sret # "OK"
  /\ Len(toR) <= 1
  /\ rpc = "trans" => toR = <<>>
  /\ spc \in {"off", "hs"} => toR = <<>> /\ rpc # "trans" /\ OnlyC(toS)
  /\ spc = "ack0" => toS = <<>> \/ Head(toS) # "ACK"

CInv ==
  ses.peer = "sy" /\ faults = 0 => /\ ses.app = "ry" => Disturbed \/ LockStep
                                   /\ ses.app = "ota" => NeverTaken

\* Reading and sending, where there is little on the line.
LEMMA ShortLines ==
  /\ \A p : <<p>> # <<>> /\ Head(<<p>>) = p /\ Tail(<<p>>) = <<>> /\ Append(<<>>, p) = <<p>>
  /\ \A p, q : /\ <<p, q>> # <<>> /\ Head(<<p, q>>) = p /\ Tail(<<p, q>>) = <<q>>
               /\ <<>> \o <<p, q>> = <<p, q>>
OBVIOUS

\* sy sends one file, in packets of SOH, and at least one.
LEMMA SyTypes ==
  ASSUME YInv, ses.peer = "sy"
  PROVE  /\ file = 1 /\ Len(ses.files) = 1 /\ ses.code = "SOH"
         /\ Width \in Nat \ {0} /\ Size(file) \in Nat /\ Blocks(file) \in Nat \ {0}
         /\ idx \in 0..Blocks(file)
<1>1. ses \in Sessions /\ file \in 1..Len(ses.files) /\ idx \in 0..Blocks(file)
  BY DEF YInv, Types, WireTypes, SenderTypes
<1>2. Len(ses.files) = 1 /\ ses.code = "SOH"
  BY <1>1, YmodemAssumption
<1>3. file = 1
  BY <1>1, <1>2
<1>4. Width \in Nat \ {0} /\ Size(file) \in Nat
  BY <1>1, SessionTypes
<1>5. Blocks(file) \in Nat \ {0}
  <2>1. PICK z \in Nat : z = Size(file)
    BY <1>4
  <2>2. PICK w \in Nat \ {0} : w = Width
    BY <1>4
  <2>3. z \div w \in Nat
    OBVIOUS
  <2>4. Blocks(file) = z \div w + 1
    BY <2>1, <2>2 DEF Blocks
  <2> QED
    BY <2>3, <2>4
<1> QED
  BY <1>1, <1>2, <1>3, <1>4, <1>5

\* What the packets of sy are.
LEMMA SyPackets ==
  ASSUME YInv, ses.peer = "sy"
  PROVE  /\ Header(file).c = "SOH" /\ Header(file).seq = 0 /\ Header(file).bad = "no"
         /\ Header(file).load[1][2] = Size(file)
         /\ Null("SOH").c = "SOH" /\ Null("SOH").seq = 0 /\ Null("SOH").bad = "no"
         /\ Null("SOH").load = <<>>
         /\ Char("EOT").c = "EOT"
         /\ \A n \in Nat : /\ Data(file, n).c = "SOH" /\ Data(file, n).bad = "no"
                           /\ Data(file, n).seq = n % SeqRange
                           /\ Len(Data(file, n).load) = Width
<1>1. 0 % SeqRange = 0
  BY YmodemAssumption
<1>2. ASSUME NEW n \in Nat
      PROVE  /\ Data(file, n).c = "SOH" /\ Data(file, n).bad = "no"
             /\ Data(file, n).seq = n % SeqRange /\ Len(Data(file, n).load) = Width
  <2>1. Width \in Nat /\ ses.code = "SOH"
    BY SyTypes
  <2> QED
    BY <2>1 DEF Data, Pkt
<1> QED
  BY <1>1, <1>2 DEF Header, Null, Char, Pkt

\* Packets of the same file of the same session are the same.
LEMMA SamePackets ==
  ASSUME UNCHANGED <<ses, file>>
  PROVE  /\ Header(file)' = Header(file) /\ Size(file)' = Size(file) /\ Width' = Width
         /\ \A n : Data(file, n)' = Data(file, n)
BY DEF Header, Size, Width, Data, Blocks

\* A step of a clean session of ry.
CleanStep ==
  /\ YInv /\ LockStep /\ ses.peer = "sy" /\ ses.app = "ry" /\ ses' = ses
  /\ faults = 0 /\ faults' = 0 /\ MaxFaults > 0

LEMMA RecvOpenCInv == ASSUME CleanStep, RecvOpen PROVE LockStep'
<1>1. BeforeHeader /\ rpc = "off"
  BY DEF RecvOpen, CleanStep, LockStep, HeaderSent, HeaderAnswered, DataSent, DataAnswered,
         Ending, InHandshake
<1>2. toS \in Seq(Codes) /\ rtries \in Nat
  BY DEF CleanStep, YInv, Types, WireTypes, ReceiverTypes
<1>3. toS = <<>>
  BY <1>1, <1>2, EmptySeq, LenProperties DEF BeforeHeader
<1>4. toS' = <<"C">> /\ rpc' = "hs" /\ UNCHANGED <<spc, sret, idx, toR, rtries>>
  BY <1>3, ShortLines DEF RecvOpen, Printed, CleanStep, svars
<1>5. Len(toS') = 1 /\ toS'[1] = "C"
  BY <1>4
<1>6. BeforeHeader'
  BY <1>1, <1>2, <1>4, <1>5 DEF BeforeHeader, InHandshake
<1> QED
  BY <1>6 DEF LockStep

\* The header is received and answered.
LEMMA RHandshakeCInv == ASSUME CleanStep, RHandshake PROVE LockStep'
<1>1. HeaderSent /\ rpc = "hs"
  BY DEF RHandshake, CleanStep, LockStep, BeforeHeader, HeaderAnswered, DataSent, DataAnswered,
         Ending
<1>2. Head(toR) = Header(file) /\ toR' = <<>> /\ UNCHANGED <<ses, spc, file, idx>>
  BY <1>1, ShortLines DEF RHandshake, HeaderSent, svars
<1>3. Begin(Size(file)) /\ rtries' = rtries
  BY <1>2, SyPackets DEF CleanStep, RHandshake, IsPacket, HeaderError
<1>4. BeginOK(Size(file)) /\ toS' = toS \o <<"ACK", "C">> /\ rpc' = "trans" /\ stage' = "ESTABLISHED"
  <2>1. ~Fault
    BY DEF CleanStep, Fault
  <2> QED
    BY <1>3, <2>1 DEF Begin, BeginCan, Printed, TransCodes, CleanStep
<1>6. toS' = <<"ACK", "C">> \/ Leftover'
  <2>1. toS \in Seq({"C", "ACK", "NAK", "CAN", "junk"})
    BY DEF CleanStep, YInv, Types, WireTypes, Codes
  <2>2. CASE toS = <<>>
    BY <1>4, <2>2, ShortLines
  <2>3. CASE Leftover
    BY <1>3, <1>4, <2>1, <2>3, ConcatProperties DEF Leftover
  <2> QED
    BY <1>1, <2>2, <2>3 DEF HeaderSent
<1> QED
  BY <1>1, <1>2, <1>4, <1>6 DEF LockStep, HeaderSent, HeaderAnswered

\* The data packet that was sent last is stored and answered.
LEMMA RTransPacketCInv == ASSUME CleanStep, RTransPacket PROVE LockStep'
<1>1. rpc = "trans" /\ toR # <<>> /\ IsPacket(Head(toR)) /\ toR' = Tail(toR)
      /\ UNCHANGED <<ses, spc, file, idx>>
  BY DEF RTransPacket, svars
<1>2. DataSent
  <2>1. CASE toR = <<Char("EOT")>>
    BY <1>1, <2>1, ShortLines, SyPackets DEF CleanStep, IsPacket
  <2> QED
    BY <1>1, <2>1 DEF CleanStep, LockStep, BeforeHeader, HeaderSent, InHandshake, HeaderAnswered,
       DataAnswered, Ending
<1> DEFINE p == Head(toR)
<1>3. p = Data(file, idx) /\ toR' = <<>> /\ idx \in Nat \ {0} /\ toS = <<>>
  BY <1>1, <1>2, ShortLines, SyTypes DEF CleanStep, DataSent
<1>4. p.bad = "no" /\ p.seq = idx % SeqRange
  BY <1>3, SyPackets DEF CleanStep
<1>5. ~RepeatedHeader(p)
  <2>1. 1 % SeqRange = 1
    BY YmodemAssumption
  <2> QED
    BY <1>2, <1>4, <2>1 DEF DataSent, RepeatedHeader
<1> HIDE DEF p
<1>6. stage' = "TRANSMITTING" /\ toS' = Append(toS, "ACK") /\ rpc' = rpc
  BY <1>4, <1>5 DEF RTransPacket, CleanStep, p
<1> QED
  BY <1>1, <1>2, <1>3, <1>6, ShortLines DEF LockStep, DataSent, DataAnswered

\* The EOTs are answered, and the packet that ends the session.
LEMMA REndCInv == ASSUME CleanStep, RTransEot \/ RFinEot \/ RFinPacket PROVE LockStep'
<1>1. CASE RTransEot
  <2>1. /\ rpc = "trans" /\ toR # <<>> /\ Head(toR).c = "EOT" /\ toR' = Tail(toR)
        /\ rpc' = "fin1" /\ toS' = Append(toS, "NAK") /\ spc' = spc
    BY <1>1 DEF RTransEot, svars
  <2>2. ~DataSent
    BY <2>1, ShortLines, SyTypes, SyPackets DEF CleanStep, DataSent
  <2>3. spc = "nak" /\ toR = <<Char("EOT")>> /\ toS = <<>>
    BY <2>1, <2>2 DEF CleanStep, LockStep, BeforeHeader, HeaderSent, InHandshake, HeaderAnswered,
       DataAnswered, Ending
  <2> QED
    BY <2>1, <2>3, ShortLines DEF LockStep, Ending
<1>2. CASE RFinEot
  <2>1. /\ rpc = "fin1" /\ toR # <<>> /\ toR' = Tail(toR)
        /\ rpc' = "fin2" /\ toS' = toS \o <<"ACK", "C">> /\ spc' = spc
    BY <1>2 DEF RFinEot, svars
  <2>2. spc = "ack1" /\ toR = <<Char("EOT")>> /\ toS = <<>>
    BY <2>1 DEF CleanStep, LockStep, BeforeHeader, HeaderSent, InHandshake, HeaderAnswered,
       DataSent, DataAnswered, Ending
  <2> QED
    BY <2>1, <2>2, ShortLines DEF LockStep, Ending
<1>3. CASE RFinPacket
  <2>1. rpc = "fin2" /\ toR # <<>> /\ UNCHANGED <<spc, sret>>
    BY <1>3 DEF RFinPacket, svars
  <2>2. spc = "ret" /\ sret = "OK" /\ toR = <<Null("SOH")>>
    BY <2>1 DEF CleanStep, LockStep, BeforeHeader, HeaderSent, InHandshake, HeaderAnswered,
       DataSent, DataAnswered, Ending
  <2>3. Head(toR) = Null("SOH")
    BY <2>2, ShortLines
  <2>4. rpc' = "ret" /\ rret' = "OK"
    BY <1>3, <2>3, SyPackets DEF CleanStep, RFinPacket, NextFile, HeaderError, RReturn
  <2> QED
    BY <2>1, <2>2, <2>4 DEF LockStep, Ending
<1> QED
  BY <1>1, <1>2, <1>3

\* Every packet is one that the receiver waits for.
LEMMA NoWrongCode == ASSUME CleanStep PROVE ~RWrongCode
<1> SUFFICES ASSUME RWrongCode PROVE FALSE
  OBVIOUS
<1>1. rpc \in {"trans", "fin1", "fin2"} /\ toR # <<>> /\ Head(toR).c \notin Accepted
  BY DEF RWrongCode
<1>2. \/ rpc = "trans" /\ toR = <<Data(file, idx)>>
      \/ rpc \in {"trans", "fin1"} /\ toR = <<Char("EOT")>>
      \/ rpc = "fin2" /\ toR = <<Null("SOH")>>
  BY <1>1 DEF CleanStep, LockStep, BeforeHeader, HeaderSent, InHandshake, HeaderAnswered,
     DataSent, DataAnswered, Ending
<1>3. idx \in Nat
  BY SyTypes DEF CleanStep
<1> QED
  BY <1>1, <1>2, <1>3, ShortLines, SyPackets DEF CleanStep, Accepted

\* Nothing to read: in the handshake C is sent again or the receiver gives up.
\* Later it is the sender's turn, so that a timeout is a fault.
LEMMA RTimeoutCInv == ASSUME CleanStep, RTimeout PROVE LockStep'
<1>1. CASE rpc = "hs"
  <2>1. BeforeHeader
    BY <1>1 DEF RTimeout, CleanStep, LockStep, HeaderSent, HeaderAnswered, DataSent,
       DataAnswered, Ending
  <2>2. HandshakeAgain /\ UNCHANGED <<toR, spc, sret, idx>>
    BY <1>1 DEF RTimeout, svars
  <2>3. toS \in Seq(Codes) /\ rtries \in Nat /\ Len(toS) \in Nat
    BY LenProperties DEF CleanStep, YInv, Types, WireTypes, ReceiverTypes
  <2>4. CASE rtries + 1 = Tries
    <3>1. rpc' = "ret" /\ rret' = "TMO" /\ UNCHANGED <<toS, rtries>>
      BY <2>2, <2>4 DEF HandshakeAgain, RReturn
    <3> QED
      BY <1>1, <2>1, <2>2, <3>1 DEF LockStep, BeforeHeader, InHandshake
  <2>5. CASE rtries + 1 # Tries
    <3>1. rtries' = rtries + 1 /\ toS' = Append(toS, "C") /\ rpc' = rpc
      BY <2>2, <2>5 DEF HandshakeAgain
    <3>2. Len(toS') = Len(toS) + 1 /\ \A i \in 1..Len(toS') : toS'[i] = "C"
      BY <2>1, <2>3, <3>1, AppendProperties DEF BeforeHeader, Codes
    <3> QED
      BY <1>1, <2>1, <2>2, <2>3, <3>1, <3>2 DEF LockStep, BeforeHeader, InHandshake
  <2> QED
    BY <2>4, <2>5
<1>2. CASE rpc # "hs"
  <2>1. /\ rpc \in {"trans", "fin1", "fin2"} /\ toR = <<>>
        /\ faults' = IF SenderQuiet THEN faults ELSE Least(faults + 1, MaxFaults)
    BY <1>2 DEF RTimeout
  <2>2. SenderQuiet
    BY <2>1 DEF CleanStep, Least
  <2>3. spc \in {"ack0", "c0", "ackd", "nak", "ack1", "c1"} /\ toS # <<>>
    BY <2>1, ShortLines DEF CleanStep, LockStep, BeforeHeader, HeaderSent, InHandshake,
       HeaderAnswered, Leftover, DataSent, DataAnswered, Ending
  <2> QED
    BY <2>2, <2>3 DEF SenderQuiet
<1> QED
  BY <1>1, <1>2

\* The sender begins; what is on the line may be dropped.
LEMMA SendOpenCInv == ASSUME CleanStep, SendOpen PROVE LockStep'
<1>1. BeforeHeader
  BY DEF SendOpen, CleanStep, LockStep, HeaderSent, HeaderAnswered, DataSent, DataAnswered, Ending
<1>2. spc' = "hs" /\ UNCHANGED <<rpc, rret, rtries, toR, idx>> /\ (toS' = toS \/ toS' = <<>>)
  BY DEF SendOpen, rvars
<1>3. rtries \in Nat
  BY DEF CleanStep, YInv, Types, ReceiverTypes
<1>4. BeforeHeader'
  BY <1>1, <1>2, <1>3 DEF BeforeHeader, InHandshake
<1> QED
  BY <1>4 DEF LockStep

\* The answer that sy waits for: one step of the session.
LEMMA SGetExpectedCInv == ASSUME CleanStep, SGetExpected PROVE LockStep'
<1> USE DEF Send, SWait
<1>1. /\ Sending /\ toS # <<>> /\ Head(toS) = Expected[spc] /\ toS' = Tail(toS)
      /\ UNCHANGED <<ses, rpc, stage, rtries, rret, store, flen>>
  BY DEF SGetExpected, rvars
<1>2. spc \in Waits /\ file = 1 /\ Len(ses.files) = 1 /\ idx \in Nat /\ Blocks(file) \in Nat \ {0}
  BY <1>1, SyTypes DEF CleanStep, Sending, Expected, Waits
<1>3. CASE spc = "hs"
  <2>1. BeforeHeader /\ rpc # "off"
    BY <1>1, <1>3, EmptySeq, LenProperties DEF CleanStep, LockStep, BeforeHeader, HeaderSent,
       HeaderAnswered, DataSent, DataAnswered, Ending, YInv, Types, WireTypes
  <2>2. spc' = "ack0" /\ toR' = <<Header(file)>> /\ UNCHANGED <<file, idx>>
    BY <1>3, <2>1, ShortLines DEF SGetExpected, BeforeHeader
  <2>3. toS' = <<>> \/ Leftover'
    <3>1. /\ toS \in Seq(Codes) /\ Tail(toS) \in Seq(Codes) /\ rtries \in Nat
          /\ Len(toS) <= rtries + 1 /\ Len(toS) \in Nat /\ Len(Tail(toS)) = Len(toS) - 1
          /\ \A i \in 1..Len(Tail(toS)) : Tail(toS)[i] = toS[i + 1]
      BY <1>1, <2>1, HeadTailProperties, LenProperties
         DEF CleanStep, YInv, Types, WireTypes, ReceiverTypes, BeforeHeader
    <3>2. CASE Tail(toS) # <<>>
      <4>1. Len(Tail(toS)) # 0 /\ Len(Tail(toS)) \in Nat
        BY <3>1, <3>2, EmptySeq, LenProperties
      <4>2. Head(Tail(toS)) = "C" /\ rtries > 0
        BY <2>1, <3>1, <4>1 DEF BeforeHeader
      <4> QED
        BY <1>1, <3>2, <4>2 DEF Leftover
    <3> QED
      BY <1>1, <3>2
  <2>4. Header(file)' = Header(file)
    BY <1>1, <2>2, SamePackets
  <2> QED
    BY <1>1, <2>1, <2>2, <2>3, <2>4 DEF LockStep, HeaderSent, BeforeHeader, InHandshake
<1>4. CASE spc = "ack0"
  <2>1. spc' = "c0" /\ toR' = toR /\ UNCHANGED <<file, idx>>
    BY <1>4 DEF SGetExpected
  <2>2. Head(toS) = "ACK"
    BY <1>1, <1>4 DEF Expected
  <2>3. HeaderAnswered /\ toS = <<"ACK", "C">>
    BY <1>1, <1>4, <2>2 DEF CleanStep, LockStep, BeforeHeader, HeaderSent, Leftover,
       HeaderAnswered, DataSent, DataAnswered, Ending
  <2>4. toS' = <<"C">>
    BY <1>1, <2>3, ShortLines
  <2> QED
    BY <1>1, <2>1, <2>3, <2>4 DEF LockStep, HeaderAnswered
<1>5. CASE spc \in {"c0", "ackd"}
  <2>1. /\ rpc = "trans" /\ toR = <<>> /\ toS' = <<>>
        /\ stage = "ESTABLISHED" => idx = 0
        /\ spc = "c0" => idx = 0
    BY <1>1, <1>5, ShortLines DEF CleanStep, LockStep, BeforeHeader, HeaderSent,
       HeaderAnswered, DataSent, DataAnswered, Ending
  <2>2. CASE idx < Blocks(file)
    <3>1. toR' = <<Data(file, idx + 1)>> /\ spc' = "ackd" /\ idx' = idx + 1 /\ file' = file
      BY <1>2, <1>5, <2>1, <2>2, ShortLines DEF SGetExpected
    <3>2. Data(file, idx)' = Data(file, idx + 1)
      BY <1>1, <3>1 DEF Data, Size, Width
    <3>3. idx' > 0 /\ (stage' = "ESTABLISHED" => idx' = 1)
      BY <1>1, <1>2, <2>1, <3>1
    <3>4. DataSent'
      BY <1>1, <2>1, <3>1, <3>2, <3>3 DEF DataSent
    <3> QED
      BY <3>4 DEF LockStep
  <2>3. CASE ~(idx < Blocks(file))
    <3>1. toR' = <<Char("EOT")>> /\ spc' = "nak"
      BY <1>2, <1>5, <2>1, <2>3, ShortLines DEF SGetExpected
    <3> QED
      BY <1>1, <2>1, <3>1 DEF LockStep, Ending
  <2> QED
    BY <2>2, <2>3
<1>6. CASE spc \in {"nak", "ack1", "c1", "ackf"}
  <2>1. Ending
    BY <1>6 DEF CleanStep, LockStep, BeforeHeader, HeaderSent, HeaderAnswered, DataSent,
       DataAnswered
  <2>2. CASE spc = "nak"
    <3>1. rpc = "fin1" /\ toR = <<>> /\ toS' = <<>>
      BY <1>1, <2>1, <2>2, ShortLines DEF Ending
    <3>2. spc' = "ack1" /\ toR' = <<Char("EOT")>>
      BY <2>2, <3>1, ShortLines DEF SGetExpected
    <3> QED
      BY <1>1, <3>1, <3>2 DEF LockStep, Ending
  <2>3. CASE spc = "ack1"
    <3>1. rpc = "fin2" /\ toR = <<>> /\ toS' = <<"C">>
      BY <1>1, <2>1, <2>3, ShortLines DEF Ending
    <3>2. spc' = "c1" /\ toR' = toR
      BY <2>3 DEF SGetExpected
    <3> QED
      BY <1>1, <3>1, <3>2 DEF LockStep, Ending
  <2>4. CASE spc = "c1"
    <3>1. rpc = "fin2" /\ toR = <<>>
      BY <2>1, <2>4 DEF Ending
    <3>2. spc' = "ret" /\ sret' = "OK" /\ toR' = <<Null("SOH")>>
      BY <1>2, <2>4, <3>1, ShortLines DEF CleanStep, SGetExpected
    <3> QED
      BY <1>1, <3>1, <3>2 DEF LockStep, Ending
  <2> QED
    BY <1>6, <2>1, <2>2, <2>3, <2>4 DEF Ending
<1> QED
  BY <1>2, <1>3, <1>4, <1>5, <1>6 DEF Waits

\* Any other answer is a C of the handshake, and there was more than one.
LEMMA SyWrongCInv == ASSUME CleanStep, SyWrong PROVE LockStep' \/ Disturbed'
<1>1. /\ Sending /\ (toS' = Tail(toS) \/ toS' = toS)
      /\ UNCHANGED <<ses, rpc, stage, rtries, rret, store, flen, file, idx>>
  BY DEF SyWrong, rvars
<1>2. CASE spc = "hs"
  <2>1. BeforeHeader
    BY <1>2 DEF CleanStep, LockStep, HeaderSent, HeaderAnswered, DataSent, DataAnswered, Ending
  <2>2. toS = <<>> /\ toS' = toS
    <3>1. toS # <<>> => Head(toS) = "C"
      BY <2>1, EmptySeq, LenProperties, HeadTailProperties
         DEF BeforeHeader, CleanStep, YInv, Types, WireTypes
    <3> QED
      BY <1>2, <3>1 DEF SyWrong, Expected
  <2>3. toR' = toR /\ (spc' = "hs" \/ (spc' = "ret" /\ sret' = "TMO"))
    BY <1>2 DEF SyWrong, SReturn, SWait
  <2> QED
    BY <1>1, <2>1, <2>2, <2>3 DEF LockStep, BeforeHeader, InHandshake
<1>3. CASE spc # "hs"
  <2>1. toS # <<>> /\ Head(toS) # Expected[spc] /\ sret' = "ACK"
    BY <1>3 DEF SyWrong, SReturn
  <2>2. spc \in Waits
    BY <1>1 DEF Sending, Expected, Waits
  <2>3. rtries > 0
    BY <1>3, <2>1, <2>2, ShortLines DEF CleanStep, LockStep, BeforeHeader, HeaderSent, Leftover,
       HeaderAnswered, DataSent, DataAnswered, Ending, Expected, Waits
  <2> QED
    BY <1>1, <2>1, <2>3 DEF Disturbed
<1> QED
  BY <1>2, <1>3

\* The session is the same from beginning to end.
LEMMA SessionKept == ASSUME [Next]_vars PROVE ses' = ses
BY DEF Next, Receive, SendStep, RecvOpen, RHandshake, RTransPacket, RTransEot, RFinEot,
   RFinPacket, RWrongCode, RTimeout, SendOpen, SGetExpected, SyWrong, SBeginFails, PcIgnore,
   PcResend, PcGiveUp, Lose, Damage, vars

\* Faults are counted.
LEMMA FaultsGrow ==
  ASSUME YInv, [Next]_vars
  PROVE  faults \in Nat /\ faults' \in {faults, faults + 1}
<1>1. faults \in 0..MaxFaults /\ faults \in Nat /\ MaxFaults \in Nat
  BY YmodemAssumption DEF YInv, Types, GhostTypes
<1>2. CASE RTimeout
  BY <1>1, <1>2 DEF RTimeout, Least
<1>3. CASE RHandshake \/ RTransPacket \/ RFinPacket
  BY <1>1, <1>3 DEF RHandshake, RTransPacket, RFinPacket, Begin, BeginCan, RyData, OtaData, Fault
<1>4. CASE SBeginFails \/ Lose \/ Damage
  BY <1>1, <1>4 DEF SBeginFails, Lose, Damage, Fault
<1>5. CASE \/ RecvOpen \/ RTransEot \/ RFinEot \/ RWrongCode
           \/ SendOpen \/ SGetExpected \/ SyWrong \/ PcIgnore \/ PcResend \/ PcGiveUp
           \/ UNCHANGED vars
  BY <1>1, <1>5 DEF RecvOpen, RTransEot, RFinEot, RWrongCode, SendOpen, SGetExpected, SyWrong,
     PcIgnore, PcResend, PcGiveUp, vars
<1> QED
  BY <1>1, <1>2, <1>3, <1>4, <1>5 DEF Next, Receive, SendStep

\* The receiver of ymodem_ota: once it has taken the header it waits for data
\* that never come.
LEMMA OtaReceives ==
  ASSUME YInv, NeverTaken, ses.app = "ota", RecvOpen \/ Receive PROVE NeverTaken'
<1>1. /\ toR \in Seq(Packets) /\ toS \in Seq(Codes) /\ Len(toR) \in Nat
      /\ toR # <<>> => Tail(toR) \in Seq(Packets) /\ Len(Tail(toR)) = Len(toR) - 1
  BY HeadTailProperties, LenProperties DEF YInv, Types, WireTypes
<1>2. toR # <<>> => Tail(toR) = <<>> /\ Len(<<>>) <= 1
  <2>1. Len(toR) <= 1 /\ Len(<<>>) = 0
    BY DEF NeverTaken
  <2>2. toR # <<>> => Len(toR) # 0
    BY <1>1, EmptySeq
  <2>3. toR # <<>> => Len(Tail(toR)) = 0
    <3>1. PICK n \in Nat : n = Len(toR) /\ n <= 1
      BY <1>1, <2>1
    <3>2. CASE toR # <<>>
      <4>1. n = 1
        BY <2>2, <3>1, <3>2
      <4>2. Len(Tail(toR)) = n - 1
        BY <1>1, <3>1, <3>2
      <4> QED
        BY <4>1, <4>2
    <3> QED
      BY <3>2
  <2>4. \A s \in Seq(Packets) : Len(s) = 0 => s = <<>>
    BY EmptySeq
  <2> QED
    BY <1>1, <2>1, <2>3, <2>4
<1>3. \A s \in Seq(Codes), c \in Codes :
        /\ Append(s, c) \in Seq(Codes)
        /\ c \in {"C", "junk"} /\ OnlyC(s) => OnlyC(Append(s, c))
        /\ c # "ACK" /\ (s = <<>> \/ Head(s) # "ACK") => Head(Append(s, c)) # "ACK"
  <2> TAKE s \in Seq(Codes), c \in Codes
  <2>1. Append(s, c) \in Seq(Codes) /\ (c \in {"C", "junk"} /\ OnlyC(s) => OnlyC(Append(s, c)))
    BY CodesSent
  <2>2. ASSUME c # "ACK", s = <<>> \/ Head(s) # "ACK" PROVE Head(Append(s, c)) # "ACK"
    BY <2>2 DEF Codes
  <2> QED
    BY <2>1, <2>2
<1>4. Printed = Append(toS, "junk") /\ "junk" \in Codes /\ "C" \in Codes
  BY DEF Printed, Codes
<1>5. CASE RecvOpen
  <2>1. /\ rpc' = "hs" /\ toS' = Append(Append(toS, "junk"), "C")
        /\ UNCHANGED <<store, done, rret, spc, sret, toR>>
    BY <1>4, <1>5 DEF RecvOpen, svars
  <2>2. OnlyC(toS) => OnlyC(toS')
    BY <1>1, <1>3, <1>4, <2>1
  <2>3. toS = <<>> \/ Head(toS) # "ACK" => Head(toS') # "ACK"
    BY <1>1, <1>3, <1>4, <2>1
  <2> QED
    BY <2>1, <2>2, <2>3 DEF NeverTaken
<1>6. ASSUME NEW r, r # "OK", RReturn(r), toR' = toR \/ (toR # <<>> /\ toR' = Tail(toR)),
             toS' = toS \/ toS' = Append(toS, "junk"), UNCHANGED svars
      PROVE  NeverTaken'
  <2>1. rpc' = "ret" /\ rret' # "OK" /\ UNCHANGED <<store, done, spc, sret>>
    BY <1>6 DEF RReturn, svars
  <2>2. (toR = <<>> => toR' = <<>>) /\ Len(toR') <= 1
    BY <1>2, <1>6 DEF NeverTaken
  <2>3. /\ OnlyC(toS) => OnlyC(toS')
        /\ toS = <<>> \/ Head(toS) # "ACK" => toS' = <<>> \/ Head(toS') # "ACK"
    BY <1>1, <1>3, <1>4, <1>6
  <2> QED
    BY <2>1, <2>2, <2>3 DEF NeverTaken
<1>7. ASSUME rpc = "hs", HandshakeAgain, toR' = toR \/ (toR # <<>> /\ toR' = Tail(toR)),
             UNCHANGED svars
      PROVE  NeverTaken'
  <2>1. CASE rtries + 1 = Tries
    <3>1. RReturn("TMO") /\ toS' = toS
      BY <1>7, <2>1 DEF HandshakeAgain
    <3> QED
      BY <1>6, <1>7, <3>1
  <2>2. CASE rtries + 1 # Tries
    <3>1. toS' = Append(toS, "C") /\ UNCHANGED <<rpc, rret, store, done, spc, sret>>
      BY <1>7, <2>2 DEF HandshakeAgain, svars
    <3>2. /\ OnlyC(toS) => OnlyC(toS')
          /\ toS = <<>> \/ Head(toS) # "ACK" => Head(toS') # "ACK"
      BY <1>1, <1>3, <1>4, <3>1
    <3>3. (toR = <<>> => toR' = <<>>) /\ Len(toR') <= 1
      BY <1>2, <1>7 DEF NeverTaken
    <3> QED
      BY <1>7, <3>1, <3>2, <3>3 DEF NeverTaken
  <2> QED
    BY <2>1, <2>2
<1>8. CASE RHandshake
  <2>1. toR # <<>> /\ toR' = Tail(toR) /\ UNCHANGED svars /\ rpc = "hs"
    BY <1>8 DEF RHandshake
  <2>2. CASE \E e \in {"DSZ", "SEQ", "CRC"} : RReturn(e) /\ toS' = toS
    BY <1>6, <2>1, <2>2
  <2>3. CASE HandshakeAgain
    BY <1>7, <2>1, <2>3
  <2>4. CASE RReturn("CAN") /\ toS' \in {Printed, Append(toS, "junk")}
    BY <1>4, <1>6, <2>1, <2>4
  <2>5. ASSUME NEW n, BeginOK(n), toS' = Printed \o TransCodes, rpc' = "trans",
               UNCHANGED <<rret, done>>
        PROVE  NeverTaken'
    <3>1. store' = <<>> /\ UNCHANGED <<spc, sret>>
      BY <2>1, <2>5 DEF BeginOK, svars
    <3>2. spc \in {"ack0", "ret"} /\ toR' = <<>> /\ Len(toR') <= 1
      BY <1>2, <2>1 DEF NeverTaken
    <3>3. spc = "ack0" => Head(toS') # "ACK"
      <4>1. spc = "ack0" => Head(Printed) # "ACK"
        BY <1>1, <1>3, <1>4 DEF NeverTaken
      <4>2. Printed \in Seq(Codes) /\ Len(Printed) \in Nat \ {0}
        BY <1>1, <1>4, AppendProperties, LenProperties
      <4>3. <<"ACK", "C">> \in Seq(Codes)
        BY DEF Codes
      <4>4. /\ Printed \o <<"ACK", "C">> \in Seq(Codes)
            /\ (Printed \o <<"ACK", "C">>)[1] = Printed[1]
            /\ Len(Printed \o <<"ACK", "C">>) # 0
        BY <4>2, <4>3, ConcatProperties
      <4>5. Head(Printed \o <<"ACK", "C">>) = Head(Printed)
        BY <4>2, <4>4, HeadTailProperties, EmptySeq
      <4> QED
        BY <2>5, <4>1, <4>5 DEF TransCodes
    <3> QED
      BY <2>5, <3>1, <3>2, <3>3 DEF NeverTaken
  <2> QED
    BY <1>8, <2>2, <2>3, <2>4, <2>5 DEF RHandshake, Begin
<1>9. CASE RTimeout
  <2>1. toR' = toR /\ UNCHANGED svars
    BY <1>9 DEF RTimeout
  <2>2. CASE rpc = "hs" /\ HandshakeAgain
    BY <1>7, <2>1, <2>2
  <2>3. CASE RReturn("CODE") /\ toS' = toS
    BY <1>6, <2>1, <2>3
  <2> QED
    BY <1>9, <2>2, <2>3 DEF RTimeout
<1>10. ~RTransPacket /\ ~RTransEot /\ ~RFinEot /\ ~RFinPacket /\ ~RWrongCode
  BY DEF NeverTaken, RTransPacket, RTransEot, RFinEot, RFinPacket, RWrongCode
<1> QED
  BY <1>5, <1>8, <1>9, <1>10 DEF Receive

\* sy reads the text where it waits for the ACK.
LEMMA OtaSends ==
  ASSUME YInv, NeverTaken, SendOpen \/ SendStep PROVE NeverTaken'
<1>1. toR \in Seq(Packets) /\ toS \in Seq(Codes)
  BY DEF YInv, Types, WireTypes
<1>2. /\ OnlyC(<<>>)
      /\ toS # <<>> /\ OnlyC(toS) => OnlyC(Tail(toS)) /\ Tail(toS) \in Seq(Codes)
  BY <1>1, CodesFlushed, CodesTail
<1>3. CASE SendOpen
  <2>1. /\ spc = "off" /\ spc' = "hs" /\ toS' \in {toS, <<>>}
        /\ UNCHANGED <<toR, rpc, rret, store, done, sret>>
    BY <1>3 DEF SendOpen, rvars
  <2> QED
    BY <1>2, <2>1 DEF NeverTaken
<1>4. CASE SGetExpected
  <2>1. /\ toS # <<>> /\ Head(toS) = Expected[spc] /\ toS' = Tail(toS)
        /\ UNCHANGED <<rpc, rret, store, done>>
    BY <1>4 DEF SGetExpected, rvars
  <2>2. spc = "hs"
    BY <1>4, <2>1 DEF SGetExpected, Sending, Expected, NeverTaken
  <2>3. toR' = Append(toR, Header(file)) /\ spc' = "ack0" /\ sret' = sret
    BY <1>4, <2>2 DEF SGetExpected, Send
  <2>4. Len(toR') = 1 /\ rpc # "trans"
    BY <2>2, <2>3 DEF NeverTaken
  <2>5. toS' = <<>> \/ Head(toS') # "ACK"
    <3>1. OnlyC(Tail(toS)) /\ Tail(toS) \in Seq(Codes)
      BY <1>2, <2>1, <2>2 DEF NeverTaken
    <3>2. Tail(toS) # <<>> => Head(Tail(toS)) \in {"C", "junk"}
      BY <3>1, CodesTail
    <3> QED
      BY <2>1, <3>2
  <2> QED
    BY <2>1, <2>3, <2>4, <2>5 DEF NeverTaken
<1>5. CASE SyWrong
  <2>1. /\ toS' = toS \/ (toS # <<>> /\ toS' = Tail(toS))
        /\ UNCHANGED <<rpc, rret, store, done>>
        /\ toR' = toR
        /\ \/ spc' = "ret" /\ sret' \in {"ACK", "TMO"}
           \/ spc = "hs" /\ spc' = "hs" /\ sret' = sret
    BY <1>5 DEF SyWrong, SReturn, SWait, rvars
  <2> QED
    BY <1>2, <2>1 DEF NeverTaken
<1> QED
  BY <1>3, <1>4, <1>5 DEF SendStep

LEMMA InitCInv == Init => CInv
<1> SUFFICES ASSUME Init PROVE BeforeHeader /\ NeverTaken
  BY DEF CInv, LockStep
<1>1. Len(toS) = 0 /\ Len(toR) <= 1 /\ OnlyC(<<>>)
  BY CodesFlushed DEF Init
<1> QED
  BY <1>1 DEF Init, BeforeHeader, NeverTaken

\* What has failed stays as it is, and a step without a fault is one of the above.
LEMMA NextCInv == MaxFaults > 0 /\ YInv /\ CInv /\ [Next]_vars => CInv'
<1> SUFFICES ASSUME MaxFaults > 0, YInv, CInv, [Next]_vars, ses'.peer = "sy", faults' = 0
             PROVE  /\ ses.app = "ry" => (Disturbed \/ LockStep)'
                    /\ ses.app = "ota" => NeverTaken'
  BY SessionKept DEF CInv
<1>1. ses' = ses /\ faults \in Nat /\ faults' \in {faults, faults + 1}
  BY SessionKept, FaultsGrow
<1>2. ~SBeginFails /\ ~Lose /\ ~Damage
  BY DEF YInv, Types, GhostTypes, SBeginFails, Lose, Damage, Fault
<1>3. ~PcIgnore /\ ~PcResend /\ ~PcGiveUp
  BY <1>1 DEF PcIgnore, PcResend, PcGiveUp
<1>4. faults = 0
  BY <1>1
<1>5. CASE ses.app = "ota"
  <2>1. NeverTaken
    BY <1>1, <1>4, <1>5 DEF CInv
  <2>2. CASE UNCHANGED vars
    <3>1. /\ toR' = toR /\ toS' = toS /\ rpc' = rpc /\ rret' = rret
          /\ store' = store /\ done' = done /\ spc' = spc /\ sret' = sret
      BY <2>2 DEF vars, rvars, svars
    <3> QED
      BY <1>5, <2>1, <3>1 DEF NeverTaken, OnlyC
  <2> QED
    BY <1>2, <1>3, <1>5, <2>1, <2>2, OtaReceives, OtaSends DEF Next
<1>6. CASE ses.app = "ry" /\ Disturbed
  <2>1. spc = "ret" /\ rtries \in Nat
    BY <1>6 DEF Disturbed, YInv, ReturnInv, Types, ReceiverTypes
  <2>2. ~SendOpen /\ ~SGetExpected /\ ~SyWrong
    BY <2>1 DEF SendOpen, SGetExpected, SyWrong, Sending, Expected
  <2>3. sret' = sret /\ (rtries' = rtries \/ rtries' = rtries + 1)
    BY <1>2, <1>3, <2>2 DEF Next, Receive, SendStep, RecvOpen, RHandshake, RTransPacket,
       RTransEot, RFinEot, RFinPacket, RWrongCode, RTimeout, HandshakeAgain, svars, rvars, vars
  <2> QED
    BY <1>6, <2>1, <2>3 DEF Disturbed
<1>7. CASE ses.app = "ry" /\ LockStep
  <2>1. CleanStep
    BY <1>1, <1>4, <1>7 DEF CleanStep
  <2>2. CASE UNCHANGED vars
    <3>1. UNCHANGED <<ses, toR, toS, rpc, stage, rtries, rret, store, flen, spc, file, idx, sret>>
      BY <2>2 DEF vars, rvars, svars
    <3> QED
      BY <1>7, <3>1, SamePackets DEF LockStep, BeforeHeader, HeaderSent, InHandshake, Leftover,
         HeaderAnswered, DataSent, DataAnswered, Ending
  <2> QED
    BY <1>2, <1>3, <1>7, <2>1, <2>2, RecvOpenCInv, RHandshakeCInv, RTransPacketCInv, REndCInv,
       NoWrongCode, RTimeoutCInv, SendOpenCInv, SGetExpectedCInv, SyWrongCInv
    DEF Next, Receive, SendStep
<1> QED
  BY <1>1, <1>4, <1>5, <1>6, <1>7 DEF CInv

\* On a line without faults a session of ry and sy fails only when a C of the
\* handshake was sent twice and met sy where it waits for an ACK; a session of
\* ymodem_ota and sy, whose line carries the texts of ymodem_ota as well, never
\* succeeds and writes nothing.  MaxFaults > 0 because a timeout while the sender
\* is only slow has to count as a fault.
THEOREM CleanSessionHolds == MaxFaults > 0 => (Spec => []CleanSession)
<1> SUFFICES ASSUME MaxFaults > 0 PROVE Spec => []CleanSession
  OBVIOUS
<1>1. YInv /\ CInv => CleanSession
  <2> SUFFICES ASSUME YInv, CInv, ses.peer = "sy", faults = 0
               PROVE  CleanSession
    BY DEF CleanSession
  <2>1. (rret # "none" => rpc = "ret") /\ (sret # "none" => spc = "ret")
    BY DEF YInv, ReturnInv
  <2>2. CASE ses.app = "ry"
    <3>1. CASE LockStep
      <4>1. /\ sret = "ACK" => rtries > 0
            /\ rret \in {"none", "OK", "TMO"} \/ sret = "ACK"
        BY <2>1, <3>1 DEF LockStep, BeforeHeader, HeaderSent, InHandshake, HeaderAnswered,
           DataSent, DataAnswered, Ending
      <4> QED
        BY <2>2, <4>1 DEF CleanSession
    <3> QED
      BY <2>2, <3>1 DEF CInv, Disturbed, CleanSession
  <2>3. CASE ses.app = "ota"
    BY <2>3 DEF CInv, NeverTaken, CleanSession
  <2> QED
    BY <2>2, <2>3, SessionTypes DEF YInv, Types, WireTypes
<1>2. Init => CInv
  BY InitCInv
<1>3. YInv /\ CInv /\ [Next]_vars => CInv'
  BY NextCInv
<1> QED
  BY <1>1, <1>2, <1>3, YmodemInductive, PTL DEF Spec

-----------------------------------------------------------------------------
(* A session comes to an end.  A packet that is read gives at most three   *)
(* answers, an answer that is read gives at most one packet, and for that  *)
(* the sender gets on in its files, or uses up one of the repetitions.     *)

\* The steps of the sender up to its return, when no file has more than M
\* packets.
InFile(M) ==
  CASE spc = "ack0" -> M + 7
    [] spc = "c0"   -> M + 6
    [] spc = "ackd" -> (M + 5) - idx
    [] spc = "nak"  -> 4
    [] spc = "ack1" -> 3
    [] spc = "c1"   -> 2
    [] OTHER        -> 1

SenderLeft(M) ==
  CASE spc = "off" -> Len(ses.files) * (M + 8) + 1
    [] spc = "hs"  -> Len(ses.files) * (M + 8)
    [] spc = "ret" -> 0
    [] OTHER       -> (Len(ses.files) - file) * (M + 8) + InFile(M)

ReceiverLeft ==
  2 * (Tries - rtries) + (CASE rpc = "off" -> 4 [] rpc = "ret" -> 0 [] OTHER -> 1)

\* Tries of sy, repetitions of a pc, and faults.
Reserve == (Tries - stries) + 5 * (MaxResend - resent) + (MaxFaults - faults)

SessionLeft(M) ==
  4 * SenderLeft(M) + 4 * Len(toR) + Len(toS) + ReceiverLeft + Reserve

\* What is left at the beginning.
AtMost(M) ==
  4 * (Len(ses.files) * (M + 8)) + 8 + 3 * Tries + 5 * MaxResend + MaxFaults

\* No file is as long as M, so that none has more than M packets.
Longer(M) == \A s \in Sessions : \A f \in 1..Len(s.files) : s.files[f] < M

LEMMA BlocksFew ==
  ASSUME ses \in Sessions, NEW M \in Nat, Longer(M), NEW f \in 1..Len(ses.files)
  PROVE  Blocks(f) \in 0..M
<1>1. PICK z \in Nat : z = Size(f)
  BY SessionTypes
<1>2. PICK w \in Nat \ {0} : w = Width
  BY SessionTypes
<1>3. z < M
  BY <1>1 DEF Longer, Size
<1>4. z \div w \in 0..z
  <2>1. PICK q \in Nat : q = z \div w
    OBVIOUS
  <2>2. z = w * q + (z % w) /\ z % w \in Nat
    BY <2>1
  <2>3. q <= w * q
    BY <2>1
  <2> QED
    BY <2>1, <2>2, <2>3
<1>5. (z + w - 1) \div w \in 0..z
  <2>1. PICK q \in Nat : q = (z + w - 1) \div w
    OBVIOUS
  <2>2. PICK r \in Nat : z + w - 1 = w * q + r
    <3>1. z + w - 1 = w * q + ((z + w - 1) % w) /\ (z + w - 1) % w \in Nat
      BY <2>1
    <3> QED
      BY <3>1
  <2>3. CASE q > 0
    <3>1. PICK i \in Nat : q = i + 1
      BY <2>3
    <3>2. w * q = w * i + w /\ i <= w * i
      BY <3>1
    <3>3. i < z
      BY <2>2, <3>2
    <3> QED
      BY <2>1, <3>1, <3>3
  <2> QED
    BY <2>1, <2>3
<1>6. Blocks(f) = IF ses.peer = "sy" THEN z \div w + 1 ELSE (z + w - 1) \div w
  BY <1>1, <1>2 DEF Blocks
<1> QED
  BY <1>3, <1>4, <1>5, <1>6

\* So many files.
LEMMA FilesTimes ==
  ASSUME NEW n \in Nat, NEW f \in 1..n, NEW m \in Nat
  PROVE  /\ n * m \in Nat /\ (n - f) * m \in Nat /\ (n - f) * m + m <= n * m
         /\ f < n => (n - (f + 1)) * m + m = (n - f) * m
<1>1. PICK d \in Nat : n = f + d
  OBVIOUS
<1>2. n * m = f * m + d * m /\ f * m \in Nat /\ d * m \in Nat
  BY <1>1
<1>3. m <= f * m
  OBVIOUS
<1>4. n - f = d
  BY <1>1
<1>5. ASSUME f < n PROVE (n - (f + 1)) * m + m = (n - f) * m
  <2>1. PICK e \in Nat : d = e + 1
    BY <1>1, <1>5
  <2>2. n - (f + 1) = e
    BY <1>1, <2>1
  <2>3. e * m + m = d * m
    BY <2>1
  <2> QED
    BY <1>4, <2>2, <2>3
<1>6. (n - f) * m = d * m
  BY <1>4
<1>7. f * m + d * m >= d * m + m
  BY <1>2, <1>3
<1> QED
  BY <1>2, <1>5, <1>6, <1>7

LEMMA SenderLeftType ==
  ASSUME Types, NEW M \in Nat, Longer(M)
  PROVE  /\ SenderLeft(M) \in Nat
         /\ spc # "ret" => SenderLeft(M) > 0
<1>1. /\ ses \in Sessions /\ Len(ses.files) \in Nat \ {0} /\ file \in 1..Len(ses.files)
      /\ idx \in 0..Blocks(file) /\ spc \in Waits \cup {"off", "ret"}
  BY SessionTypes DEF Types, WireTypes, SenderTypes, Waits, Expected
<1>2. idx \in 0..M
  BY <1>1, BlocksFew
<1>3. InFile(M) \in Nat \ {0}
  BY <1>2 DEF InFile
<1>4. PICK m \in Nat : m = M + 8
  OBVIOUS
<1>5. PICK n \in Nat : n = Len(ses.files) /\ file \in 1..n
  BY <1>1
<1>6. PICK x \in Nat, y \in Nat : x = n * m /\ y = (n - file) * m /\ y + m <= x
  BY <1>5, FilesTimes
<1>7. /\ spc = "off" => SenderLeft(M) = x + 1
      /\ spc = "hs" => SenderLeft(M) = x
      /\ spc = "ret" => SenderLeft(M) = 0
      /\ spc \notin {"off", "hs", "ret"} => SenderLeft(M) = y + InFile(M)
  BY <1>4, <1>5, <1>6 DEF SenderLeft
<1>8. y + m <= x /\ m > 0
  BY <1>4, <1>6
<1>9. x > 0
  BY <1>8
<1> QED
  BY <1>1, <1>3, <1>7, <1>9 DEF Waits

LEMMA OthersLeftType ==
  ASSUME Types
  PROVE  /\ ReceiverLeft \in Nat /\ Reserve \in Nat
         /\ Len(toR) \in Nat /\ Len(toS) \in Nat
<1>1. Len(toR) \in Nat /\ Len(toS) \in Nat
  BY LenProperties DEF Types, WireTypes
<1>2. /\ rtries \in 0..(Tries - 1) /\ stries \in 0..Tries /\ resent \in 0..MaxResend
      /\ faults \in 0..MaxFaults /\ Tries \in Nat /\ MaxResend \in Nat /\ MaxFaults \in Nat
  BY YmodemAssumption DEF Types, ReceiverTypes, SenderTypes, GhostTypes
<1>3. ReceiverLeft \in Nat
  BY <1>2 DEF ReceiverLeft
<1> QED
  BY <1>1, <1>2, <1>3 DEF Reserve

LEMMA SessionLeftType ==
  ASSUME YInv, NEW M \in Nat, Longer(M)
  PROVE  SessionLeft(M) \in Nat
BY SenderLeftType, OthersLeftType DEF YInv, SessionLeft

LeftTypes(M) ==
  /\ SenderLeft(M) \in Nat /\ ReceiverLeft \in Nat /\ Reserve \in Nat
  /\ Len(toR) \in Nat /\ Len(toS) \in Nat
  /\ AtMost(M) \in Nat /\ SessionLeft(M) \in Nat
  /\ toR \in Seq(Packets) /\ toS \in Seq(Codes)

LEMMA LeftType ==
  ASSUME YInv, NEW CONSTANT M \in Nat, Longer(M)
  PROVE  LeftTypes(M)
<1>1. PICK n \in Nat, m \in Nat : n = Len(ses.files) /\ m = M + 8
  BY SessionTypes DEF YInv, Types, WireTypes
<1>2. PICK x \in Nat : x = n * m
  OBVIOUS
<1>3. AtMost(M) \in Nat
  <2>1. AtMost(M) = 4 * x + 8 + 3 * Tries + 5 * MaxResend + MaxFaults
    BY <1>1, <1>2 DEF AtMost
  <2> QED
    BY <2>1, YmodemAssumption
<1>4. toR \in Seq(Packets) /\ toS \in Seq(Codes)
  BY DEF YInv, Types, WireTypes
<1> QED
  BY <1>3, <1>4, SenderLeftType, OthersLeftType, SessionLeftType DEF LeftTypes, YInv

LEMMA LeftTypeNext ==
  ASSUME YInv', NEW CONSTANT M \in Nat, Longer(M)
  PROVE  LeftTypes(M)'
<1>1. (YInv => LeftTypes(M))'
  BY LeftType, PTL
<1> QED
  BY <1>1

\* What a step does to the lines.
LEMMA LineLengths ==
  ASSUME Types
  PROVE  /\ toR # <<>> => Len(Tail(toR)) = Len(toR) - 1
         /\ toS # <<>> => Len(Tail(toS)) = Len(toS) - 1
         /\ \A p : Len(Append(toR, p)) = Len(toR) + 1
         /\ \A c : Len(Append(toS, c)) = Len(toS) + 1
         /\ Len(toS \o <<"ACK", "C">>) = Len(toS) + 2
         /\ Len(Printed) \in {Len(toS), Len(toS) + 1}
         /\ \A c : Len(Append(Printed, c)) = Len(Printed) + 1
         /\ Len(Printed \o <<"ACK", "C">>) = Len(Printed) + 2
         /\ Len(<<>>) = 0
<1>1. toR \in Seq(Packets) /\ toS \in Seq(Codes)
  BY DEF Types, WireTypes
<1>2. <<"ACK", "C">> \in Seq(Codes) /\ Len(<<"ACK", "C">>) = 2
  BY DEF Codes
<1>3. Len(toS \o <<"ACK", "C">>) = Len(toS) + 2
  BY <1>1, <1>2, ConcatProperties
<1>4. /\ \A p : Len(Append(toR, p)) = Len(toR) + 1
      /\ \A c : Len(Append(toS, c)) = Len(toS) + 1
  BY <1>1
<1>5. /\ toR # <<>> => Len(Tail(toR)) = Len(toR) - 1
      /\ toS # <<>> => Len(Tail(toS)) = Len(toS) - 1
  BY <1>1
<1>6. Printed \in Seq(Codes) /\ Len(Printed) \in {Len(toS), Len(toS) + 1}
  BY <1>1, <1>4, TextSent DEF Printed
<1>7. /\ \A c : Len(Append(Printed, c)) = Len(Printed) + 1
      /\ Len(Printed \o <<"ACK", "C">>) = Len(Printed) + 2
  BY <1>2, <1>6, ConcatProperties
<1> QED
  BY <1>3, <1>4, <1>5, <1>6, <1>7

LEMMA SenderLeftKept ==
  ASSUME UNCHANGED <<ses, spc, file, idx>>, NEW CONSTANT M
  PROVE  SenderLeft(M)' = SenderLeft(M)
BY DEF SenderLeft, InFile

LEMMA ReceiverLeftKept ==
  ASSUME UNCHANGED rvars
  PROVE  ReceiverLeft' = ReceiverLeft
BY DEF ReceiverLeft, rvars

\* Tries and faults are only used up.
LEMMA ReserveFewer ==
  ASSUME YInv, stries' \in {stries, stries + 1, Tries}, faults' \in {faults, faults + 1},
         resent' = resent
  PROVE  Reserve' <= Reserve
<1>1. PICK t \in Nat, m \in Nat, f \in Nat : t = Tries /\ m = MaxResend /\ f = MaxFaults
  BY YmodemAssumption
<1>2. PICK t0 \in 0..t, m0 \in Nat, f0 \in Nat : t0 = stries /\ m0 = resent /\ f0 = faults
  BY <1>1 DEF YInv, Types, SenderTypes, GhostTypes
<1>3. PICK t1 \in {t0, t0 + 1, t}, f1 \in {f0, f0 + 1} : t1 = stries' /\ f1 = faults'
  BY <1>1, <1>2
<1>4. (t - t1) + 5 * (m - m0) + (f - f1) <= (t - t0) + 5 * (m - m0) + (f - f0)
  OBVIOUS
<1> QED
  BY <1>1, <1>2, <1>3, <1>4 DEF Reserve

\* A step of the receiver.
LEMMA ReceiverFewer ==
  ASSUME YInv, YInv', NEW CONSTANT M \in Nat, Longer(M),
         UNCHANGED <<ses, svars, resent>>, faults' \in {faults, faults + 1},
         4 * Len(toR') + Len(toS') + ReceiverLeft' < 4 * Len(toR) + Len(toS) + ReceiverLeft
  PROVE  SessionLeft(M)' < SessionLeft(M)
<1>1. PICK s \in Nat : s = SenderLeft(M) /\ s = SenderLeft(M)'
  BY LeftType, SenderLeftKept DEF LeftTypes, svars
<1>2. PICK p \in Nat, a \in Nat, r \in Nat, v \in Nat :
        p = Len(toR) /\ a = Len(toS) /\ r = ReceiverLeft /\ v = Reserve
  BY LeftType DEF LeftTypes
<1>3. PICK p1 \in Nat, a1 \in Nat, r1 \in Nat, v1 \in Nat :
        p1 = Len(toR') /\ a1 = Len(toS') /\ r1 = ReceiverLeft' /\ v1 = Reserve'
  BY LeftTypeNext DEF LeftTypes
<1>4. v1 <= v
  BY <1>2, <1>3, ReserveFewer DEF svars
<1>5. 4 * p1 + a1 + r1 < 4 * p + a + r
  BY <1>2, <1>3
<1>6. 4 * s + 4 * p1 + a1 + r1 + v1 < 4 * s + 4 * p + a + r + v
  BY <1>4, <1>5
<1> QED
  BY <1>1, <1>2, <1>3, <1>6 DEF SessionLeft

\* The receiver has read a packet and goes on, or returns, with at most three
\* answers.
LEMMA PacketReadFewer ==
  ASSUME YInv, YInv', NEW CONSTANT M \in Nat, Longer(M),
         UNCHANGED <<ses, svars, resent>>, faults' \in {faults, faults + 1},
         toR # <<>>, toR' = Tail(toR),
         \E n \in 0..3 : Len(toS') = Len(toS) + n,
         rpc \in {"hs", "trans", "fin1", "fin2"}, rpc' # "off", rtries' \in {rtries, rtries + 1}
  PROVE  SessionLeft(M)' < SessionLeft(M)
<1>1. Len(toR) \in Nat /\ Len(toS) \in Nat /\ Len(toR') = Len(toR) - 1
  BY OthersLeftType, LineLengths DEF YInv
<1>2. PICK k \in 0..3 : Len(toS') = Len(toS) + k
  OBVIOUS
<1>3. ReceiverLeft \in Nat /\ ReceiverLeft' \in Nat /\ ReceiverLeft' <= ReceiverLeft
  <2>1. rtries \in Nat /\ Tries \in Nat
    BY YmodemAssumption DEF YInv, Types, ReceiverTypes
  <2>2. ReceiverLeft \in Nat /\ ReceiverLeft' \in Nat
    BY LeftType, LeftTypeNext DEF LeftTypes
  <2>3. ReceiverLeft = 2 * (Tries - rtries) + 1
    BY DEF ReceiverLeft
  <2>4. PICK n \in {0, 1} : ReceiverLeft' = 2 * (Tries - rtries') + n
    BY DEF ReceiverLeft
  <2>5. PICK i \in Nat : i = rtries
    BY <2>1
  <2>6. PICK j \in {i, i + 1} : j = rtries'
    BY <2>5
  <2>7. 2 * (Tries - j) + n <= 2 * (Tries - i) + 1
    BY <2>1
  <2> QED
    BY <2>2, <2>3, <2>4, <2>5, <2>6, <2>7
<1>4. 4 * Len(toR') + Len(toS') + ReceiverLeft' < 4 * Len(toR) + Len(toS) + ReceiverLeft
  BY <1>1, <1>2, <1>3
<1> QED
  BY <1>4, ReceiverFewer

LEMMA ReceiveFewer ==
  ASSUME YInv, YInv', NEW CONSTANT M \in Nat, Longer(M), Receive \/ RecvOpen
  PROVE  SessionLeft(M)' < SessionLeft(M)
<1>1. faults' \in {faults, faults + 1}
  BY FaultsGrow DEF Next
<1>2. /\ Len(toS) \in Nat /\ Len(Printed) \in {Len(toS), Len(toS) + 1}
      /\ \A c : /\ Len(Append(toS, c)) = Len(toS) + 1
               /\ Len(Append(Printed, c)) = Len(Printed) + 1
      /\ Len(toS \o <<"ACK", "C">>) = Len(toS) + 2
      /\ Len(Printed \o <<"ACK", "C">>) = Len(Printed) + 2
  BY OthersLeftType, LineLengths DEF YInv
<1>3. CASE RHandshake
  <2>1. /\ rpc = "hs" /\ toR # <<>> /\ toR' = Tail(toR) /\ UNCHANGED <<ses, svars, resent>>
        /\ rpc' \in {"hs", "trans", "ret"}
        /\ rtries' \in {rtries, rtries + 1}
        /\ \/ toS' \in {toS, Append(toS, "C"), Printed, Append(toS, "junk")}
           \/ toS' = Printed \o <<"ACK", "C">>
    BY <1>3 DEF RHandshake, Begin, HandshakeAgain, RReturn, TransCodes
  <2>2. \E n \in 0..3 : Len(toS') = Len(toS) + n
    BY <1>2, <2>1
  <2> QED
    BY <1>1, <2>1, <2>2, PacketReadFewer
<1>4. CASE RTransPacket
  <2>1. /\ rpc = "trans" /\ toR # <<>> /\ toR' = Tail(toR) /\ UNCHANGED <<ses, svars, resent>>
        /\ rpc' \in {"trans", "ret"} /\ rtries' = rtries
        /\ toS' \in {toS, Append(toS, "ACK"), Append(Printed, "CAN")}
    BY <1>4 DEF RTransPacket, OtaData, RReturn
  <2>2. \E n \in 0..3 : Len(toS') = Len(toS) + n
    BY <1>2, <2>1
  <2> QED
    BY <1>1, <2>1, <2>2, PacketReadFewer
<1>5. CASE RTransEot \/ RFinEot \/ RWrongCode
  <2>1. /\ rpc \in {"trans", "fin1", "fin2"} /\ toR # <<>> /\ toR' = Tail(toR)
        /\ UNCHANGED <<ses, svars, resent>> /\ rpc' \in {"fin1", "fin2", "ret"} /\ rtries' = rtries
        /\ toS' \in {toS, Append(toS, "NAK"), toS \o <<"ACK", "C">>}
    BY <1>5 DEF RTransEot, RFinEot, RWrongCode, RReturn
  <2>2. \E n \in 0..3 : Len(toS') = Len(toS) + n
    BY <1>2, <2>1
  <2> QED
    BY <1>1, <2>1, <2>2, PacketReadFewer
<1>6. CASE RFinPacket
  <2>1. /\ rpc = "fin2" /\ toR # <<>> /\ toR' = Tail(toR) /\ UNCHANGED <<ses, svars, resent>>
        /\ rpc' \in {"trans", "ret"} /\ rtries' = rtries
        /\ \/ toS' \in {toS, Append(toS, "ACK"), Printed, Append(toS, "junk")}
           \/ toS' = Printed \o <<"ACK", "C">>
    BY <1>6 DEF RFinPacket, Begin, RReturn, TransCodes
  <2>2. \E n \in 0..3 : Len(toS') = Len(toS) + n
    BY <1>2, <2>1
  <2> QED
    BY <1>1, <2>1, <2>2, PacketReadFewer
<1>7. /\ Len(toR) \in Nat /\ Len(toS) \in Nat /\ rtries \in Nat /\ Tries \in Nat
      /\ \A c : Len(Append(toS, c)) = Len(toS) + 1
  BY OthersLeftType, LineLengths, YmodemAssumption DEF YInv, Types, ReceiverTypes
<1>8. CASE RTimeout
  <2>1. toR' = toR /\ UNCHANGED <<ses, svars, resent>>
    BY <1>8 DEF RTimeout
  <2>2. \/ rpc' = "ret" /\ toS' = toS /\ rtries' = rtries
        \/ rpc' = rpc /\ Len(toS') = Len(toS) + 1 /\ rtries' = rtries + 1
    BY <1>7, <1>8 DEF RTimeout, HandshakeAgain, RReturn
  <2>3. rpc \in {"hs", "trans", "fin1", "fin2"}
    BY <1>8 DEF RTimeout
  <2>4. ReceiverLeft = 2 * (Tries - rtries) + 1
    BY <2>3 DEF ReceiverLeft
  <2>5. \/ ReceiverLeft' = 2 * (Tries - rtries) /\ toS' = toS
        \/ ReceiverLeft' = 2 * (Tries - (rtries + 1)) + 1 /\ Len(toS') = Len(toS) + 1
    BY <1>7, <2>2, <2>3 DEF ReceiverLeft
  <2>6. 4 * Len(toR') + Len(toS') + ReceiverLeft' < 4 * Len(toR) + Len(toS) + ReceiverLeft
    BY <1>7, <2>1, <2>4, <2>5
  <2> QED
    BY <1>1, <2>1, <2>6, ReceiverFewer
<1>9. CASE RecvOpen
  <2>1. /\ toR' = toR /\ UNCHANGED <<ses, svars, resent>> /\ rpc = "off" /\ rpc' = "hs"
        /\ rtries' = rtries /\ Len(toS') \in {Len(toS) + 1, Len(toS) + 2}
    BY <1>2, <1>9 DEF RecvOpen
  <2>2. 4 * Len(toR') + Len(toS') + ReceiverLeft' < 4 * Len(toR) + Len(toS) + ReceiverLeft
    BY <1>7, <2>1 DEF ReceiverLeft
  <2> QED
    BY <1>1, <2>1, <2>2, ReceiverFewer
<1> QED
  BY <1>3, <1>4, <1>5, <1>6, <1>8, <1>9 DEF Receive

\* A step of the sender, or of the line.
LEMMA SenderFewer ==
  ASSUME YInv, YInv', NEW CONSTANT M \in Nat, Longer(M), UNCHANGED rvars,
         4 * SenderLeft(M)' + 4 * Len(toR') + Len(toS') + Reserve'
           < 4 * SenderLeft(M) + 4 * Len(toR) + Len(toS) + Reserve
  PROVE  SessionLeft(M)' < SessionLeft(M)
<1>1. PICK r \in Nat : r = ReceiverLeft /\ r = ReceiverLeft'
  BY LeftType, ReceiverLeftKept DEF LeftTypes
<1>2. PICK s \in Nat, p \in Nat, a \in Nat, v \in Nat :
        s = SenderLeft(M) /\ p = Len(toR) /\ a = Len(toS) /\ v = Reserve
  BY LeftType DEF LeftTypes
<1>3. PICK s1 \in Nat, p1 \in Nat, a1 \in Nat, v1 \in Nat :
        s1 = SenderLeft(M)' /\ p1 = Len(toR') /\ a1 = Len(toS') /\ v1 = Reserve'
  BY LeftTypeNext DEF LeftTypes
<1>4. 4 * s1 + 4 * p1 + a1 + v1 < 4 * s + 4 * p + a + v
  BY <1>2, <1>3
<1>5. 4 * s1 + 4 * p1 + a1 + r + v1 < 4 * s + 4 * p + a + r + v
  BY <1>4
<1> QED
  BY <1>1, <1>2, <1>3, <1>5 DEF SessionLeft

\* The sender gets on, for an answer and with at most one packet.
LEMMA AnswerReadFewer ==
  ASSUME YInv, YInv', NEW CONSTANT M \in Nat, Longer(M),
         UNCHANGED <<rvars, stries, faults, resent>>, toS # <<>>, toS' = Tail(toS),
         toR' = toR \/ (\E p : toR' = Append(toR, p)), SenderLeft(M)' < SenderLeft(M)
  PROVE  SessionLeft(M)' < SessionLeft(M)
<1>1. /\ Len(toR) \in Nat /\ Len(toS) \in Nat /\ Len(toS') = Len(toS) - 1
      /\ Len(toR') \in {Len(toR), Len(toR) + 1}
  BY OthersLeftType, LineLengths DEF YInv
<1>2. Reserve' = Reserve /\ Reserve \in Nat
  BY OthersLeftType DEF YInv, Reserve
<1>3. SenderLeft(M) \in Nat /\ SenderLeft(M)' \in Nat
  BY LeftType, LeftTypeNext DEF LeftTypes
<1>4. PICK s \in Nat, p \in Nat, a \in Nat, v \in Nat :
        s = SenderLeft(M) /\ p = Len(toR) /\ a = Len(toS) /\ v = Reserve
  BY <1>1, <1>2, <1>3
<1>5. PICK s1 \in Nat, p1 \in {p, p + 1} : s1 = SenderLeft(M)' /\ p1 = Len(toR')
  BY <1>1, <1>3, <1>4
<1>6. s1 < s
  BY <1>4, <1>5
<1>7. 4 * s1 + 4 * p1 + (a - 1) + v < 4 * s + 4 * p + a + v
  BY <1>6
<1>8. 4 * SenderLeft(M)' + 4 * Len(toR') + Len(toS') + Reserve'
        < 4 * SenderLeft(M) + 4 * Len(toR) + Len(toS) + Reserve
  BY <1>1, <1>2, <1>4, <1>5, <1>7
<1> QED
  BY <1>8, SenderFewer

LEMMA SGetExpectedFewer ==
  ASSUME YInv, YInv', NEW CONSTANT M \in Nat, Longer(M), SGetExpected
  PROVE  SessionLeft(M)' < SessionLeft(M)
<1>1. /\ ses' = ses /\ UNCHANGED <<rvars, stries, faults, resent>> /\ toS # <<>> /\ toS' = Tail(toS)
      /\ spc \in Waits
  BY ExpectedIs DEF SGetExpected, Sending
<1>2. toR' = toR \/ (\E p : toR' = Append(toR, p))
  BY DEF SGetExpected, Send, SWait, SReturn
<1>3. PICK n \in Nat \ {0} : n = Len(ses.files)
  BY SessionTypes DEF YInv, Types, WireTypes
<1>4. file \in 1..n /\ idx \in 0..M /\ idx \in 0..Blocks(file)
  BY <1>3, BlocksFew DEF YInv, Types, WireTypes, SenderTypes
<1>5. PICK x \in Nat, y \in Nat : x = n * (M + 8) /\ y = (n - file) * (M + 8) /\ y + M + 8 <= x
  BY <1>4, FilesTimes
<1>6. /\ spc = "hs" => SenderLeft(M) = x
      /\ spc # "hs" => SenderLeft(M) = y + InFile(M)
  BY <1>1, <1>3, <1>5 DEF SenderLeft, Waits
<1>7. ASSUME file' = file, spc' \in Waits \ {"hs"} PROVE SenderLeft(M)' = y + InFile(M)'
  BY <1>1, <1>3, <1>5, <1>7 DEF SenderLeft, Waits
<1>8. CASE spc' = "ret"
  <2>1. SenderLeft(M)' = 0 /\ SenderLeft(M) > 0
    BY <1>1, <1>8, SenderLeftType DEF SenderLeft, YInv, Waits
  <2> QED
    BY <1>1, <1>2, <2>1, AnswerReadFewer
<1>9. CASE spc = "c1" /\ file' = file + 1
  <2>1. file < n /\ spc' = "ack0" /\ Len(ses'.files) = n
    BY <1>1, <1>3, <1>4, <1>9 DEF SGetExpected, Send
  <2>2. SenderLeft(M)' = (n - (file + 1)) * (M + 8) + (M + 7)
    BY <1>9, <2>1 DEF SenderLeft, InFile
  <2>3. PICK z \in Int : z = (n - (file + 1)) * (M + 8) /\ z + (M + 8) = y
    BY <1>4, <1>5, <2>1, FilesTimes
  <2>4. SenderLeft(M) = y + 2
    BY <1>6, <1>9 DEF InFile
  <2>5. SenderLeft(M)' < SenderLeft(M)
    BY <1>5, <2>2, <2>3, <2>4
  <2> QED
    BY <1>1, <1>2, <2>5, AnswerReadFewer
<1>10. CASE file' = file /\ spc' # "ret"
  <2>1. \/ spc = "hs" /\ spc' = "ack0"
        \/ spc = "ack0" /\ spc' = "c0"
        \/ spc \in {"c0", "ackd"} /\ spc' = "ackd" /\ idx' = idx + 1
        \/ spc \in {"c0", "ackd"} /\ spc' = "nak"
        \/ spc = "nak" /\ spc' = "ack1"
        \/ spc = "ack1" /\ spc' = "c1"
        \/ spc = "c1" /\ spc' = "ackf"
    BY <1>4, <1>10 DEF SGetExpected, Send, SWait, SReturn
  <2>2. SenderLeft(M)' = y + InFile(M)'
    BY <1>7, <1>10, <2>1 DEF Waits
  <2>3. SenderLeft(M)' < SenderLeft(M)
    BY <1>4, <1>5, <1>6, <2>1, <2>2 DEF InFile
  <2> QED
    BY <1>1, <1>2, <2>3, AnswerReadFewer
<1> QED
  BY <1>8, <1>9, <1>10 DEF SGetExpected, Send, SWait, SReturn

\* The sender returns.
LEMMA QuitFewer ==
  ASSUME YInv, YInv', NEW CONSTANT M \in Nat, Longer(M), UNCHANGED <<rvars, toR, resent>>,
         spc # "ret", spc' = "ret", toS' = toS \/ (toS # <<>> /\ toS' = Tail(toS)),
         stries' \in {stries, stries + 1, Tries}, faults' \in {faults, faults + 1}
  PROVE  SessionLeft(M)' < SessionLeft(M)
<1>1. SenderLeft(M)' = 0 /\ SenderLeft(M) \in Nat \ {0}
  BY SenderLeftType DEF SenderLeft, YInv
<1>2. Len(toR) \in Nat /\ Len(toS) \in Nat /\ Len(toS') \in {Len(toS), Len(toS) - 1}
  BY OthersLeftType, LineLengths DEF YInv
<1>3. PICK v \in Nat, v1 \in Nat : v = Reserve /\ v1 = Reserve' /\ v1 <= v
  BY LeftType, LeftTypeNext, ReserveFewer DEF LeftTypes
<1>4. PICK s \in Nat \ {0}, p \in Nat, a \in Nat : s = SenderLeft(M) /\ p = Len(toR) /\ a = Len(toS)
  BY <1>1, <1>2
<1>5. PICK a1 \in Int : a1 = Len(toS') /\ a1 <= a
  BY <1>2, <1>4
<1>6. 4 * 0 + 4 * p + a1 + v1 < 4 * s + 4 * p + a + v
  <2>1. a1 <= a /\ v1 <= v /\ s >= 1
    BY <1>3, <1>5
  <2> QED
    BY <2>1
<1>7. 4 * SenderLeft(M)' + 4 * Len(toR') + Len(toS') + Reserve'
        < 4 * SenderLeft(M) + 4 * Len(toR) + Len(toS) + Reserve
  BY <1>1, <1>3, <1>4, <1>5, <1>6
<1> QED
  BY <1>7, SenderFewer

\* The sender stays where it is.
LEMMA SameFewer ==
  ASSUME YInv, YInv', NEW CONSTANT M \in Nat, Longer(M), UNCHANGED <<ses, rvars, spc, file, idx>>,
         4 * Len(toR') + Len(toS') + Reserve' < 4 * Len(toR) + Len(toS) + Reserve
  PROVE  SessionLeft(M)' < SessionLeft(M)
<1>1. PICK s \in Nat : s = SenderLeft(M) /\ s = SenderLeft(M)'
  BY LeftType, SenderLeftKept DEF LeftTypes
<1>2. PICK p \in Nat, a \in Nat, v \in Nat : p = Len(toR) /\ a = Len(toS) /\ v = Reserve
  BY LeftType DEF LeftTypes
<1>3. PICK p1 \in Nat, a1 \in Nat, v1 \in Nat : p1 = Len(toR') /\ a1 = Len(toS') /\ v1 = Reserve'
  BY LeftTypeNext DEF LeftTypes
<1>4. 4 * p1 + a1 + v1 < 4 * p + a + v
  BY <1>2, <1>3
<1>5. 4 * s + 4 * p1 + a1 + v1 < 4 * s + 4 * p + a + v
  BY <1>4
<1> QED
  BY <1>1, <1>2, <1>3, <1>5, SenderFewer

LEMMA SendFewer ==
  ASSUME YInv, YInv', NEW CONSTANT M \in Nat, Longer(M),
         SendOpen \/ SendStep \/ SBeginFails \/ PcIgnore \/ PcResend \/ PcGiveUp
  PROVE  SessionLeft(M)' < SessionLeft(M)
<1>1. faults' \in {faults, faults + 1}
  BY FaultsGrow DEF Next
<1>2. /\ stries \in Nat /\ resent \in Nat /\ Tries \in Nat /\ MaxResend \in Nat
      /\ faults \in Nat /\ MaxFaults \in Nat
  BY YmodemAssumption DEF YInv, Types, SenderTypes, GhostTypes
<1>3. /\ Len(toR) \in Nat /\ Len(toS) \in Nat /\ Len(<<>>) = 0
      /\ toS # <<>> => Len(Tail(toS)) = Len(toS) - 1
      /\ \A p : Len(Append(toR, p)) = Len(toR) + 1
  BY OthersLeftType, LineLengths DEF YInv
<1>4. CASE SendOpen
  <2>1. /\ ses' = ses /\ UNCHANGED <<rvars, toR, stries, faults, resent>>
        /\ spc = "off" /\ spc' = "hs" /\ toS' \in {toS, <<>>}
    BY <1>4 DEF SendOpen
  <2>2. SenderLeft(M) = SenderLeft(M)' + 1
    <3>1. PICK n \in Nat, m \in Nat : n = Len(ses.files) /\ m = M + 8
      BY SessionTypes DEF YInv, Types, WireTypes
    <3>2. PICK x \in Nat : x = n * m
      OBVIOUS
    <3> QED
      BY <2>1, <3>1, <3>2 DEF SenderLeft
  <2>3. Reserve' = Reserve /\ Reserve \in Nat
    BY <2>1, OthersLeftType DEF Reserve, YInv
  <2>4. SenderLeft(M)' \in Nat
    BY LeftType, LeftTypeNext DEF LeftTypes
  <2>5. PICK s \in Nat, p \in Nat, a \in Nat, v \in Nat :
          s = SenderLeft(M)' /\ p = Len(toR) /\ a = Len(toS) /\ v = Reserve
    BY <1>3, <2>3, <2>4
  <2>6. PICK a1 \in {a, 0} : a1 = Len(toS')
    BY <1>3, <2>1, <2>5
  <2>7. 4 * s + 4 * p + a1 + v < 4 * (s + 1) + 4 * p + a + v
    OBVIOUS
  <2>8. 4 * SenderLeft(M)' + 4 * Len(toR') + Len(toS') + Reserve'
          < 4 * SenderLeft(M) + 4 * Len(toR) + Len(toS) + Reserve
    BY <2>1, <2>2, <2>3, <2>5, <2>6, <2>7
  <2> QED
    BY <2>1, <2>8, SenderFewer
<1>5. CASE SGetExpected
  BY <1>5, SGetExpectedFewer
<1>6. CASE SBeginFails \/ PcGiveUp
  <2>1. /\ UNCHANGED <<rvars, toR, resent, stries>> /\ spc # "ret" /\ spc' = "ret"
        /\ toS' = toS \/ (toS # <<>> /\ toS' = Tail(toS))
    BY <1>6, ExpectedIs DEF SBeginFails, PcGiveUp, SReturn, Sending, Waits
  <2> QED
    BY <1>1, <2>1, QuitFewer
<1>7. CASE SyWrong
  <2>1. /\ ses' = ses /\ UNCHANGED <<rvars, toR, resent, file, idx, faults>> /\ spc # "ret"
        /\ toS' = toS \/ (toS # <<>> /\ toS' = Tail(toS))
        /\ spc' = "ret" \/ (spc' = spc /\ stries' = stries + 1)
        /\ stries' \in {stries, stries + 1, Tries}
    BY <1>7, ExpectedIs DEF SyWrong, SReturn, SWait, Sending, Waits
  <2>2. CASE spc' = "ret"
    BY <1>1, <2>1, <2>2, QuitFewer
  <2>3. CASE spc' = spc /\ stries' = stries + 1
    <3>1. 4 * Len(toR') + Len(toS') + Reserve' < 4 * Len(toR) + Len(toS) + Reserve
      BY <1>2, <1>3, <2>1, <2>3 DEF Reserve
    <3> QED
      BY <2>1, <2>3, <3>1, SameFewer
  <2> QED
    BY <2>1, <2>2, <2>3
<1>8. CASE PcIgnore
  <2>1. /\ ses' = ses /\ UNCHANGED <<rvars, toR, resent, stries, faults, spc, file, idx>>
        /\ toS # <<>> /\ toS' = Tail(toS)
    BY <1>8 DEF PcIgnore, svars
  <2>2. 4 * Len(toR') + Len(toS') + Reserve' < 4 * Len(toR) + Len(toS) + Reserve
    BY <1>2, <1>3, <2>1 DEF Reserve
  <2> QED
    BY <2>1, <2>2, SameFewer
<1>9. CASE PcResend
  <2>1. /\ ses' = ses /\ UNCHANGED <<rvars, stries, faults, spc, file, idx>>
        /\ toS' = toS \/ (toS # <<>> /\ toS' = Tail(toS))
        /\ toR' = Append(toR, last) /\ resent' = resent + 1
    BY <1>9 DEF PcResend, svars
  <2>2. 4 * Len(toR') + Len(toS') + Reserve' < 4 * Len(toR) + Len(toS) + Reserve
    BY <1>2, <1>3, <2>1 DEF Reserve
  <2> QED
    BY <2>1, <2>2, SameFewer
<1> QED
  BY <1>4, <1>5, <1>6, <1>7, <1>8, <1>9 DEF SendStep

LEMMA LineFewer ==
  ASSUME YInv, YInv', NEW CONSTANT M \in Nat, Longer(M), Lose \/ Damage
  PROVE  SessionLeft(M)' < SessionLeft(M)
<1>1. /\ ses' = ses /\ UNCHANGED <<rvars, stries, resent, spc, file, idx>> /\ faults' = faults + 1
  BY DEF Lose, Damage, Fault, svars
<1>2. /\ stries \in Nat /\ resent \in Nat /\ Tries \in Nat /\ MaxResend \in Nat
      /\ faults \in Nat /\ MaxFaults \in Nat
  BY YmodemAssumption DEF YInv, Types, SenderTypes, GhostTypes
<1>3. /\ toR \in Seq(Packets) /\ toS \in Seq(Codes)
      /\ Len(toR) \in Nat /\ Len(toS) \in Nat
  BY OthersLeftType DEF YInv, Types, WireTypes
<1>4. Len(toR') \in {Len(toR), Len(toR) - 1} /\ Len(toS') \in {Len(toS), Len(toS) - 1}
  <2>1. CASE Lose
    BY <1>3, <2>1, RemoveAtProperties DEF Lose
  <2>2. CASE Damage
    <3>1. DOMAIN toR' = DOMAIN toR /\ DOMAIN toS' = DOMAIN toS
      BY <2>2 DEF Damage
    <3>2. toR' \in Seq(Packets) /\ toS' \in Seq(Codes)
      BY LeftTypeNext DEF LeftTypes
    <3>3. 1..Len(toR') = 1..Len(toR) /\ 1..Len(toS') = 1..Len(toS)
      BY <1>3, <3>1, <3>2, LenProperties
    <3>4. Len(toR') \in Nat /\ Len(toS') \in Nat
      BY <3>2, LenProperties
    <3> QED
      BY <1>3, <3>3, <3>4
  <2> QED
    BY <2>1, <2>2
<1>5. 4 * Len(toR') + Len(toS') + Reserve' < 4 * Len(toR) + Len(toS) + Reserve
  BY <1>1, <1>2, <1>3, <1>4 DEF Reserve
<1> QED
  BY <1>1, <1>5, SameFewer

LEMMA InitLeft ==
  ASSUME Init, NEW CONSTANT M \in Nat
  PROVE  SessionLeft(M) = AtMost(M)
<1>1. /\ Len(toR) = 0 /\ Len(toS) = 0 /\ rtries = 0 /\ stries = 0 /\ resent = 0 /\ faults = 0
      /\ rpc = "off" /\ spc = "off" /\ ses \in Sessions
  BY DEF Init
<1>2. Tries \in Nat /\ MaxResend \in Nat /\ MaxFaults \in Nat
  BY YmodemAssumption
<1>3. PICK n \in Nat, m \in Nat : n = Len(ses.files) /\ m = M + 8
  BY <1>1, SessionTypes
<1>4. PICK x \in Nat : x = n * m
  OBVIOUS
<1>7. SenderLeft(M) = x + 1
  BY <1>1, <1>3, <1>4 DEF SenderLeft
<1>8. AtMost(M) = 4 * x + 8 + 3 * Tries + 5 * MaxResend + MaxFaults
  BY <1>3, <1>4 DEF AtMost
<1>5. ReceiverLeft = 2 * Tries + 4
  BY <1>1, <1>2 DEF ReceiverLeft
<1>6. Reserve = Tries + 5 * MaxResend + MaxFaults
  BY <1>1, <1>2 DEF Reserve
<1> QED
  BY <1>1, <1>2, <1>5, <1>6, <1>7, <1>8 DEF SessionLeft

\* Every step of a session, of the receiver, of the sender or of the line, leaves
\* fewer to come: _rym_do_handshake, which sends C again, and a sender that takes
\* it for a NAK cannot keep each other busy for ever, and no loop of _rym_do_recv or
\* _rym_do_send goes round without end.  No fairness is needed for it.  What is left
\* is counted from the files, the tries of the two handshakes, the packets that the
\* pc sends again and the faults: AtMost steps at the beginning.
THEOREM SessionBounded ==
  ASSUME NEW CONSTANT M \in Nat, Longer(M)
  PROVE  Spec => /\ [](SessionLeft(M) \in 0..AtMost(M))
                 /\ [][SessionLeft(M)' < SessionLeft(M)]_vars
<1> DEFINE Left == SessionLeft(M) <= AtMost(M)
<1>1. Init => Left
  <2> SUFFICES ASSUME Init PROVE Left
    OBVIOUS
  <2>1. SessionLeft(M) \in Nat
    BY InitYInv, SessionLeftType
  <2> QED
    BY <2>1, InitLeft
<1>2. YInv /\ YInv' /\ [Next]_vars => [SessionLeft(M)' < SessionLeft(M)]_vars
  <2> SUFFICES ASSUME YInv, YInv', Next PROVE SessionLeft(M)' < SessionLeft(M)
    OBVIOUS
  <2> QED
    BY ReceiveFewer, SendFewer, LineFewer DEF Next
<1>3. YInv /\ YInv' /\ Left /\ [Next]_vars => Left'
  <2> SUFFICES ASSUME YInv, YInv', Left, [Next]_vars PROVE Left'
    OBVIOUS
  <2>1. AtMost(M)' = AtMost(M)
    BY SessionKept DEF AtMost
  <2>2. AtMost(M) \in Nat
    BY LeftType DEF LeftTypes
  <2>3. SessionLeft(M) \in Nat /\ SessionLeft(M)' \in Nat
    BY LeftType, LeftTypeNext DEF LeftTypes
  <2>4. CASE Next
    BY <2>1, <2>2, <2>3, <2>4, ReceiveFewer, SendFewer, LineFewer DEF Next
  <2>5. CASE UNCHANGED vars
    <3>1. SessionLeft(M)' = SessionLeft(M)
      BY <2>5 DEF SessionLeft, SenderLeft, InFile, ReceiverLeft, Reserve, vars, rvars, svars
    <3> QED
      BY <2>1, <3>1
  <2> QED
    BY <2>4, <2>5
<1>4. YInv /\ Left => SessionLeft(M) \in 0..AtMost(M)
  <2> SUFFICES ASSUME YInv, Left PROVE SessionLeft(M) \in 0..AtMost(M)
    OBVIOUS
  <2>1. AtMost(M) \in Nat /\ SessionLeft(M) \in Nat
    BY LeftType DEF LeftTypes
  <2> QED
    BY <2>1
<1> QED
  BY <1>1, <1>2, <1>3, <1>4, YmodemInductive, PTL DEF Spec
=============================================================================
