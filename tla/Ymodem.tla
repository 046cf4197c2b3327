------------------------------- MODULE Ymodem -------------------------------
(***************************************************************************)
(* A Ymodem session over a serial line: the receiver and the sender of     *)
(* rt-thread/components/utilities/ymodem/ymodem.c, with the callbacks of   *)
(* the shell commands that use them (ry and sy of ry_sy.c, ymodem_ota of   *)
(* packages/ota_downloader-v1.0.0/src/ymodem_ota.c).  The other end of a   *)
(* real line is mostly a terminal program, which sends packets again: it   *)
(* is modelled beside sy as the peer "pc" and external to the repository.  *)
(*                                                                         *)
(* The line carries packets and single characters; it may lose or damage   *)
(* them.  CRC16 is taken to detect damage.  A timeout may fire whenever    *)
(* nothing is there to read; it counts as a fault when the other end was   *)
(* only slow.  The line of ymodem_ota is the console's, so that what it    *)
(* prints while the session runs goes to the sender: a text is one "junk"  *)
(* here, as it has no character that means anything to the sender.  What   *)
(* the commands and the shell print once rym_recv_on_device or             *)
(* rym_send_on_device has returned is left out.                            *)
(***************************************************************************)
EXTENDS Integers, Sequences, SequencesExt

CONSTANTS
  Blk, StxBlk,  \* bytes of data in a packet of SOH (128) and of STX (1024)
  SeqRange,       \* 256: the sequence number of a packet is a byte
  Sessions,     \* what may be at the two ends of the line: a subset of Session
  PartLen,      \* bytes of the partition that ymodem_ota writes
  Sector,       \* bytes that are erased together
  Tries,        \* handshake_timeout, in both directions
  MaxFaults,    \* bound on faults of the line and of the callbacks
  MaxResend     \* bound on what the pc sends again

\* peer sends files of these lengths to app, in packets that begin with code.
\* The partition may be dirty, not blank, from its last use.
Session == [peer : {"sy", "pc"}, app : {"ry", "ota"}, code : {"SOH", "STX"},
            files : Seq(Nat), dirty : BOOLEAN]

ASSUME YmodemAssumption ==
  /\ Blk \in Nat \ {0} /\ StxBlk \in Nat \ {0}
  /\ SeqRange \in Nat \ {0, 1}
  /\ Sessions \subseteq Session
  /\ \A s \in Sessions : /\ s.files # <<>>
                         /\ s.peer = "sy" => Len(s.files) = 1 /\ s.code = "SOH"
  /\ PartLen \in Nat /\ Sector \in Nat \ {0}
  /\ Tries \in Nat \ {0} /\ MaxFaults \in Nat /\ MaxResend \in Nat

VARIABLES
  ses,     \* the session
  toR,     \* the line to the receiver: packets
  toS,     \* the line to the sender: characters
  rpc,     \* what the receiver waits for: "hs", "trans", "fin1", "fin2"; "off", "ret"
  stage,   \* its ctx->stage
  rtries,  \* C's of the handshake that were not answered
  rret,    \* "none", "OK" or the RYM_ERR_ it returned
  store,   \* bytes written to the file, or to the partition, since on_begin
  flen,    \* ry: bytes of the file to come, -1 for any number; ota: its size
  fds,     \* files that ry has open
  done,    \* contents of the files whose end was received
  spc,     \* what the sender waits for, a key of Expected; "off", "ret"
  file,    \* the file it sends,
  idx,     \* the number of its last data packet
  last,    \* what it sent last
  stries,  \* codes of the handshake that were not C
  sret,    \* "none", "OK" or the RYM_ERR_ it returned
  faults,
  resent,  \* what the pc sent again,
  dup,     \* and whether a data packet was among it
  nowrite  \* a write of ry failed

rvars == <<rpc, stage, rtries, rret, store, flen, fds, done>>
svars == <<spc, file, idx, last, stries, sret>>
vars  == <<ses, toR, toS, rvars, svars, faults, resent, dup, nowrite>>

Pkt(c, s, l) == [c |-> c, seq |-> s % SeqRange, load |-> l, bad |-> "no"]
Char(c) == Pkt(c, 0, <<>>)
Pad == <<0, 0>>                          \* 0x1A

Init ==
  /\ ses \in Sessions
  /\ toR = <<>> /\ toS = <<>>
  /\ rpc = "off" /\ stage = "NONE" /\ rtries = 0 /\ rret = "none"
  /\ store = <<>> /\ flen = 0 /\ fds = 0 /\ done = <<>>
  /\ spc = "off" /\ file = 1 /\ idx = 0 /\ last = Char("EOT")
  /\ stries = 0 /\ sret = "none"
  /\ faults = 0 /\ resent = 0 /\ dup = FALSE /\ nowrite = FALSE

Fault == faults < MaxFaults /\ faults' = faults + 1

-----------------------------------------------------------------------------
(* The receiver.                                                           *)

\* _rym_do_recv frees the buffer and rym_recv_on_device gives the device back.
\* On an error nothing is sent, and on_end is not called.
RReturn(r) == rpc' = "ret" /\ rret' = r /\ UNCHANGED <<store, flen, fds, done>>

\* The line to the sender when ymodem_ota has printed a text.
Printed == IF ses.app = "ota" THEN Append(toS, "junk") ELSE toS

\* rym_recv_on_device, up to the first C.  ymodem_ota warns the user before.
RecvOpen ==
  /\ rpc = "off"
  /\ rpc' = "hs" /\ stage' = "ESTABLISHING"
  /\ toS' = Append(Printed, "C")
  /\ UNCHANGED <<ses, toR, rtries, rret, store, flen, fds, done, svars,
                 faults, resent, dup, nowrite>>

\* Mutant: the loop of the handshake has no end.
HandshakeAgain_Forever ==
  /\ toS' = Append(SelectSeq(toS, LAMBDA x : x # "C"), "C")
  /\ UNCHANGED <<rpc, rtries, rret, store, flen, fds, done>>

\* Mutant: the last try is not the last.
HandshakeAgain_OneMore ==
  IF rtries = Tries
    THEN RReturn("TMO") /\ UNCHANGED <<toS, rtries>>
    ELSE /\ rtries' = rtries + 1
         /\ toS' = Append(toS, "C")
         /\ UNCHANGED <<rpc, rret, store, flen, fds, done>>

\* Nothing, or something else than a packet: C is sent again.
HandshakeAgain ==
  IF rtries + 1 = Tries
    THEN RReturn("TMO") /\ UNCHANGED <<toS, rtries>>
    ELSE /\ rtries' = rtries + 1
         /\ toS' = Append(toS, "C")
         /\ UNCHANGED <<rpc, rret, store, flen, fds, done>>

\* _rym_recv_begin and ymodem_on_begin for a file of n bytes.
BeginOK(n) ==
  /\ store' = <<>>
  /\ \/ ses.app = "ry" /\ fds' = fds + 1 /\ flen' = IF n = 0 THEN -1 ELSE n
     \/ ses.app = "ota" /\ n \in 1..PartLen /\ fds' = fds /\ flen' = n

\* The callback returns RYM_CODE_CAN: the file is too large, or empty, so that
\* there is nothing to erase; or it cannot be created, or the partition erased.
BeginCan(n) ==
  \/ ses.app = "ota" /\ n \notin 1..PartLen /\ faults' = faults
  \/ Fault

\* Mutant: the second C, which the sender waits for, is not sent.
TransCodes_OnlyAck == <<"ACK">>

\* What _rym_do_trans begins with.
TransCodes == <<"ACK", "C">>

\* A header that passed its checks, in the handshake or after a file.  Either way
\* ymodem_on_begin has printed the size; ry prints that it cannot create the file,
\* on the console, which may be another line.
Begin(n) ==
  \/ /\ BeginOK(n)
     /\ toS' = Printed \o TransCodes
     /\ rpc' = "trans" /\ stage' = "ESTABLISHED"
     /\ UNCHANGED <<rret, done, faults>>
  \/ /\ BeginCan(n)
     /\ toS' \in {Printed, Append(toS, "junk")}
     /\ RReturn("CAN") /\ stage' = stage

\* A packet that lost bytes is short, unless bytes that follow make up for them.
ShortError(e) == e = "DSZ" \/ (e = "CRC" /\ Len(toR) > 1)

\* What the checks of packet 0 find, in the order of the code.
HeaderError(p, e) ==
  \/ p.bad = "short" /\ ShortError(e)
  \/ (p.bad = "seq" \/ (p.bad # "short" /\ p.seq # 0)) /\ e = "SEQ"
  \/ p.bad = "crc" /\ p.seq = 0 /\ e = "CRC"

IsPacket(p) == p.c \in {"SOH", "STX"}

\* _rym_do_handshake reads a code.
RHandshake ==
  /\ rpc = "hs" /\ toR # <<>>
  /\ LET p == Head(toR) IN
       \/ /\ IsPacket(p) /\ p.bad = "no" /\ p.seq = 0
          /\ Begin(p.load[1][2]) /\ rtries' = rtries
       \/ /\ \E e \in {"DSZ", "SEQ", "CRC"} :
               /\ \/ IsPacket(p) /\ HeaderError(p, e)
                  \/ p.c = "junk"     \* the bytes after it look like a packet
               /\ RReturn(e)
          /\ UNCHANGED <<toS, stage, rtries, faults>>
       \/ /\ ~IsPacket(p)
          /\ HandshakeAgain /\ UNCHANGED <<stage, faults>>
  /\ toR' = Tail(toR)
  /\ UNCHANGED <<ses, svars, resent, dup, nowrite>>

Least(a, b) == IF a < b THEN a ELSE b

\* _rym_recv_data: the rest of the file, or all of the packet.  The result of
\* write is not looked at.
RyData(d) ==
  LET w == IF flen = -1 THEN Len(d) ELSE Least(Len(d), flen) IN
    /\ flen' = IF flen = -1 THEN -1 ELSE flen - w
    /\ \/ store' = store \o SubSeq(d, 1, w) /\ UNCHANGED <<faults, nowrite>>
       \/ Fault /\ store' = store /\ nowrite' = TRUE

\* fal_partition_write stays in the partition; the flash driver reads back what
\* it wrote, so that bytes that were not erased make it fail.
Writable(n) ==
  LET end == Len(store) + n IN
    /\ end <= PartLen
    /\ ses.dirty => end <= Sector * ((flen + Sector - 1) \div Sector)

\* ymodem_on_data answers ACK, or says so and answers CAN, which _rym_do_trans
\* sends seven times.
OtaData(d) ==
  \/ /\ Writable(Len(d))
     /\ store' = store \o d
     /\ toS' = Append(toS, "ACK")
     /\ UNCHANGED <<rpc, rret, flen, fds, done, faults>>
  \/ /\ IF Writable(Len(d)) THEN Fault ELSE faults' = faults
     /\ toS' = Append(Printed, "CAN") /\ RReturn("CAN")

\* Mutant: packet 0 is never taken for a repeated header.
RepeatedHeader_None(p) == FALSE

\* Mutant: packet 0 is always taken for a repeated header.
RepeatedHeader_Always(p) == p.seq = 0

\* The sender took a C for a NAK and sent the header again.
RepeatedHeader(p) == stage = "ESTABLISHED" /\ p.seq = 0

\* _rym_trans_data.
RTransPacket ==
  /\ rpc = "trans" /\ toR # <<>> /\ IsPacket(Head(toR))
  /\ LET p == Head(toR) IN
       \/ /\ \E e \in {"DSZ", "SEQ", "CRC"} :
               /\ \/ p.bad = "short" /\ ShortError(e) /\ stage' = stage
                  \/ p.bad = "seq" /\ e = "SEQ" /\ stage' = stage
                  \/ p.bad = "crc" /\ ~RepeatedHeader(p) /\ e = "CRC"
                     /\ stage' = "TRANSMITTING"
               /\ RReturn(e)
          /\ UNCHANGED <<toS, faults, nowrite>>
       \/ /\ p.bad \in {"no", "crc"} /\ RepeatedHeader(p)
          /\ UNCHANGED <<rpc, stage, rret, store, flen, fds, done, toS, faults, nowrite>>
       \/ /\ p.bad = "no" /\ ~RepeatedHeader(p)
          /\ stage' = "TRANSMITTING"
          /\ \/ /\ ses.app = "ry" /\ RyData(p.load)
                /\ toS' = Append(toS, "ACK")
                /\ UNCHANGED <<rpc, rret, fds, done>>
             \/ /\ ses.app = "ota" /\ OtaData(p.load) /\ nowrite' = nowrite
  /\ toR' = Tail(toR)
  /\ UNCHANGED <<ses, rtries, svars, resent, dup>>

\* Mutant: on_end is not called.
EndFds_Kept == fds

\* _rym_recv_end closes the file; ymodem_ota has no on_end.
EndFds == IF ses.app = "ry" THEN fds - 1 ELSE fds

\* The first EOT: _rym_do_trans returns, _rym_do_fin calls on_end and answers NAK.
RTransEot ==
  /\ rpc = "trans" /\ toR # <<>> /\ Head(toR).c = "EOT"
  /\ toR' = Tail(toR)
  /\ stage' = "FINISHING" /\ rpc' = "fin1"
  /\ fds' = EndFds /\ done' = Append(done, store)
  /\ toS' = Append(toS, "NAK")
  /\ UNCHANGED <<ses, rtries, rret, store, flen, svars, faults, resent, dup, nowrite>>

\* _rym_do_fin: the second EOT.
RFinEot ==
  /\ rpc = "fin1" /\ toR # <<>> /\ Head(toR).c = "EOT"
  /\ toR' = Tail(toR)
  /\ rpc' = "fin2" /\ toS' = toS \o <<"ACK", "C">>
  /\ UNCHANGED <<ses, stage, rtries, rret, store, flen, fds, done, svars,
                 faults, resent, dup, nowrite>>

\* Mutant: any header after a file ends the session.
NextFile_Never(p) == FALSE

\* buf[3] is not 0: there is a name.
NextFile(p) == p.load # <<>>

\* _rym_do_fin: the header of the next file, or the empty one that ends the
\* session.  As many bytes as a packet of SOH has are read, so that the CRC of a
\* packet of STX is not found where it is looked for.
RFinPacket ==
  /\ rpc = "fin2" /\ toR # <<>> /\ IsPacket(Head(toR))
  /\ LET p == Head(toR) IN
       \/ /\ p.bad = "no" /\ p.seq = 0 /\ p.c = "SOH" /\ NextFile(p)
          /\ Begin(p.load[1][2])
       \/ /\ p.bad = "no" /\ p.seq = 0 /\ p.c = "SOH" /\ ~NextFile(p)
          /\ stage' = "FINISHED" /\ toS' = Append(toS, "ACK")
          /\ RReturn("OK") /\ faults' = faults
       \/ /\ \E e \in {"DSZ", "SEQ", "CRC"} :
               /\ \/ HeaderError(p, e)
                  \/ p.c = "STX" /\ p.bad = "no" /\ e = "CRC"
               /\ RReturn(e)
          /\ UNCHANGED <<toS, stage, faults>>
  /\ toR' = Tail(toR)
  /\ UNCHANGED <<ses, rtries, svars, resent, dup, nowrite>>

Accepted == CASE rpc = "trans" -> {"SOH", "STX", "EOT"}
              [] rpc = "fin1"  -> {"EOT"}
              [] OTHER         -> {"SOH", "STX"}

\* Any other code.
RWrongCode ==
  /\ rpc \in {"trans", "fin1", "fin2"} /\ toR # <<>> /\ Head(toR).c \notin Accepted
  /\ toR' = Tail(toR)
  /\ RReturn("CODE")
  /\ UNCHANGED <<ses, toS, stage, rtries, svars, faults, resent, dup, nowrite>>

\* The sender has nothing to do but wait as well.
SenderQuiet == toS = <<>> \/ spc \in {"off", "ret"}

\* _rym_read_code returns RYM_CODE_NONE.
RTimeout ==
  /\ toR = <<>>
  /\ \/ /\ rpc = "hs" /\ HandshakeAgain /\ faults' = faults
     \/ /\ rpc \in {"trans", "fin1", "fin2"}
        /\ RReturn("CODE") /\ UNCHANGED <<toS, rtries>>
        /\ faults' = IF SenderQuiet THEN faults ELSE Least(faults + 1, MaxFaults)
  /\ UNCHANGED <<ses, toR, stage, svars, resent, dup, nowrite>>

Receive == \/ RHandshake \/ RTransPacket \/ RTransEot \/ RFinEot \/ RFinPacket
           \/ RWrongCode \/ RTimeout

-----------------------------------------------------------------------------
(* The sender.                                                             *)

Size(f) == ses.files[f]
Width == IF ses.code = "STX" THEN StxBlk ELSE Blk

\* _rym_send_data: the file is over with the first packet it does not fill, so
\* that a packet of padding follows a file that fills its last one.  A pc sends
\* no such packet.
Blocks(f) == IF ses.peer = "sy" THEN Size(f) \div Width + 1
                                ELSE (Size(f) + Width - 1) \div Width

Data(f, i) ==
  Pkt(ses.code, i,
      [j \in 1..Width |-> LET at == (i - 1) * Width + j
                          IN  IF at <= Size(f) THEN <<f, at>> ELSE Pad])

\* _rym_send_begin writes the name and the size, _rym_send_end nothing.
Header(f) == Pkt("SOH", 0, <<<<0, Size(f)>>>>)
Null(c)   == Pkt(c, 0, <<>>)

Expected == [hs |-> "C", ack0 |-> "ACK", c0 |-> "C", ackd |-> "ACK", nak |-> "NAK",
             ack1 |-> "ACK", c1 |-> "C", ackf |-> "ACK"]

Sending == spc \in DOMAIN Expected

Send(p, then) == toR' = Append(toR, p) /\ last' = p /\ spc' = then /\ sret' = sret
SWait(then)   == UNCHANGED <<toR, last, sret>> /\ spc' = then
SReturn(r)    == spc' = "ret" /\ sret' = r /\ UNCHANGED <<toR, last>>

\* rym_send_on_device.  C's that are older than the session are still there when
\* the device was open before.
SendOpen ==
  /\ spc = "off"
  /\ spc' = "hs"
  /\ toS' \in {toS, <<>>}
  /\ UNCHANGED <<ses, toR, rvars, file, idx, last, stries, sret, faults, resent, dup, nowrite>>

\* _rym_do_send_handshake, _rym_do_send_trans and _rym_do_send_fin: the answer is
\* the one that is waited for.
SGetExpected ==
  /\ Sending /\ toS # <<>> /\ Head(toS) = Expected[spc]
  /\ toS' = Tail(toS)
  /\ \/ spc = "hs" /\ Send(Header(file), "ack0") /\ UNCHANGED <<file, idx>>
     \/ spc = "ack0" /\ SWait("c0") /\ UNCHANGED <<file, idx>>
     \/ spc \in {"c0", "ackd"} /\ idx < Blocks(file) /\ Send(Data(file, idx + 1), "ackd")
        /\ idx' = idx + 1 /\ file' = file
     \/ spc \in {"c0", "ackd"} /\ idx = Blocks(file) /\ Send(Char("EOT"), "nak")
        /\ UNCHANGED <<file, idx>>
     \/ spc = "nak" /\ Send(Char("EOT"), "ack1") /\ UNCHANGED <<file, idx>>
     \/ spc = "ack1" /\ SWait("c1") /\ UNCHANGED <<file, idx>>
     \/ spc = "c1" /\ file < Len(ses.files)
        /\ file' = file + 1 /\ idx' = 0 /\ Send(Header(file'), "ack0")
     \/ spc = "c1" /\ file = Len(ses.files) /\ UNCHANGED <<file, idx>>
        /\ \/ ses.peer = "sy" /\ toR' = Append(toR, Null("SOH"))
              /\ last' = last /\ spc' = "ret" /\ sret' = "OK"
           \/ ses.peer = "pc" /\ \E c \in {"SOH", ses.code} : Send(Null(c), "ackf")
     \/ spc = "ackf" /\ SReturn("OK") /\ UNCHANGED <<file, idx>>
  /\ UNCHANGED <<ses, rvars, stries, faults, resent, dup, nowrite>>

\* The file cannot be opened.
SBeginFails ==
  /\ spc = "hs" /\ ses.peer = "sy" /\ toS # <<>> /\ Head(toS) = "C"
  /\ toS' = Tail(toS)
  /\ Fault /\ SReturn("CODE")
  /\ UNCHANGED <<ses, rvars, file, idx, stries, resent, dup, nowrite>>

\* sy: anything else than C costs a try of the handshake, and a text one for each
\* of its characters; later it ends the session.
SyWrong ==
  /\ ses.peer = "sy" /\ Sending
  /\ \/ toS # <<>> /\ Head(toS) # Expected[spc] /\ toS' = Tail(toS)
     \/ spc = "hs" /\ toS = <<>> /\ toS' = toS      \* the timeout of _rym_read_code
  /\ IF spc # "hs" THEN SReturn("ACK") /\ stries' = stries
     ELSE /\ \/ stries' = stries + 1
             \/ toS # <<>> /\ Head(toS) = "junk" /\ stries' = Tries
          /\ IF stries' = Tries THEN SReturn("TMO") ELSE SWait("hs")
  /\ UNCHANGED <<ses, rvars, file, idx, faults, resent, dup, nowrite>>

\* A pc passes over an answer it does not expect,
PcIgnore ==
  /\ ses.peer = "pc" /\ Sending /\ toS # <<>> /\ Head(toS) \notin {Expected[spc], "CAN"}
  /\ toS' = Tail(toS)
  /\ UNCHANGED <<ses, toR, rvars, svars, faults, resent, dup, nowrite>>

\* or takes it, or no answer, for a NAK and sends its last packet again.
PcResend ==
  /\ ses.peer = "pc" /\ Sending /\ spc # "hs"
  /\ \/ toS # <<>> /\ Head(toS) \notin {Expected[spc], "CAN"} /\ toS' = Tail(toS)
     \/ toS = <<>> /\ toS' = toS
  /\ resent < MaxResend /\ resent' = resent + 1
  /\ dup' = (dup \/ spc = "ackd")
  /\ toR' = Append(toR, last)
  /\ UNCHANGED <<ses, rvars, svars, faults, nowrite>>

\* It gives up when it is told to, or when no answer comes.
PcGiveUp ==
  /\ ses.peer = "pc" /\ Sending
  /\ \/ toS # <<>> /\ Head(toS) = "CAN" /\ toS' = Tail(toS)
     \/ toS = <<>> /\ toS' = toS
  /\ SReturn("TMO")
  /\ UNCHANGED <<ses, rvars, file, idx, stries, faults, resent, dup, nowrite>>

SendStep == SGetExpected \/ SyWrong

-----------------------------------------------------------------------------
(* The line.                                                               *)

Lose ==
  /\ Fault
  /\ \/ \E i \in 1..Len(toR) : toR' = RemoveAt(toR, i) /\ toS' = toS
     \/ \E i \in 1..Len(toS) : toS' = RemoveAt(toS, i) /\ toR' = toR
  /\ UNCHANGED <<ses, rvars, svars, resent, dup, nowrite>>

Damage ==
  /\ Fault
  /\ \/ \E i \in 1..Len(toR) :
          /\ \/ /\ IsPacket(toR[i])
                /\ \E b \in {"short", "seq", "crc"} : toR' = [toR EXCEPT ![i].bad = b]
             \/ toR' = [toR EXCEPT ![i] = Char("junk")]
          /\ toS' = toS
     \/ \E i \in 1..Len(toS) : toS' = [toS EXCEPT ![i] = "junk"] /\ toR' = toR
  /\ UNCHANGED <<ses, rvars, svars, resent, dup, nowrite>>

Next == \/ RecvOpen \/ Receive
        \/ SendOpen \/ SendStep \/ SBeginFails \/ PcIgnore \/ PcResend \/ PcGiveUp
        \/ Lose \/ Damage

Spec == Init /\ [][Next]_vars

\* Both are threads that go on once they have begun: what is there is read, and
\* a wait with a timeout ends.
FairSpec == Spec /\ WF_vars(Receive) /\ WF_vars(SendStep)

-----------------------------------------------------------------------------
(* Properties.                                                             *)

\* The bytes the receiver writes for file f when all goes well: ry cuts the
\* padding off, unless the file is empty; ymodem_ota keeps it.
Sent(f) == [j \in 1..(Blocks(f) * Width) |-> IF j <= Size(f) THEN <<f, j>> ELSE Pad]
Whole(f) == IF ses.app = "ry" /\ Size(f) > 0 THEN SubSeq(Sent(f), 1, Size(f)) ELSE Sent(f)

TypeOK ==
  /\ ses \in Sessions
  /\ \A i \in 1..Len(toR) : /\ toR[i].c \in {"SOH", "STX", "EOT", "junk"}
                            /\ toR[i].seq \in 0..(SeqRange - 1)
                            /\ toR[i].bad \in {"no", "short", "seq", "crc"}
  /\ \A i \in 1..Len(toS) : toS[i] \in {"C", "ACK", "NAK", "CAN", "junk"}
  /\ rpc \in {"off", "hs", "trans", "fin1", "fin2", "ret"}
  /\ stage \in {"NONE", "ESTABLISHING", "ESTABLISHED", "TRANSMITTING", "FINISHING", "FINISHED"}
  /\ rtries \in 0..(Tries - 1) /\ stries \in 0..Tries
  /\ rret \in {"none", "OK", "TMO", "CODE", "SEQ", "CRC", "DSZ", "CAN"}
  /\ sret \in {"none", "OK", "TMO", "CODE", "ACK"}
  /\ spc \in DOMAIN Expected \cup {"off", "ret"}
  /\ flen \in Int /\ flen >= -1 /\ fds \in Nat
  /\ file \in 1..Len(ses.files) /\ idx \in 0..Blocks(file)
  /\ faults \in 0..MaxFaults /\ resent \in 0..MaxResend
  /\ dup \in BOOLEAN /\ nowrite \in BOOLEAN

\* What on_data has written since on_begin is the beginning of one file, each
\* packet once and in its place: a packet with a wrong sequence number is never
\* stored.  (Where a write itself failed, ry goes on and says nothing.)
InSequence == nowrite \/ \E f \in 1..Len(ses.files) : IsPrefix(store, Whole(f))

\* However packets and answers are lost or damaged, and although the sequence
\* number is not compared with the one that is due: as long as no data packet is
\* sent twice, what _rym_trans_data hands on is in sequence, a header that is
\* sent again is not taken for data, and no file ends before its last byte.
StoredIntact ==
  ~dup /\ ~nowrite => /\ InSequence
                      /\ \A f \in 1..Len(done) : done[f] = Whole(f)

\* The two ends agree: when either _rym_do_send or _rym_do_recv returns RT_EOK, the
\* receiver has come to the end of every file, although the packet that ends the
\* session is not acknowledged to sy.
AgreeOnSuccess == "OK" \in {rret, sret} => Len(done) = Len(ses.files)

\* ry holds one file open while _rym_do_trans runs, as its assertions ask for, and
\* none between files and after a session that succeeded.  (After an error the
\* file stays open for ever: on_end is the only place that closes it.)
FileClosed ==
  ses.app = "ry" => /\ fds \in {0, 1}
                    /\ rpc = "trans" => fds = 1
                    /\ rpc \in {"fin1", "fin2"} \/ rret = "OK" => fds = 0

\* On a line without faults a session of ry and sy that has begun fails only when a
\* second C of the handshake met sy where it waits for an ACK.  ymodem_ota can
\* never receive from sy, not even then: the size it prints before it answers the
\* header meets sy there (the pc passes over it), and nothing is written.
CleanSession ==
  ses.peer = "sy" /\ faults = 0 =>
    \/ /\ ses.app = "ry"
       /\ sret = "ACK" => rtries > 0
       /\ rret \in {"none", "OK", "TMO"} \/ sret = "ACK"
    \/ /\ ses.app = "ota"
       /\ "OK" \notin {sret, rret} /\ store = <<>> /\ done = <<>>

\* The receiver returns whatever the line and the sender do.
ReceiverReturns == rpc = "hs" ~> rpc = "ret"

\* sy waits for answers without a timeout.  It still returns, unless the line
\* failed, or the receiver left without a word because its handshake was over
\* before it saw the header.
SenderReturns ==
  (ses.peer = "sy" /\ spc = "hs") ~> (spc = "ret" \/ faults > 0 \/ rret = "TMO")
=============================================================================
