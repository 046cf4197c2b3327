----------------------------- MODULE FotaStream -----------------------------
(***************************************************************************)
(* The copy loops of rt_fota_upgrade (bootloader/src/rt_fota.c) for a      *)
(* compressed package.  The body is a run of blocks, each a header of H    *)
(* bytes that holds its size and then that many bytes; it is read (and     *)
(* decrypted) into crypt_buf in chunks of B bytes that have nothing to do  *)
(* with the blocks, so that a block, and even its header, may lie across   *)
(* two chunks.  Each block is decompressed and appended to the application *)
(* partition.                                                              *)
(*                                                                         *)
(* Bytes are abstracted to where they are: parsing a header where a block  *)
(* starts yields that block, anywhere else it yields any size at all, and  *)
(* the loops go on with that.                                              *)
(***************************************************************************)
EXTENDS Naturals, Sequences

CONSTANTS
  B,        \* RT_FOTA_ALGO_BUFF_SIZE
  H,        \* RT_FOTA_BLOCK_HEADER_SIZE
  Cap,      \* bytes of cmprs_buff: RT_FOTA_CMPRS_BUFFER_SIZE and the padding
  Wild,     \* the largest size that four bytes parsed for a header can give
  Layouts   \* block layouts of the packages the bootloader may meet

\* raw_size is worth n blocks; block b starts at start[b] and has size[b] bytes
\* after its header, and each begins where the one before it ends (that no two
\* of them overlap follows, and is there for the proofs).  com is com_size: the
\* end of the last block rounded up for the cipher (to 16 bytes, which divide B:
\* no chunk is there for the padding alone), or less in a package cut off at the
\* end of a chunk.
IsLayout(l) ==
  /\ l.n \in Nat \ {0}
  /\ l.size \in [1..l.n -> 1..Wild]
  /\ l.start \in [1..(l.n + 1) -> Nat]
  /\ l.start[1] = 0
  /\ \A b \in 1..l.n : l.start[b + 1] = l.start[b] + H + l.size[b]
  /\ \A b \in 1..l.n, d \in 1..(l.n + 1) : b < d => l.start[b] + H + l.size[b] <= l.start[d]
  /\ l.com \in Nat
  /\ l.com < l.start[l.n + 1] => l.com % B = 0
  /\ l.com <= B * ((l.start[l.n + 1] + B - 1) \div B)

ASSUME StreamAssumption ==
  /\ H \in Nat \ {0} /\ B \in Nat /\ H < B
  /\ Cap \in Nat /\ B <= Cap
  /\ Wild \in Nat /\ Cap < Wild
  /\ \A l \in Layouts : IsLayout(l)

VARIABLES
  lay,   \* the layout of the package being installed
  c,     \* chunks read so far; crypt_buf holds the last of them
  hp,    \* block_hdr_pos
  out,   \* the blocks written to the application partition, in order; a last 0
         \* stands for garbage and all that follows it
  pc     \* "main", "tail" (the two loops), "done", "error", "fault"

vars == <<lay, c, hp, out, pc>>

Init ==
  /\ lay \in Layouts
  /\ c = 0 /\ hp = B /\ out = <<>> /\ pc = "main"

\* Where crypt_buf[hp] comes from in the body.
Pos == (c * B + hp) - B

\* The header of block b is at position p.
BlockAt(b, p) == b \in 1..lay.n /\ lay.start[b] = p

\* fw_raw_pos < com_size
MoreChunks == c * B < lay.com

\* What the header at p may say: block_size.
SizeAt(p) ==
  LET real == {b \in 1..lay.n : BlockAt(b, p)}
  IN  IF real # {} THEN {lay.size[b] : b \in real} ELSE 0..Wild

\* Garbage has been written to the application partition.
Spoilt == out # <<>> /\ out[Len(out)] = 0

\* A block has been loaded and decompresses: it is written.
Write(b) == out' = Append(out, b) /\ pc' = pc

\* Something else than a block is decompressed and written.  It may decompress to
\* nothing (dcprs_size is 0), or not fit in the partition; copying more than
\* cmprs_buff holds, or decompressing what is no block, may trap (a size of the
\* order of the address space always does, so block_hdr_pos does not wrap); or it
\* is written, and the loop goes on.
Garbage ==
  \/ out' = (IF Spoilt THEN out ELSE Append(out, 0)) /\ pc' = pc
  \/ out' = out /\ pc' \in {"error", "fault"}

\* What is copied to cmprs_buff for the header at p is decompressed and written.
\* It is a block when one starts at p and the copy is whole: it did not run over
\* the end of crypt_buf or of cmprs_buff.
Load(p, whole) ==
  LET good == {b \in 1..lay.n : BlockAt(b, p) /\ whole /\ ~Spoilt}
  IN  \/ \E b \in good : Write(b)
      \/ good = {} /\ Garbage

-----------------------------------------------------------------------------
(* The main loop.                                                          *)

\* crypt_buf is used up: the next chunk is read, it is taken to begin with a
\* header.
ChunkStart ==
  /\ pc = "main" /\ MoreChunks
  /\ hp >= B
  /\ \E s \in SizeAt(c * B) :
       /\ Load(c * B, H + s <= B)
       /\ hp' = H + s
  /\ c' = c + 1
  /\ UNCHANGED lay

\* Both chunks hold what is copied from them, and cmprs_buff has room for it.
InTwoChunks(s) == s + hp + H <= 2 * B /\ s <= Cap

\* Mutant: the rest of the block in the next chunk is not skipped.
InChunk_ForgetsRest ==
  /\ pc = "main" /\ MoreChunks
  /\ hp + H < B
  /\ \E s \in SizeAt(Pos) :
       /\ Load(Pos, InTwoChunks(s))
       /\ IF s <= B - (hp + H)
            THEN hp' = hp + H + s /\ c' = c
            ELSE hp' = B /\ c' = c + 1
  /\ UNCHANGED lay

\* Mutant: the inner loop goes on to the next chunk without leaving block_hdr_pos
\* in range.
InChunk_NoWrap ==
  /\ pc = "main" /\ MoreChunks
  /\ hp + H < B
  /\ \E s \in SizeAt(Pos) :
       /\ Load(Pos, InTwoChunks(s))
       /\ hp' = hp + H + s
       /\ c' = IF s <= B - (hp + H) THEN c ELSE c + 1
  /\ UNCHANGED lay

\* The header is inside the chunk; the block is too, or its rest is at the
\* start of the next chunk, which is read.
InChunk ==
  /\ pc = "main" /\ MoreChunks
  /\ hp + H < B
  /\ \E s \in SizeAt(Pos) :
       /\ Load(Pos, InTwoChunks(s))
       /\ IF s <= B - (hp + H)
            THEN hp' = hp + H + s /\ c' = c
            ELSE hp' = (s + hp + H) - B /\ c' = c + 1
  /\ UNCHANGED lay

\* The header ends where the chunk ends: the loop over the header bytes stops
\* before the block is loaded, and cmprs_buff, which still holds the last
\* block, is decompressed and written once more.
HeaderEndsChunk ==
  /\ pc = "main" /\ MoreChunks
  /\ hp + H = B
  /\ IF Spoilt THEN Garbage ELSE Write(out[Len(out)])
  /\ hp' = B
  /\ UNCHANGED <<lay, c>>

\* Mutant: the stale block is written for a split header too.
SplitHeader_Stale ==
  /\ pc = "main" /\ MoreChunks
  /\ hp < B /\ hp + H > B
  /\ IF Spoilt THEN Garbage ELSE Write(out[Len(out)])
  /\ hp' = B
  /\ UNCHANGED <<lay, c>>

\* The header lies across two chunks: the next one is read, rest is the number
\* of header bytes at its start.
SplitHeader ==
  /\ pc = "main" /\ MoreChunks
  /\ hp < B /\ hp + H > B
  /\ LET rest == (hp + H) - B IN
       \E s \in SizeAt(Pos) :
         /\ Load(Pos, rest + s <= B)
         /\ hp' = (rest + s) % B
  /\ c' = c + 1
  /\ UNCHANGED lay

\* Mutant: the loop waits for the last chunk to be used up as well.
MainDone_WhenUsedUp ==
  /\ pc = "main" /\ ~MoreChunks /\ hp >= B
  /\ pc' = "tail"
  /\ UNCHANGED <<lay, c, hp, out>>

MainDone ==
  /\ pc = "main" /\ ~MoreChunks
  /\ pc' = "tail"
  /\ UNCHANGED <<lay, c, hp, out>>

-----------------------------------------------------------------------------
(* The loop over what is left in the last chunk, while total_copy_size is  *)
(* below raw_size, which after garbage is anyone's guess.                  *)

MayGoOn == Spoilt \/ Len(out) < lay.n
MayEnd  == Spoilt \/ Len(out) >= lay.n

HeaderInTail == hp < B /\ B - hp > H

\* Mutant: the last block is not taken when it ends with the chunk.
TailFits_Strict(s) == B - hp - H > s

TailFits(s) == B - hp - H >= s

TailBlock ==
  /\ pc = "tail" /\ MayGoOn
  /\ HeaderInTail
  /\ \E s \in SizeAt(Pos) :
       /\ TailFits(s)
       /\ Load(Pos, TRUE)
       /\ hp' = hp + H + s
  /\ UNCHANGED <<lay, c>>

\* The end of the chunk, or a block that does not fit in it, ends the loop.
TailBreak ==
  /\ pc = "tail" /\ MayGoOn
  /\ HeaderInTail => \E s \in SizeAt(Pos) : ~TailFits(s)
  /\ pc' = "error"
  /\ UNCHANGED <<lay, c, hp, out>>

\* total_copy_size >= raw_size
Finish ==
  /\ pc = "tail" /\ MayEnd
  /\ pc' = "done"
  /\ UNCHANGED <<lay, c, hp, out>>

Next == \/ ChunkStart \/ InChunk \/ HeaderEndsChunk \/ SplitHeader \/ MainDone
        \/ TailBlock \/ TailBreak \/ Finish

Spec == Init /\ [][Next]_vars

\* rt_fota_upgrade is a sequential function: it goes on.
FairSpec == Spec /\ WF_vars(Next)

-----------------------------------------------------------------------------
(* Properties.                                                             *)

\* Layouts that every branch of the loops handles: the body is complete, no
\* header ends exactly at the end of a chunk, no block that begins with a chunk
\* crosses its end, none is longer than cmprs_buff, and no block with a split
\* header but the last one reaches the end of the chunk after it.
Handled(l) ==
  /\ l.com >= l.start[l.n + 1]
  /\ \A b \in 1..l.n :
       LET off == l.start[b] % B IN
         /\ off + H # B
         /\ off = 0 => H + l.size[b] <= B
         /\ off + H < B => l.size[b] + off + H <= 2 * B /\ l.size[b] <= Cap
         /\ off + H > B => /\ (off + H) - B + l.size[b] <= B
                           /\ b < l.n => (off + H) - B + l.size[b] < B

\* block_hdr_pos is where a block ends that begins in crypt_buf, perhaps far
\* beyond the buffer; what is written are blocks of the package, then garbage.
TypeOK ==
  /\ IsLayout(lay)
  /\ c \in Nat /\ hp \in 0..(H + Wild)
  /\ out \in Seq(0..lay.n)
  /\ \A i \in 1..Len(out) : out[i] = 0 => i = Len(out)
  /\ pc \in {"main", "tail", "done", "error", "fault"}

\* Each block of the package is written once, in its place.
InOrder == \A i \in 1..Len(out) : out[i] = i

\* block_hdr_pos, through all chunk changes, points at the block after the last
\* one written.
AtNextBlock ==
  /\ Len(out) <= lay.n
  /\ pc \in {"main", "tail"} /\ Len(out) < lay.n => Pos = lay.start[Len(out) + 1]

\* rt_fota_upgrade decodes the whole package: it does not give up, write
\* garbage, or stop before the last block or after it.
DecodesAll ==
  /\ pc \notin {"error", "fault"} /\ ~Spoilt
  /\ pc = "done" => Len(out) = lay.n

\* Wherever the branches of the copy loops handle the layout, each block is
\* written once and in its place, and block_hdr_pos stays within crypt_buf and
\* points at the next one.
HandledInOrder == Handled(lay) => InOrder /\ AtNextBlock /\ hp <= B

\* The layouts of Handled are exactly the ones that can be installed: the loops
\* end with nothing but blocks written only for these, and never fail on them.
\* (For another layout they may also end well with garbage written.)
OnlyHandled ==
  /\ pc = "done" /\ ~Spoilt => Handled(lay)
  /\ pc \in {"error", "fault"} => ~Handled(lay)

\* The two loops come to an end, whatever they take for headers.
Terminates == <>(pc \in {"done", "error", "fault"})
=============================================================================
