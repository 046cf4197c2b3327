-------------------------- MODULE FotaStreamProofs --------------------------
(***************************************************************************)
(* Theorems about FotaStream, for every size of chunk and header and every *)
(* layout of a package.                                                    *)
(***************************************************************************)
EXTENDS FotaStream, TLAPS

-----------------------------------------------------------------------------
(* Chunks: arithmetic.                                                     *)

\* A place in a chunk.
LEMMA PlaceInChunk ==
  ASSUME NEW q \in Nat, NEW n \in Nat \ {0}, NEW r \in 0..(n - 1)
  PROVE  (q * n + r) % n = r
<1>1. (n * q + r) % n = r
  OBVIOUS
<1>2. n * q = q * n
  OBVIOUS
<1> QED
  BY <1>1, <1>2

\* The next chunk.
LEMMA NextChunk ==
  ASSUME NEW q \in Nat, NEW n \in Nat \ {0}
  PROVE  q * n \in Nat /\ (q + 1) * n = q * n + n /\ (q * n) % n = 0
<1>1. (q * n + 0) % n = 0
  BY PlaceInChunk
<1> QED
  BY <1>1

\* The end of two different chunks are a chunk apart.
LEMMA ChunksApart ==
  ASSUME NEW a \in Nat, NEW b \in Nat, NEW n \in Nat \ {0}, a * n < b * n
  PROVE  a * n + n <= b * n
<1>1. a < b
  OBVIOUS
<1>2. (a + 1) * n <= b * n
  BY <1>1
<1> QED
  BY <1>2

\* As many chunks as there are for e bytes are no more than any number that
\* covers them.
LEMMA ChunksFor ==
  ASSUME NEW e \in Nat, NEW q \in Nat, NEW n \in Nat \ {0}, e <= q * n
  PROVE  n * ((e + n - 1) \div n) <= q * n
<1> DEFINE y == e + n - 1
           d == y \div n
<1>1. y \in Nat /\ d \in Nat /\ y % n \in 0..(n - 1) /\ y = n * d + (y % n)
  OBVIOUS
<1>2. n * d = d * n /\ d * n \in Nat /\ q * n \in Nat
  BY <1>1
<1>3. ASSUME q * n < d * n PROVE FALSE
  <2>1. q * n + n <= d * n
    BY <1>1, <1>3, ChunksApart
  <2>2. d * n <= e + n - 1
    BY <1>1, <1>2
  <2> HIDE DEF d
  <2> QED
    BY <1>2, <2>1, <2>2
<1> QED
  BY <1>2, <1>3

\* A body that is cut off at the end of a chunk has no part of a chunk.
LEMMA WholeChunks ==
  ASSUME NEW z \in Nat, NEW q \in Nat, NEW n \in Nat \ {0}, z % n = 0, q * n < z
  PROVE  q * n + n <= z
<1>1. z \div n \in Nat /\ z = n * (z \div n)
  OBVIOUS
<1>2. z = (z \div n) * n
  BY <1>1
<1> QED
  BY <1>1, <1>2, ChunksApart

-----------------------------------------------------------------------------
(* The inductive invariant.                                                *)

\* What Handled asks of block b.
BlockHandled(b) ==
  LET off == lay.start[b] % B IN
    /\ off + H # B
    /\ off = 0 => H + lay.size[b] <= B
    /\ off + H < B => lay.size[b] + off + H <= 2 * B /\ lay.size[b] <= Cap
    /\ off + H > B => /\ (off + H) - B + lay.size[b] <= B
                      /\ b < lay.n => (off + H) - B + lay.size[b] < B

\* The loops are on the right track: what they have written is the first blocks
\* of the package, all handled, and block_hdr_pos is at the next one; after the
\* last one it may have wrapped to 0.
OnTrack ==
  /\ InOrder /\ Len(out) <= lay.n
  /\ \A b \in 1..Len(out) : BlockHandled(b)
  /\ \/ hp > 0 /\ Pos = lay.start[Len(out) + 1]
     \/ Len(out) = lay.n /\ lay.start[lay.n + 1] = c * B

\* They have lost it: a header that ended a chunk has been skipped, so that the
\* next chunk is going to be taken for a header, or block_hdr_pos has wrapped
\* to 0 before the last block.
OffTrack ==
  /\ ~Handled(lay)
  /\ \/ pc = "main" /\ hp = B /\ MoreChunks /\ \A b \in 1..lay.n : ~BlockAt(b, c * B)
     \/ hp = 0 /\ Len(out) < lay.n /\ \A b \in 1..lay.n : ~BlockAt(b, Pos)

\* Chunks are read one by one while there are some; the first thing that is
\* done is to read one, and to write what is found in it.
ChunkInv ==
  /\ c > 0 => (c * B) - B < lay.com
  /\ pc \in {"main", "tail"} /\ hp < B => c > 0 /\ Len(out) > 0
  /\ pc = "tail" => ~MoreChunks

\* Until garbage has been written the loops are on the track or just off it;
\* garbage and errors are for layouts that are not handled.
StreamInv ==
  /\ TypeOK /\ ChunkInv
  /\ pc \in {"main", "tail"} /\ ~Spoilt => hp <= B /\ (OnTrack \/ OffTrack)
  /\ pc = "done" /\ ~Spoilt => Handled(lay) /\ InOrder /\ Len(out) = lay.n /\ hp <= B
  /\ pc \in {"error", "fault"} => ~Handled(lay)
  /\ Spoilt => ~Handled(lay)

-----------------------------------------------------------------------------
(* Where things are.                                                       *)

LEMMA StreamFacts ==
  ASSUME TypeOK
  PROVE  /\ B \in Nat \ {0} /\ H \in Nat \ {0} /\ H < B /\ Cap \in Nat /\ B <= Cap
         /\ Wild \in Nat /\ Cap < Wild
         /\ lay.n \in Nat \ {0} /\ lay.com \in Nat
         /\ \A b \in 1..lay.n : lay.size[b] \in 1..Wild
         /\ \A b \in 1..(lay.n + 1) : lay.start[b] \in Nat
         /\ \A b \in 1..lay.n : lay.start[b + 1] = lay.start[b] + H + lay.size[b]
         /\ \A b \in 1..lay.n, d \in 1..(lay.n + 1) :
              b < d => lay.start[b] + H + lay.size[b] <= lay.start[d]
         /\ c \in Nat /\ hp \in Nat /\ c * B \in Nat /\ (c + 1) * B = c * B + B
         /\ Len(out) \in Nat /\ out \in Seq(0..lay.n)
<1>1. B \in Nat \ {0} /\ c \in Nat
  BY StreamAssumption DEF TypeOK
<1>2. c * B \in Nat /\ (c + 1) * B = c * B + B
  BY <1>1, NextChunk
<1>3. /\ H \in Nat \ {0} /\ H < B /\ Cap \in Nat /\ B <= Cap /\ Wild \in Nat /\ Cap < Wild
      /\ hp \in Nat
  BY StreamAssumption DEF TypeOK
<1>4. /\ lay.n \in Nat \ {0} /\ lay.com \in Nat
      /\ lay.size \in [1..lay.n -> 1..Wild] /\ lay.start \in [1..(lay.n + 1) -> Nat]
      /\ \A b \in 1..lay.n : lay.start[b + 1] = lay.start[b] + H + lay.size[b]
      /\ \A b \in 1..lay.n, d \in 1..(lay.n + 1) :
           b < d => lay.start[b] + H + lay.size[b] <= lay.start[d]
  BY DEF TypeOK, IsLayout
<1>5. Len(out) \in Nat /\ out \in Seq(0..lay.n)
  BY DEF TypeOK
<1>6. /\ \A b \in 1..lay.n : lay.size[b] \in 1..Wild
      /\ \A b \in 1..(lay.n + 1) : lay.start[b] \in Nat
  BY <1>4
<1> QED
  BY <1>1, <1>2, <1>3, <1>4, <1>5, <1>6

\* The sizes of things, without the blocks.
LEMMA SizeFacts ==
  ASSUME TypeOK
  PROVE  /\ B \in Nat \ {0} /\ H \in Nat \ {0} /\ H < B /\ Cap \in Nat /\ B <= Cap
         /\ Wild \in Nat /\ Cap < Wild
         /\ lay.n \in Nat \ {0} /\ lay.com \in Nat
         /\ c \in Nat /\ hp \in Nat /\ c * B \in Nat /\ (c + 1) * B = c * B + B
         /\ Len(out) \in Nat /\ out \in Seq(0..lay.n)
BY StreamFacts, Zenon

\* One block.
LEMMA BlockFacts ==
  ASSUME TypeOK, NEW b \in 1..lay.n
  PROVE  /\ lay.size[b] \in Nat \ {0} /\ lay.size[b] <= Wild /\ lay.start[b] \in Nat
         /\ lay.start[b + 1] \in Nat /\ lay.start[b + 1] = lay.start[b] + H + lay.size[b]
<1>1. b \in 1..(lay.n + 1) /\ b + 1 \in 1..(lay.n + 1)
  BY SizeFacts, SMTT(20)
<1>2. lay.size[b] \in 1..Wild /\ Wild \in Nat
  BY StreamFacts, Zenon
<1>3. /\ lay.start[b] \in Nat
      /\ lay.start[b + 1] \in Nat /\ lay.start[b + 1] = lay.start[b] + H + lay.size[b]
  BY <1>1, StreamFacts, Zenon
<1> QED
  BY <1>2, <1>3

\* Where the blocks end.
LEMMA EndFacts ==
  ASSUME TypeOK
  PROVE  lay.start[lay.n + 1] \in Nat
<1>1. lay.n \in Nat
  BY SizeFacts, Zenon
<1>2. lay.n + 1 \in 1..(lay.n + 1)
  BY <1>1
<1> QED
  BY <1>2, StreamFacts, Zenon

\* One block at most starts at a place, and none inside another.
LEMMA OnlyBlock ==
  ASSUME TypeOK, NEW b \in 1..lay.n, NEW d \in 1..lay.n
  PROVE  /\ lay.start[d] = lay.start[b] => d = b
         /\ ~(lay.start[b] < lay.start[d] /\ lay.start[d] < lay.start[b] + H + lay.size[b])
<1>1. /\ lay.start[b] \in Nat /\ lay.start[d] \in Nat
      /\ lay.size[b] \in Nat \ {0} /\ lay.size[d] \in Nat \ {0} /\ H \in Nat \ {0}
      /\ lay.n \in Nat
  BY BlockFacts, SizeFacts
<1>4. b \in 1..(lay.n + 1) /\ d \in 1..(lay.n + 1)
  BY <1>1
<1>2. b < d => lay.start[b] + H + lay.size[b] <= lay.start[d]
  BY <1>4, StreamFacts, Zenon
<1>3. d < b => lay.start[d] + H + lay.size[d] <= lay.start[b]
  BY <1>4, StreamFacts, Zenon
<1> QED
  BY <1>1, <1>2, <1>3

\* block_hdr_pos is the offset in the chunk.
LEMMA Offset ==
  ASSUME TypeOK, ChunkInv, pc \in {"main", "tail"}, hp < B
  PROVE  c * B >= B /\ Pos \in Nat /\ Pos = (c * B - B) + hp /\ Pos % B = hp
<1>1. c \in Nat /\ c > 0 /\ B \in Nat \ {0} /\ hp \in 0..(B - 1)
  BY SizeFacts DEF ChunkInv
<1>2. c - 1 \in Nat /\ (c - 1) + 1 = c
  BY <1>1
<1>3. (c - 1) * B \in Nat /\ c * B = (c - 1) * B + B
  BY <1>1, <1>2, NextChunk
<1>4. ((c - 1) * B + hp) % B = hp
  BY <1>1, <1>2, PlaceInChunk
<1>5. Pos = (c - 1) * B + hp
  BY <1>1, <1>3 DEF Pos
<1> QED
  BY <1>1, <1>3, <1>4, <1>5

\* On the right track, what has been written has been read.
LEMMA BehindChunk ==
  ASSUME TypeOK, OnTrack, hp <= B, Len(out) = lay.n
  PROVE  lay.start[lay.n + 1] <= c * B
<1>1. Pos <= c * B /\ c * B \in Nat
  BY SizeFacts DEF Pos
<1>2. lay.start[lay.n + 1] = Pos \/ lay.start[lay.n + 1] = c * B
  BY DEF OnTrack
<1> QED
  BY <1>1, <1>2

\* ... so that there is a block for every further chunk.
LEMMA Ahead ==
  ASSUME TypeOK, OnTrack, hp <= B, MoreChunks
  PROVE  /\ Len(out) < lay.n /\ Len(out) + 1 \in 1..lay.n
         /\ hp > 0 /\ Pos = lay.start[Len(out) + 1]
<1>1. ASSUME Len(out) = lay.n PROVE FALSE
  <2>1. lay.start[lay.n + 1] <= c * B
    BY <1>1, BehindChunk
  <2>2. lay.start[lay.n + 1] \in Nat
    BY EndFacts
  <2>3. B * ((lay.start[lay.n + 1] + B - 1) \div B) <= c * B
    BY <2>1, <2>2, SizeFacts, ChunksFor
  <2>4. lay.com <= B * ((lay.start[lay.n + 1] + B - 1) \div B)
    BY DEF TypeOK, IsLayout
  <2>5. B * ((lay.start[lay.n + 1] + B - 1) \div B) \in Nat
    <3>0. B \in Nat \ {0}
      BY SizeFacts
    <3>1. lay.start[lay.n + 1] + B - 1 \in Nat /\ B \in Nat \ {0}
      BY <2>2, <3>0
    <3>2. (lay.start[lay.n + 1] + B - 1) \div B \in Nat
      BY <3>1
    <3> QED
      BY <3>1, <3>2
  <2> QED
    BY <2>3, <2>4, <2>5, SizeFacts, SMTT(20) DEF MoreChunks
<1>2. Len(out) <= lay.n /\ Len(out) \in Nat /\ lay.n \in Nat
  BY SizeFacts DEF OnTrack
<1>3. Len(out) # lay.n
  BY <1>1
<1> QED
  BY <1>2, <1>3 DEF OnTrack

\* A block is written after blocks.
LEMMA Written ==
  ASSUME TypeOK, ~Spoilt, NEW b \in 1..lay.n, out' = Append(out, b), lay' = lay
  PROVE  /\ out' \in Seq(0..lay.n) /\ Len(out') = Len(out) + 1 /\ ~Spoilt'
         /\ \A i \in 1..Len(out) : out'[i] = out[i]
         /\ out'[Len(out) + 1] = b
         /\ \A i \in 1..Len(out') : out'[i] = 0 => i = Len(out')
<1>1. out \in Seq(0..lay.n) /\ Len(out) \in Nat /\ lay.n \in Nat /\ b \in 0..lay.n /\ b # 0
  BY SizeFacts
<1>2. /\ out' \in Seq(0..lay.n) /\ Len(out') = Len(out) + 1
      /\ \A i \in 1..Len(out) : out'[i] = out[i]
      /\ out'[Len(out) + 1] = b
  BY <1>1
<1>3. ~Spoilt'
  BY <1>1, <1>2 DEF Spoilt
<1>4. \A i \in 1..Len(out) : out[i] # 0
  <2>1. \A i \in 1..Len(out) : out[i] = 0 => i = Len(out)
    BY DEF TypeOK
  <2> QED
    BY <1>1, <2>1 DEF Spoilt
<1>5. \A i \in 1..Len(out') : out'[i] # 0
  <2>1. \A i \in 1..Len(out') : i \in 1..Len(out) \/ i = Len(out) + 1
    BY <1>1, <1>2
  <2> QED
    BY <1>1, <1>2, <1>4, <2>1, Zenon
<1> QED
  BY <1>2, <1>3, <1>5

\* The next block is written.
LEMMA NextWritten ==
  ASSUME TypeOK, OnTrack, ~Spoilt, Len(out) < lay.n, Write(Len(out) + 1), lay' = lay,
         BlockHandled(Len(out) + 1)
  PROVE  /\ InOrder' /\ Len(out') = Len(out) + 1 /\ out' \in Seq(0..lay.n) /\ ~Spoilt'
         /\ \A b \in 1..Len(out') : BlockHandled(b)'
         /\ \A i \in 1..Len(out') : out'[i] = 0 => i = Len(out')
<1>0. Len(out) \in Nat /\ lay.n \in Nat
  BY SizeFacts
<1>1. Len(out) \in Nat /\ lay.n \in Nat /\ Len(out) + 1 \in 1..lay.n
  BY <1>0
<1>2. out' = Append(out, Len(out) + 1)
  BY DEF Write
<1>3. /\ out' \in Seq(0..lay.n) /\ Len(out') = Len(out) + 1 /\ ~Spoilt'
      /\ \A i \in 1..Len(out) : out'[i] = out[i]
      /\ out'[Len(out) + 1] = Len(out) + 1
      /\ \A i \in 1..Len(out') : out'[i] = 0 => i = Len(out')
  BY <1>1, <1>2, Written
<1>4. InOrder'
  <2>1. \A i \in 1..Len(out) : out[i] = i
    BY DEF OnTrack, InOrder
  <2>2. \A i \in 1..Len(out') : i \in 1..Len(out) \/ i = Len(out) + 1
    BY <1>1, <1>3
  <2>3. \A i \in 1..Len(out') : out'[i] = i
    BY <1>3, <2>1, <2>2, Zenon
  <2> QED
    BY <2>3 DEF InOrder
<1>5. \A b \in 1..Len(out') : BlockHandled(b)'
  <2>1. \A b \in 1..Len(out') : BlockHandled(b)
    BY <1>1, <1>3 DEF OnTrack
  <2> QED
    BY <2>1 DEF BlockHandled
<1> QED
  BY <1>3, <1>4, <1>5

\* ... and block_hdr_pos moves to its end.
LEMMA StepOn ==
  ASSUME TypeOK, OnTrack, ~Spoilt, Len(out) < lay.n, Write(Len(out) + 1), lay' = lay,
         BlockHandled(Len(out) + 1), hp' \in 1..B, c' \in Nat,
         (c' * B + hp') - B = lay.start[Len(out) + 1] + H + lay.size[Len(out) + 1]
  PROVE  OnTrack' /\ TypeOK' /\ Len(out') > 0 /\ ~Spoilt' /\ hp' <= B
<1>1. /\ InOrder' /\ Len(out') = Len(out) + 1 /\ out' \in Seq(0..lay.n) /\ ~Spoilt'
      /\ \A b \in 1..Len(out') : BlockHandled(b)'
      /\ \A i \in 1..Len(out') : out'[i] = 0 => i = Len(out')
  BY NextWritten
<1>0. /\ Len(out) \in Nat /\ lay.n \in Nat /\ B \in Nat /\ H \in Nat /\ Wild \in Nat
      /\ Cap \in Nat /\ B <= Cap /\ Cap < Wild
  BY SizeFacts
<1>2. /\ Len(out) \in Nat /\ lay.n \in Nat /\ B \in Nat /\ hp' \in 0..(H + Wild) /\ hp' <= B
      /\ hp' > 0 /\ Len(out) + 1 <= lay.n
  BY <1>0
<1>3. lay.start[Len(out') + 1] = lay.start[Len(out) + 1] + H + lay.size[Len(out) + 1]
  <2>1. Len(out) + 1 \in 1..lay.n
    BY <1>2, SMTT(20)
  <2>2. lay.start[(Len(out) + 1) + 1] = lay.start[Len(out) + 1] + H + lay.size[Len(out) + 1]
    BY <2>1, BlockFacts
  <2> QED
    BY <1>1, <2>2
<1>4. Pos' = lay'.start[Len(out') + 1]
  BY <1>3 DEF Pos
<1>5. TypeOK'
  BY <1>1, <1>2 DEF TypeOK, Write
<1>6. OnTrack'
  BY <1>1, <1>2, <1>4 DEF OnTrack
<1> QED
  BY <1>1, <1>2, <1>5, <1>6

\* Handled, block by block.
LEMMA HandledBlocks ==
  Handled(lay) <=> /\ lay.com >= lay.start[lay.n + 1]
                   /\ \A b \in 1..lay.n : BlockHandled(b)
BY DEF Handled, BlockHandled

-----------------------------------------------------------------------------
(* Every step keeps the invariant.                                         *)

LEMMA InitStream == Init => StreamInv
<1> SUFFICES ASSUME Init PROVE StreamInv
  OBVIOUS
<1>0. /\ B \in Nat /\ H \in Nat /\ Wild \in Nat /\ B <= Wild /\ lay \in Layouts /\ hp = B
      /\ B > 0 /\ Len(out) = 0 /\ out \in Seq(0..lay.n) /\ out = <<>>
  BY StreamAssumption DEF Init
<1>1. TypeOK
  <2>1. hp \in 0..(H + Wild) /\ c \in Nat /\ 1..Len(out) = {}
    BY <1>0 DEF Init
  <2> QED
    BY <1>0, <2>1, StreamAssumption DEF Init, TypeOK
<1>2. Pos = 0 /\ Len(out) = 0 /\ lay.start[1] = 0 /\ lay.n \in Nat \ {0}
  BY <1>0, <1>1 DEF Init, Pos, TypeOK, IsLayout
<1>3. OnTrack
  <2>1. hp > 0 /\ 1..Len(out) = {} /\ Len(out) <= lay.n /\ Len(out) + 1 = 1
    BY <1>0, <1>2
  <2> QED
    BY <1>2, <2>1 DEF OnTrack, InOrder
<1>4. ChunkInv /\ ~Spoilt /\ hp <= B
  BY <1>0 DEF Init, ChunkInv, Spoilt
<1> QED
  BY <1>1, <1>3, <1>4 DEF Init, StreamInv

\* A step that leaves the loops for a layout that is not handled.
LEMMA Given ==
  ASSUME StreamInv, UNCHANGED <<lay, c, hp, out>>, pc' \in {"error", "fault"}, ~Handled(lay)
  PROVE  StreamInv'
BY DEF StreamInv, TypeOK, ChunkInv, Spoilt

\* A step reads at most one chunk, if there is one.
OneChunk ==
  (c > 0 /\ c' = c) \/ (pc = "main" /\ MoreChunks /\ c' = c + 1)

LEMMA ChunkKept ==
  ASSUME TypeOK, ChunkInv, pc \in {"main", "tail"}, OneChunk, lay' = lay,
         pc' \in {pc, "error", "fault"}, pc' = pc => Len(out') > 0
  PROVE  ChunkInv' /\ c' \in Nat
<1>1. CASE c > 0 /\ c' = c
  BY <1>1 DEF ChunkInv, MoreChunks, TypeOK
<1>2. CASE pc = "main" /\ MoreChunks /\ c' = c + 1
  <2>1. c \in Nat /\ c * B \in Nat /\ (c + 1) * B = c * B + B /\ B \in Nat
    BY SizeFacts
  <2>2. c' > 0 /\ c' \in Nat /\ (c' * B) - B = c * B
    BY <1>2, <2>1
  <2> QED
    BY <1>2, <2>2 DEF ChunkInv, MoreChunks
<1> QED
  BY <1>1, <1>2 DEF OneChunk

\* A step that stays in the loops and writes a block.
LEMMA GoOn ==
  ASSUME StreamInv, pc \in {"main", "tail"}, TypeOK', OnTrack' \/ OffTrack', Len(out') > 0,
         ~Spoilt', hp' <= B, lay' = lay, pc' = pc, OneChunk
  PROVE  StreamInv'
<1>1. ChunkInv'
  BY ChunkKept DEF StreamInv
<1> QED
  BY <1>1 DEF StreamInv

\* A step that decompresses and writes garbage.
LEMMA GarbageStream ==
  ASSUME StreamInv, pc \in {"main", "tail"}, Garbage, ~Handled(lay), lay' = lay,
         hp' \in 0..(H + Wild), OneChunk
  PROVE  StreamInv'
<1>1. out \in Seq(0..lay.n) /\ Len(out) \in Nat /\ lay.n \in Nat /\ TypeOK /\ ChunkInv
  BY SizeFacts DEF StreamInv
<1>2. /\ out' \in Seq(0..lay.n) /\ \A i \in 1..Len(out') : out'[i] = 0 => i = Len(out')
      /\ pc' = pc => Spoilt' /\ Len(out') > 0
  <2>0. \A i \in 1..Len(out) : out[i] = 0 => i = Len(out)
    BY <1>1 DEF TypeOK
  <2>1. CASE out' = out /\ pc' \in {"error", "fault"}
    BY <1>1, <2>0, <2>1
  <2>2. CASE Spoilt /\ out' = out
    <3>1. Spoilt' /\ Len(out') > 0
      BY <1>1, <2>2 DEF Spoilt
    <3> QED
      BY <1>1, <2>0, <2>2, <3>1
  <2>3. CASE ~Spoilt /\ out' = Append(out, 0) /\ pc' = pc
    <3>1. 0 \in 0..lay.n
      BY <1>1
    <3>2. /\ out' \in Seq(0..lay.n) /\ Len(out') = Len(out) + 1
          /\ \A i \in 1..Len(out) : out'[i] = out[i]
          /\ out'[Len(out) + 1] = 0
      BY <1>1, <2>3, <3>1
    <3>3. Spoilt' /\ Len(out') > 0
      BY <1>1, <3>2 DEF Spoilt
    <3>4. \A i \in 1..Len(out) : out[i] # 0
      BY <1>1, <2>0, <2>3 DEF Spoilt
    <3>5. \A i \in 1..Len(out') : i \in 1..Len(out) \/ i = Len(out')
      BY <1>1, <3>2
    <3>6. \A i \in 1..Len(out') : out'[i] = 0 => i = Len(out')
      BY <3>2, <3>4, <3>5, Zenon
    <3> QED
      BY <3>2, <3>3, <3>6
  <2> QED
    BY <2>1, <2>2, <2>3 DEF Garbage
<1>3. pc' \in {pc, "error", "fault"}
  BY DEF Garbage
<1>4. ChunkInv' /\ c' \in Nat
  BY <1>1, <1>2, <1>3, ChunkKept
<1>5. TypeOK'
  BY <1>1, <1>2, <1>3, <1>4 DEF TypeOK
<1> QED
  BY <1>2, <1>3, <1>4, <1>5 DEF StreamInv

\* What has been loaded is a block, or it is garbage.
LEMMA Loaded ==
  ASSUME NEW p, NEW whole, Load(p, whole)
  PROVE  \/ whole /\ ~Spoilt /\ \E b \in 1..lay.n : BlockAt(b, p) /\ Write(b)
         \/ Garbage /\ (Spoilt \/ ~whole \/ \A b \in 1..lay.n : ~BlockAt(b, p))
BY DEF Load

\* What a header may say, and what the header of a block says.
LEMMA AnySize ==
  ASSUME TypeOK, NEW p, NEW s \in SizeAt(p)
  PROVE  s \in 0..Wild
<1>1. ASSUME NEW b \in 1..lay.n PROVE lay.size[b] \in 0..Wild
  <2>1. lay.size[b] \in 1..Wild /\ Wild \in Nat
    BY StreamFacts, Zenon
  <2> QED
    BY <2>1
<1>2. CASE {b \in 1..lay.n : BlockAt(b, p)} # {}
  <2>1. PICK b \in 1..lay.n : s = lay.size[b]
    BY <1>2 DEF SizeAt
  <2> QED
    BY <1>1, <2>1
<1>3. CASE {b \in 1..lay.n : BlockAt(b, p)} = {}
  BY <1>3 DEF SizeAt
<1> QED
  BY <1>2, <1>3

LEMMA BlockSize ==
  ASSUME TypeOK, NEW b \in 1..lay.n, NEW s \in SizeAt(lay.start[b])
  PROVE  s = lay.size[b]
<1>1. \A d \in 1..lay.n : BlockAt(d, lay.start[b]) <=> d = b
  BY OnlyBlock DEF BlockAt
<1>2. {d \in 1..lay.n : BlockAt(d, lay.start[b])} = {b}
  BY <1>1
<1> QED
  BY <1>2 DEF SizeAt

\* A block that is in the way of a layout.
LEMMA NotHandled ==
  ASSUME NEW b \in 1..lay.n, ~BlockHandled(b)
  PROVE  ~Handled(lay)
BY HandledBlocks

\* A block whose header and bytes are in one chunk.
LEMMA FitsHandled ==
  ASSUME TypeOK, NEW b \in 1..lay.n, NEW off \in Nat, off = lay.start[b] % B,
         off + H + lay.size[b] <= B
  PROVE  BlockHandled(b)
<1>1. /\ B \in Nat \ {0} /\ H \in Nat \ {0} /\ H < B /\ Cap \in Nat /\ B <= Cap
      /\ lay.size[b] \in Nat \ {0} /\ lay.n \in Nat
  BY SizeFacts, BlockFacts
<1> QED
  BY <1>1 DEF BlockHandled

\* The next chunk begins with a header, or is taken to.
LEMMA ChunkStartStream ==
  ASSUME StreamInv, ChunkStart
  PROVE  StreamInv'
<1>1. /\ pc = "main" /\ MoreChunks /\ hp >= B /\ TypeOK /\ lay' = lay /\ c' = c + 1
      /\ OneChunk
  BY DEF StreamInv, ChunkStart, OneChunk
<1>n. B \in Nat \ {0} /\ H \in Nat \ {0} /\ c \in Nat /\ c * B \in Nat /\ hp \in Nat
      /\ (c + 1) * B = c * B + B /\ Wild \in Nat
  BY <1>1, SizeFacts
<1>2. PICK s \in SizeAt(c * B) : Load(c * B, H + s <= B) /\ hp' = H + s
  BY DEF ChunkStart
<1>3. s \in 0..Wild /\ hp' \in 0..(H + Wild)
  <2>1. s \in 0..Wild
    BY <1>1, AnySize
  <2> QED
    BY <1>n, <1>2, <2>1
<1>4. CASE Garbage /\ ~Handled(lay)
  BY <1>1, <1>3, <1>4, GarbageStream
<1>5. CASE Spoilt
  <2>1. Garbage /\ ~Handled(lay)
    BY <1>2, <1>5, Loaded DEF StreamInv
  <2> QED
    BY <1>4, <2>1
<1>6. CASE ~Spoilt /\ OffTrack
  <2>1. hp = B
    BY <1>1, <1>n, <1>6 DEF StreamInv
  <2>2. \A b \in 1..lay.n : ~BlockAt(b, c * B)
    BY <1>n, <1>6, <2>1 DEF OffTrack
  <2>3. Garbage /\ ~Handled(lay)
    BY <1>2, <1>6, <2>2, Loaded DEF OffTrack
  <2> QED
    BY <1>4, <2>3
<1>7. CASE ~Spoilt /\ OnTrack
  <2>0. hp = B
    BY <1>1, <1>n, <1>7 DEF StreamInv
  <2>i. PICK b0 : b0 = Len(out) + 1
    OBVIOUS
  <2>1. Len(out) < lay.n /\ b0 \in 1..lay.n /\ Pos = lay.start[b0]
    BY <1>1, <1>n, <1>7, <2>0, <2>i, Ahead
  <2>2. lay.start[b0] = c * B /\ BlockAt(b0, c * B)
    BY <1>n, <2>0, <2>1 DEF Pos, BlockAt
  <2>3. lay.start[b0] % B = 0
    BY <1>n, <2>2, NextChunk
  <2>4. s = lay.size[b0] /\ s \in Nat \ {0}
    BY <1>1, <2>1, <2>2, BlockSize, BlockFacts
  <2>5. CASE Garbage /\ ~(H + s <= B)
    <3>1. ~BlockHandled(b0)
      BY <2>3, <2>4, <2>5 DEF BlockHandled
    <3> QED
      BY <1>4, <2>1, <2>5, <3>1, NotHandled
  <2>6. CASE H + s <= B /\ Write(b0)
    <3>1. BlockHandled(b0)
      <4>1. 0 + H + lay.size[b0] <= B
        BY <1>n, <2>4, <2>6
      <4> QED
        BY <1>1, <2>1, <2>3, <4>1, FitsHandled
    <3>2. hp' \in 1..B /\ c' \in Nat
      BY <1>1, <1>n, <1>2, <2>4, <2>6
    <3>3. (c' * B + hp') - B = lay.start[b0] + H + lay.size[b0]
      <4>1. PICK e \in Nat : e = c * B /\ c' * B = e + B
        BY <1>1, <1>n
      <4>2. lay.start[b0] = e /\ hp' = H + s
        BY <1>2, <2>2, <4>1
      <4>3. ((e + B) + (H + s)) - B = e + H + s
        BY <1>n, <2>4
      <4> QED
        BY <2>4, <4>1, <4>2, <4>3, Zenon
    <3>4. OnTrack' /\ TypeOK' /\ Len(out') > 0 /\ ~Spoilt' /\ hp' <= B
      BY <1>1, <1>7, <2>i, <2>1, <2>6, <3>1, <3>2, <3>3, StepOn
    <3> QED
      BY <1>1, <2>6, <3>4, GoOn DEF Write
  <2>7. \A b \in 1..lay.n : BlockAt(b, c * B) => b = b0
    BY <1>1, <2>1, <2>2, OnlyBlock DEF BlockAt
  <2> QED
    BY <1>2, <1>7, <2>1, <2>2, <2>5, <2>6, <2>7, Loaded
<1> QED
  BY <1>1, <1>5, <1>6, <1>7 DEF StreamInv

\* The header is inside the chunk.
LEMMA InChunkStream ==
  ASSUME StreamInv, InChunk
  PROVE  StreamInv'
<1>1. /\ pc = "main" /\ MoreChunks /\ hp + H < B /\ TypeOK /\ ChunkInv /\ lay' = lay
  BY DEF StreamInv, InChunk
<1>2. /\ B \in Nat \ {0} /\ H \in Nat \ {0} /\ H < B /\ Cap \in Nat /\ B <= Cap
      /\ c \in Nat /\ hp \in Nat /\ c * B \in Nat /\ (c + 1) * B = c * B + B
      /\ Wild \in Nat /\ Cap < Wild
  BY <1>1, SizeFacts
<1>3. hp < B /\ hp # B
  BY <1>1, <1>2
<1>4. c * B >= B /\ Pos \in Nat /\ Pos = (c * B - B) + hp /\ Pos % B = hp /\ c > 0
  BY <1>1, <1>3, Offset DEF ChunkInv
<1>e. PICK e \in Nat : /\ e = c * B /\ (c + 1) * B = e + B /\ Pos = (e - B) + hp
  BY <1>2, <1>4
<1>s. PICK s \in SizeAt(Pos) :
        /\ Load(Pos, InTwoChunks(s))
        /\ \/ s <= B - (hp + H) /\ hp' = hp + H + s /\ c' = c
           \/ s > B - (hp + H) /\ hp' = (s + hp + H) - B /\ c' = c + 1
  <2>1. PICK t \in SizeAt(Pos) :
          /\ Load(Pos, InTwoChunks(t))
          /\ IF t <= B - (hp + H)
               THEN hp' = hp + H + t /\ c' = c
               ELSE hp' = (t + hp + H) - B /\ c' = c + 1
    BY DEF InChunk
  <2>2. t \in 0..Wild
    BY <1>1, AnySize
  <2> QED
    BY <1>2, <2>1, <2>2
<1>t. s \in 0..Wild
  BY <1>1, AnySize
<1>u. hp' \in 0..(H + Wild) /\ OneChunk
  BY <1>1, <1>2, <1>4, <1>s, <1>t DEF OneChunk
<1>g. CASE Garbage /\ ~Handled(lay)
  BY <1>1, <1>u, <1>g, GarbageStream
<1>5. CASE Spoilt
  <2>1. Garbage /\ ~Handled(lay)
    BY <1>s, <1>5, Loaded DEF StreamInv
  <2> QED
    BY <1>g, <2>1
<1>o. CASE ~Spoilt /\ OffTrack
  <2>1. \A b \in 1..lay.n : ~BlockAt(b, Pos)
    BY <1>3, <1>o DEF OffTrack
  <2>2. Garbage /\ ~Handled(lay)
    BY <1>s, <1>o, <2>1, Loaded DEF OffTrack
  <2> QED
    BY <1>g, <2>2
<1>6. CASE ~Spoilt /\ OnTrack
  <2>0. hp <= B
    BY <1>2, <1>3
  <2>1. PICK b0 : b0 = Len(out) + 1
    OBVIOUS
  <2>2. Len(out) < lay.n /\ b0 \in 1..lay.n /\ Pos = lay.start[b0] /\ hp > 0
    BY <1>1, <1>6, <2>0, <2>1, Ahead
  <2>3. \A b \in 1..lay.n : BlockAt(b, Pos) <=> b = b0
    BY <1>1, <2>2, OnlyBlock DEF BlockAt
  <2>4. lay.size[b0] \in Nat \ {0} /\ lay.start[b0] % B = hp /\ s = lay.size[b0]
    BY <1>1, <1>4, <2>2, BlockFacts, BlockSize
  <2>5. CASE InTwoChunks(s) /\ Write(b0)
    <3>1. s + hp + H <= 2 * B /\ s <= Cap /\ s \in Nat /\ s > 0
      BY <2>4, <2>5 DEF InTwoChunks
    <3>2. BlockHandled(b0)
      BY <1>1, <1>2, <2>2, <2>4, <3>1 DEF BlockHandled
    <3>3. hp' \in 1..B /\ c' \in Nat
      BY <1>1, <1>2, <1>s, <3>1
    <3>4. (c' * B + hp') - B = lay.start[b0] + H + lay.size[b0]
      <4>1. \/ c' * B = e /\ hp' = hp + H + s
            \/ c' * B = e + B /\ hp' = (s + hp + H) - B
        BY <1>e, <1>s
      <4>2. lay.start[b0] = (e - B) + hp /\ lay.size[b0] = s
        BY <1>e, <2>2, <2>4
      <4>3. B \in Nat /\ H \in Nat /\ hp \in Nat
        BY <1>2
      <4> QED
        BY <3>1, <4>1, <4>2, <4>3
    <3>5. OnTrack' /\ TypeOK' /\ Len(out') > 0 /\ ~Spoilt' /\ hp' <= B
      BY <1>1, <1>6, <2>1, <2>2, <2>5, <3>2, <3>3, <3>4, StepOn
    <3> QED
      BY <1>1, <1>u, <2>5, <3>5, GoOn DEF Write
  <2>7. CASE Garbage /\ ~InTwoChunks(s)
    <3>1. ~BlockHandled(b0)
      BY <1>1, <1>2, <2>4, <2>7 DEF BlockHandled, InTwoChunks
    <3> QED
      BY <1>g, <2>2, <2>7, <3>1, NotHandled
  <2> QED
    BY <1>s, <1>6, <2>2, <2>3, <2>5, <2>7, Loaded
<1> QED
  BY <1>1, <1>5, <1>o, <1>6 DEF StreamInv

\* The header ends with the chunk: the loops are off the track.
LEMMA HeaderEndsStream ==
  ASSUME StreamInv, HeaderEndsChunk
  PROVE  StreamInv'
<1>1. /\ pc = "main" /\ MoreChunks /\ hp + H = B /\ TypeOK /\ ChunkInv
      /\ UNCHANGED <<lay, c>> /\ hp' = B
  BY DEF StreamInv, HeaderEndsChunk
<1>2. /\ B \in Nat \ {0} /\ H \in Nat \ {0} /\ H < B /\ Cap \in Nat /\ B <= Cap
      /\ c \in Nat /\ hp \in Nat /\ c * B \in Nat /\ Wild \in Nat /\ Cap < Wild
      /\ Len(out) \in Nat /\ out \in Seq(0..lay.n) /\ lay.n \in Nat
  BY <1>1, SizeFacts
<1>3. hp < B /\ hp > 0 /\ hp # B /\ hp <= B
  BY <1>1, <1>2
<1>4. c * B >= B /\ Pos \in Nat /\ Pos = (c * B - B) + hp /\ Pos % B = hp
      /\ c > 0 /\ Len(out) > 0
  BY <1>1, <1>3, Offset DEF ChunkInv
<1>u. hp' \in 0..(H + Wild) /\ hp' <= B /\ OneChunk
  BY <1>1, <1>2, <1>4 DEF OneChunk
<1>s. CASE Spoilt
  BY <1>1, <1>u, <1>s, GarbageStream DEF HeaderEndsChunk, StreamInv
<1>t. CASE ~Spoilt
  <2>e. PICK e \in Nat : e = c * B /\ Pos = (e - B) + hp
    BY <1>2, <1>4
  <2>w. out' = Append(out, out[Len(out)]) /\ pc' = pc
    BY <1>t DEF HeaderEndsChunk, Write
  <2>5. OnTrack
    BY <1>1, <1>3, <1>t DEF OffTrack, StreamInv
  <2>6. PICK b0 \in 1..lay.n : Pos = lay.start[b0]
    BY <1>1, <1>3, <2>5, Ahead
  <2>7. lay.size[b0] \in Nat \ {0} /\ lay.start[b0] \in Nat /\ lay.start[b0] % B = hp
    BY <1>1, <1>4, <2>6, BlockFacts
  <2>8. ~Handled(lay)
    <3>1. ~BlockHandled(b0)
      BY <1>1, <2>7 DEF BlockHandled
    <3> QED
      BY <3>1, NotHandled
  <2>9. \A b \in 1..lay.n : ~BlockAt(b, c * B)
    <3>1. lay.start[b0] < c * B /\ c * B < lay.start[b0] + H + lay.size[b0]
      <4>1. lay.start[b0] = (e - B) + hp /\ lay.size[b0] \in Nat \ {0}
        BY <2>e, <2>6, <2>7
      <4>2. lay.start[b0] < e /\ e < lay.start[b0] + H + lay.size[b0]
        BY <1>1, <1>2, <2>e, <4>1
      <4> QED
        BY <2>e, <4>2
    <3> QED
      BY <1>1, <3>1, OnlyBlock DEF BlockAt
  <2>10. /\ out' \in Seq(0..lay.n) /\ Len(out') = Len(out) + 1 /\ ~Spoilt'
         /\ \A i \in 1..Len(out') : out'[i] = 0 => i = Len(out')
    <3>1. out[Len(out)] \in 1..lay.n
      BY <1>2, <1>4, <1>t DEF Spoilt
    <3> QED
      BY <1>1, <1>t, <2>w, <3>1, Written
  <2>11. TypeOK'
    BY <1>1, <1>2, <1>u, <2>w, <2>10 DEF TypeOK
  <2>12. OffTrack'
    BY <1>1, <2>w, <2>8, <2>9 DEF OffTrack, MoreChunks, BlockAt
  <2> QED
    BY <1>1, <1>2, <1>u, <2>w, <2>10, <2>11, <2>12, GoOn
<1> QED
  BY <1>s, <1>t

\* The header lies across two chunks: the block after it ends before the second
\* chunk does, or with it; then block_hdr_pos wraps to 0, which only does no
\* harm after the last block.
LEMMA SplitHeaderStream ==
  ASSUME StreamInv, SplitHeader
  PROVE  StreamInv'
<1>1. /\ pc = "main" /\ MoreChunks /\ hp < B /\ hp + H > B /\ TypeOK /\ ChunkInv
      /\ lay' = lay /\ c' = c + 1 /\ OneChunk
  BY DEF StreamInv, SplitHeader, OneChunk
<1>2. /\ B \in Nat \ {0} /\ H \in Nat \ {0} /\ H < B /\ Cap \in Nat /\ B <= Cap
      /\ c \in Nat /\ hp \in Nat /\ c * B \in Nat /\ (c + 1) * B = c * B + B
      /\ Len(out) \in Nat /\ lay.n \in Nat /\ Wild \in Nat /\ Cap < Wild
  BY <1>1, SizeFacts
<1>3. hp > 0 /\ hp # B /\ hp <= B
  BY <1>1, <1>2
<1>4. c * B >= B /\ Pos \in Nat /\ Pos = (c * B - B) + hp /\ Pos % B = hp
  BY <1>1, Offset
<1>n. B \in Nat /\ B > 0 /\ H \in Nat /\ H < B /\ hp \in Nat /\ hp < B
  BY <1>1, <1>2
<1>e. PICK e \in Nat : e = c * B /\ (c + 1) * B = e + B /\ Pos = (e - B) + hp
  BY <1>2, <1>4
<1>r. PICK rest \in Nat : rest = (hp + H) - B /\ rest > 0 /\ rest < B
  BY <1>1, <1>2
<1>s. PICK s \in SizeAt(Pos) : Load(Pos, rest + s <= B) /\ hp' = (rest + s) % B
  BY <1>r DEF SplitHeader
<1>t. s \in 0..Wild
  BY <1>1, AnySize
<1>u. hp' \in 0..(H + Wild)
  <2>1. rest + s \in Nat
    BY <1>r, <1>t
  <2>2. (rest + s) % B \in 0..(B - 1)
    BY <1>n, <2>1
  <2> QED
    BY <1>2, <1>s, <2>2
<1>g. CASE Garbage /\ ~Handled(lay)
  BY <1>1, <1>u, <1>g, GarbageStream
<1>o. CASE Spoilt
  <2>1. Garbage /\ ~Handled(lay)
    BY <1>s, <1>o, Loaded DEF StreamInv
  <2> QED
    BY <1>g, <2>1
<1>5. CASE ~Spoilt
  <2>5. OnTrack
    BY <1>1, <1>3, <1>5 DEF OffTrack, StreamInv
  <2>6. PICK b0 : b0 = Len(out) + 1
    OBVIOUS
  <2>7. Len(out) < lay.n /\ b0 \in 1..lay.n /\ Pos = lay.start[b0]
    BY <1>1, <1>3, <2>5, <2>6, Ahead
  <2>8. \A b \in 1..lay.n : BlockAt(b, Pos) <=> b = b0
    BY <1>1, <2>7, OnlyBlock DEF BlockAt
  <2>9. /\ lay.size[b0] \in Nat \ {0} /\ lay.start[b0] % B = hp
        /\ lay.start[b0] = (e - B) + hp /\ s = lay.size[b0]
        /\ lay.start[b0 + 1] = lay.start[b0] + H + lay.size[b0]
    BY <1>1, <1>4, <1>e, <2>7, BlockFacts, BlockSize
  <2>m. s \in Nat /\ s > 0 /\ lay.start[b0] = (e - B) + hp
    BY <2>9
  <2>10. BlockHandled(b0) <=> rest + s <= B /\ (b0 < lay.n => rest + s < B)
    BY <1>1, <1>2, <1>3, <1>r, <2>9 DEF BlockHandled
  <2>11. CASE Garbage /\ ~(rest + s <= B)
    <3>1. ~BlockHandled(b0)
      BY <2>10, <2>11
    <3> QED
      BY <1>g, <2>7, <2>11, <3>1, NotHandled
  <2>12. CASE rest + s <= B /\ Write(b0)
    <3>0. c' * B = e + B /\ c' \in Nat
      BY <1>1, <1>2, <1>e
    <3>1. CASE rest + s < B
      <4>1. rest + s \in 1..(B - 1)
        BY <1>2, <1>r, <2>m, <3>1
      <4>2. hp' = rest + s
        BY <1>2, <1>s, <4>1
      <4>3. hp' \in 1..B
        BY <1>2, <4>1, <4>2
      <4>4. (c' * B + hp') - B = lay.start[b0] + H + lay.size[b0]
        <5>1. ((e + B) + hp') - B = lay.start[b0] + H + s
          BY <1>n, <2>m, <1>r, <4>2
        <5> QED
          BY <2>9, <3>0, <5>1, Zenon
      <4>5. OnTrack' /\ TypeOK' /\ Len(out') > 0 /\ ~Spoilt' /\ hp' <= B
        BY <1>1, <1>5, <2>5, <2>6, <2>7, <2>10, <2>12, <3>0, <3>1, <4>3, <4>4, StepOn
      <4> QED
        BY <1>1, <2>12, <4>5, GoOn DEF Write
    <3>2. CASE rest + s = B
      <4>1. hp' = 0
        BY <1>2, <1>s, <3>2
      <4>2. lay.start[b0] + H + s = e + B
        BY <1>n, <2>m, <1>r, <3>2
      <4>3. /\ out' = Append(out, b0) /\ out' \in Seq(0..lay.n) /\ Len(out') = b0
            /\ pc' = pc /\ ~Spoilt' /\ \A i \in 1..Len(out') : out'[i] = 0 => i = Len(out')
        BY <1>1, <1>5, <2>6, <2>7, <2>12, Written DEF Write
      <4>4. TypeOK' /\ Len(out') > 0 /\ hp' <= B
        BY <1>1, <1>2, <1>u, <2>6, <3>0, <4>1, <4>3 DEF TypeOK
      <4>5. CASE b0 = lay.n
        <5>1. BlockHandled(b0)
          BY <1>2, <2>10, <3>2, <4>5
        <5>2. /\ InOrder' /\ \A b \in 1..Len(out') : BlockHandled(b)'
          BY <1>1, <1>5, <2>5, <2>6, <2>7, <2>12, <5>1, NextWritten
        <5>3. lay.start[lay.n + 1] = c' * B
          BY <2>9, <3>0, <4>2, <4>5
        <5>4. OnTrack'
          BY <1>1, <1>2, <4>3, <4>5, <5>2, <5>3 DEF OnTrack
        <5> QED
          BY <1>1, <2>12, <4>3, <4>4, <5>4, GoOn
      <4>6. CASE b0 # lay.n
        <5>1. b0 < lay.n
          BY <1>2, <2>6, <2>7, <4>6
        <5>2. ~Handled(lay)
          <6>1. ~BlockHandled(b0)
            BY <1>2, <2>10, <3>2, <5>1
          <6> QED
            BY <2>7, <6>1, NotHandled
        <5>3. Pos' = e
          <6>1. ((e + B) + hp') - B = e
            BY <1>n, <4>1
          <6> QED
            BY <3>0, <6>1, Zenon DEF Pos
        <5>4. \A b \in 1..lay.n : lay.start[b] # e
          <6>1. lay.start[b0] < e /\ e < lay.start[b0] + H + s
            BY <1>n, <2>m, <4>2
          <6> QED
            BY <1>1, <2>7, <2>9, <6>1, OnlyBlock
        <5>5. OffTrack'
          BY <1>1, <4>1, <4>3, <5>1, <5>2, <5>3, <5>4 DEF OffTrack, BlockAt
        <5> QED
          BY <1>1, <2>12, <4>3, <4>4, <5>5, GoOn
      <4> QED
        BY <4>5, <4>6
    <3> QED
      BY <1>n, <2>m, <1>r, <2>12, <3>1, <3>2
  <2> QED
    BY <1>s, <1>5, <2>7, <2>8, <2>11, <2>12, Loaded
<1> QED
  BY <1>o, <1>5

\* The last chunk has been read.
LEMMA MainDoneStream ==
  ASSUME StreamInv, MainDone
  PROVE  StreamInv'
BY DEF StreamInv, MainDone, TypeOK, ChunkInv, MoreChunks, OnTrack, OffTrack, InOrder,
       BlockHandled, Pos, BlockAt, Spoilt

\* The next block is in the rest of the last chunk.
LEMMA TailBlockStream ==
  ASSUME StreamInv, TailBlock
  PROVE  StreamInv'
<1>1. /\ pc = "tail" /\ hp < B /\ B - hp > H /\ TypeOK /\ ChunkInv
      /\ lay' = lay /\ c' = c
  BY DEF StreamInv, TailBlock, HeaderInTail
<1>2. /\ B \in Nat \ {0} /\ H \in Nat \ {0} /\ c \in Nat /\ hp \in Nat /\ c * B \in Nat
      /\ Len(out) \in Nat /\ lay.n \in Nat /\ Wild \in Nat
  BY <1>1, SizeFacts
<1>4. Pos \in Nat /\ Pos = (c * B - B) + hp /\ Pos % B = hp /\ c > 0
  BY <1>1, Offset DEF ChunkInv
<1>e. PICK e \in Nat : e = c * B /\ Pos = (e - B) + hp
  BY <1>2, <1>4
<1>s. PICK s \in SizeAt(Pos) : B - hp - H >= s /\ Load(Pos, TRUE) /\ hp' = hp + H + s
  BY DEF TailBlock, TailFits
<1>t. s \in 0..Wild
  BY <1>1, AnySize
<1>v. s \in Nat /\ hp + H + s <= B
  BY <1>2, <1>s, <1>t
<1>w. hp' \in 0..B /\ B <= H + Wild
  <2>1. B <= Cap /\ Cap < Wild /\ Cap \in Nat
    BY <1>1, SizeFacts
  <2> QED
    BY <1>2, <1>s, <1>v, <2>1
<1>u. hp' \in 0..(H + Wild) /\ OneChunk
  BY <1>1, <1>2, <1>4, <1>w DEF OneChunk
<1>g. CASE Garbage /\ ~Handled(lay)
  BY <1>1, <1>u, <1>g, GarbageStream
<1>o. CASE Spoilt
  <2>1. Garbage /\ ~Handled(lay)
    BY <1>s, <1>o, Loaded DEF StreamInv
  <2> QED
    BY <1>g, <2>1
<1>q. CASE ~Spoilt /\ OffTrack
  <2>1. \A b \in 1..lay.n : ~BlockAt(b, Pos)
    BY <1>1, <1>q DEF OffTrack
  <2>2. Garbage /\ ~Handled(lay)
    BY <1>s, <1>q, <2>1, Loaded DEF OffTrack
  <2> QED
    BY <1>g, <2>2
<1>5. CASE ~Spoilt /\ OnTrack
  <2>0. Len(out) < lay.n
    BY <1>5 DEF TailBlock, MayGoOn
  <2>6. PICK b0 : b0 = Len(out) + 1
    OBVIOUS
  <2>7. b0 \in 1..lay.n /\ Pos = lay.start[b0] /\ hp > 0
    BY <1>1, <1>2, <1>5, <2>0, <2>6 DEF OnTrack
  <2>8. Write(b0)
    BY <1>1, <1>s, <1>5, <2>7, OnlyBlock, Loaded DEF BlockAt
  <2>9. /\ lay.size[b0] \in Nat \ {0} /\ lay.start[b0] % B = hp /\ lay.start[b0] = (e - B) + hp
        /\ s = lay.size[b0]
    BY <1>1, <1>4, <1>e, <2>7, BlockFacts, BlockSize
  <2>10. hp \in Nat /\ hp + H + lay.size[b0] <= B /\ hp' \in 1..B
    <3>1. s \in Nat /\ s > 0 /\ hp \in Nat /\ H \in Nat /\ B \in Nat /\ hp + H + s <= B
      BY <1>2, <1>v, <2>9
    <3>2. hp + H + s \in 1..B
      BY <3>1
    <3> QED
      BY <1>s, <2>9, <3>1, <3>2
  <2>11. BlockHandled(b0)
    BY <1>1, <2>7, <2>9, <2>10, FitsHandled
  <2>12. (c' * B + hp') - B = lay.start[b0] + H + lay.size[b0]
    <3>1. c' * B = e /\ B \in Nat /\ H \in Nat /\ hp \in Nat /\ s \in Nat
          /\ lay.start[b0] = (e - B) + hp /\ lay.size[b0] = s
      BY <1>1, <1>2, <1>e, <1>v, <2>9
    <3> QED
      BY <1>s, <3>1
  <2>13. OnTrack' /\ TypeOK' /\ Len(out') > 0 /\ ~Spoilt' /\ hp' <= B
    BY <1>1, <1>2, <1>5, <2>0, <2>6, <2>8, <2>10, <2>11, <2>12, StepOn
  <2> QED
    BY <1>1, <1>u, <2>8, <2>13, GoOn DEF Write
<1> QED
  BY <1>1, <1>o, <1>q, <1>5 DEF StreamInv

\* Where the tail is given up, a block reaches over the end of the body.
LEMMA TailBreakStream ==
  ASSUME StreamInv, TailBreak
  PROVE  StreamInv'
<1>1. /\ pc = "tail" /\ TypeOK /\ ChunkInv /\ ~MoreChunks
      /\ UNCHANGED <<lay, c, hp, out>> /\ pc' \in {"error", "fault"}
  BY DEF StreamInv, TailBreak, ChunkInv
<1>o. CASE Spoilt
  BY <1>1, <1>o, Given DEF StreamInv
<1>2. CASE ~Spoilt /\ OffTrack
  BY <1>1, <1>2, Given DEF OffTrack
<1>3. CASE ~Spoilt /\ OnTrack
  <2>1. /\ B \in Nat \ {0} /\ H \in Nat \ {0} /\ hp \in Nat /\ c * B \in Nat
        /\ Len(out) \in Nat /\ lay.n \in Nat /\ lay.com \in Nat
        /\ hp <= B /\ Len(out) < lay.n
    BY <1>1, <1>3, SizeFacts DEF StreamInv, TailBreak, MayGoOn
  <2>2. PICK b0 : b0 = Len(out) + 1 /\ b0 \in 1..lay.n
    BY <2>1
  <2>3. Pos = lay.start[b0]
    BY <1>1, <1>3, <2>1, <2>2 DEF OnTrack
  <2>4. lay.size[b0] \in Nat \ {0} /\ lay.start[b0] \in Nat
    BY <1>1, <2>2, BlockFacts
  <2>5. ASSUME Handled(lay) PROVE FALSE
    <3>1. lay.start[lay.n + 1] \in Nat /\ lay.start[lay.n + 1] <= c * B
      <4>1. lay.start[lay.n + 1] \in Nat
        BY <1>1, EndFacts
      <4>2. lay.start[lay.n + 1] <= lay.com /\ lay.com <= c * B
        BY <1>1, <2>1, <2>5, <4>1, HandledBlocks DEF MoreChunks
      <4> QED
        BY <2>1, <4>1, <4>2
    <3>2. lay.start[b0] + H + lay.size[b0] <= lay.start[lay.n + 1]
      <4>1. lay.n + 1 \in 1..(lay.n + 1) /\ b0 < lay.n + 1
        BY <2>1, <2>2
      <4> QED
        BY <1>1, <2>2, <4>1, StreamFacts, Zenon
    <3>3. PICK e \in Nat : e = c * B /\ lay.start[b0] = (e + hp) - B
      BY <2>1, <2>3 DEF Pos
    <3>4. hp + H + lay.size[b0] <= B
      <4>1. B \in Nat /\ H \in Nat /\ hp \in Nat /\ lay.size[b0] \in Nat
            /\ lay.start[lay.n + 1] \in Nat
        BY <2>1, <2>4, <3>1
      <4>2. ((e + hp) - B) + H + lay.size[b0] <= lay.start[lay.n + 1]
        BY <3>2, <3>3
      <4>3. lay.start[lay.n + 1] <= e
        BY <3>1, <3>3
      <4> QED
        BY <4>1, <4>2, <4>3
    <3>5. HeaderInTail /\ TailFits(lay.size[b0])
      BY <2>1, <2>4, <3>4 DEF HeaderInTail, TailFits
    <3>6. \A s \in SizeAt(Pos) : s = lay.size[b0]
      BY <1>1, <2>2, <2>3, BlockSize
    <3> QED
      BY <3>5, <3>6 DEF TailBreak
  <2> QED
    BY <1>1, <2>5, Given
<1> QED
  BY <1>1, <1>o, <1>2, <1>3 DEF StreamInv

\* A package that has been decoded to its end is one that is handled, or has
\* left garbage.
LEMMA FinishStream ==
  ASSUME StreamInv, Finish
  PROVE  StreamInv'
<1>1. /\ pc = "tail" /\ TypeOK /\ ChunkInv
      /\ UNCHANGED <<lay, c, hp, out>> /\ pc' = "done" /\ Spoilt' = Spoilt
  BY DEF StreamInv, Finish, Spoilt
<1>7. TypeOK' /\ ChunkInv'
  BY <1>1 DEF TypeOK, ChunkInv
<1>o. CASE Spoilt
  BY <1>1, <1>7, <1>o DEF StreamInv
<1>p. CASE ~Spoilt
  <2>2. /\ B \in Nat \ {0} /\ c \in Nat /\ c * B \in Nat /\ Len(out) \in Nat /\ lay.n \in Nat
        /\ lay.com \in Nat
    BY <1>1, SizeFacts
  <2>3. OnTrack /\ Len(out) = lay.n /\ hp <= B
    <3>1. Len(out) >= lay.n /\ (OnTrack \/ OffTrack) /\ hp <= B
      BY <1>1, <1>p DEF StreamInv, Finish, MayEnd
    <3> QED
      BY <1>1, <2>2, <3>1 DEF OffTrack, OnTrack
  <2>4. lay.start[lay.n + 1] <= c * B /\ lay.start[lay.n + 1] \in Nat
    BY <1>1, <2>3, BehindChunk, EndFacts
  <2>5. ASSUME lay.com < lay.start[lay.n + 1] PROVE FALSE
    <3>1. lay.com % B = 0
      BY <1>1, <2>5 DEF TypeOK, IsLayout
    <3>2. c > 0 /\ c - 1 \in Nat
      <4>1. c # 0
        BY <2>2, <2>4, <2>5
      <4> QED
        BY <2>2, <4>1
    <3>3. (c - 1) * B \in Nat /\ c * B = (c - 1) * B + B
      <4>1. (c - 1) + 1 = c
        BY <2>2
      <4> QED
        BY <2>2, <3>2, <4>1, NextChunk
    <3>4. (c * B) - B < lay.com
      BY <1>1, <3>2 DEF ChunkInv
    <3>5. (c - 1) * B < lay.com
      BY <2>2, <3>3, <3>4
    <3>6. (c - 1) * B + B <= lay.com
      BY <2>2, <3>1, <3>2, <3>5, WholeChunks
    <3> QED
      BY <2>2, <2>4, <2>5, <3>3, <3>6
  <2>6. Handled(lay)
    BY <2>2, <2>3, <2>4, <2>5, HandledBlocks DEF OnTrack
  <2> QED
    BY <1>1, <1>p, <1>7, <2>3, <2>6 DEF StreamInv, OnTrack, InOrder
<1> QED
  BY <1>o, <1>p

LEMMA NextStream == StreamInv /\ [Next]_vars => StreamInv'
<1> SUFFICES ASSUME StreamInv, [Next]_vars PROVE StreamInv'
  OBVIOUS
<1>1. CASE UNCHANGED vars
  BY <1>1 DEF vars, StreamInv, TypeOK, ChunkInv, MoreChunks, OnTrack, OffTrack, InOrder,
     BlockHandled, Pos, BlockAt, Spoilt
<1> QED
  BY <1>1, ChunkStartStream, InChunkStream, HeaderEndsStream, SplitHeaderStream,
     MainDoneStream, TailBlockStream, TailBreakStream, FinishStream DEF Next

LEMMA StreamInvariant == Spec => []StreamInv
BY InitStream, NextStream, PTL DEF Spec

\* For every layout, and whatever the loops take for a header, block_hdr_pos is
\* no further than the largest size leads, and nothing but garbage follows
\* garbage.
THEOREM StreamTypeCorrect == Spec => []TypeOK
<1>1. StreamInv => TypeOK
  BY DEF StreamInv
<1> QED
  BY <1>1, StreamInvariant, PTL

\* For every layout the branches handle, the copy loops write each block once
\* and in its place, and block_hdr_pos stays in crypt_buf and is at the next one.
THEOREM HandledInOrderHolds == Spec => []HandledInOrder
<1>1. StreamInv => HandledInOrder
  <2> SUFFICES ASSUME StreamInv, Handled(lay) PROVE InOrder /\ AtNextBlock /\ hp <= B
    BY DEF HandledInOrder
  <2>1. TypeOK /\ pc \in {"main", "tail", "done", "error", "fault"} /\ ~Spoilt
    BY DEF StreamInv, TypeOK
  <2>2. CASE pc \in {"main", "tail"}
    <3>1. OnTrack /\ hp <= B
      BY <2>1, <2>2 DEF StreamInv, OffTrack
    <3>2. Len(out) \in Nat /\ lay.n \in Nat
      BY <2>1, SizeFacts
    <3> QED
      BY <3>1, <3>2 DEF OnTrack, AtNextBlock
  <2>3. CASE pc = "done"
    <3>1. InOrder /\ Len(out) = lay.n /\ lay.n \in Nat /\ hp <= B
      BY <2>1, <2>3, SizeFacts DEF StreamInv
    <3> QED
      BY <2>3, <3>1 DEF AtNextBlock
  <2> QED
    BY <2>1, <2>2, <2>3 DEF StreamInv
<1> QED
  BY <1>1, StreamInvariant, PTL

\* rt_fota_upgrade comes to the end of a package, with nothing but its blocks
\* written, exactly when the layout is one its branches handle: any other one
\* ends in an error, a trap or with garbage in the application partition.
THEOREM OnlyHandledHolds == Spec => []OnlyHandled
<1>1. StreamInv => OnlyHandled
  BY DEF StreamInv, OnlyHandled
<1> QED
  BY <1>1, StreamInvariant, PTL

-----------------------------------------------------------------------------
(* The loops come to an end.  Every turn reads a chunk or moves            *)
(* block_hdr_pos on in the one that is there, also when the loops parse    *)
(* what is no header and write garbage.                                    *)

\* The turns that are left at most: chunks to read, bytes of this one, loops.
InThisChunk == IF hp < B THEN B - hp ELSE 0

TurnsLeft ==
  CASE pc = "main" -> (lay.com - c) * (B + 1) + InThisChunk + 2
    [] pc = "tail" -> (lay.com - c) * (B + 1) + InThisChunk + 1
    [] OTHER       -> 0

\* The bounds, as numbers.
LEMMA TurnFacts ==
  ASSUME StreamInv
  PROVE  /\ B \in Nat \ {0} /\ H \in Nat \ {0} /\ lay.com \in Nat /\ hp \in Nat /\ c \in Nat
         /\ c <= lay.com /\ InThisChunk \in 0..B
         /\ MoreChunks => c + 1 <= lay.com
<1>1. TypeOK /\ ChunkInv
  BY DEF StreamInv
<1>2. /\ B \in Nat \ {0} /\ H \in Nat \ {0} /\ lay.com \in Nat /\ hp \in Nat
      /\ c \in Nat /\ c * B \in Nat
  BY <1>1, SizeFacts, Zenon
<1>3. c <= c * B
  BY <1>2
<1>4. ASSUME c > 0 PROVE c <= lay.com
  <2>1. PICK k \in Nat : c = k + 1
    BY <1>2, <1>4
  <2>2. k * B \in Nat /\ (k + 1) * B = k * B + B /\ k <= k * B
    BY <1>2, NextChunk
  <2>3. (c * B) - B < lay.com
    BY <1>1, <1>4 DEF ChunkInv
  <2>4. k * B < lay.com
    BY <1>2, <2>1, <2>2, <2>3
  <2> QED
    BY <1>2, <2>1, <2>2, <2>4
<1>5. InThisChunk \in 0..B
  BY <1>2 DEF InThisChunk
<1> QED
  BY <1>2, <1>3, <1>4, <1>5 DEF MoreChunks

\* So many chunks.
LEMMA ChunkTurns ==
  ASSUME NEW com \in Nat, NEW k \in 0..com, NEW n \in Nat
  PROVE  /\ (com - k) * n \in Nat /\ (com - k) * n <= com * n /\ com * n \in Nat
         /\ k + 1 <= com => (com - k) * n = (com - (k + 1)) * n + n
<1>1. PICK l \in Nat : l = com - k
  OBVIOUS
<1>2. l * n \in Nat /\ com * n \in Nat /\ l <= com
  BY <1>1
<1>3. l * n <= com * n
  BY <1>2
<1>4. ASSUME k + 1 <= com PROVE l * n = (com - (k + 1)) * n + n
  <2>1. PICK m \in Nat : m = com - (k + 1) /\ l = m + 1
    BY <1>1, <1>4
  <2> QED
    BY <2>1
<1> QED
  BY <1>1, <1>2, <1>3, <1>4

LEMMA TurnsType ==
  ASSUME StreamInv
  PROVE  /\ TurnsLeft \in 0..(lay.com * (B + 1) + B + 2)
         /\ pc \in {"main", "tail"} => TurnsLeft > 0
<1>1. /\ lay.com \in Nat /\ c \in 0..lay.com /\ B + 1 \in Nat /\ InThisChunk \in 0..B
      /\ B \in Nat
  BY TurnFacts
<1>2. PICK x \in Nat : x = (lay.com - c) * (B + 1)
  BY <1>1, ChunkTurns
<1>3. PICK y \in Nat : y = lay.com * (B + 1) /\ x <= y
  BY <1>1, <1>2, ChunkTurns
<1> QED
  BY <1>1, <1>2, <1>3 DEF TurnsLeft

\* A turn of a loop that reads a chunk, or gets on in the one it has.
LEMMA GetsOn ==
  ASSUME StreamInv, StreamInv', lay' = lay, pc \in {"main", "tail"}, pc' = pc,
         (MoreChunks /\ c' = c + 1) \/ (c' = c /\ InThisChunk' < InThisChunk)
  PROVE  TurnsLeft' < TurnsLeft
<1>1. /\ lay.com \in Nat /\ c \in 0..lay.com /\ B + 1 \in Nat /\ InThisChunk \in 0..B
      /\ B \in Nat
  BY TurnFacts
<1>2. PICK i \in 0..B : i = InThisChunk'
  <2>1. (StreamInv => InThisChunk \in 0..B)'
    BY TurnFacts, PTL
  <2> QED
    BY <2>1
<1>3. PICK x \in Nat : x = (lay.com - c) * (B + 1)
  BY <1>1, ChunkTurns
<1>4. CASE MoreChunks /\ c' = c + 1
  <2>1. c + 1 <= lay.com
    BY <1>4, TurnFacts
  <2>2. PICK y \in Nat : y = (lay.com - (c + 1)) * (B + 1)
    <3>1. c + 1 \in 0..lay.com
      BY <1>1, <2>1
    <3> QED
      BY <1>1, <3>1, ChunkTurns
  <2>3. x = y + (B + 1)
    BY <1>1, <1>3, <2>1, <2>2, ChunkTurns
  <2>4. TurnsLeft' = y + i + (IF pc = "main" THEN 2 ELSE 1)
    BY <1>2, <1>4, <2>2 DEF TurnsLeft
  <2>5. TurnsLeft = x + InThisChunk + (IF pc = "main" THEN 2 ELSE 1)
    BY <1>3 DEF TurnsLeft
  <2> QED
    BY <1>1, <2>3, <2>4, <2>5
<1>5. CASE c' = c /\ InThisChunk' < InThisChunk
  <2>1. TurnsLeft' = x + i + (IF pc = "main" THEN 2 ELSE 1)
    BY <1>2, <1>3, <1>5 DEF TurnsLeft
  <2>2. TurnsLeft = x + InThisChunk + (IF pc = "main" THEN 2 ELSE 1)
    BY <1>3 DEF TurnsLeft
  <2>3. PICK j \in Nat : j = InThisChunk
    BY <1>1
  <2>4. i < j
    BY <1>2, <1>5, <2>3
  <2> QED
    BY <1>1, <2>1, <2>2, <2>3, <2>4
<1> QED
  BY <1>4, <1>5

\* A step that ends the loops.
LEMMA GivesUp ==
  ASSUME StreamInv, pc \in {"main", "tail"}, pc' \in {"done", "error", "fault"}
  PROVE  TurnsLeft' < TurnsLeft
<1>1. TurnsLeft' = 0
  BY DEF TurnsLeft
<1>2. TurnsLeft \in Nat /\ TurnsLeft > 0
  <2>1. lay.com * (B + 1) + B + 2 \in Nat
    BY TurnFacts
  <2> QED
    BY <2>1, TurnsType
<1> QED
  BY <1>1, <1>2

LEMMA FewerTurns == ASSUME StreamInv, StreamInv', Next PROVE TurnsLeft' < TurnsLeft
<1>0. /\ B \in Nat \ {0} /\ H \in Nat \ {0} /\ hp \in Nat /\ c \in Nat /\ TypeOK
  BY TurnFacts DEF StreamInv
<1>h. PICK h \in Nat : h = hp'
  <2>1. (StreamInv => hp \in Nat)'
    BY TurnFacts, PTL
  <2> QED
    BY <2>1
<1>i. hp < B /\ hp' > hp => InThisChunk' < InThisChunk
  <2>1. InThisChunk' = IF h < B THEN B - h ELSE 0
    BY <1>h DEF InThisChunk
  <2>2. InThisChunk = IF hp < B THEN B - hp ELSE 0
    BY DEF InThisChunk
  <2>3. ASSUME hp < B, h > hp PROVE (IF h < B THEN B - h ELSE 0) < B - hp
    BY <1>0, <2>3
  <2> QED
    BY <1>h, <2>1, <2>2, <2>3
<1>p. /\ pc \in {"main", "tail"} /\ lay' = lay
      /\ pc' \in {pc, "done", "error", "fault"} \/ MainDone
  BY DEF Next, ChunkStart, InChunk, HeaderEndsChunk, SplitHeader, MainDone, TailBlock,
     TailBreak, Finish, Load, Garbage, Write
<1>g. CASE pc' \in {"done", "error", "fault"}
  BY <1>p, <1>g, GivesUp
<1>m. CASE MainDone
  <2>1. pc = "main" /\ pc' = "tail" /\ UNCHANGED <<lay, c, hp>>
    BY <1>m DEF MainDone
  <2>2. PICK x \in Nat : x = (lay.com - c) * (B + 1)
    <3>1. lay.com \in Nat /\ c \in 0..lay.com /\ B + 1 \in Nat
      BY TurnFacts
    <3> QED
      BY <3>1, ChunkTurns
  <2>3. InThisChunk' = InThisChunk /\ InThisChunk \in Nat
    BY <2>1, TurnFacts DEF InThisChunk
  <2>4. TurnsLeft = x + InThisChunk + 2 /\ TurnsLeft' = x + InThisChunk + 1
    BY <2>1, <2>2, <2>3 DEF TurnsLeft
  <2> QED
    BY <2>3, <2>4
<1>1. CASE pc' = pc /\ ~MainDone
  <2>1. CASE ChunkStart \/ SplitHeader
    <3>1. MoreChunks /\ c' = c + 1
      BY <2>1 DEF ChunkStart, SplitHeader
    <3> QED
      BY <1>p, <1>1, <3>1, GetsOn
  <2>2. CASE InChunk
    <3>1. PICK s \in SizeAt(Pos) :
            IF s <= B - (hp + H)
              THEN hp' = hp + H + s /\ c' = c
              ELSE hp' = (s + hp + H) - B /\ c' = c + 1
      BY <2>2 DEF InChunk
    <3>2. s \in Nat
      BY <1>0, AnySize, SizeFacts
    <3>3. (MoreChunks /\ c' = c + 1) \/ (c' = c /\ hp < B /\ hp' > hp)
      BY <1>0, <2>2, <3>1, <3>2 DEF InChunk
    <3> QED
      BY <1>i, <1>p, <1>1, <3>3, GetsOn
  <2>3. CASE HeaderEndsChunk
    <3>1. c' = c /\ hp < B /\ hp' > hp
      BY <1>0, <2>3 DEF HeaderEndsChunk
    <3> QED
      BY <1>i, <1>p, <1>1, <3>1, GetsOn
  <2>4. CASE TailBlock
    <3>1. PICK s \in SizeAt(Pos) : hp' = hp + H + s
      BY <2>4 DEF TailBlock
    <3>2. s \in Nat
      BY <1>0, AnySize, SizeFacts
    <3>3. c' = c /\ hp < B /\ hp' > hp
      BY <1>0, <2>4, <3>1, <3>2 DEF TailBlock, HeaderInTail
    <3> QED
      BY <1>i, <1>p, <1>1, <3>3, GetsOn
  <2> QED
    BY <1>p, <1>1, <2>1, <2>2, <2>3, <2>4 DEF Next, TailBreak, Finish
<1> QED
  BY <1>p, <1>g, <1>m, <1>1

\* The loops of rt_fota_upgrade come to an end on every body, the ones they do
\* not handle and the ones cut off included, whatever sizes they parse: within
\* a turn for every byte of every chunk.
THEOREM DecoderBounded ==
  Spec => /\ [](/\ TurnsLeft \in 0..(lay.com * (B + 1) + B + 2)
                /\ pc \in {"main", "tail"} => TurnsLeft > 0)
          /\ [][TurnsLeft' < TurnsLeft]_vars
<1>1. StreamInv => /\ TurnsLeft \in 0..(lay.com * (B + 1) + B + 2)
                   /\ pc \in {"main", "tail"} => TurnsLeft > 0
  BY TurnsType
<1>2. StreamInv /\ StreamInv' /\ [Next]_vars => [TurnsLeft' < TurnsLeft]_vars
  BY FewerTurns
<1> QED
  BY <1>1, <1>2, StreamInvariant, PTL DEF Spec
=============================================================================
