---------------------------- MODULE MCFotaStream ----------------------------
(* Small layouts for FotaStream: chunks of eight bytes, headers of two,     *)
(* packages of up to MaxBlocks blocks of every size up to MaxSize.          *)
EXTENDS FotaStream, SequencesExt

CONSTANTS MaxBlocks, MaxSize, Align

Starts(sz) == FoldLeft(LAMBDA acc, x : Append(acc, acc[Len(acc)] + H + x), <<0>>, sz)

Layout(sz, st, com) == [n |-> Len(sz), size |-> sz, start |-> st, com |-> com]

RoundUp(x) == Align * ((x + Align - 1) \div Align)

\* Complete packages.
AllLayouts ==
  UNION {{LET st == Starts(sz) IN Layout(sz, st, RoundUp(st[Len(st)]))
            : sz \in [1..n -> 1..MaxSize]} : n \in 1..MaxBlocks}

\* Longer ones, of blocks that fall short of a chunk, fill it or pass it.
LongerLayouts ==
  {LET st == Starts(sz) IN Layout(sz, st, RoundUp(st[Len(st)]))
     : sz \in [1..(MaxBlocks + 1) -> {1, 4, 5, 6, 7, 9}]}

\* All of these, whole and cut off at the end of a chunk.
AnyLayouts ==
  LET whole == AllLayouts \cup LongerLayouts IN
    whole \cup UNION {{[l EXCEPT !.com = i * B] : i \in 1..((l.com - 1) \div B)} : l \in whole}

\* Blocks that fit in a chunk of their own; only a header can be in the way.
EdgeLayouts ==
  {l \in AllLayouts : \A b \in 1..l.n : H + l.size[b] <= B}

\* No header ends a chunk; a block may be nearly as long as a chunk.
LongLayouts ==
  {l \in AllLayouts : \A b \in 1..l.n : (l.start[b] % B) + H # B}
=============================================================================
