----------------------------- MODULE MCFotaBoot -----------------------------
(* Small boards for FotaBoot.  Partition "app" has three sectors, "font"    *)
(* one, the download partition two or three; images are named for what      *)
(* they are.                                                                *)
EXTENDS FotaBoot

CONSTANTS old, new, glyphs, wide, big, locked, odd, short, long, self, vast, loader, v1, v2, v3

Rbl(v, t, c, s, r, y, a) ==
  [ver |-> v, cur |-> v3, target |-> t, com |-> c, sectors |-> s,
   raw |-> r, yield |-> y, algo |-> a]

\* old: two sectors of code; new: three sectors of code packed in two; glyphs:
\* a package for the font partition; wide: one that is too large for it; big:
\* fills the download partition, its last chunk cannot be read; locked: XOR;
\* odd: a compression nobody knows; short: decodes to less than raw_size; long:
\* decodes to more; self, vast (too large) and loader: for the download and
\* boot partitions.
MCPkg ==
  [m \in Images |->
     CASE m = old    -> Rbl(v1, "app", 1, 2, 2, 2, "none")
       [] m = new    -> Rbl(v2, "app", 2, 2, 3, 3, "fastlz")
       [] m = glyphs -> Rbl(v1, "font", 1, 1, 1, 1, "quicklz")
       [] m = wide   -> Rbl(v1, "font", 1, 1, 2, 2, "quicklz")
       [] m = big    -> Rbl(v2, "app", 3, 3, 3, 3, "aes")
       [] m = locked -> Rbl(v2, "app", 1, 1, 1, 1, "xor")
       [] m = odd    -> Rbl(v2, "app", 1, 1, 1, 0, "other")
       [] m = self   -> Rbl(v2, "download", 1, 2, 2, 2, "none")
       [] m = vast   -> Rbl(v2, "download", 1, 1, 4, 4, "none")
       [] m = loader -> Rbl(v2, "boot", 1, 1, 1, 1, "none")
       [] m = short  -> Rbl(v2, "app", 1, 1, 3, 2, "fastlz")
       [] m = long   -> Rbl(v2, "app", 1, 2, 1, 2, "fastlz")]

MCTargets == {"app", "font"}
MCPartLen ==
  [t \in MCTargets \cup Reserved |->
     CASE t = "app" -> 3 [] t = "download" -> DlLen [] OTHER -> 1]
=============================================================================
