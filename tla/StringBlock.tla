------------------------------ MODULE StringBlock ------------------------------
(***************************************************************************)
(* A list of strings on its way to Windows and back: toStringBlock of      *)
(* package mgr, whose block toStringSlice reads.  A string is the sequence *)
(* of its code points.  The code does not check for a zero among them.     *)
(***************************************************************************)
EXTENDS StringSlice, SequencesExt

CONSTANTS
  Runes,      \* the code points strings are made of
  MaxLen,     \* bound: length of a string
  MaxList     \* bound: length of a list

Strings == SeqOf(Runes, MaxLen)
Lists == SeqOf(Strings, MaxList)

\* The lists without a NUL character, which are those that Windows can hold.
NulFree == SeqOf(SeqOf(Runes \ {0}, MaxLen), MaxList)

\* utf16.Encode and utf16.Decode: code points from 2^16 on take two units.
EncodeRune(c) == IF c < 65536 THEN <<c>>
                 ELSE <<55296 + (c - 65536) \div 1024, 56320 + ((c - 65536) % 1024)>>

Encode(s) == FlattenSeq([k \in DOMAIN s |-> EncodeRune(s[k])])

Decode[u \in Seq(Nat)] ==
  IF u = <<>> THEN <<>>
  ELSE IF u[1] \in 55296 .. 56319 /\ Len(u) > 1 /\ u[2] \in 56320 .. 57343
  THEN <<65536 + 1024 * (u[1] - 55296) + (u[2] - 56320)>> \o Decode[SubSeq(u, 3, Len(u))]
  ELSE <<IF u[1] \in 55296 .. 57343 THEN 65533 ELSE u[1]>> \o Decode[Tail(u)]

NotEmpty(s) == s # <<>>

\* Seeded defect: empty strings are written like any other.
Kept_All(ss) == ss

Kept(ss) == SelectSeq(ss, NotEmpty)

\* nil when no string is left; otherwise each string with a zero after it, and
\* one more zero.
toStringBlock(ss) ==
  LET t == FlattenSeq([k \in DOMAIN Kept(ss) |-> Append(Kept(ss)[k], 0)])
  IN IF t = <<>> THEN <<>> ELSE Encode(Append(t, 0))

\* What toStringSlice may be given: a block toStringBlock has written, nil, or
\* the empty string with which Windows answers for an empty list.
WrittenBlocks == {toStringBlock(ss) : ss \in Lists} \cup {<<0>>}

\* The result of toStringSlice.
Result == [k \in DOMAIN r |-> Decode[r[k]]]

-------------------------------------------------------------------------------
\* Where each of the strings us begins in a block, and where the last one ends.
Offsets(us) ==
  [k \in 1 .. Len(us) + 1 |-> Len(FlattenSeq([j \in 1 .. k - 1 |-> Append(us[j], 0)]))]

\* A list without NUL characters survives the way to Windows and back up to its
\* empty strings, which would end it early if they were written: no string is
\* lost, split or joined with its neighbour, and no surrogate pair is torn.
\* What is written is a Layout of the encoded strings.  (toStringBlock lets a
\* NUL through, and then a string is split or the list ends early.)
RoundTrip ==
  pc = "done" =>
    \A ss \in NulFree : toStringBlock(ss) = ps =>
      LET kept == SelectSeq(ss, NotEmpty)
          us == [k \in DOMAIN kept |-> Encode(kept[k])]
      IN Result = kept /\ (kept # <<>> => Layout(ps, us, Offsets(us)))
===============================================================================
