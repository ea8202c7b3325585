------------------------------ MODULE StringSlice ------------------------------
(***************************************************************************)
(* toStringSlice of package mgr: the loop that cuts a block of             *)
(* zero-terminated UTF-16 strings, such as the Dependencies that           *)
(* QueryServiceConfig returns, into its strings.  The loop has no length   *)
(* to go by: p is viewed as an array of 2^24 units and only the zeros in   *)
(* the block keep it from reading beyond it.                               *)
(*                                                                         *)
(* A block is the sequence of its units, the empty sequence a nil pointer. *)
(* Go counts from 0: p[i] is ps[i + 1].                                    *)
(***************************************************************************)
EXTENDS Integers, Sequences

CONSTANT Blocks     \* the blocks toStringSlice may be given

\* An empty string alone, or strings followed by an empty one.
Terminated(b) ==
  /\ Len(b) >= 1 /\ b[Len(b)] = 0
  /\ Len(b) = 1 \/ b[Len(b) - 1] = 0

ASSUME BlocksAssumption ==
  /\ Blocks \subseteq Seq(Nat)
  /\ \A b \in Blocks : b = <<>> \/ Terminated(b)

VARIABLES
  ps,        \* the block
  pc,        \* "entry", "loop", "done"
  from, i,   \* the loop's variables
  r          \* the result: the slices p[from:i] not yet decoded

sliceVars == <<ps, pc, from, i, r>>

Init == ps \in Blocks /\ pc = "entry" /\ from = 0 /\ i = 0 /\ r = <<>>

Enter ==
  /\ pc = "entry"
  /\ pc' = IF ps = <<>> THEN "done" ELSE "loop"
  /\ UNCHANGED <<ps, from, i, r>>

Skip ==
  /\ pc = "loop" /\ ps[i + 1] # 0
  /\ i' = i + 1
  /\ UNCHANGED <<ps, pc, from, r>>

\* Seeded defect: < in place of <=.
AtEnd_Less == i < from

\* "empty string marks the end"
AtEnd == i <= from

Cut ==
  /\ pc = "loop" /\ ps[i + 1] = 0 /\ ~AtEnd
  /\ r' = Append(r, SubSeq(ps, from + 1, i))
  /\ from' = i + 1 /\ i' = i + 1
  /\ UNCHANGED <<ps, pc>>

Break ==
  /\ pc = "loop" /\ ps[i + 1] = 0 /\ AtEnd
  /\ pc' = "done"
  /\ UNCHANGED <<ps, from, i, r>>

Next == Enter \/ Skip \/ Cut \/ Break

Spec == Init /\ [][Next]_sliceVars

-------------------------------------------------------------------------------
\* The loop never reads past the end of the block it was given, although it
\* knows no length: it always meets an empty string first.
InBlock == pc = "loop" => i < Len(ps)

\* What has been delivered are whole strings: none is empty, none holds a
\* terminator, and the piece being read holds none so far either.
CutsAreStrings ==
  /\ from <= i /\ \A j \in from + 1 .. i : ps[j] # 0
  /\ \A k \in DOMAIN r : r[k] # <<>> /\ \A j \in DOMAIN r[k] : r[k][j] # 0

\* b holds the non-empty strings ss, the k-th after its first o[k] units, each
\* with a zero after it, and one more zero at the end.
Layout(b, ss, o) ==
  /\ ss \in Seq(Seq(Nat \ {0})) /\ \A k \in 1 .. Len(ss) : ss[k] # <<>>
  /\ o \in [1 .. Len(ss) + 1 -> Nat] /\ o[1] = 0
  /\ \A k \in 1 .. Len(ss) :
       /\ \A j \in 1 .. Len(ss[k]) : b[o[k] + j] = ss[k][j]
       /\ o[k + 1] = o[k] + Len(ss[k]) + 1 /\ b[o[k + 1]] = 0
  /\ Len(b) = o[Len(ss) + 1] + 1 /\ b[Len(b)] = 0

\* toStringSlice delivers exactly the strings that the block holds.
SlicesAreStrings == pc = "done" => \A ss, o : Layout(ps, ss, o) => r = ss
===============================================================================
