-------------------------- MODULE StringSlice_proofs ---------------------------
(***************************************************************************)
(* toStringSlice stays inside its block, for every terminated block, and   *)
(* delivers the strings that the block holds.                              *)
(***************************************************************************)
EXTENDS StringSlice, SequenceTheorems, TLAPS

\* The loop's invariant.  At the last unit of a block the string before it has
\* just been cut, because the unit before the last one is a terminator too:
\* that is what makes the loop end there.
IInv ==
  /\ ps \in Blocks /\ pc \in {"entry", "loop", "done"}
  /\ from \in Nat /\ i \in Nat /\ r \in Seq(Seq(Nat))
  /\ pc = "entry" => i = 0
  /\ pc = "loop" => i < Len(ps) /\ (i = Len(ps) - 1 => from = i)
  /\ CutsAreStrings

\* The loop's variables as toStringSlice sets them satisfy the invariant.
LEMMA IInvInit == Init => IInv
BY DEF Init, IInv, CutsAreStrings

\* Every way through the loop's body keeps the invariant.
LEMMA IInvStep == IInv /\ [Next]_sliceVars => IInv'
<1> SUFFICES ASSUME IInv, [Next]_sliceVars PROVE IInv'
  OBVIOUS
<1> USE DEF IInv
<1>0. ps \in Seq(Nat) /\ (ps = <<>> \/ Terminated(ps))
  BY BlocksAssumption
<1>a. Len(ps) \in Nat
  BY <1>0
<1>1. CASE Enter
  <2>1. pc' = "loop" => 0 < Len(ps) /\ (0 = Len(ps) - 1 => from = 0)
    BY <1>0, <1>1 DEF Enter, Terminated, CutsAreStrings
  <2>. QED BY <1>1, <2>1 DEF Enter, CutsAreStrings
<1>2. CASE Skip
  <2>1. i + 1 < Len(ps) - 1
    <3>1. Terminated(ps)
      BY <1>0, <1>a, <1>2 DEF Skip
    <3>2. i + 1 # Len(ps) /\ (Len(ps) = 1 \/ i + 1 # Len(ps) - 1)
      BY <1>2, <3>1 DEF Skip, Terminated
    <3>3. i \in Nat /\ i < Len(ps)
      BY <1>2 DEF Skip
    <3> DEFINE L == Len(ps)
    <3>4. L \in Nat /\ i < L /\ i + 1 # L /\ (L = 1 \/ i + 1 # L - 1)
      BY <1>a, <3>2, <3>3
    <3>. HIDE DEF IInv, L
    <3>5. i + 1 < L - 1
      BY <3>3, <3>4
    <3>. QED BY <3>5 DEF L
  <2>2. CutsAreStrings'
    BY <1>2 DEF Skip, CutsAreStrings
  <2>. QED BY <1>a, <1>2, <2>1, <2>2 DEF Skip
<1>3. CASE Cut
  <2>1. i + 1 < Len(ps)
    <3>1. i \in Nat /\ from \in Nat /\ i < Len(ps) /\ ~(i <= from)
      BY <1>3 DEF Cut, AtEnd
    <3>2. i # Len(ps) - 1
      BY <1>3, <3>1 DEF Cut
    <3>. HIDE DEF IInv
    <3>. QED BY <1>a, <3>1, <3>2
  <2> DEFINE s == SubSeq(ps, from + 1, i)
  <2>2. /\ s \in Seq(Nat) /\ Len(s) = i - from
        /\ \A j \in 1 .. i - from : s[j] = ps[from + j]
    <3>1. from + 1 \in Int /\ i \in Int /\ from + 1 <= i
      BY <1>3 DEF Cut, AtEnd
    <3>2. \A j \in from + 1 .. i : ps[j] \in Nat
      BY <1>0, <1>a, <2>1, <3>1
    <3>3. /\ s \in Seq(Nat)
          /\ Len(s) = IF from + 1 <= i THEN i - (from + 1) + 1 ELSE 0
          /\ \A j \in 1 .. i - (from + 1) + 1 : s[j] = ps[from + 1 + j - 1]
      BY <3>1, <3>2, SubSeqProperties
    <3>4. from \in Nat /\ i \in Nat
      OBVIOUS
    <3>. HIDE DEF s, IInv
    <3>5. i - (from + 1) + 1 = i - from
      BY <3>4
    <3>6. Len(s) = i - from
      BY <3>1, <3>3, <3>5
    <3>7. \A j \in 1 .. i - from : s[j] = ps[from + 1 + j - 1]
      BY <3>3, <3>5
    <3>8. \A j \in Int : from + 1 + j - 1 = from + j
      BY <3>4
    <3>9. \A j \in 1 .. i - from : s[j] = ps[from + j]
      <4>. TAKE j \in 1 .. i - from
      <4>1. j \in Int
        BY <3>4
      <4>2. from + 1 + j - 1 = from + j
        BY <3>8, <4>1
      <4>3. s[j] = ps[from + 1 + j - 1]
        BY <3>7
      <4>. QED BY <4>2, <4>3
    <3>. QED BY <3>3, <3>6, <3>9
  <2>3. s # <<>> /\ \A j \in DOMAIN s : s[j] # 0
    <3>1. i - from \in Nat /\ i - from > 0
      BY <1>3 DEF Cut, AtEnd, CutsAreStrings
    <3>2. from \in Nat /\ i \in Nat
      OBVIOUS
    <3>3. \A j \in from + 1 .. i : ps[j] # 0
      BY DEF CutsAreStrings
    <3>. HIDE DEF s, IInv
    <3>4. DOMAIN s = 1 .. i - from
      BY <2>2
    <3>5. \A j \in 1 .. i - from : from + j \in from + 1 .. i
      BY <3>1, <3>2
    <3>6. \A j \in DOMAIN s : s[j] # 0
      <4>. TAKE j \in DOMAIN s
      <4>1. s[j] = ps[from + j] /\ from + j \in from + 1 .. i
        BY <2>2, <3>4, <3>5
      <4>. QED BY <3>3, <4>1
    <3>7. s # <<>>
      BY <2>2, <3>1
    <3>. QED BY <3>6, <3>7
  <2>4. r' = Append(r, s) /\ from' = i + 1 /\ i' = i + 1 /\ ps' = ps /\ pc' = "loop"
    BY <1>3 DEF Cut
  <2> HIDE DEF s
  <2>5. r' \in Seq(Seq(Nat))
    BY <2>2, <2>4
  <2>6. \A k \in DOMAIN r' : r'[k] # <<>> /\ \A j \in DOMAIN r'[k] : r'[k][j] # 0
    <3>1. \A k \in DOMAIN r' : r'[k] = s \/ (k \in DOMAIN r /\ r'[k] = r[k])
      BY <2>2, <2>4
    <3>. QED BY <2>3, <3>1 DEF CutsAreStrings
  <2>7. from' <= i' /\ \A j \in from' + 1 .. i' : ps'[j] # 0
    BY <2>4
  <2>. QED BY <2>1, <2>4, <2>5, <2>6, <2>7 DEF CutsAreStrings
<1>4. CASE Break
  BY <1>4 DEF Break, CutsAreStrings
<1>5. CASE UNCHANGED sliceVars
  BY <1>5 DEF sliceVars, CutsAreStrings
<1>. QED BY <1>1, <1>2, <1>3, <1>4, <1>5 DEF Next

\* The invariant holds whenever the loop's condition is evaluated.
LEMMA Invariance == Spec => []IInv
BY IInvInit, IInvStep, PTL DEF Spec

\* toStringSlice never reads past the end of a terminated block.
THEOREM NeverOverrun == Spec => []InBlock
<1>1. IInv => InBlock
  BY DEF IInv, InBlock
<1>. QED BY <1>1, Invariance, PTL

\* Everything toStringSlice delivers is a whole, non-empty string.
THEOREM WholeStrings == Spec => []CutsAreStrings
<1>1. IInv => CutsAreStrings
  BY DEF IInv
<1>. QED BY <1>1, Invariance, PTL

-------------------------------------------------------------------------------
\* How far the loop has read the strings ss that lie at the offsets o: it has cut
\* the first ones, stands at the beginning of or within the next, and is not done
\* before the last.
Reading(ss, o) ==
  /\ Len(r) <= Len(ss) /\ \A k \in 1 .. Len(r) : r[k] = ss[k]
  /\ from = o[Len(r) + 1]
  /\ Len(r) < Len(ss) => i <= from + Len(ss[Len(r) + 1])
  /\ pc = "done" => Len(r) = Len(ss)

LayoutInv == \A ss, o : Layout(ps, ss, o) => Reading(ss, o)

\* What a block holds at and around the string with number n + 1.
LEMMA LayoutFacts ==
  ASSUME NEW b, NEW ss, NEW o, Layout(b, ss, o)
  PROVE  /\ Len(ss) \in Nat /\ ss \in Seq(Seq(Nat \ {0}))
         /\ o[1] = 0 /\ Len(b) = o[Len(ss) + 1] + 1 /\ Len(b) # 0
         /\ \A n \in Nat : n <= Len(ss) => o[n + 1] \in Nat
         /\ \A n \in Nat : n < Len(ss) =>
              /\ ss[n + 1] \in Seq(Nat \ {0}) /\ Len(ss[n + 1]) \in Nat \ {0}
              /\ \A j \in 1 .. Len(ss[n + 1]) :
                   b[o[n + 1] + j] = ss[n + 1][j] /\ b[o[n + 1] + j] # 0
              /\ o[n + 2] = o[n + 1] + Len(ss[n + 1]) + 1 /\ b[o[n + 2]] = 0
<1> USE DEF Layout
<1>1. Len(ss) \in Nat /\ ss \in Seq(Seq(Nat \ {0}))
  OBVIOUS
<1>2. \A n \in Nat : n <= Len(ss) => n + 1 \in 1 .. Len(ss) + 1
  BY <1>1
<1>3. \A n \in Nat : n <= Len(ss) => o[n + 1] \in Nat
  BY <1>2
<1>4. Len(b) # 0
  <2>1. o[Len(ss) + 1] \in Nat
    BY <1>1, <1>3
  <2>. QED BY <2>1
<1>5. ASSUME NEW n \in Nat, n < Len(ss)
      PROVE  /\ ss[n + 1] \in Seq(Nat \ {0}) /\ Len(ss[n + 1]) \in Nat \ {0}
             /\ \A j \in 1 .. Len(ss[n + 1]) :
                  b[o[n + 1] + j] = ss[n + 1][j] /\ b[o[n + 1] + j] # 0
             /\ o[n + 2] = o[n + 1] + Len(ss[n + 1]) + 1 /\ b[o[n + 2]] = 0
  <2>1. n + 1 \in 1 .. Len(ss) /\ n + 1 + 1 = n + 2
    BY <1>1, <1>5
  <2>2. ss[n + 1] \in Seq(Nat \ {0}) /\ ss[n + 1] # <<>>
    BY <1>1, <2>1
  <2>3. Len(ss[n + 1]) \in Nat \ {0}
    BY <2>2
  <2>4. \A j \in 1 .. Len(ss[n + 1]) : b[o[n + 1] + j] = ss[n + 1][j] /\ ss[n + 1][j] # 0
    BY <2>1, <2>2
  <2>5. o[n + 1 + 1] = o[n + 1] + Len(ss[n + 1]) + 1 /\ b[o[n + 1 + 1]] = 0
    BY <2>1
  <2>. QED BY <2>1, <2>2, <2>3, <2>4, <2>5
<1>. QED BY <1>1, <1>3, <1>4, <1>5

\* Every way through the loop's body reads on: a unit of the string it is in, or
\* that string's zero, which is where it cuts, or the zero after the last string.
LEMMA LayoutStep == IInv /\ LayoutInv /\ [Next]_sliceVars => LayoutInv'
<1> SUFFICES ASSUME IInv, LayoutInv, [Next]_sliceVars,
                    NEW ss, NEW o, Layout(ps', ss, o)
             PROVE  Reading(ss, o)'
  BY DEF LayoutInv
<1>0. ps' = ps
  BY DEF Next, Enter, Skip, Cut, Break, sliceVars
<1>1. Layout(ps, ss, o) /\ Reading(ss, o)
  BY <1>0 DEF LayoutInv
<1> DEFINE n == Len(r)
           L == Len(ss[n + 1])
<1>2. /\ from \in Nat /\ i \in Nat /\ r \in Seq(Seq(Nat)) /\ n \in Nat /\ n <= Len(ss)
      /\ from = o[n + 1] /\ from <= i
      /\ n < Len(ss) => i <= from + L
      /\ pc = "loop" => i < Len(ps)
  BY <1>1 DEF IInv, Reading, CutsAreStrings
<1>3. /\ Len(ss) \in Nat /\ Len(ps) = o[Len(ss) + 1] + 1 /\ Len(ps) # 0
      /\ n < Len(ss) =>
           /\ ss[n + 1] \in Seq(Nat \ {0}) /\ L \in Nat \ {0}
           /\ \A j \in 1 .. L : ps[from + j] = ss[n + 1][j] /\ ps[from + j] # 0
           /\ o[n + 2] = from + L + 1 /\ ps[from + L + 1] = 0
  <2>1. /\ Len(ss) \in Nat /\ Len(ps) = o[Len(ss) + 1] + 1 /\ Len(ps) # 0
        /\ n < Len(ss) =>
             /\ ss[n + 1] \in Seq(Nat \ {0}) /\ L \in Nat \ {0}
             /\ \A j \in 1 .. L : ps[o[n + 1] + j] = ss[n + 1][j] /\ ps[o[n + 1] + j] # 0
             /\ o[n + 2] = o[n + 1] + L + 1 /\ ps[o[n + 2]] = 0
    <3>1. n \in Nat
      BY <1>2
    <3>. HIDE DEF n
    <3>. QED BY <1>1, <3>1, LayoutFacts
  <2>2. from = o[n + 1]
    BY <1>2
  <2>. HIDE DEF n, L
  <2>. QED BY <2>1, <2>2
<1>a. from \in Nat /\ i \in Nat /\ (n < Len(ss) => L \in Nat \ {0} /\ i <= from + L)
  BY <1>2, <1>3
<1>4. CASE Enter
  <2>1. ps # <<>>
    BY <1>3
  <2>. QED BY <1>1, <1>4, <2>1 DEF Enter, Reading
<1>5. CASE Skip
  <2>1. n < Len(ss) => i + 1 <= from + L
    <3>1. ps[i + 1] # 0
      BY <1>5 DEF Skip
    <3>. HIDE DEF n, L
    <3>2. n < Len(ss) => i # from + L
      BY <1>3, <3>1
    <3>. QED BY <1>a, <3>2
  <2>. QED BY <1>1, <1>5, <2>1 DEF Skip, Reading
<1>6. CASE Cut
  <2>1. pc = "loop" /\ ps[i + 1] = 0 /\ from < i /\ i < Len(ps)
    BY <1>2, <1>6 DEF Cut, AtEnd
  <2>2. n < Len(ss)
    <3>1. n = Len(ss) => from = Len(ps) - 1
      BY <1>2, <1>3
    <3>. HIDE DEF n
    <3>. QED BY <1>2, <1>3, <2>1, <3>1
  <2> DEFINE t == ss[n + 1]
             s == SubSeq(ps, from + 1, i)
  <2>3. i = from + Len(t)
    <3>. HIDE DEF n, L
    <3>1. i < from + L => i - from + 1 \in 1 .. L /\ from + (i - from + 1) = i + 1
      <4>1. from < i
        BY <2>1
      <4>. QED BY <1>a, <2>2, <4>1
    <3>2. i < from + L => ps[i + 1] # 0
      <4>1. ASSUME NEW j \in 1 .. L PROVE ps[from + j] # 0
        BY <1>3, <2>2
      <4>. QED BY <3>1, <4>1
    <3>3. i = from + L
      <4>1. ~(i < from + L)
        BY <2>1, <3>2
      <4>. QED BY <1>a, <2>2, <4>1
    <3>. QED BY <3>3 DEF L
  <2>4. s = t
    <3>1. ps \in Seq(Nat) /\ Len(ps) \in Nat
      BY BlocksAssumption DEF IInv
    <3>2. /\ s \in Seq(Nat) /\ Len(s) = Len(t)
          /\ \A j \in 1 .. Len(t) : s[j] = ps[from + j]
      <4>1. from + 1 \in Int /\ i \in Int /\ from + 1 <= i /\ Len(t) \in Nat
        BY <1>2, <1>3, <2>1, <2>2
      <4>2. \A j \in from + 1 .. i : ps[j] \in Nat
        <5>1. \A j \in from + 1 .. i : j \in 1 .. Len(ps)
          BY <1>2, <2>1, <3>1
        <5>. QED BY <3>1, <5>1
      <4>3. /\ s \in Seq(Nat)
            /\ Len(s) = IF from + 1 <= i THEN i - (from + 1) + 1 ELSE 0
            /\ \A j \in 1 .. i - (from + 1) + 1 : s[j] = ps[from + 1 + j - 1]
        BY <4>1, <4>2, SubSeqProperties
      <4>. HIDE DEF s, t, n
      <4>4. i - (from + 1) + 1 = Len(t)
        BY <1>2, <2>3, <4>1
      <4>5. \A j \in Int : from + 1 + j - 1 = from + j
        BY <1>2
      <4>6. \A j \in 1 .. Len(t) : j \in Int /\ s[j] = ps[from + 1 + j - 1]
        BY <4>1, <4>3, <4>4
      <4>7. Len(s) = Len(t)
        BY <4>1, <4>3, <4>4
      <4>. QED BY <4>3, <4>5, <4>6, <4>7
    <3>3. t \in Seq(Nat)
      BY <1>3, <2>2
    <3>4. \A j \in 1 .. Len(t) : s[j] = t[j]
      BY <1>3, <2>2, <3>2
    <3>. HIDE DEF s, t, n
    <3>. QED BY <3>2, <3>3, <3>4, SeqEqual
  <2>5. r' = Append(r, t) /\ from' = i + 1 /\ i' = i + 1 /\ pc' = "loop"
    BY <1>6, <2>1, <2>4 DEF Cut
  <2>6. Len(r') = n + 1 /\ \A k \in 1 .. Len(r') : r'[k] = ss[k]
    <3>1. Len(r') = n + 1 /\ r'[n + 1] = t /\ \A k \in 1 .. n : r'[k] = r[k]
      BY <1>2, <2>5
    <3>2. \A k \in 1 .. n : r[k] = ss[k]
      BY <1>1 DEF Reading
    <3>3. n \in Nat
      BY <1>2
    <3>. HIDE DEF n, t
    <3>4. \A k \in 1 .. n + 1 : k \in 1 .. n \/ k = n + 1
      BY <3>3
    <3>. QED BY <3>1, <3>2, <3>4 DEF t
  <2>7. from' = o[Len(r') + 1]
    <3>1. o[n + 2] = from + Len(t) + 1 /\ Len(r') + 1 = n + 2
      BY <1>2, <1>3, <2>2, <2>6
    <3>. QED BY <2>3, <2>5, <3>1
  <2>8. Len(r') <= Len(ss)
    BY <1>2, <1>3, <2>2, <2>6
  <2>9. Len(r') < Len(ss) => i' <= from' + Len(ss[Len(r') + 1])
    <3>1. \A k \in Nat : k < Len(ss) => Len(ss[k + 1]) \in Nat
      BY <1>1, LayoutFacts
    <3>2. n + 1 \in Nat /\ i' = from' /\ from' \in Nat /\ Len(r') = n + 1
      BY <1>2, <2>5, <2>6
    <3>3. Len(r') < Len(ss) => Len(ss[Len(r') + 1]) \in Nat
      BY <3>1, <3>2
    <3> DEFINE M == Len(ss[Len(r') + 1])
    <3>. HIDE DEF M
    <3>4. Len(r') < Len(ss) => M \in Nat
      BY <3>3 DEF M
    <3>5. Len(r') < Len(ss) => i' <= from' + M
      BY <3>2, <3>4
    <3>. QED BY <3>5 DEF M
  <2>. QED BY <2>5, <2>6, <2>7, <2>8, <2>9 DEF Reading
<1>7. CASE Break
  <2>1. ps[from + 1] = 0
    BY <1>2, <1>7 DEF Break, AtEnd
  <2>2. ~(n < Len(ss))
    <3> SUFFICES ASSUME n < Len(ss) PROVE FALSE
      OBVIOUS
    <3>. HIDE DEF n, L
    <3>1. 1 \in 1 .. L
      BY <1>3
    <3>. QED BY <1>3, <2>1, <3>1
  <2>3. n = Len(ss)
    BY <1>2, <1>3, <2>2
  <2>. QED BY <1>1, <1>7, <2>3 DEF Break, Reading
<1>8. CASE UNCHANGED sliceVars
  BY <1>1, <1>8 DEF sliceVars, Reading
<1>. QED BY <1>4, <1>5, <1>6, <1>7, <1>8 DEF Next

\* toStringSlice inverts the layout of strings in a block, however many there are
\* and however long: at the end it has delivered exactly the block's strings.
THEOREM SliceInverts == Spec => []SlicesAreStrings
<1>1. Init => LayoutInv
  <2> SUFFICES ASSUME Init, NEW ss, NEW o, Layout(ps, ss, o) PROVE Reading(ss, o)
    BY DEF LayoutInv
  <2>1. Len(ss) \in Nat /\ o[1] = 0
    BY LayoutFacts
  <2>2. 0 < Len(ss) => Len(ss[1]) \in Nat
    <3>1. 0 < Len(ss) => Len(ss[0 + 1]) \in Nat
      BY LayoutFacts
    <3>. QED BY <3>1
  <2>3. Len(r) = 0 /\ from = 0 /\ i = 0 /\ pc = "entry"
    BY DEF Init
  <2>. QED BY <2>1, <2>2, <2>3 DEF Reading
<1>2. IInv /\ LayoutInv => SlicesAreStrings
  <2> SUFFICES ASSUME IInv, LayoutInv, pc = "done", NEW ss, NEW o, Layout(ps, ss, o)
               PROVE  r = ss
    BY DEF SlicesAreStrings
  <2>1. r \in Seq(Seq(Nat)) /\ ss \in Seq(Seq(Nat \ {0}))
    BY LayoutFacts DEF IInv
  <2>2. Len(r) = Len(ss) /\ \A k \in 1 .. Len(r) : r[k] = ss[k]
    BY DEF LayoutInv, Reading
  <2>3. ss \in Seq(Seq(Nat))
    <3>1. Len(ss) \in Nat /\ \A k \in 1 .. Len(ss) : ss[k] \in Seq(Nat)
      BY <2>1
    <3>. QED BY <2>1, <3>1
  <2>. QED BY <2>1, <2>2, <2>3, SeqEqual
<1>. QED BY <1>1, <1>2, LayoutStep, Invariance, PTL DEF Spec
===============================================================================
