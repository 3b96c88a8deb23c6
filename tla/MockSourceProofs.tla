-------------------------- MODULE MockSourceProofs --------------------------
(***************************************************************************)
(* Facts about the text of a program, for the proofs about its runtimes.    *)
(***************************************************************************)
EXTENDS MockSource, FiniteSetTheorems, TLAPS

\* A program's lines are numbered by naturals.
LEMMA LinesType ==
  ASSUME NEW f \in Files
  PROVE  /\ NumLines(f) \in Nat \ {0}
         /\ Lines(f) = 0 .. NumLines(f) - 1
         /\ f # None
         /\ \A l \in Lines(f) : TextOf(f, l) \in LineRecord
<1>1. Source[f] \in Seq(LineRecord) /\ Source[f] # <<>> /\ f # None
  BY SourceAssumption, NoneAssumption DEF SourceAssumption, NoneAssumption
<1>2. Len(Source[f]) \in Nat \ {0}
  BY <1>1
<1>3. \A l \in 0 .. Len(Source[f]) - 1 : Source[f][l + 1] \in LineRecord
  BY <1>1
<1> QED
  BY <1>1, <1>2, <1>3 DEF NumLines, Lines, TextOf

\* The number of words before a line is a natural, and none is before the
\* first line.
LEMMA StartsType ==
  ASSUME NEW f \in Files, NEW l \in Lines(f)
  PROVE  Starts(f, l) \in Nat /\ Starts(f, 0) = 0
<1>1. l \in Nat /\ \A k \in 0 .. l - 1 : k \in Lines(f)
  BY LinesType
<1>2. \A k \in 0 .. l - 1 : IsFiniteSet(WordsOf(f, k))
  <2> SUFFICES ASSUME NEW k \in 0 .. l - 1 PROVE IsFiniteSet(WordsOf(f, k))
    OBVIOUS
  <2>1. TextOf(f, k).words \in Nat
    BY <1>1, LinesType DEF LineRecord
  <2>2. IsFiniteSet(1 .. TextOf(f, k).words)
    BY <2>1, FS_Interval
  <2>3. IsFiniteSet({k})
    BY FS_Singleton, Zenon
  <2> QED
    BY <2>2, <2>3, FS_Product, Zenon DEF WordsOf
<1>3. IsFiniteSet({WordsOf(f, k) : k \in 0 .. l - 1})
  <2> DEFINE W == [k \in 0 .. l - 1 |-> WordsOf(f, k)]
             T == {WordsOf(f, k) : k \in 0 .. l - 1}
  <2>1. W \in Surjection(0 .. l - 1, T)
    BY Zenon DEF Surjection
  <2>2. IsFiniteSet(0 .. l - 1)
    BY <1>1, FS_Interval
  <2>3. IsFiniteSet(T)
    <3> HIDE DEF W, T
    <3> QED
      BY <2>1, <2>2, FS_Surjection, Zenon
  <2> QED
    BY <2>3
<1>4. IsFiniteSet(WordsBefore(f, l))
  BY <1>2, <1>3, FS_UNION DEF WordsBefore
<1>5. WordsBefore(f, 0) = {}
  BY DEF WordsBefore
<1> QED
  BY <1>4, <1>5, FS_CardinalityType, FS_EmptySet DEF Starts

\* A line ends where it starts, or later.
LEMMA EndsType ==
  ASSUME NEW f \in Files, NEW l \in Lines(f)
  PROVE  Ends(f, l) \in Nat /\ Starts(f, l) <= Ends(f, l)
BY StartsType, LinesType DEF Ends, LineRecord
=============================================================================
