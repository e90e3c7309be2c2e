---------------------- MODULE TextInputHandler_proofs ----------------------
(***************************************************************************)
(* Proofs about TextInputHandler.  In a text of whole characters the       *)
(* offsets between two characters, its edges, are the ones the walks of    *)
(* UTF8Util visit, and the code's two units of an edge determine each      *)
(* other; every operation moves from edge to edge and leaves a text of     *)
(* whole characters.                                                       *)
(***************************************************************************)
EXTENDS TextInputHandler, SequenceTheorems, FunctionTheorems, FiniteSetTheorems,
        WellFoundedInduction, TLAPS

(* What the keyboard and the game send is UTF-8.                            *)
TextsWhole == \A t \in Characters \cup Texts : WholeCharacters(t)

Edge(s, p)   == p \in 0..Len(s) /\ (p < Len(s) => s[p + 1] # "continuation")
Leads(s)     == {i \in 0..(Len(s) - 1) : s[i + 1] # "continuation"}
LeadsTo(s, p) == {i \in Leads(s) : i < p}
CharEnd(s, p) == p + getCharByteSize(s[p + 1])

-----------------------------------------------------------------------------
(* Least and greatest elements.                                             *)
LEMMA MinIsLeast ==
  ASSUME NEW S \in SUBSET Nat, S # {}
  PROVE  Min(S) \in S /\ \A k \in S : Min(S) <= k
<1>1. PICK m \in S : \A k \in S : ~(<<k, m>> \in OpToRel(<, Nat))
  BY NatLessThanWellFounded, WFMin
<1>2. ASSUME NEW k \in S PROVE m <= k
  <2>1. OpToRel(<, Nat) = {ss \in Nat \X Nat : ss[1] < ss[2]}
    BY Zenon DEF OpToRel
  <2>2. ~(<<k, m>> \in {ss \in Nat \X Nat : ss[1] < ss[2]})
    BY <1>1, <2>1, Zenon
  <2>3. ~(k < m)
    BY <2>2
  <2> QED
    BY <2>3
<1> QED
  BY <1>2 DEF Min

LEMMA MaxIsGreatest ==
  ASSUME NEW n \in Nat, NEW S \in SUBSET (0..n), S # {}
  PROVE  Max(S) \in S /\ \A k \in S : Max(S) >= k
<1> DEFINE Below == {n - i : i \in S}
<1>1. Below \subseteq Nat /\ Below # {}
  <2>1. PICK i : i \in S
    OBVIOUS
  <2>2. n - i \in Below
    BY <2>1
  <2>3. ASSUME NEW k \in Below PROVE k \in Nat
    OBVIOUS
  <2> QED
    BY <2>2, <2>3
<1> HIDE DEF Below
<1>2. Min(Below) \in Below /\ \A k \in Below : Min(Below) <= k
  BY <1>1, MinIsLeast
<1>3. PICK i \in S : Min(Below) = n - i
  BY <1>2 DEF Below
<1>4. \A k \in S : i >= k
  <2> TAKE k \in S
  <2>1. n - k \in Below
    BY DEF Below
  <2>2. n - i <= n - k
    BY <1>2, <1>3, <2>1
  <2> QED
    BY <2>2
<1> QED
  BY <1>4 DEF Max

(* A number that fits size_t is left alone.                                 *)
LEMMA NoWrap ==
  ASSUME SizeMax \in Nat, NEW n \in 0..SizeMax
  PROVE  Wrap(n) = n
BY DEF Wrap

-----------------------------------------------------------------------------
(* Characters.                                                              *)
LEMMA SizeOfCharacter ==
  ASSUME NEW b
  PROVE  getCharByteSize(b) \in 1..4
BY DEF getCharByteSize

LEMMA WholeAt ==
  ASSUME NEW s \in Seq(Bytes), WholeCharacters(s),
         NEW i \in 1..Len(s), s[i] # "continuation"
  PROVE  LET n == i + getCharByteSize(s[i])
         IN  /\ n <= Len(s) + 1
             /\ \A j \in (i + 1)..(n - 1) : s[j] = "continuation"
             /\ n <= Len(s) => s[n] # "continuation"
BY DEF WholeCharacters

(* From an edge the next one is the end of the character there.             *)
LEMMA NextEdge ==
  ASSUME NEW s \in Seq(Bytes), WholeCharacters(s), NEW p, Edge(s, p), p < Len(s)
  PROVE  /\ CharEnd(s, p) \in (p + 1)..Len(s) /\ Edge(s, CharEnd(s, p))
         /\ \A k \in (p + 1)..(CharEnd(s, p) - 1) : s[k + 1] = "continuation"
<1> DEFINE i == p + 1
           n == i + getCharByteSize(s[i])
<1>1. p \in 0..Len(s) /\ Len(s) \in Nat /\ i \in 1..Len(s) /\ s[i] # "continuation"
  BY DEF Edge
<1>2. n \in (i + 1)..(i + 4)
  BY <1>1, SizeOfCharacter
<1>3. /\ n <= Len(s) + 1
      /\ \A j \in (i + 1)..(n - 1) : s[j] = "continuation"
      /\ n <= Len(s) => s[n] # "continuation"
  BY <1>1, WholeAt
<1>4. CharEnd(s, p) = n - 1
  BY <1>1, <1>2, SizeOfCharacter DEF CharEnd
<1> HIDE DEF n
<1>5. Edge(s, CharEnd(s, p))
  BY <1>1, <1>2, <1>3, <1>4 DEF Edge
<1>6. ASSUME NEW k \in (p + 1)..(CharEnd(s, p) - 1) PROVE s[k + 1] = "continuation"
  BY <1>1, <1>2, <1>3, <1>4
<1> QED
  BY <1>1, <1>2, <1>3, <1>4, <1>5, <1>6

LEMMA FirstEdge ==
  ASSUME NEW s \in Seq(Bytes), WholeCharacters(s)
  PROVE  Edge(s, 0) /\ Edge(s, Len(s))
<1>1. Len(s) \in Nat
  OBVIOUS
<1>2. ASSUME Len(s) > 0 PROVE s[1] # "continuation"
  BY <1>1, <1>2 DEF WholeCharacters
<1> QED
  BY <1>1, <1>2 DEF Edge

(* An edge that is not the beginning is the end of a character.             *)
LEMMA PreviousEdge ==
  ASSUME NEW s \in Seq(Bytes), WholeCharacters(s), NEW p, Edge(s, p), p > 0
  PROVE  \E j \in 0..(p - 1) :
           /\ Edge(s, j) /\ CharEnd(s, j) = p
           /\ \A k \in (j + 1)..(p - 1) : s[k + 1] = "continuation"
<1> DEFINE E == {e \in 0..(p - 1) : Edge(s, e)}
           j == Max(E)
<1>1. p \in 1..Len(s) /\ Len(s) \in Nat
  BY DEF Edge
<1>2. E \in SUBSET (0..Len(s)) /\ 0 \in E
  BY <1>1, FirstEdge
<1>3. j \in E /\ \A k \in E : j >= k
  BY <1>1, <1>2, MaxIsGreatest
<1>4. j \in 0..(p - 1) /\ Edge(s, j) /\ j < Len(s)
  BY <1>1, <1>3
<1> HIDE DEF j
<1>5. /\ CharEnd(s, j) \in (j + 1)..Len(s) /\ Edge(s, CharEnd(s, j))
      /\ \A k \in (j + 1)..(CharEnd(s, j) - 1) : s[k + 1] = "continuation"
  BY <1>4, NextEdge
<1>6. ~(CharEnd(s, j) < p)
  BY <1>1, <1>3, <1>4, <1>5
<1>7. ~(CharEnd(s, j) > p)
  <2> SUFFICES ASSUME CharEnd(s, j) > p PROVE FALSE
    OBVIOUS
  <2>1. p \in (j + 1)..(CharEnd(s, j) - 1) /\ p < Len(s)
    BY <1>1, <1>4, <1>5
  <2>2. s[p + 1] = "continuation"
    BY <1>5, <2>1
  <2> QED
    BY <2>1, <2>2 DEF Edge
<1>8. CharEnd(s, j) = p
  BY <1>1, <1>4, <1>5, <1>6, <1>7
<1> QED
  BY <1>4, <1>5, <1>8

-----------------------------------------------------------------------------
(* The offsets a walk from character to character visits are the edges.     *)
Reached(s, f, i) ==
  \/ i = 0
  \/ \E size \in 1..4 : /\ size <= i
                        /\ getCharByteSize(s[i - size + 1]) = size
                        /\ f[i - size]

VisitedBy(s) ==
  CHOOSE f : f = [i \in 0..Len(s) |->
                    \/ i = 0
                    \/ \E size \in 1..4 : /\ size <= i
                                          /\ getCharByteSize(s[i - size + 1]) = size
                                          /\ f[i - size]]

LEMMA StartsVisited ==
  ASSUME NEW s
  PROVE  CharStarts(s) = {i \in 0..(Len(s) - 1) : VisitedBy(s)[i]}
BY Zenon DEF CharStarts, VisitedBy

LEMMA VisitedFrom ==
  ASSUME NEW s, NEW g, g = [i \in 0..Len(s) |-> Reached(s, g, i)]
  PROVE  VisitedBy(s) = [i \in 0..Len(s) |-> Reached(s, VisitedBy(s), i)]
BY Zenon DEF VisitedBy, Reached

LEMMA EdgeReached ==
  ASSUME NEW s \in Seq(Bytes), WholeCharacters(s), NEW f, NEW i \in 0..Len(s),
         \A k \in 0..(i - 1) : f[k] <=> Edge(s, k)
  PROVE  Reached(s, f, i) <=> Edge(s, i)
<1>0. Len(s) \in Nat
  OBVIOUS
<1>1. CASE i = 0
  BY <1>1, FirstEdge DEF Reached
<1>2. CASE i > 0
  <2>1. ASSUME Edge(s, i) PROVE Reached(s, f, i)
    <3>1. PICK j \in 0..(i - 1) : Edge(s, j) /\ CharEnd(s, j) = i
      BY <1>2, <2>1, PreviousEdge
    <3> DEFINE size == getCharByteSize(s[j + 1])
    <3>2. size \in 1..4
      BY SizeOfCharacter
    <3> HIDE DEF size
    <3>3. j + size = i
      BY <3>1 DEF CharEnd, size
    <3>4. size <= i /\ i - size = j
      BY <1>2, <3>1, <3>2, <3>3
    <3>5. f[i - size]
      BY <3>1, <3>4
    <3>6. getCharByteSize(s[i - size + 1]) = size
      BY <3>4 DEF size
    <3> QED
      BY <3>2, <3>4, <3>5, <3>6 DEF Reached
  <2>2. ASSUME Reached(s, f, i) PROVE Edge(s, i)
    <3>1. PICK size \in 1..4 : /\ size <= i
                               /\ getCharByteSize(s[i - size + 1]) = size
                               /\ f[i - size]
      BY <1>2, <2>2 DEF Reached
    <3> DEFINE j == i - size
    <3>2. j \in 0..(i - 1) /\ j < Len(s)
      BY <1>0, <3>1
    <3>3. Edge(s, j)
      BY <3>1, <3>2
    <3>4. Edge(s, CharEnd(s, j))
      BY <3>2, <3>3, NextEdge
    <3>5. CharEnd(s, j) = i
      BY <3>1 DEF CharEnd
    <3> QED
      BY <3>4, <3>5
  <2> QED
    BY <2>1, <2>2
<1> QED
  BY <1>1, <1>2

LEMMA StartsAreLeads ==
  ASSUME NEW s \in Seq(Bytes), WholeCharacters(s)
  PROVE  CharStarts(s) = Leads(s)
<1> DEFINE N == 0..Len(s)
           g == [i \in N |-> Edge(s, i)]
           V == VisitedBy(s)
<1>0. Len(s) \in Nat
  OBVIOUS
<1>1. g = [i \in N |-> Reached(s, g, i)]
  <2>1. ASSUME NEW i \in N PROVE Reached(s, g, i) = Edge(s, i)
    <3>1. \A k \in 0..(i - 1) : g[k] <=> Edge(s, k)
      BY <1>0
    <3>2. Reached(s, g, i) <=> Edge(s, i)
      BY <3>1, EdgeReached
    <3>3. Reached(s, g, i) \in BOOLEAN /\ Edge(s, i) \in BOOLEAN
      BY Zenon DEF Reached, Edge
    <3> QED
      BY <3>2, <3>3
  <2> QED
    BY <2>1, Zenon
<1> HIDE DEF g
<1>2. V = [i \in N |-> Reached(s, V, i)]
  BY <1>1, VisitedFrom
<1>3. ASSUME NEW i \in N PROVE V[i] <=> Reached(s, V, i)
  BY <1>2, Zenon
<1> HIDE DEF V
<1> DEFINE Wrong == {i \in N : ~(V[i] <=> Edge(s, i))}
<1>4. Wrong = {}
  <2> SUFFICES ASSUME Wrong # {} PROVE FALSE
    OBVIOUS
  <2> DEFINE i == Min(Wrong)
  <2>0. Wrong \subseteq Nat
    BY <1>0
  <2>1. i \in Wrong /\ \A k \in Wrong : i <= k
    BY <2>0, MinIsLeast
  <2> HIDE DEF i
  <2>2. i \in N /\ ~(V[i] <=> Edge(s, i))
    BY <2>1
  <2>3. ASSUME NEW k \in 0..(i - 1) PROVE V[k] <=> Edge(s, k)
    BY <1>0, <2>1, <2>2
  <2>4. Reached(s, V, i) <=> Edge(s, i)
    BY <2>2, <2>3, EdgeReached
  <2> QED
    BY <1>3, <2>2, <2>4
<1>5. ASSUME NEW i \in 0..(Len(s) - 1) PROVE V[i] <=> s[i + 1] # "continuation"
  BY <1>0, <1>4 DEF Edge
<1>6. CharStarts(s) = {i \in 0..(Len(s) - 1) : V[i]}
  BY StartsVisited DEF V
<1> QED
  BY <1>5, <1>6 DEF Leads

-----------------------------------------------------------------------------
(* Counting characters.                                                     *)
LEMMA LeadsFinite ==
  ASSUME NEW s \in Seq(Bytes), NEW p \in 0..Len(s)
  PROVE  /\ IsFiniteSet(LeadsTo(s, p)) /\ IsFiniteSet(Leads(s))
         /\ Cardinality(LeadsTo(s, p)) \in 0..p
         /\ Cardinality(Leads(s)) \in Nat
         /\ LeadsTo(s, Len(s)) = Leads(s) /\ LeadsTo(s, 0) = {}
<1>0. Len(s) \in Nat
  OBVIOUS
<1>1. LeadsTo(s, p) \subseteq 0..(p - 1) /\ Leads(s) \subseteq 0..(Len(s) - 1)
  BY <1>0 DEF LeadsTo, Leads
<1>2. /\ IsFiniteSet(0..(p - 1)) /\ IsFiniteSet(0..(Len(s) - 1))
      /\ Cardinality(0..(p - 1)) = p
  <2> p - 1 \in Int /\ Len(s) - 1 \in Int
    BY <1>0
  <2>1. IsFiniteSet(0..(p - 1)) /\ IsFiniteSet(0..(Len(s) - 1))
    <3> DEFINE a == p - 1
               b == Len(s) - 1
    <3>1. 0 \in Int /\ a \in Int /\ b \in Int
      OBVIOUS
    <3> HIDE DEF a, b
    <3>2. IsFiniteSet(0..a) /\ IsFiniteSet(0..b)
      BY <3>1, FS_Interval, Zenon
    <3> QED
      BY <3>2 DEF a, b
  <2>2. Cardinality(0..(p - 1)) = IF 0 > p - 1 THEN 0 ELSE (p - 1) - 0 + 1
    BY <1>0, FS_Interval
  <2> QED
    BY <1>0, <2>1, <2>2
<1>3. /\ IsFiniteSet(LeadsTo(s, p)) /\ IsFiniteSet(Leads(s))
      /\ Cardinality(LeadsTo(s, p)) <= Cardinality(0..(p - 1))
  BY <1>1, <1>2, FS_Subset
<1>4. Cardinality(LeadsTo(s, p)) \in Nat /\ Cardinality(Leads(s)) \in Nat
  BY <1>3, FS_CardinalityType
<1>5. LeadsTo(s, Len(s)) = Leads(s) /\ LeadsTo(s, 0) = {}
  BY <1>0 DEF LeadsTo, Leads
<1> QED
  BY <1>0, <1>2, <1>3, <1>4, <1>5

LEMMA LengthCounts ==
  ASSUME NEW s \in Seq(Bytes), WholeCharacters(s), NEW p \in 0..Len(s)
  PROVE  getLength(s, p) = Cardinality(LeadsTo(s, p)) /\ getLength(s, p) \in 0..p
<1>1. getLength(s, p) = Cardinality(LeadsTo(s, p))
  BY StartsAreLeads, Zenon DEF getLength, LeadsTo
<1> QED
  BY <1>1, LeadsFinite

(* A character more is counted from its lead byte on.                       *)
LEMMA OneMore ==
  ASSUME NEW s \in Seq(Bytes), WholeCharacters(s), NEW p \in 0..(Len(s) - 1),
         s[p + 1] # "continuation", NEW q \in (p + 1)..Len(s),
         \A k \in (p + 1)..(q - 1) : s[k + 1] = "continuation"
  PROVE  getLength(s, q) = getLength(s, p) + 1
<1>0. Len(s) \in Nat /\ p \in 0..Len(s) /\ q \in 0..Len(s)
  OBVIOUS
<1>1. LeadsTo(s, q) = LeadsTo(s, p) \cup {p} /\ p \notin LeadsTo(s, p)
  BY <1>0 DEF LeadsTo, Leads
<1>2. Cardinality(LeadsTo(s, q)) = Cardinality(LeadsTo(s, p)) + 1
  BY <1>0, <1>1, LeadsFinite, FS_AddElement
<1> QED
  BY <1>0, <1>2, LengthCounts

LEMMA CharEndCounts ==
  ASSUME NEW s \in Seq(Bytes), WholeCharacters(s), NEW p, Edge(s, p), p < Len(s)
  PROVE  getLength(s, CharEnd(s, p)) = getLength(s, p) + 1
<1>1. p \in 0..(Len(s) - 1) /\ s[p + 1] # "continuation"
  BY DEF Edge
<1> QED
  BY <1>1, NextEdge, OneMore

(* The count of the characters before an edge leads back to the edge.       *)
LEMMA BackToEdge ==
  ASSUME NEW s \in Seq(Bytes), WholeCharacters(s), NEW p, Edge(s, p)
  PROVE  getBytePosFromUTF(s, getLength(s, p)) = p
<1> DEFINE u == getLength(s, p)
           starts == CharStarts(s)
           IsLast(i) == Cardinality({k \in starts : k <= i}) = u
           last == CHOOSE i \in starts : IsLast(i)
<1>0. p \in 0..Len(s) /\ Len(s) \in Nat /\ starts = Leads(s)
  BY StartsAreLeads DEF Edge
<1>1. getBytePosFromUTF(s, u) =
        IF u = 0 THEN 0
        ELSE IF u > Cardinality(starts) THEN Cardinality(starts)
        ELSE last + getCharByteSize(s[last + 1])
  BY Zenon DEF getBytePosFromUTF
<1>2. CASE p = 0
  <2>1. u = 0
    BY <1>0, <1>2, LengthCounts
  <2> QED
    BY <1>1, <1>2, <2>1
<1>3. CASE p > 0
  <2>1. PICK j \in 0..(p - 1) :
          /\ Edge(s, j) /\ CharEnd(s, j) = p
          /\ \A k \in (j + 1)..(p - 1) : s[k + 1] = "continuation"
    BY <1>3, PreviousEdge
  <2>2. j \in Leads(s) /\ j < Len(s) /\ u = getLength(s, j) + 1
    <3>1. j < Len(s)
      BY <1>0, <2>1
    <3>2. j \in Leads(s)
      BY <1>0, <2>1, <3>1 DEF Leads, Edge
    <3> QED
      BY <2>1, <3>1, <3>2, CharEndCounts
  <2>3. {k \in starts : k <= j} = LeadsTo(s, p)
    <3>1. ASSUME NEW k \in Leads(s) PROVE k <= j <=> k < p
      <4>1. k \in 0..(Len(s) - 1) /\ s[k + 1] # "continuation"
        BY DEF Leads
      <4>2. k \notin (j + 1)..(p - 1)
        BY <2>1, <4>1
      <4> QED
        BY <1>0, <2>1, <4>1, <4>2
    <3> QED
      BY <1>0, <3>1 DEF LeadsTo
  <2>4. IsLast(j)
    BY <1>0, <2>3, LengthCounts
  <2>5. u # 0 /\ ~(u > Cardinality(starts))
    <3>1. getLength(s, j) \in Nat
      BY <1>0, <2>1, LengthCounts
    <3>2. Cardinality(LeadsTo(s, p)) <= Cardinality(Leads(s))
      <4>1. LeadsTo(s, p) \subseteq Leads(s)
        BY DEF LeadsTo
      <4> QED
        BY <1>0, <4>1, LeadsFinite, FS_Subset
    <3>3. Cardinality(LeadsTo(s, p)) \in Nat /\ Cardinality(Leads(s)) \in Nat
      BY <1>0, LeadsFinite
    <3> QED
      BY <1>0, <2>2, <3>1, <3>2, <3>3, LengthCounts
  <2>6. last \in starts /\ IsLast(last)
    <3> HIDE DEF IsLast, starts
    <3>1. \E i \in starts : IsLast(i)
      BY <1>0, <2>2, <2>4
    <3> QED
      BY <3>1
  <2>7. ASSUME NEW i \in Leads(s), NEW k \in Leads(s), i < k, IsLast(i), IsLast(k)
        PROVE  FALSE
    <3> DEFINE A == {m \in starts : m <= i}
               B == {m \in starts : m <= k}
    <3>1. A \subseteq B /\ k \in B /\ k \notin A
      BY <1>0, <2>7 DEF Leads
    <3>2. IsFiniteSet(B)
      <4>1. B \subseteq Leads(s)
        BY <1>0
      <4> QED
        BY <1>0, <4>1, LeadsFinite, FS_Subset
    <3>3. Cardinality(A) = Cardinality(B)
      BY <2>7
    <3> HIDE DEF A, B
    <3>4. A = B
      BY <3>1, <3>2, <3>3, FS_Subset
    <3> QED
      BY <3>1, <3>4
  <2> HIDE DEF IsLast, last
  <2>8. last = j
    <3>1. last \in 0..(Len(s) - 1) /\ j \in 0..(Len(s) - 1) /\ last \in Leads(s)
      BY <1>0, <2>2, <2>6 DEF Leads
    <3>2. ~(last < j) /\ ~(j < last)
      BY <2>2, <2>4, <2>6, <2>7, <3>1
    <3> QED
      BY <1>0, <3>1, <3>2
  <2>9. getBytePosFromUTF(s, u) = j + getCharByteSize(s[j + 1])
    BY <1>1, <2>5, <2>8
  <2> QED
    BY <2>1, <2>9 DEF CharEnd
<1> QED
  BY <1>0, <1>2, <1>3

LEMMA ShiftedCardinality ==
  ASSUME NEW S \in SUBSET Nat, IsFiniteSet(S), NEW n \in Nat
  PROVE  LET T == {n + i : i \in S} IN IsFiniteSet(T) /\ Cardinality(T) = Cardinality(S)
<1> DEFINE T == {n + i : i \in S}
           F == [i \in S |-> n + i]
<1>1. F \in [S -> T]
  OBVIOUS
<1>2. \A a, b \in S : F[a] = F[b] => a = b
  OBVIOUS
<1>3. \A t \in T : \E s \in S : F[s] = t
  OBVIOUS
<1> HIDE DEF F, T
<1>4. F \in Bijection(S, T)
  BY <1>1, <1>2, <1>3, Fun_IsBij, Zenon
<1>5. ExistsBijection(S, T)
  BY <1>4, Fun_ExistsBij, Zenon
<1> QED
  BY <1>5, FS_Bijection, Zenon DEF T

-----------------------------------------------------------------------------
(* A place: an edge in both units of the code.                              *)
Place(s, p, u) == Edge(s, p) /\ u = getLength(s, p)

LEMMA PlaceFacts ==
  ASSUME NEW s \in Seq(Bytes), WholeCharacters(s), NEW p, NEW u, Place(s, p, u)
  PROVE  /\ p \in 0..Len(s) /\ u \in 0..p
         /\ p = getBytePosFromUTF(s, u) /\ u = getLength(s, p)
<1>1. p \in 0..Len(s)
  BY DEF Place, Edge
<1> QED
  BY <1>1, BackToEdge, LengthCounts DEF Place

LEMMA EndPlaces ==
  ASSUME NEW s \in Seq(Bytes), WholeCharacters(s)
  PROVE  Place(s, 0, 0) /\ Place(s, Len(s), getLength(s, Len(s)))
<1>1. 0 \in 0..Len(s)
  OBVIOUS
<1>2. getLength(s, 0) = 0
  BY <1>1, LengthCounts
<1> QED
  BY <1>2, FirstEdge DEF Place

(* Every count of characters up to the whole is the count at some edge.     *)
LEMMA EdgeOfCount ==
  ASSUME NEW s \in Seq(Bytes), WholeCharacters(s), NEW u \in 0..getLength(s, Len(s))
  PROVE  Place(s, getBytePosFromUTF(s, u), u)
<1> DEFINE S == {p \in 0..Len(s) : getLength(s, p) <= u}
           p == Max(S)
<1>0. Len(s) \in Nat /\ 0 \in 0..Len(s) /\ Len(s) \in 0..Len(s)
  OBVIOUS
<1>1. getLength(s, 0) = 0 /\ getLength(s, Len(s)) \in Nat /\ u \in Nat
  BY <1>0, LengthCounts
<1>2. S \in SUBSET (0..Len(s)) /\ 0 \in S
  BY <1>0, <1>1
<1> HIDE DEF S
<1>3. p \in S /\ \A k \in S : p >= k
  BY <1>0, <1>2, MaxIsGreatest
<1>4. p \in 0..Len(s) /\ getLength(s, p) <= u /\ getLength(s, p) \in Nat
  BY <1>3, LengthCounts DEF S
<1> HIDE DEF p
<1>5. CASE p = Len(s)
  BY <1>1, <1>4, <1>5, FirstEdge, BackToEdge DEF Place
<1>6. CASE p < Len(s)
  <2>1. p + 1 \in 0..Len(s) /\ p + 1 \notin S
    BY <1>0, <1>3, <1>4, <1>6
  <2>2. getLength(s, p + 1) > u
    <3>1. getLength(s, p + 1) \in Nat
      BY <2>1, LengthCounts
    <3> QED
      BY <1>1, <2>1, <3>1 DEF S
  <2>3. s[p + 1] # "continuation"
    <3> SUFFICES ASSUME s[p + 1] = "continuation" PROVE FALSE
      OBVIOUS
    <3>1. LeadsTo(s, p + 1) = LeadsTo(s, p)
      <4>1. ASSUME NEW i \in Leads(s) PROVE i < p + 1 <=> i < p
        <5>1. i \in 0..(Len(s) - 1) /\ i # p
          BY DEF Leads
        <5> QED
          BY <1>4, <5>1
      <4> QED
        BY <4>1 DEF LeadsTo
    <3>2. getLength(s, p + 1) = getLength(s, p)
      BY <1>4, <2>1, <3>1, LengthCounts
    <3> QED
      BY <1>1, <1>4, <2>2, <3>2
  <2>4. getLength(s, p + 1) = getLength(s, p) + 1
    <3>1. p \in 0..(Len(s) - 1) /\ p + 1 \in (p + 1)..Len(s)
      BY <1>0, <1>4, <1>6
    <3>2. \A k \in (p + 1)..((p + 1) - 1) : s[k + 1] = "continuation"
      BY <3>1
    <3> QED
      BY <2>3, <3>1, <3>2, OneMore
  <2>5. getLength(s, p) = u /\ Edge(s, p)
    BY <1>1, <1>4, <2>2, <2>3, <2>4 DEF Edge
  <2> QED
    BY <2>5, BackToEdge DEF Place
<1> QED
  BY <1>0, <1>4, <1>5, <1>6

(* Where setCursorPosition goes.                                            *)
LEMMA CursorTargetPlace ==
  ASSUME NEW s \in Seq(Bytes), WholeCharacters(s), NEW pos \in -1..getLength(s, Len(s))
  PROVE  Place(s, CursorTarget(s, pos).byte, CursorTarget(s, pos).utf)
<1>1. getLength(s, Len(s)) \in Nat
  BY LengthCounts
<1>2. CASE pos < 0
  BY <1>2, EndPlaces DEF CursorTarget
<1>3. CASE ~(pos < 0)
  <2>1. pos \in 0..getLength(s, Len(s))
    BY <1>1, <1>3
  <2> QED
    BY <1>3, <2>1, EdgeOfCount DEF CursorTarget
<1> QED
  BY <1>2, <1>3

-----------------------------------------------------------------------------
(* Cutting a text at an edge and putting two texts together.                *)
LEMMA WholeIf ==
  ASSUME NEW s \in Seq(Bytes), Len(s) > 0 => s[1] # "continuation",
         \A i \in 1..Len(s) : s[i] # "continuation" =>
           /\ i + getCharByteSize(s[i]) <= Len(s) + 1
           /\ \A j \in (i + 1)..((i + getCharByteSize(s[i])) - 1) : s[j] = "continuation"
           /\ i + getCharByteSize(s[i]) <= Len(s) =>
                s[i + getCharByteSize(s[i])] # "continuation"
  PROVE  WholeCharacters(s)
<1>1. ASSUME NEW i \in 1..Len(s), i = 1 PROVE s[i] # "continuation"
  BY <1>1
<1> QED
  BY <1>1 DEF WholeCharacters

LEMMA EmptyWhole == WholeCharacters(<<>>)
<1>1. 1..Len(<<>>) = {}
  BY EmptySeq
<1> QED
  BY <1>1, Zenon DEF WholeCharacters

LEMMA Pieces ==
  ASSUME NEW s \in Seq(Bytes), NEW p \in 0..Len(s)
  PROVE  /\ SubSeq(s, 1, p) \in Seq(Bytes) /\ Len(SubSeq(s, 1, p)) = p
         /\ \A i \in 1..p : SubSeq(s, 1, p)[i] = s[i]
         /\ SubSeq(s, p + 1, Len(s)) \in Seq(Bytes)
         /\ Len(SubSeq(s, p + 1, Len(s))) = Len(s) - p
         /\ \A i \in 1..(Len(s) - p) : SubSeq(s, p + 1, Len(s))[i] = s[p + i]
<1>0. Len(s) \in Nat /\ \A i \in 1..Len(s) : s[i] \in Bytes
  BY ElementOfSeq
<1>1. /\ SubSeq(s, 1, p) \in Seq(Bytes) /\ Len(SubSeq(s, 1, p)) = p
      /\ \A i \in 1..p : SubSeq(s, 1, p)[i] = s[i]
  <2>1. \A i \in 1..p : s[i] \in Bytes
    BY <1>0
  <2>2. /\ SubSeq(s, 1, p) \in Seq(Bytes)
        /\ Len(SubSeq(s, 1, p)) = IF 1 <= p THEN p - 1 + 1 ELSE 0
        /\ \A i \in 1..(p - 1 + 1) : SubSeq(s, 1, p)[i] = s[1 + i - 1]
    BY <2>1, SubSeqProperties
  <2> QED
    BY <2>2
<1>2. /\ SubSeq(s, p + 1, Len(s)) \in Seq(Bytes)
      /\ Len(SubSeq(s, p + 1, Len(s))) = Len(s) - p
      /\ \A i \in 1..(Len(s) - p) : SubSeq(s, p + 1, Len(s))[i] = s[p + i]
  <2> DEFINE m == p + 1
             n == Len(s)
  <2>1. m \in Int /\ n \in Int /\ \A i \in m..n : s[i] \in Bytes
    BY <1>0
  <2> HIDE DEF m, n
  <2>2. /\ SubSeq(s, m, n) \in Seq(Bytes)
        /\ Len(SubSeq(s, m, n)) = IF m <= n THEN n - m + 1 ELSE 0
        /\ \A i \in 1..(n - m + 1) : SubSeq(s, m, n)[i] = s[m + i - 1]
    BY <2>1, SubSeqProperties
  <2> QED
    BY <1>0, <2>2 DEF m, n
<1> QED
  BY <1>1, <1>2

LEMMA WholePrefix ==
  ASSUME NEW s \in Seq(Bytes), WholeCharacters(s), NEW p, Edge(s, p)
  PROVE  WholeCharacters(SubSeq(s, 1, p))
<1> DEFINE a == SubSeq(s, 1, p)
<1>0. p \in 0..Len(s) /\ Len(s) \in Nat
  BY DEF Edge
<1>1. a \in Seq(Bytes) /\ Len(a) = p /\ \A i \in 1..p : a[i] = s[i]
  BY <1>0, Pieces
<1> HIDE DEF a
<1>2. Len(a) > 0 => a[1] # "continuation"
  BY <1>0, <1>1, FirstEdge DEF Edge
<1>3. ASSUME NEW i \in 1..Len(a), a[i] # "continuation"
      PROVE  /\ i + getCharByteSize(a[i]) <= Len(a) + 1
             /\ \A j \in (i + 1)..((i + getCharByteSize(a[i])) - 1) : a[j] = "continuation"
             /\ i + getCharByteSize(a[i]) <= Len(a) =>
                  a[i + getCharByteSize(a[i])] # "continuation"
  <2> DEFINE n == i + getCharByteSize(a[i])
  <2>1. i \in 1..Len(s) /\ i <= p /\ a[i] = s[i] /\ n \in (i + 1)..(i + 4)
    BY <1>0, <1>1, SizeOfCharacter
  <2>2. /\ n <= Len(s) + 1
        /\ \A j \in (i + 1)..(n - 1) : s[j] = "continuation"
        /\ n <= Len(s) => s[n] # "continuation"
    BY <1>3, <2>1, WholeAt
  <2> HIDE DEF n
  <2>3. n <= p + 1
    <3> SUFFICES ASSUME n > p + 1 PROVE FALSE
      BY <1>0, <2>1
    <3>1. p + 1 \in (i + 1)..(n - 1) /\ p < Len(s)
      BY <1>0, <2>1, <2>2
    <3> QED
      BY <2>2, <3>1 DEF Edge
  <2>4. \A j \in (i + 1)..(n - 1) : a[j] = "continuation"
    BY <1>0, <1>1, <2>1, <2>2, <2>3
  <2>5. n <= p => a[n] # "continuation"
    BY <1>0, <1>1, <2>1, <2>2
  <2>6. /\ n <= Len(a) + 1
        /\ \A j \in (i + 1)..(n - 1) : a[j] = "continuation"
        /\ n <= Len(a) => a[n] # "continuation"
    BY <1>1, <2>3, <2>4, <2>5
  <2> QED
    BY <2>6, Zenon DEF n
<1> QED
  BY <1>1, <1>2, <1>3, WholeIf DEF a

LEMMA WholeSuffix ==
  ASSUME NEW s \in Seq(Bytes), WholeCharacters(s), NEW p, Edge(s, p)
  PROVE  WholeCharacters(SubSeq(s, p + 1, Len(s)))
<1> DEFINE b == SubSeq(s, p + 1, Len(s))
<1>0. p \in 0..Len(s) /\ Len(s) \in Nat
  BY DEF Edge
<1>1. b \in Seq(Bytes) /\ Len(b) = Len(s) - p /\ \A i \in 1..(Len(s) - p) : b[i] = s[p + i]
  BY <1>0, Pieces
<1> HIDE DEF b
<1>2. Len(b) > 0 => b[1] # "continuation"
  BY <1>0, <1>1 DEF Edge
<1>3. ASSUME NEW i \in 1..Len(b), b[i] # "continuation"
      PROVE  /\ i + getCharByteSize(b[i]) <= Len(b) + 1
             /\ \A j \in (i + 1)..((i + getCharByteSize(b[i])) - 1) : b[j] = "continuation"
             /\ i + getCharByteSize(b[i]) <= Len(b) =>
                  b[i + getCharByteSize(b[i])] # "continuation"
  <2> DEFINE size == getCharByteSize(b[i])
  <2>1. p + i \in 1..Len(s) /\ b[i] = s[p + i] /\ size \in 1..4
    BY <1>0, <1>1, SizeOfCharacter
  <2>2. /\ p + i + size <= Len(s) + 1
        /\ \A j \in (p + i + 1)..(p + i + size - 1) : s[j] = "continuation"
        /\ p + i + size <= Len(s) => s[p + i + size] # "continuation"
    BY <1>3, <2>1, WholeAt
  <2> HIDE DEF size
  <2>3. i + size <= Len(b) + 1
    BY <1>0, <1>1, <2>1, <2>2
  <2>4. ASSUME NEW j \in (i + 1)..((i + size) - 1) PROVE b[j] = "continuation"
    <3>1. j \in 1..(Len(s) - p) /\ p + j \in (p + i + 1)..(p + i + size - 1)
      BY <1>0, <1>1, <2>1, <2>3
    <3> QED
      BY <1>1, <2>2, <3>1
  <2>5. i + size <= Len(b) => b[i + size] # "continuation"
    <3> SUFFICES ASSUME i + size <= Len(b) PROVE b[i + size] # "continuation"
      OBVIOUS
    <3>1. i + size \in 1..(Len(s) - p) /\ p + (i + size) = p + i + size /\ p + i + size <= Len(s)
      BY <1>0, <1>1, <2>1
    <3> QED
      BY <1>1, <2>2, <3>1
  <2> QED
    BY <2>3, <2>4, <2>5 DEF size
<1> QED
  BY <1>1, <1>2, <1>3, WholeIf DEF b

LEMMA WholeConcat ==
  ASSUME NEW a \in Seq(Bytes), WholeCharacters(a), NEW b \in Seq(Bytes), WholeCharacters(b)
  PROVE  /\ a \o b \in Seq(Bytes) /\ Len(a \o b) = Len(a) + Len(b)
         /\ WholeCharacters(a \o b) /\ Edge(a \o b, Len(a))
<1> DEFINE c == a \o b
<1>0. Len(a) \in Nat /\ Len(b) \in Nat
  OBVIOUS
<1>1. /\ c \in Seq(Bytes) /\ Len(c) = Len(a) + Len(b)
      /\ \A i \in 1..Len(a) : c[i] = a[i]
      /\ \A i \in 1..Len(b) : c[Len(a) + i] = b[i]
  <2>1. /\ c \in Seq(Bytes) /\ Len(c) = Len(a) + Len(b)
        /\ \A i \in 1..Len(a) + Len(b) :
             c[i] = IF i <= Len(a) THEN a[i] ELSE b[i - Len(a)]
    BY ConcatProperties
  <2> HIDE DEF c
  <2>2. ASSUME NEW i \in 1..Len(a) PROVE c[i] = a[i]
    BY <1>0, <2>1
  <2>3. ASSUME NEW i \in 1..Len(b) PROVE c[Len(a) + i] = b[i]
    <3>1. Len(a) + i \in 1..Len(a) + Len(b) /\ ~(Len(a) + i <= Len(a))
          /\ Len(a) + i - Len(a) = i
      BY <1>0
    <3> QED
      BY <2>1, <3>1
  <2> QED
    BY <2>1, <2>2, <2>3
<1> HIDE DEF c
<1>2. (Len(a) > 0 => a[1] # "continuation") /\ (Len(b) > 0 => b[1] # "continuation")
  BY <1>0, FirstEdge DEF Edge
<1>3. Edge(c, Len(a))
  BY <1>0, <1>1, <1>2 DEF Edge
<1>4. Len(c) > 0 => c[1] # "continuation"
  <2>1. CASE Len(a) = 0
    BY <1>0, <1>1, <1>3, <2>1 DEF Edge
  <2>2. CASE Len(a) > 0
    BY <1>0, <1>1, <1>2, <2>2
  <2> QED
    BY <1>0, <2>1, <2>2
<1>5. ASSUME NEW i \in 1..Len(c), c[i] # "continuation"
      PROVE  /\ i + getCharByteSize(c[i]) <= Len(c) + 1
             /\ \A j \in (i + 1)..((i + getCharByteSize(c[i])) - 1) : c[j] = "continuation"
             /\ i + getCharByteSize(c[i]) <= Len(c) =>
                  c[i + getCharByteSize(c[i])] # "continuation"
  <2> DEFINE size == getCharByteSize(c[i])
  <2>0. size \in 1..4
    BY SizeOfCharacter
  <2>1. CASE i <= Len(a)
    <3>1. i \in 1..Len(a) /\ c[i] = a[i]
      BY <1>0, <1>1, <2>1
    <3>2. /\ i + size <= Len(a) + 1
          /\ \A j \in (i + 1)..((i + size) - 1) : a[j] = "continuation"
          /\ i + size <= Len(a) => a[i + size] # "continuation"
      <4>1. size = getCharByteSize(a[i]) /\ a[i] # "continuation"
        BY <1>5, <3>1
      <4> HIDE DEF size
      <4>2. LET n == i + getCharByteSize(a[i])
            IN  /\ n <= Len(a) + 1
                /\ \A j \in (i + 1)..(n - 1) : a[j] = "continuation"
                /\ n <= Len(a) => a[n] # "continuation"
        BY <3>1, <4>1, WholeAt
      <4> QED
        BY <4>1, <4>2
    <3> HIDE DEF size
    <3>3. i + size <= Len(c) + 1
      BY <1>0, <1>1, <2>0, <3>2
    <3>4. ASSUME NEW j \in (i + 1)..((i + size) - 1) PROVE c[j] = "continuation"
      <4>1. j \in 1..Len(a)
        BY <1>0, <2>0, <3>1, <3>2
      <4> QED
        BY <1>1, <3>2, <4>1
    <3>5. i + size <= Len(c) => c[i + size] # "continuation"
      <4>1. CASE i + size <= Len(a)
        BY <1>0, <1>1, <2>0, <3>1, <3>2, <4>1
      <4>2. CASE i + size = Len(a) + 1
        BY <1>0, <1>1, <1>3, <4>2 DEF Edge
      <4> QED
        BY <1>0, <2>0, <3>1, <3>2, <4>1, <4>2
    <3> QED
      BY <3>3, <3>4, <3>5 DEF size
  <2>2. CASE i > Len(a)
    <3> DEFINE k == i - Len(a)
    <3>1. k \in 1..Len(b) /\ i = Len(a) + k /\ c[i] = b[k]
      <4>1. k \in 1..Len(b) /\ i = Len(a) + k
        BY <1>0, <1>1, <2>2
      <4> QED
        BY <1>1, <4>1
    <3> HIDE DEF k
    <3>2. /\ k + size <= Len(b) + 1
          /\ \A j \in (k + 1)..((k + size) - 1) : b[j] = "continuation"
          /\ k + size <= Len(b) => b[k + size] # "continuation"
      <4>1. size = getCharByteSize(b[k]) /\ b[k] # "continuation"
        BY <1>5, <3>1
      <4> HIDE DEF size
      <4>2. LET n == k + getCharByteSize(b[k])
            IN  /\ n <= Len(b) + 1
                /\ \A j \in (k + 1)..(n - 1) : b[j] = "continuation"
                /\ n <= Len(b) => b[n] # "continuation"
        BY <3>1, <4>1, WholeAt
      <4> QED
        BY <4>1, <4>2
    <3> HIDE DEF size
    <3>3. i + size <= Len(c) + 1
      BY <1>0, <1>1, <2>0, <3>1, <3>2
    <3>4. ASSUME NEW j \in (i + 1)..((i + size) - 1) PROVE c[j] = "continuation"
      <4> DEFINE m == j - Len(a)
      <4>1. m \in (k + 1)..((k + size) - 1) /\ m \in 1..Len(b) /\ j = Len(a) + m
        BY <1>0, <2>0, <3>1, <3>2
      <4> HIDE DEF m
      <4> QED
        BY <1>1, <3>2, <4>1
    <3>5. i + size <= Len(c) => c[i + size] # "continuation"
      <4> SUFFICES ASSUME i + size <= Len(c) PROVE c[i + size] # "continuation"
        OBVIOUS
      <4>1. k + size \in 1..Len(b) /\ i + size = Len(a) + (k + size)
        BY <1>0, <1>1, <2>0, <3>1
      <4> QED
        BY <1>1, <3>2, <4>1
    <3> QED
      BY <3>3, <3>4, <3>5 DEF size
  <2> QED
    BY <1>0, <2>1, <2>2
<1>6. WholeCharacters(c)
  BY <1>1, <1>4, <1>5, WholeIf
<1> QED
  BY <1>1, <1>3, <1>6 DEF c

(* The characters before a place depend on the bytes before it.             *)
LEMMA SameBefore ==
  ASSUME NEW s \in Seq(Bytes), WholeCharacters(s), NEW t \in Seq(Bytes), WholeCharacters(t),
         NEW q \in 0..Len(s), q <= Len(t), \A i \in 1..q : s[i] = t[i]
  PROVE  getLength(s, q) = getLength(t, q)
<1>0. Len(s) \in Nat /\ Len(t) \in Nat /\ q \in 0..Len(t)
  OBVIOUS
<1>1. ASSUME NEW i \in 0..(q - 1) PROVE s[i + 1] = t[i + 1]
  <2>1. i + 1 \in 1..q
    BY <1>0
  <2> QED
    BY <2>1
<1>2. LeadsTo(s, q) = LeadsTo(t, q)
  BY <1>0, <1>1 DEF LeadsTo, Leads
<1> QED
  BY <1>0, <1>2, LengthCounts

LEMMA LengthOfConcat ==
  ASSUME NEW a \in Seq(Bytes), WholeCharacters(a), NEW b \in Seq(Bytes), WholeCharacters(b)
  PROVE  getLength(a \o b, Len(a \o b)) = getLength(a, Len(a)) + getLength(b, Len(b))
<1> DEFINE c == a \o b
           A == Leads(a)
           B == {Len(a) + i : i \in Leads(b)}
<1>0. Len(a) \in Nat /\ Len(b) \in Nat /\ Len(a) \in 0..Len(a) /\ Len(b) \in 0..Len(b)
  OBVIOUS
<1>1. c \in Seq(Bytes) /\ WholeCharacters(c) /\ Len(c) = Len(a) + Len(b)
  BY WholeConcat
<1>2. Leads(c) = A \cup B /\ A \cap B = {}
  <2>1. \A i \in 1..Len(a) + Len(b) :
           c[i] = IF i <= Len(a) THEN a[i] ELSE b[i - Len(a)]
    BY ConcatProperties
  <2> HIDE DEF c
  <2>2. ASSUME NEW i \in Leads(c) PROVE i \in A \cup B
    <3>1. i \in 0..((Len(a) + Len(b)) - 1) /\ c[i + 1] # "continuation"
      BY <1>1 DEF Leads
    <3>2. CASE i < Len(a)
      <4>1. i + 1 \in 1..Len(a) + Len(b) /\ i + 1 <= Len(a)
        BY <1>0, <3>1, <3>2
      <4>2. c[i + 1] = a[i + 1]
        BY <2>1, <4>1
      <4> QED
        BY <1>0, <3>1, <3>2, <4>2 DEF Leads
    <3>3. CASE i >= Len(a)
      <4> DEFINE k == i - Len(a)
      <4>1. k \in 0..(Len(b) - 1) /\ i = Len(a) + k /\ (i + 1) - Len(a) = k + 1
            /\ i + 1 \in 1..Len(a) + Len(b) /\ ~(i + 1 <= Len(a))
        BY <1>0, <3>1, <3>3
      <4> HIDE DEF k
      <4>2. c[i + 1] = b[k + 1]
        BY <2>1, <4>1
      <4>3. k \in Leads(b)
        BY <3>1, <4>1, <4>2 DEF Leads
      <4> QED
        BY <4>1, <4>3
    <3> QED
      BY <1>0, <3>1, <3>2, <3>3
  <2>3. ASSUME NEW i \in A PROVE i \in Leads(c)
    <3>1. i \in 0..(Len(a) - 1) /\ a[i + 1] # "continuation"
      BY DEF Leads
    <3>2. i + 1 \in 1..Len(a) + Len(b) /\ i + 1 <= Len(a) /\ i \in 0..(Len(c) - 1)
      BY <1>0, <1>1, <3>1
    <3>3. c[i + 1] = a[i + 1]
      BY <2>1, <3>2
    <3> QED
      BY <3>1, <3>2, <3>3 DEF Leads
  <2>4. ASSUME NEW k \in Leads(b) PROVE Len(a) + k \in Leads(c)
    <3>1. k \in 0..(Len(b) - 1) /\ b[k + 1] # "continuation"
      BY DEF Leads
    <3> DEFINE i == Len(a) + k
    <3>2. i + 1 \in 1..Len(a) + Len(b) /\ ~(i + 1 <= Len(a)) /\ i \in 0..(Len(c) - 1)
          /\ (i + 1) - Len(a) = k + 1
      BY <1>0, <1>1, <3>1
    <3> HIDE DEF i
    <3>3. c[i + 1] = b[k + 1]
      BY <2>1, <3>2
    <3>4. i \in Leads(c)
      BY <3>1, <3>2, <3>3 DEF Leads
    <3> QED
      BY <3>4 DEF i
  <2>5. A \cap B = {}
    <3> SUFFICES ASSUME NEW i \in Leads(a), NEW k \in Leads(b), i = Len(a) + k PROVE FALSE
      OBVIOUS
    <3>1. i \in 0..(Len(a) - 1) /\ k \in 0..(Len(b) - 1)
      BY DEF Leads
    <3> QED
      BY <1>0, <3>1
  <2> QED
    BY <2>2, <2>3, <2>4, <2>5
<1>3. IsFiniteSet(A) /\ IsFiniteSet(Leads(b)) /\ Leads(b) \subseteq Nat
  <2>1. Leads(b) \subseteq Nat
    BY DEF Leads
  <2> QED
    BY <1>0, <2>1, LeadsFinite
<1>4. IsFiniteSet(B) /\ Cardinality(B) = Cardinality(Leads(b))
  BY <1>0, <1>3, ShiftedCardinality
<1> HIDE DEF c, A, B
<1>5. Cardinality(Leads(c)) = Cardinality(A) + Cardinality(B)
  <2>1. /\ Cardinality(A) \in Nat /\ Cardinality(B) \in Nat
        /\ Cardinality({}) = 0
        /\ Cardinality(A \cup B) = Cardinality(A) + Cardinality(B) - Cardinality(A \cap B)
    BY <1>3, <1>4, FS_CardinalityType, FS_EmptySet, FS_Union
  <2>2. Cardinality(A \cap B) = 0 /\ Cardinality(Leads(c)) = Cardinality(A \cup B)
    BY <1>2, <2>1, Zenon
  <2> QED
    BY <2>1, <2>2
<1>6. /\ getLength(c, Len(c)) = Cardinality(Leads(c))
      /\ getLength(a, Len(a)) = Cardinality(A)
      /\ getLength(b, Len(b)) = Cardinality(Leads(b))
  <2>1. Len(c) \in 0..Len(c)
    BY <1>0, <1>1
  <2> QED
    BY <1>0, <1>1, <2>1, LengthCounts, LeadsFinite DEF A
<1>7. getLength(c, Len(c)) = getLength(a, Len(a)) + getLength(b, Len(b))
  BY <1>4, <1>5, <1>6
<1> QED
  BY <1>7 DEF c

-----------------------------------------------------------------------------
(* The two ways the user changes a text.                                    *)
LEMMA Erasing ==
  ASSUME NEW s \in Seq(Bytes), WholeCharacters(s),
         NEW first, Edge(s, first), NEW last, Edge(s, last), first <= last
  PROVE  LET t == SubSeq(s, 1, first) \o SubSeq(s, last + 1, Len(s))
         IN  /\ t \in Seq(Bytes) /\ WholeCharacters(t) /\ Len(t) = Len(s) - (last - first)
             /\ Place(t, first, getLength(s, first))
<1> DEFINE a == SubSeq(s, 1, first)
           b == SubSeq(s, last + 1, Len(s))
           t == a \o b
<1>0. first \in 0..Len(s) /\ last \in 0..Len(s) /\ Len(s) \in Nat
  BY DEF Edge
<1>1. /\ a \in Seq(Bytes) /\ Len(a) = first /\ \A i \in 1..first : a[i] = s[i]
      /\ b \in Seq(Bytes) /\ Len(b) = Len(s) - last
  BY <1>0, Pieces
<1>2. WholeCharacters(a) /\ WholeCharacters(b)
  BY WholePrefix, WholeSuffix
<1> HIDE DEF a, b
<1>3. /\ t \in Seq(Bytes) /\ Len(t) = Len(a) + Len(b)
      /\ WholeCharacters(t) /\ Edge(t, Len(a))
  BY <1>1, <1>2, WholeConcat
<1>4. ASSUME NEW i \in 1..first PROVE t[i] = s[i]
  <2>1. \A k \in 1..Len(a) + Len(b) : t[k] = IF k <= Len(a) THEN a[k] ELSE b[k - Len(a)]
    BY <1>1, ConcatProperties
  <2>2. i \in 1..Len(a) + Len(b) /\ i <= Len(a)
    BY <1>0, <1>1
  <2> HIDE DEF t
  <2> QED
    BY <1>1, <2>1, <2>2
<1> HIDE DEF t
<1>5. getLength(s, first) = getLength(t, first)
  <2>1. first <= Len(t)
    BY <1>0, <1>1, <1>3
  <2> QED
    BY <1>0, <1>3, <1>4, <2>1, SameBefore
<1>6. Len(t) = Len(s) - (last - first)
  BY <1>0, <1>1, <1>3
<1>7. Place(t, first, getLength(s, first))
  BY <1>1, <1>3, <1>5 DEF Place
<1> QED
  BY <1>3, <1>6, <1>7 DEF t, a, b

LEMMA Inserting ==
  ASSUME NEW s \in Seq(Bytes), WholeCharacters(s), NEW p, Edge(s, p),
         NEW x \in Seq(Bytes), WholeCharacters(x)
  PROVE  LET t == SubSeq(s, 1, p) \o x \o SubSeq(s, p + 1, Len(s))
         IN  /\ t \in Seq(Bytes) /\ WholeCharacters(t) /\ Len(t) = Len(s) + Len(x)
             /\ Place(t, p + Len(x), getLength(s, p) + getLength(x, Len(x)))
<1> DEFINE a == SubSeq(s, 1, p)
           b == SubSeq(s, p + 1, Len(s))
           c == a \o x
           t == c \o b
<1>0. p \in 0..Len(s) /\ Len(s) \in Nat /\ Len(x) \in Nat
  BY DEF Edge
<1>1. /\ a \in Seq(Bytes) /\ Len(a) = p /\ \A i \in 1..p : a[i] = s[i]
      /\ b \in Seq(Bytes) /\ Len(b) = Len(s) - p
  BY <1>0, Pieces
<1>2. WholeCharacters(a) /\ WholeCharacters(b)
  BY WholePrefix, WholeSuffix
<1> HIDE DEF a, b
<1>3. /\ c \in Seq(Bytes) /\ Len(c) = p + Len(x) /\ WholeCharacters(c)
      /\ getLength(c, Len(c)) = getLength(a, Len(a)) + getLength(x, Len(x))
  BY <1>1, <1>2, WholeConcat, LengthOfConcat
<1>4. getLength(a, Len(a)) = getLength(s, p)
  BY <1>0, <1>1, <1>2, SameBefore
<1> HIDE DEF c
<1>5. /\ t \in Seq(Bytes) /\ Len(t) = Len(c) + Len(b)
      /\ WholeCharacters(t) /\ Edge(t, Len(c))
  BY <1>1, <1>2, <1>3, WholeConcat
<1>6. getLength(t, Len(c)) = getLength(c, Len(c))
  <2>1. \A k \in 1..Len(c) + Len(b) : t[k] = IF k <= Len(c) THEN c[k] ELSE b[k - Len(c)]
    <3>1. c \in Seq(Bytes) /\ b \in Seq(Bytes)
      BY <1>1, <1>3
    <3> QED
      BY <3>1, ConcatProperties, Zenon
  <2> HIDE DEF t
  <2>2. Len(c) \in 0..Len(c) /\ Len(c) <= Len(t)
    BY <1>0, <1>1, <1>3, <1>5
  <2>3. ASSUME NEW i \in 1..Len(c) PROVE c[i] = t[i]
    <3>1. i \in 1..Len(c) + Len(b) /\ i <= Len(c)
      BY <1>0, <1>1, <1>3
    <3> QED
      BY <2>1, <3>1
  <2> QED
    BY <1>3, <1>5, <2>2, <2>3, SameBefore
<1> HIDE DEF t
<1>7. Len(t) = Len(s) + Len(x)
  BY <1>0, <1>1, <1>3, <1>5
<1>8. Place(t, p + Len(x), getLength(s, p) + getLength(x, Len(x)))
  BY <1>3, <1>4, <1>5, <1>6 DEF Place
<1> QED
  BY <1>5, <1>7, <1>8 DEF t, c, a, b

-----------------------------------------------------------------------------
TextIs == currentText \in Seq(Bytes) /\ WholeCharacters(currentText) /\ Size <= SizeMax

Placed(p) == Place(currentText, p.byte, p.utf)

(* Where the code's searches for a character or a word end.                 *)
LEMMA AtPlaced ==
  ASSUME NEW p, Edge(currentText, p)
  PROVE  Placed(At(p))
BY DEF Placed, Place, At

LEMMA CharStartPlaced ==
  ASSUME TextIs, NEW d \in 0..(Size - 1)
  PROVE  /\ CharStart(d) \in 0..d /\ Edge(currentText, CharStart(d))
         /\ Edge(currentText, d + 1) =>
              getLength(currentText, d + 1) = getLength(currentText, CharStart(d)) + 1
         /\ ~IsContinuation(d) => CharStart(d) = d
<1> DEFINE S == {e \in 0..d : e = 0 \/ ~IsContinuation(e)}
           first == CharStart(d)
<1>0. currentText \in Seq(Bytes) /\ WholeCharacters(currentText) /\ Size \in Nat
  BY DEF TextIs, Size
<1>1. S \in SUBSET (0..d) /\ 0 \in S /\ d \in Nat
  BY <1>0
<1>2. first = Max(S)
  BY DEF CharStart
<1> HIDE DEF S, first
<1>3. first \in S /\ \A k \in S : first >= k
  BY <1>1, <1>2, MaxIsGreatest
<1>4. first \in 0..d /\ (first = 0 \/ ~IsContinuation(first))
  BY <1>3 DEF S
<1>5. Edge(currentText, first)
  <2>1. CASE first = 0
    BY <1>0, <2>1, FirstEdge
  <2>2. CASE ~IsContinuation(first)
    BY <1>0, <1>4, <2>2 DEF Edge, IsContinuation, Size
  <2> QED
    BY <1>4, <2>1, <2>2
<1>6. currentText[first + 1] # "continuation"
  BY <1>0, <1>4, <1>5 DEF Edge, Size
<1>7. ASSUME NEW k \in (first + 1)..((d + 1) - 1) PROVE currentText[k + 1] = "continuation"
  <2>1. k \in 0..d /\ k \notin S
    BY <1>0, <1>3, <1>4
  <2> QED
    BY <2>1 DEF S, IsContinuation
<1>8. getLength(currentText, d + 1) = getLength(currentText, first) + 1
  <2> DEFINE q == d + 1
  <2>1. /\ first \in 0..(Len(currentText) - 1) /\ q \in (first + 1)..Len(currentText)
        /\ \A k \in (first + 1)..(q - 1) : currentText[k + 1] = "continuation"
    BY <1>0, <1>4, <1>7 DEF Size
  <2> HIDE DEF q
  <2>2. getLength(currentText, q) = getLength(currentText, first) + 1
    BY <1>0, <1>6, <2>1, OneMore
  <2> QED
    BY <2>2 DEF q
<1>9. ~IsContinuation(d) => first = d
  BY <1>0, <1>1, <1>3, <1>4 DEF S
<1> QED
  BY <1>4, <1>5, <1>8, <1>9 DEF first

LEMMA CharEndPlaced ==
  ASSUME TextIs, NEW p, Edge(currentText, p), p < Size
  PROVE  /\ CharEndFrom(p) \in (p + 1)..Size /\ Edge(currentText, CharEndFrom(p))
         /\ getLength(currentText, CharEndFrom(p)) = getLength(currentText, p) + 1
<1> DEFINE S == {e \in (p + 1)..Size : e = Size \/ ~IsContinuation(e)}
           last == CharEndFrom(p)
<1>0. /\ currentText \in Seq(Bytes) /\ WholeCharacters(currentText) /\ Size \in Nat
      /\ p \in 0..(Size - 1) /\ currentText[p + 1] # "continuation"
  BY DEF TextIs, Size, Edge
<1>1. S \in SUBSET Nat /\ Size \in S
  BY <1>0
<1>2. last = Min(S)
  BY DEF CharEndFrom
<1> HIDE DEF S, last
<1>3. last \in S /\ \A k \in S : last <= k
  BY <1>1, <1>2, MinIsLeast
<1>4. last \in (p + 1)..Size /\ (last = Size \/ ~IsContinuation(last))
  BY <1>3 DEF S
<1>5. Edge(currentText, last)
  BY <1>0, <1>4 DEF Edge, IsContinuation, Size
<1>6. ASSUME NEW k \in (p + 1)..(last - 1) PROVE currentText[k + 1] = "continuation"
  <2>1. k \in (p + 1)..Size /\ k \notin S
    BY <1>0, <1>3, <1>4
  <2> QED
    BY <2>1 DEF S, IsContinuation
<1>7. getLength(currentText, last) = getLength(currentText, p) + 1
  <2>1. p \in 0..(Len(currentText) - 1) /\ last \in (p + 1)..Len(currentText)
    BY <1>0, <1>4 DEF Size
  <2> QED
    BY <1>0, <1>6, <2>1, OneMore
<1> QED
  BY <1>4, <1>5, <1>7 DEF last

LEMMA AfterSeparator ==
  ASSUME TextIs, NEW e \in 1..Size, IsSeparator(e - 1)
  PROVE  Edge(currentText, e)
<1>0. currentText \in Seq(Bytes) /\ WholeCharacters(currentText) /\ e \in 1..Len(currentText)
  BY DEF TextIs, Size
<1>1. currentText[e] = "separator"
  BY <1>0 DEF IsSeparator
<1>2. getCharByteSize(currentText[e]) = 1
  BY <1>1 DEF getCharByteSize
<1>3. e + 1 <= Len(currentText) => currentText[e + 1] # "continuation"
  BY <1>0, <1>1, <1>2, WholeAt
<1> QED
  BY <1>0, <1>3 DEF Edge

LEMMA WordRightPlaced ==
  ASSUME TextIs, NEW p, Edge(currentText, p), p = position, p < Size
  PROVE  Edge(currentText, WordRight)
<1> DEFINE A == {e \in (position + 1)..Size : e = Size \/ ~IsSeparator(e)}
           from == IF IsSeparator(position) THEN Min(A) ELSE position
           B == {e \in (from + 1)..Size : e = Size \/ IsSeparator(e)}
<1>0. /\ currentText \in Seq(Bytes) /\ WholeCharacters(currentText) /\ Size \in Nat
      /\ position \in 0..(Size - 1) /\ Edge(currentText, Size)
  BY FirstEdge DEF TextIs, Size, Edge
<1>1. WordRight = IF from = Size THEN Size ELSE Min(B)
  BY DEF WordRight
<1>2. from \in 0..Size
  <2>1. A \in SUBSET Nat /\ Size \in A
    BY <1>0
  <2> HIDE DEF A
  <2>2. Min(A) \in A
    BY <2>1, MinIsLeast
  <2> QED
    BY <1>0, <2>2 DEF A
<1> HIDE DEF A, from
<1>3. ASSUME from # Size PROVE Edge(currentText, Min(B))
  <2>1. B \in SUBSET Nat /\ Size \in B
    BY <1>0, <1>2, <1>3
  <2> HIDE DEF B
  <2>2. Min(B) \in B
    BY <2>1, MinIsLeast
  <2>3. Min(B) \in 0..Size /\ (Min(B) = Size \/ IsSeparator(Min(B)))
    BY <1>0, <1>2, <2>2 DEF B
  <2> QED
    BY <1>0, <2>3 DEF Edge, IsSeparator, Size
<1> QED
  BY <1>0, <1>1, <1>3

LEMMA WordLeftPlaced ==
  ASSUME TextIs, Edge(currentText, position), position > 0
  PROVE  Edge(currentText, WordLeft)
<1> DEFINE A == {e \in 0..(position - 1) : e = 0 \/ ~IsSeparator(e - 1)}
           d == IF IsSeparator(position - 1) THEN (IF position = 0 THEN 0 ELSE Max(A))
                                             ELSE position
           B == {e \in 0..(d - 1) : e = 0 \/ IsSeparator(e - 1)}
<1>0. /\ currentText \in Seq(Bytes) /\ WholeCharacters(currentText) /\ Size \in Nat
      /\ position \in 1..Size /\ Edge(currentText, 0)
  BY FirstEdge DEF TextIs, Size, Edge
<1>1. WordLeft = IF d = 0 THEN 0 ELSE Max(B)
  BY Zenon DEF WordLeft, StepBack
<1>2. d \in 0..Size
  <2>1. A \in SUBSET (0..Size) /\ 0 \in A
    BY <1>0
  <2> HIDE DEF A
  <2>2. Max(A) \in A
    BY <1>0, <2>1, MaxIsGreatest
  <2> QED
    BY <1>0, <2>2 DEF A
<1> HIDE DEF A, d
<1>3. ASSUME d # 0 PROVE Edge(currentText, Max(B))
  <2>1. B \in SUBSET (0..Size) /\ 0 \in B
    BY <1>0, <1>2, <1>3
  <2> HIDE DEF B
  <2>2. Max(B) \in B
    BY <1>0, <2>1, MaxIsGreatest
  <2>3. Max(B) = 0 \/ (Max(B) \in 1..Size /\ IsSeparator(Max(B) - 1))
    BY <1>0, <1>2, <2>2 DEF B
  <2> QED
    BY <1>0, <2>3, AfterSeparator
<1> QED
  BY <1>0, <1>1, <1>3

(* Alt+backspace counts bytes; with one byte to a character that is right.  *)
LEMMA WordStartInText ==
  ASSUME TextIs, NEW d \in 0..(Size - 1)
  PROVE  WordStart(d) \in 0..d
<1> DEFINE A == {e \in 0..(d - 1) : e = 0 \/ (~IsSeparator(e - 1) \/ ~IsSeparator(e))}
           f == IF IsSeparator(d) THEN (IF d = 0 THEN 0 ELSE Max(A)) ELSE d
           B == {e \in 0..(f - 1) : e = 0 \/ (IsSeparator(e - 1) \/ IsSeparator(e))}
<1>0. Size \in Nat /\ d \in Nat
  BY DEF TextIs, Size
<1>1. WordStart(d) = IF f = 0 THEN 0 ELSE Max(B)
  BY Zenon DEF WordStart, StepBack
<1>2. f \in 0..d
  <2>1. ASSUME d # 0 PROVE Max(A) \in 0..d
    <3>1. A \in SUBSET (0..d) /\ 0 \in A
      BY <1>0, <2>1
    <3> HIDE DEF A
    <3>2. Max(A) \in A
      BY <1>0, <3>1, MaxIsGreatest
    <3> QED
      BY <3>1, <3>2
  <2> QED
    BY <1>0, <2>1
<1> HIDE DEF A, f
<1>3. ASSUME f # 0 PROVE Max(B) \in 0..d
  <2>1. B \in SUBSET (0..d) /\ 0 \in B
    BY <1>0, <1>2, <1>3
  <2> HIDE DEF B
  <2>2. Max(B) \in B
    BY <1>0, <2>1, MaxIsGreatest
  <2> QED
    BY <2>1, <2>2
<1> QED
  BY <1>0, <1>1, <1>3

LEMMA OneByteEach ==
  ASSUME TextIs, OneByteCharacters, NEW p \in 0..Size
  PROVE  /\ Edge(currentText, p) /\ getLength(currentText, p) = p
         /\ p < Size => ~IsContinuation(p)
<1>0. currentText \in Seq(Bytes) /\ WholeCharacters(currentText) /\ Size \in Nat
  BY DEF TextIs, Size
<1>1. ASSUME NEW i \in 1..Len(currentText) PROVE currentText[i] # "continuation"
  <2>1. currentText[i] \in ToSet(currentText)
    BY <1>0 DEF ToSet
  <2> QED
    BY <2>1 DEF OneByteCharacters
<1>2. Edge(currentText, p) /\ (p < Size => ~IsContinuation(p))
  BY <1>0, <1>1 DEF Edge, IsContinuation, Size
<1>3. LeadsTo(currentText, p) = 0..(p - 1)
  <2>1. ASSUME NEW i \in 0..(Len(currentText) - 1) PROVE currentText[i + 1] # "continuation"
    BY <1>0, <1>1
  <2> QED
    BY <1>0, <2>1 DEF LeadsTo, Leads, Size
<1>4. Cardinality(0..(p - 1)) = p
  <2>1. p - 1 \in Int
    BY <1>0
  <2>2. Cardinality(0..(p - 1)) = IF 0 > p - 1 THEN 0 ELSE (p - 1) - 0 + 1
    BY <2>1, FS_Interval
  <2> QED
    BY <1>0, <2>2
<1>5. getLength(currentText, p) = p
  BY <1>0, <1>3, <1>4, LengthCounts DEF Size
<1> QED
  BY <1>2, <1>5

-----------------------------------------------------------------------------
(* The inductive invariant.                                                 *)
FlagsTyped ==
  /\ enabled \in BOOLEAN /\ altPressed \in BOOLEAN /\ shiftPressed \in BOOLEAN
  /\ ignoreNextHideKeyboard \in BOOLEAN /\ useGameActivityTextInput \in BOOLEAN
  /\ writer \in {"game", "user"}

ToldTyped == sentText \in Seq(Bytes) /\ sentCaret \in 0..SizeMax \cup {NotTold}

CursorPlaced == Place(currentText, position, positionUTF)
AnchorPlaced == Place(currentText, copyPosition, copyPositionUTF)

TextInv ==
  /\ FlagsTyped /\ ToldTyped
  /\ TextIs /\ CursorPlaced /\ AnchorPlaced
  /\ wildErase = FALSE

LEMMA InvFacts ==
  ASSUME TextInv, TextAssumption
  PROVE  /\ currentText \in Seq(Bytes) /\ WholeCharacters(currentText)
         /\ Size \in 0..SizeMax /\ Size = Len(currentText) /\ SizeMax \in Nat
         /\ Edge(currentText, position) /\ positionUTF = getLength(currentText, position)
         /\ position \in 0..Size /\ positionUTF \in 0..position
         /\ Edge(currentText, copyPosition)
         /\ copyPositionUTF = getLength(currentText, copyPosition)
         /\ copyPosition \in 0..Size /\ copyPositionUTF \in 0..copyPosition
<1>1. /\ currentText \in Seq(Bytes) /\ WholeCharacters(currentText)
      /\ Size \in 0..SizeMax /\ Size = Len(currentText) /\ SizeMax \in Nat
  BY DEF TextInv, TextIs, Size, TextAssumption
<1>2. /\ Place(currentText, position, positionUTF)
      /\ Place(currentText, copyPosition, copyPositionUTF)
  BY DEF TextInv, CursorPlaced, AnchorPlaced
<1>3. /\ position \in 0..Size /\ positionUTF \in 0..position
      /\ copyPosition \in 0..Size /\ copyPositionUTF \in 0..copyPosition
  BY <1>1, <1>2, PlaceFacts
<1> QED
  BY <1>1, <1>2, <1>3 DEF Place

(* A state whose text and places are right satisfies the invariant.         *)
LEMMA StepTo ==
  ASSUME TextAssumption, TextInv, FlagsTyped', sentText' \in Seq(Bytes),
         currentText' \in Seq(Bytes), WholeCharacters(currentText'),
         Len(currentText') <= SizeMax,
         Place(currentText', position', positionUTF'),
         Place(currentText', copyPosition', copyPositionUTF'),
         sentCaret' \in {sentCaret, NotTold, positionUTF'},
         wildErase' \in {wildErase, FALSE}
  PROVE  TextInv'
<1>1. position' \in 0..Len(currentText') /\ positionUTF' \in 0..position'
  BY PlaceFacts
<1>2. Len(currentText') \in Nat /\ SizeMax \in Nat
  BY DEF TextAssumption
<1>3. ToldTyped'
  BY <1>1, <1>2 DEF TextInv, ToldTyped
<1>4. TextIs'
  BY DEF TextIs, Size
<1>5. CursorPlaced' /\ AnchorPlaced'
  BY DEF CursorPlaced, AnchorPlaced
<1> QED
  BY <1>3, <1>4, <1>5 DEF TextInv

(* Moving in the same text.                                                 *)
LEMMA StepInText ==
  ASSUME TextAssumption, TextInv, FlagsTyped',
         UNCHANGED <<currentText, sentText, wildErase>>,
         Place(currentText, position', positionUTF'),
         \/ UNCHANGED <<copyPosition, copyPositionUTF>>
         \/ Place(currentText, copyPosition', copyPositionUTF'),
         sentCaret' \in {sentCaret, NotTold, positionUTF'}
  PROVE  TextInv'
<1>1. /\ sentText \in Seq(Bytes) /\ Len(currentText) <= SizeMax
      /\ currentText \in Seq(Bytes) /\ WholeCharacters(currentText)
      /\ Place(currentText, copyPosition, copyPositionUTF)
  BY DEF TextInv, ToldTyped, TextIs, Size, AnchorPlaced
<1>2. Place(currentText, copyPosition', copyPositionUTF')
  BY <1>1
<1>3. /\ sentText' \in Seq(Bytes) /\ Len(currentText') <= SizeMax
      /\ currentText' \in Seq(Bytes) /\ WholeCharacters(currentText')
      /\ Place(currentText', position', positionUTF')
      /\ Place(currentText', copyPosition', copyPositionUTF')
      /\ wildErase' \in {wildErase, FALSE}
  BY <1>1, <1>2
<1> QED
  BY <1>3, StepTo

LEMMA StepStays ==
  ASSUME TextAssumption, TextInv, FlagsTyped',
         UNCHANGED <<currentText, sentText, wildErase, positionVars, sentCaret>>
  PROVE  TextInv'
<1>1. Place(currentText, position', positionUTF')
  BY DEF TextInv, CursorPlaced, positionVars
<1>2. UNCHANGED <<copyPosition, copyPositionUTF>> /\ sentCaret' \in {sentCaret, NotTold, positionUTF'}
  BY DEF positionVars
<1> QED
  BY <1>1, <1>2, StepInText

(* What the game is told, or loads, it takes as it is or does not take.     *)
LEMMA ToldOrNot ==
  ASSUME NEW text, NEW utf
  PROVE  /\ Known(text, utf) => sentText' \in {sentText, text} /\ sentCaret' \in {sentCaret, utf}
         /\ textUpdateCallback(text) => sentText' \in {sentText, text}
         /\ caretPositionCallback(utf) => sentCaret' \in {sentCaret, utf}
BY DEF Known, textUpdateCallback, caretPositionCallback

(* After an edit both ends of the selection are at the cursor.              *)
LEMMA StepEdits ==
  ASSUME TextAssumption, TextInv,
         UNCHANGED <<enabled, altPressed, shiftPressed, ignoreNextHideKeyboard,
                     useGameActivityTextInput>>,
         NEW text \in Seq(Bytes), WholeCharacters(text), Len(text) <= SizeMax,
         NEW p, Place(text, p.byte, p.utf), Edited(text, p)
  PROVE  TextInv'
<1>1. FlagsTyped'
  BY DEF TextInv, FlagsTyped, Edited
<1>2. /\ currentText' = text
      /\ position' = p.byte /\ positionUTF' = p.utf
      /\ copyPosition' = p.byte /\ copyPositionUTF' = p.utf
      /\ wildErase' = FALSE
  BY DEF Edited, SetPosition, SetCopyPosition
<1>3. sentText' \in Seq(Bytes) /\ sentCaret' \in {sentCaret, positionUTF'}
  BY <1>2, ToldOrNot DEF Edited, TextInv, ToldTyped
<1>4. /\ Place(currentText', position', positionUTF')
      /\ Place(currentText', copyPosition', copyPositionUTF')
  BY <1>2
<1> QED
  BY <1>1, <1>2, <1>3, <1>4, StepTo

(* The game loads a text.                                                   *)
LEMMA StepLoads ==
  ASSUME TextAssumption, TextInv, FlagsTyped', wildErase' = wildErase,
         NEW text \in Seq(Bytes), WholeCharacters(text), Len(text) <= SizeMax,
         update(text)
  PROVE  TextInv'
<1>1. /\ currentText' = text
      /\ sentText' \in Seq(Bytes) /\ sentCaret' \in {sentCaret, NotTold}
  BY ToldOrNot DEF update, TextInv, ToldTyped
<1>2. /\ position' = Len(text) /\ positionUTF' = getLength(text, Len(text))
      /\ copyPosition' = Len(text) /\ copyPositionUTF' = getLength(text, Len(text))
  BY DEF update, SetPosition, SetCopyPosition
<1>3. Place(text, Len(text), getLength(text, Len(text)))
  BY EndPlaces
<1>4. /\ Place(currentText', position', positionUTF')
      /\ Place(currentText', copyPosition', copyPositionUTF')
  BY <1>1, <1>2, <1>3
<1> QED
  BY <1>1, <1>4, StepTo

-----------------------------------------------------------------------------
(* One lemma per handler.                                                   *)
LEMMA InitInv == TextAssumption /\ Init => TextInv
<1> SUFFICES ASSUME TextAssumption, Init PROVE TextInv
  OBVIOUS
<1>1. /\ currentText = <<>> /\ <<>> \in Seq(Bytes) /\ Len(<<>>) = 0
      /\ SizeMax \in Nat
  BY EmptySeq DEF Init, TextAssumption
<1>2. WholeCharacters(<<>>)
  BY EmptyWhole
<1>3. Place(<<>>, 0, 0)
  BY <1>1, <1>2, EndPlaces
<1>4. TextIs /\ CursorPlaced /\ AnchorPlaced
  BY <1>1, <1>2, <1>3 DEF Init, TextIs, CursorPlaced, AnchorPlaced, Size
<1>5. FlagsTyped /\ ToldTyped
  BY <1>1 DEF Init, FlagsTyped, ToldTyped
<1> QED
  BY <1>4, <1>5 DEF TextInv, Init

LEMMA ConnectTextInputInv ==
  ASSUME TextAssumption, TextInv, ConnectTextInput
  PROVE  TextInv'
<1>1. FlagsTyped' /\ <<>> \in Seq(Bytes)
  BY EmptySeq DEF TextInv, FlagsTyped, ConnectTextInput
<1>2. /\ currentText \in Seq(Bytes) /\ WholeCharacters(currentText)
      /\ Len(currentText) <= SizeMax
      /\ Place(currentText, position, positionUTF)
      /\ Place(currentText, copyPosition, copyPositionUTF)
  BY DEF TextInv, TextIs, Size, CursorPlaced, AnchorPlaced
<1>3. /\ sentText' = <<>> /\ sentCaret' = NotTold
      /\ UNCHANGED <<currentText, position, positionUTF, copyPosition, copyPositionUTF,
                     wildErase>>
  BY DEF ConnectTextInput, positionVars
<1> QED
  BY <1>1, <1>2, <1>3, StepTo

LEMMA LoadedTexts ==
  ASSUME TextAssumption, TextsWhole, NEW text \in Texts
  PROVE  text \in Seq(Bytes) /\ WholeCharacters(text) /\ Len(text) <= SizeMax
BY DEF TextAssumption, TextsWhole

LEMMA ShowKeyboardInv ==
  ASSUME TextAssumption, TextsWhole, TextInv, NEW text \in Texts, ShowKeyboard(text)
  PROVE  TextInv'
<1>1. FlagsTyped' /\ wildErase' = wildErase /\ update(text)
  BY DEF TextInv, FlagsTyped, ShowKeyboard, update
<1> QED
  BY <1>1, LoadedTexts, StepLoads

LEMMA UpdateTextboxTextInv ==
  ASSUME TextAssumption, TextsWhole, TextInv, NEW text \in Texts, UpdateTextboxText(text)
  PROVE  TextInv'
<1>1. FlagsTyped' /\ wildErase' = wildErase /\ update(text)
  BY DEF TextInv, FlagsTyped, UpdateTextboxText, update
<1> QED
  BY <1>1, LoadedTexts, StepLoads

LEMMA HideKeyboardInv ==
  ASSUME TextAssumption, TextInv, HideKeyboard
  PROVE  TextInv'
<1>1. FlagsTyped'
  BY DEF TextInv, FlagsTyped, HideKeyboard, disable
<1>2. CASE ignoreNextHideKeyboard = TRUE
  BY <1>1, <1>2, StepStays DEF HideKeyboard
<1>3. CASE ignoreNextHideKeyboard = FALSE
  <2>1. /\ currentText' = <<>>
        /\ position' = 0 /\ positionUTF' = 0 /\ copyPosition' = 0 /\ copyPositionUTF' = 0
        /\ wildErase' = wildErase
    BY <1>3 DEF HideKeyboard, disable
  <2>2. Known(<<>>, NotTold)
    BY <1>3 DEF HideKeyboard
  <2>3. sentText' \in {sentText, <<>>} /\ sentCaret' \in {sentCaret, NotTold}
    BY <2>2, ToldOrNot
  <2>4. <<>> \in Seq(Bytes) /\ Len(<<>>) = 0 /\ SizeMax \in Nat
    BY EmptySeq DEF TextAssumption
  <2>5. WholeCharacters(<<>>)
    BY EmptyWhole
  <2>6. Place(<<>>, 0, 0)
    BY <2>4, <2>5, EndPlaces
  <2>7. /\ currentText' \in Seq(Bytes) /\ sentText' \in Seq(Bytes)
        /\ WholeCharacters(currentText') /\ Len(currentText') <= SizeMax
        /\ Place(currentText', position', positionUTF')
        /\ Place(currentText', copyPosition', copyPositionUTF')
    <3>1. sentText \in Seq(Bytes)
      BY DEF TextInv, ToldTyped
    <3>2. sentText' \in Seq(Bytes)
      BY <2>3, <2>4, <3>1
    <3> QED
      BY <2>1, <2>4, <2>5, <2>6, <3>2
  <2> QED
    BY <1>1, <2>1, <2>3, <2>7, StepTo
<1> QED
  BY <1>2, <1>3 DEF TextInv, FlagsTyped

LEMMA GetCursorPositionInv ==
  ASSUME TextAssumption, TextInv, GetCursorPosition
  PROVE  TextInv'
<1>1. /\ FlagsTyped' /\ UNCHANGED <<currentText, sentText, wildErase>>
      /\ UNCHANGED <<copyPosition, copyPositionUTF>>
      /\ UNCHANGED <<position, positionUTF>> /\ sentCaret' \in {sentCaret, positionUTF}
  BY ToldOrNot DEF TextInv, FlagsTyped, GetCursorPosition, positionVars
<1>2. Place(currentText, position', positionUTF') /\ sentCaret' \in {sentCaret, positionUTF'}
  BY <1>1 DEF TextInv, CursorPlaced
<1> QED
  BY <1>1, <1>2, StepInText

LEMMA SetCaretPositionInv ==
  ASSUME TextAssumption, TextInv,
         NEW pos \in -1..getLength(currentText, Size), SetCaretPosition(pos)
  PROVE  TextInv'
<1> DEFINE p == CursorTarget(currentText, pos)
<1>1. Place(currentText, p.byte, p.utf)
  BY InvFacts, CursorTargetPlace
<1> HIDE DEF p
<1>2. /\ position' = p.byte /\ positionUTF' = p.utf /\ sentCaret' \in {sentCaret, p.utf}
      /\ \/ UNCHANGED <<copyPosition, copyPositionUTF>>
         \/ copyPosition' = p.byte /\ copyPositionUTF' = p.utf
      /\ UNCHANGED <<currentText, sentText, wildErase>> /\ FlagsTyped'
  BY DEF SetCaretPosition, SetPosition, SetCopyPosition, caretPositionCallback, p,
         TextInv, FlagsTyped
<1>3. /\ Place(currentText, position', positionUTF') /\ sentCaret' \in {sentCaret, positionUTF'}
      /\ \/ UNCHANGED <<copyPosition, copyPositionUTF>>
         \/ Place(currentText, copyPosition', copyPositionUTF')
  BY <1>1, <1>2
<1> QED
  BY <1>2, <1>3, StepInText

LEMMA SetStateInv ==
  ASSUME TextAssumption, TextsWhole, TextInv, NEW text \in Texts,
         NEW pos \in 0..getLength(text, Len(text)), SetState(text, pos)
  PROVE  TextInv'
<1> DEFINE p == CursorTarget(text, pos)
           end == CursorTarget(text, -1)
<1>0. text \in Seq(Bytes) /\ WholeCharacters(text) /\ Len(text) <= SizeMax
  BY LoadedTexts
<1>1. Place(text, p.byte, p.utf) /\ Place(text, end.byte, end.utf)
  <2>1. getLength(text, Len(text)) \in Nat
    BY <1>0, LengthCounts
  <2> QED
    BY <1>0, <2>1, CursorTargetPlace
<1> HIDE DEF p, end
<1>2. /\ currentText' = text /\ sentText' = sentText
      /\ position' = p.byte /\ positionUTF' = p.utf /\ sentCaret' \in {sentCaret, p.utf}
      /\ \/ copyPosition' = end.byte /\ copyPositionUTF' = end.utf
         \/ copyPosition' = p.byte /\ copyPositionUTF' = p.utf
      /\ wildErase' = wildErase /\ FlagsTyped'
  BY DEF SetState, SetPosition, SetCopyPosition, caretPositionCallback, p, end,
         TextInv, FlagsTyped
<1>3. /\ Place(currentText', position', positionUTF') /\ sentCaret' \in {sentCaret, positionUTF'}
      /\ Place(currentText', copyPosition', copyPositionUTF')
      /\ currentText' \in Seq(Bytes) /\ sentText' \in Seq(Bytes)
      /\ WholeCharacters(currentText') /\ Len(currentText') <= SizeMax
  BY <1>0, <1>1, <1>2 DEF TextInv, ToldTyped
<1> QED
  BY <1>2, <1>3, StepTo

(* What the three edits come to.                                            *)
LEMMA BackspaceErases ==
  ASSUME TextAssumption, TextInv, altPressed => OneByteCharacters, Backspace
  PROVE  \E first \in 0..(position - 1) :
           /\ Edge(currentText, first)
           /\ Edited(Erase(first, position),
                     [byte |-> first, utf |-> getLength(currentText, first)])
<1> DEFINE d == position - 1
           word == WordStart(d)
           from == IF altPressed THEN word ELSE d
           first == CharStart(from)
           p == [byte |-> first,
                 utf |-> IF altPressed THEN word ELSE Wrap(positionUTF - 1)]
<1>0. /\ TextIs /\ Size \in 0..SizeMax /\ SizeMax \in Nat
      /\ positionUTF > 0 /\ position \in 1..Size /\ positionUTF \in 1..position
      /\ Edge(currentText, position) /\ positionUTF = getLength(currentText, position)
  <2>1. TextIs /\ positionUTF > 0
    BY DEF TextInv, Backspace
  <2>2. /\ Size \in 0..SizeMax /\ SizeMax \in Nat
        /\ position \in 0..Size /\ positionUTF \in 0..position
        /\ Edge(currentText, position) /\ positionUTF = getLength(currentText, position)
    BY InvFacts
  <2>3. position \in 1..Size /\ positionUTF \in 1..position
    BY <2>1, <2>2
  <2> QED
    BY <2>1, <2>2, <2>3
<1>1. d \in 0..(Size - 1) /\ Wrap(d) = d
  <2>1. d \in 0..(Size - 1) /\ d \in 0..SizeMax
    BY <1>0
  <2> QED
    BY <1>0, <2>1, NoWrap
<1>2. Edited(Erase(first, position), p)
  <2>1. ~(Wrap(d) >= Size)
    BY <1>0, <1>1
  <2> QED
    BY <1>1, <2>1, Zenon DEF Backspace
<1>3. word \in 0..d
  BY <1>0, <1>1, WordStartInText
<1>4. from \in 0..(Size - 1) /\ from \in 0..d
  BY <1>0, <1>1, <1>3
<1>5. first \in 0..from /\ Edge(currentText, first)
  BY <1>0, <1>4, CharStartPlaced
<1>6. p.utf = getLength(currentText, first)
  <2>1. CASE altPressed
    <3>1. from = word /\ word \in 0..Size /\ word < Size /\ OneByteCharacters
      BY <1>0, <1>1, <1>3, <2>1
    <3>2. ~IsContinuation(word) /\ getLength(currentText, word) = word
      BY <1>0, <3>1, OneByteEach
    <3>3. first = word
      BY <1>0, <1>4, <3>1, <3>2, CharStartPlaced
    <3> QED
      BY <2>1, <3>2, <3>3
  <2>2. CASE ~altPressed
    <3>1. from = d /\ d + 1 = position
      BY <1>0, <2>2
    <3>2. getLength(currentText, position) = getLength(currentText, first) + 1
      BY <1>0, <1>1, <3>1, CharStartPlaced
    <3>3. getLength(currentText, first) \in Nat
      <4>1. first \in 0..Len(currentText)
        BY <1>0, <1>4, <1>5 DEF Size
      <4> QED
        BY <1>0, <4>1, LengthCounts DEF TextIs
    <3>4. Wrap(positionUTF - 1) = positionUTF - 1
      <4>1. positionUTF - 1 \in 0..SizeMax
        BY <1>0
      <4> QED
        BY <1>0, <4>1, NoWrap
    <3> HIDE DEF first
    <3> QED
      BY <1>0, <2>2, <3>2, <3>3, <3>4
  <2> QED
    BY <2>1, <2>2
<1>7. first \in 0..(position - 1)
  BY <1>0, <1>4, <1>5
<1>8. p = [byte |-> first, utf |-> getLength(currentText, first)]
  BY <1>6
<1> HIDE DEF first, p
<1> QED
  BY <1>2, <1>5, <1>7, <1>8

LEMMA DeleteErases ==
  ASSUME TextAssumption, TextInv, Delete
  PROVE  \E last \in (position + 1)..Size :
           /\ Edge(currentText, last)
           /\ Edited(Erase(position, last), [byte |-> position, utf |-> positionUTF])
<1>1. TextIs /\ Edge(currentText, position) /\ position < Size
  BY InvFacts DEF TextInv, Delete
<1>2. CharEndFrom(position) \in (position + 1)..Size /\ Edge(currentText, CharEndFrom(position))
  BY <1>1, CharEndPlaced
<1> QED
  BY <1>2 DEF Delete

LEMMA BackspaceInv ==
  ASSUME TextAssumption, TextInv, altPressed => OneByteCharacters, Backspace,
         UNCHANGED <<enabled, altPressed, shiftPressed, ignoreNextHideKeyboard,
                     useGameActivityTextInput>>
  PROVE  TextInv'
<1>1. PICK first \in 0..(position - 1) :
        /\ Edge(currentText, first)
        /\ Edited(Erase(first, position),
                  [byte |-> first, utf |-> getLength(currentText, first)])
  BY BackspaceErases
<1> DEFINE t == Erase(first, position)
           p == [byte |-> first, utf |-> getLength(currentText, first)]
<1>2. /\ t \in Seq(Bytes) /\ WholeCharacters(t) /\ Len(t) = Size - (position - first)
      /\ Place(t, first, getLength(currentText, first))
  <2>1. /\ currentText \in Seq(Bytes) /\ WholeCharacters(currentText)
        /\ Edge(currentText, position) /\ first <= position
    BY InvFacts
  <2> QED
    BY <1>1, <2>1, Erasing DEF Erase, Size
<1> HIDE DEF t
<1>3. Len(t) <= SizeMax
  BY <1>2, InvFacts
<1>4. Edited(t, p) /\ Place(t, p.byte, p.utf)
  BY <1>1, <1>2 DEF t
<1> HIDE DEF p
<1> QED
  BY <1>2, <1>3, <1>4, StepEdits

LEMMA DeleteInv ==
  ASSUME TextAssumption, TextInv, Delete,
         UNCHANGED <<enabled, altPressed, shiftPressed, ignoreNextHideKeyboard,
                     useGameActivityTextInput>>
  PROVE  TextInv'
<1>1. PICK last \in (position + 1)..Size :
        /\ Edge(currentText, last)
        /\ Edited(Erase(position, last), [byte |-> position, utf |-> positionUTF])
  BY DeleteErases
<1> DEFINE t == Erase(position, last)
           p == [byte |-> position, utf |-> positionUTF]
<1>2. /\ t \in Seq(Bytes) /\ WholeCharacters(t) /\ Len(t) = Size - (last - position)
      /\ Place(t, position, positionUTF)
  <2>1. /\ currentText \in Seq(Bytes) /\ WholeCharacters(currentText)
        /\ Edge(currentText, position) /\ position <= last
        /\ positionUTF = getLength(currentText, position)
    BY InvFacts
  <2> QED
    BY <1>1, <2>1, Erasing DEF Erase, Size
<1> HIDE DEF t
<1>3. Len(t) <= SizeMax
  BY <1>2, InvFacts
<1>4. Edited(t, p) /\ Place(t, p.byte, p.utf)
  BY <1>1, <1>2 DEF t
<1> HIDE DEF p
<1> QED
  BY <1>2, <1>3, <1>4, StepEdits

LEMMA InsertInv ==
  ASSUME TextAssumption, TextsWhole, TextInv,
         NEW x \in Characters, Size + Len(x) <= MaxLength, Insert(x),
         UNCHANGED <<enabled, altPressed, shiftPressed, ignoreNextHideKeyboard,
                     useGameActivityTextInput>>
  PROVE  TextInv'
<1> DEFINE t == SubSeq(currentText, 1, position) \o x \o SubSeq(currentText, position + 1, Size)
           p == [byte |-> position + Len(x),
                 utf |-> positionUTF + getLength(x, Len(x))]
<1>0. x \in Seq(Bytes) /\ WholeCharacters(x)
  BY DEF TextAssumption, TextsWhole
<1>1. /\ t \in Seq(Bytes) /\ WholeCharacters(t) /\ Len(t) = Size + Len(x)
      /\ Place(t, position + Len(x), positionUTF + getLength(x, Len(x)))
  <2>1. /\ currentText \in Seq(Bytes) /\ WholeCharacters(currentText)
        /\ Edge(currentText, position) /\ positionUTF = getLength(currentText, position)
    BY InvFacts
  <2> QED
    BY <1>0, <2>1, Inserting DEF Size
<1>2. Edited(t, p)
  BY DEF Insert
<1> HIDE DEF t
<1>3. Len(t) <= SizeMax
  BY <1>0, <1>1, InvFacts DEF TextAssumption
<1>4. Place(t, p.byte, p.utf)
  BY <1>1
<1> HIDE DEF p
<1> QED
  BY <1>1, <1>2, <1>3, <1>4, StepEdits

LEMMA TextInputInv ==
  ASSUME TextAssumption, TextsWhole, ~WideAlt, TextInv, TextInput
  PROVE  TextInv'
<1>0. UNCHANGED <<enabled, altPressed, shiftPressed, ignoreNextHideKeyboard,
                     useGameActivityTextInput>>
  BY DEF TextInput
<1>1. ASSUME NEW text \in Characters, textUpdateCallback(text),
             UNCHANGED <<currentText, positionVars, sentCaret, writer, wildErase>>
      PROVE  TextInv'
  <2>1. /\ FlagsTyped' /\ sentText' \in Seq(Bytes)
        /\ currentText' \in Seq(Bytes) /\ WholeCharacters(currentText')
        /\ Len(currentText') <= SizeMax
    BY <1>0, <1>1 DEF TextInv, FlagsTyped, ToldTyped, TextIs, Size, textUpdateCallback, TextAssumption
  <2>2. /\ Place(currentText', position', positionUTF')
        /\ Place(currentText', copyPosition', copyPositionUTF')
        /\ sentCaret' = sentCaret /\ wildErase' = wildErase
    BY <1>1 DEF TextInv, CursorPlaced, AnchorPlaced, positionVars
  <2> QED
    BY <2>1, <2>2, StepTo
<1>2. ASSUME altPressed => WideAlt \/ OneByteCharacters, Backspace PROVE TextInv'
  BY <1>0, <1>2, BackspaceInv
<1>3. ASSUME Delete PROVE TextInv'
  BY <1>0, <1>3, DeleteInv
<1>4. ASSUME NEW x \in Characters, Size + Len(x) <= MaxLength, Insert(x) PROVE TextInv'
  BY <1>0, <1>4, InsertInv
<1> QED
  BY <1>1, <1>2, <1>3, <1>4 DEF TextInput

-----------------------------------------------------------------------------
(* A key leaves everything alone or moves the cursor to a place.            *)
LEMMA CollapsePlaced ==
  ASSUME TextAssumption, TextInv, NEW key
  PROVE  Placed(At(IF key = "RIGHT" THEN Max({position, copyPosition})
                                    ELSE Min({position, copyPosition})))
<1> DEFINE S == {position, copyPosition}
<1>1. S \in SUBSET (0..Size) /\ S # {} /\ Size \in Nat /\ S \in SUBSET Nat
  BY InvFacts
<1>2. Max(S) \in S /\ Min(S) \in S
  BY <1>1, MaxIsGreatest, MinIsLeast
<1>3. Edge(currentText, Max(S)) /\ Edge(currentText, Min(S))
  BY <1>2, InvFacts
<1> QED
  BY <1>3, AtPlaced

LEMMA RightTargetPlaced ==
  ASSUME TextAssumption, TextInv, position < Size, NEW alt
  PROVE  Placed(RightTarget(alt))
<1>0. /\ TextIs /\ Edge(currentText, position) /\ Size \in 0..SizeMax /\ SizeMax \in Nat
      /\ positionUTF = getLength(currentText, position)
      /\ position \in 0..Size /\ positionUTF \in 0..position
  BY InvFacts DEF TextInv
<1>1. CASE alt
  BY <1>0, <1>1, WordRightPlaced, AtPlaced DEF RightTarget
<1>2. CASE ~alt
  <2>1. /\ Edge(currentText, CharEndFrom(position))
        /\ getLength(currentText, CharEndFrom(position)) = positionUTF + 1
    BY <1>0, CharEndPlaced
  <2>2. Wrap(positionUTF + 1) = positionUTF + 1
    <3>1. positionUTF + 1 \in 0..SizeMax
      BY <1>0
    <3> QED
      BY <1>0, <3>1, NoWrap
  <2> QED
    BY <1>2, <2>1, <2>2 DEF RightTarget, Placed, Place
<1> QED
  BY <1>1, <1>2

LEMMA LeftTargetPlaced ==
  ASSUME TextAssumption, TextInv, position > 0, NEW alt
  PROVE  Placed(LeftTarget(alt))
<1>0. /\ TextIs /\ Edge(currentText, position) /\ Size \in 0..SizeMax /\ SizeMax \in Nat
      /\ positionUTF = getLength(currentText, position)
      /\ position \in 1..Size /\ positionUTF \in 0..position
  <2>1. TextIs
    BY DEF TextInv
  <2>2. /\ Size \in 0..SizeMax /\ SizeMax \in Nat
        /\ position \in 0..Size /\ positionUTF \in 0..position
        /\ Edge(currentText, position) /\ positionUTF = getLength(currentText, position)
    BY InvFacts
  <2>3. position \in 1..Size
    BY <2>2
  <2> QED
    BY <2>1, <2>2, <2>3
<1>1. CASE alt
  BY <1>0, <1>1, WordLeftPlaced, AtPlaced DEF LeftTarget
<1>2. CASE ~alt
  <2> DEFINE d == position - 1
             first == CharStart(d)
  <2>1. d \in 0..(Size - 1) /\ d + 1 = position
    BY <1>0
  <2>2. /\ first \in 0..d /\ Edge(currentText, first)
        /\ positionUTF = getLength(currentText, first) + 1
    BY <1>0, <2>1, CharStartPlaced
  <2> HIDE DEF first
  <2>3. getLength(currentText, first) \in Nat
    <3>1. first \in 0..Len(currentText)
      BY <1>0, <2>1, <2>2 DEF Size
    <3> QED
      BY <1>0, <3>1, LengthCounts DEF TextIs
  <2>4. Wrap(positionUTF - 1) = positionUTF - 1
    <3>1. positionUTF - 1 \in 0..SizeMax
      BY <1>0, <2>2, <2>3
    <3> QED
      BY <1>0, <3>1, NoWrap
  <2>5. Place(currentText, first, Wrap(positionUTF - 1))
    BY <2>2, <2>3, <2>4 DEF Place
  <2> QED
    BY <1>2, <2>5 DEF LeftTarget, Placed, first
<1> QED
  BY <1>1, <1>2

LEMMA MovesToPlace ==
  ASSUME TextAssumption, TextInv, NEW key \in Keys, NEW pressed \in BOOLEAN,
         NEW shift \in BOOLEAN, NEW alt \in BOOLEAN, KeyPressed(key, pressed, shift, alt)
  PROVE  \/ Stay
         \/ \E p : /\ Placed(p) /\ Moved(p)
                   /\ UNCHANGED <<copyPosition, copyPositionUTF>> \/ SetCopyPosition(p)
<1>1. ASSUME Collapse(key)
      PROVE  \E p : Placed(p) /\ Moved(p) /\ SetCopyPosition(p)
  BY <1>1, CollapsePlaced, Zenon DEF Collapse
<1>2. ASSUME key # "OTHER", ~AtEdge(key), MoveCursor(key, shift, alt)
      PROVE  \E p : /\ Placed(p) /\ Moved(p)
                    /\ UNCHANGED <<copyPosition, copyPositionUTF>> \/ SetCopyPosition(p)
  <2> DEFINE p == CASE key = "RIGHT" -> RightTarget(alt)
                    [] key = "LEFT"  -> LeftTarget(alt)
                    [] key = "HOME"  -> [byte |-> 0, utf |-> 0]
                    [] key = "END"   -> At(Size)
  <2>1. Moved(p) /\ (UNCHANGED <<copyPosition, copyPositionUTF>> \/ SetCopyPosition(p))
    BY <1>2 DEF MoveCursor
  <2>2. Placed(p)
    <3>0. position \in 0..Size /\ Size \in Nat
      BY InvFacts
    <3>1. CASE key = "RIGHT"
      <4>1. position < Size /\ p = RightTarget(alt)
        BY <1>2, <3>0, <3>1 DEF AtEdge
      <4> HIDE DEF p
      <4> QED
        BY <4>1, RightTargetPlaced
    <3>2. CASE key = "LEFT"
      <4>1. position > 0 /\ p = LeftTarget(alt)
        BY <1>2, <3>0, <3>2 DEF AtEdge
      <4> HIDE DEF p
      <4> QED
        BY <4>1, LeftTargetPlaced
    <3>3. CASE key = "HOME"
      <4>1. p = [byte |-> 0, utf |-> 0]
        BY <3>3
      <4> HIDE DEF p
      <4>2. Place(currentText, 0, 0)
        BY InvFacts, EndPlaces
      <4>3. p.byte = 0 /\ p.utf = 0
        BY <4>1
      <4> QED
        BY <4>2, <4>3 DEF Placed
    <3>4. CASE key = "END"
      <4>1. p = At(Size)
        BY <3>4
      <4>2. Edge(currentText, Size)
        BY InvFacts, FirstEdge
      <4> HIDE DEF p
      <4> QED
        BY <4>1, <4>2, AtPlaced
    <3> QED
      BY <1>2, <3>1, <3>2, <3>3, <3>4 DEF Keys
  <2> HIDE DEF p
  <2> QED
    BY <2>1, <2>2
<1> QED
  BY <1>1, <1>2 DEF KeyPressed

LEMMA KeyPressedInv ==
  ASSUME TextAssumption, TextInv, NEW key \in Keys, NEW pressed \in BOOLEAN,
         NEW shift \in BOOLEAN, NEW alt \in BOOLEAN, KeyPressed(key, pressed, shift, alt)
  PROVE  TextInv'
<1>1. UNCHANGED <<enabled, currentText, ignoreNextHideKeyboard, useGameActivityTextInput,
                 sentText, wildErase>>
      /\ shiftPressed' = shift /\ altPressed' = alt
  BY DEF KeyPressed
<1>2. CASE Stay
  <2>1. FlagsTyped'
    BY <1>1, <1>2 DEF TextInv, FlagsTyped, Stay
  <2> QED
    BY <1>1, <1>2, <2>1, StepStays DEF Stay
<1>3. ASSUME NEW p, Placed(p), Moved(p),
             UNCHANGED <<copyPosition, copyPositionUTF>> \/ SetCopyPosition(p)
      PROVE  TextInv'
  <2>1. /\ position' = p.byte /\ positionUTF' = p.utf /\ sentCaret' \in {sentCaret, p.utf}
        /\ writer' = "user"
        /\ \/ UNCHANGED <<copyPosition, copyPositionUTF>>
           \/ copyPosition' = p.byte /\ copyPositionUTF' = p.utf
    BY <1>3 DEF Moved, SetPosition, SetCopyPosition, caretPositionCallback
  <2>2. FlagsTyped'
    BY <1>1, <2>1 DEF TextInv, FlagsTyped
  <2>3. /\ Place(currentText, position', positionUTF') /\ sentCaret' \in {sentCaret, positionUTF'}
        /\ \/ UNCHANGED <<copyPosition, copyPositionUTF>>
           \/ Place(currentText, copyPosition', copyPositionUTF')
    BY <1>3, <2>1 DEF Placed
  <2> QED
    BY <1>1, <2>2, <2>3, StepInText
<1> QED
  BY <1>2, <1>3, MovesToPlace

-----------------------------------------------------------------------------
LEMMA NextInv ==
  ASSUME TextAssumption, TextsWhole, ~WideAlt, TextInv, [Next]_vars
  PROVE  TextInv'
<1>1. ASSUME NEW text \in Texts, ShowKeyboard(text) PROVE TextInv'
  BY <1>1, ShowKeyboardInv
<1>2. ASSUME NEW text \in Texts, UpdateTextboxText(text) PROVE TextInv'
  BY <1>2, UpdateTextboxTextInv
<1>3. ASSUME NEW text \in Texts, NEW pos \in 0..getLength(text, Len(text)),
             SetState(text, pos)
      PROVE  TextInv'
  BY <1>3, SetStateInv
<1>4. CASE HideKeyboard
  BY <1>4, HideKeyboardInv
<1>5. CASE GetCursorPosition
  BY <1>5, GetCursorPositionInv
<1>6. ASSUME NEW pos \in -1..getLength(currentText, Size), SetCaretPosition(pos)
      PROVE  TextInv'
  BY <1>6, SetCaretPositionInv
<1>7. CASE TextInput
  BY <1>7, TextInputInv
<1>8. ASSUME NEW key \in Keys, NEW pressed \in BOOLEAN, NEW shift \in BOOLEAN,
             NEW alt \in BOOLEAN, KeyPressed(key, pressed, shift, alt)
      PROVE  TextInv'
  BY <1>8, KeyPressedInv
<1>9. CASE UNCHANGED vars
  <2>1. FlagsTyped' /\ UNCHANGED <<currentText, sentText, wildErase, positionVars, sentCaret>>
    BY <1>9 DEF vars, TextInv, FlagsTyped
  <2> QED
    BY <2>1, StepStays
<1>10. CASE ConnectTextInput
  BY <1>10, ConnectTextInputInv
<1> QED
  BY <1>1, <1>2, <1>3, <1>4, <1>5, <1>6, <1>7, <1>8, <1>9, <1>10, Zenon DEF Next

(* If the keyboard and the game send whole characters, and Alt+backspace is *)
(* pressed only on texts of one byte to a character, the field holds whole  *)
(* characters, both ends of the selection stay places between two of them,  *)
(* and no erase starts before the text.                                     *)
THEOREM Invariance ==
  ASSUME TextsWhole, ~WideAlt
  PROVE  Spec => []TextInv
<1>1. TextInv /\ [Next]_vars => TextInv'
  BY TextAssumption, NextInv
<1> QED
  BY <1>1, TextAssumption, InitInv, PTL DEF Spec

(* Neither unit of an offset leaves the text or wraps around size_t.        *)
THEOREM TypeCorrect ==
  ASSUME TextsWhole, ~WideAlt
  PROVE  Spec => []TypeOK
<1>1. ASSUME TextInv PROVE TypeOK
  <2>1. /\ position \in 0..Size /\ copyPosition \in 0..Size
        /\ positionUTF \in 0..Size /\ copyPositionUTF \in 0..Size
        /\ currentText \in Seq(Bytes)
    BY <1>1, TextAssumption, InvFacts
  <2>2. /\ FlagsTyped /\ ToldTyped /\ wildErase \in BOOLEAN
    BY <1>1 DEF TextInv
  <2> QED
    BY <2>1, <2>2 DEF TypeOK, FlagsTyped, ToldTyped
<1> QED
  BY <1>1, Invariance, PTL

(* The two units the handlers keep of the cursor and of the other end of    *)
(* the selection denote the same place: what setCursorPosition, the arrow   *)
(* keys and the edits store beside each other, UTF8Util converts into each  *)
(* other.                                                                   *)
THEOREM PlacesAgree ==
  ASSUME TextsWhole, ~WideAlt
  PROVE  Spec => []PositionsAgree
<1>1. ASSUME TextInv PROVE PositionsAgree
  <2>1. currentText \in Seq(Bytes) /\ WholeCharacters(currentText)
    BY <1>1 DEF TextInv, TextIs
  <2>2. /\ Place(currentText, position, positionUTF)
        /\ Place(currentText, copyPosition, copyPositionUTF)
    BY <1>1 DEF TextInv, CursorPlaced, AnchorPlaced
  <2> QED
    BY <2>1, <2>2, PlaceFacts DEF PositionsAgree
<1> QED
  BY <1>1, Invariance, PTL

(* Backspace erases from inside the text.                                   *)
THEOREM EraseInText ==
  ASSUME TextsWhole, ~WideAlt
  PROVE  Spec => []DeleteStartInText
<1>1. TextInv => DeleteStartInText
  BY DEF TextInv, DeleteStartInText
<1> QED
  BY <1>1, Invariance, PTL

-----------------------------------------------------------------------------
(* While the text field of a game the callbacks tell is open, the game      *)
(* knows the text, and the cursor if it was told one: every handler that    *)
(* changes either calls the callbacks.  This holds of any texts.            *)
THEOREM GameTold == Spec => []GameFollows
<1>1. Init => GameFollows
  BY DEF Init, GameFollows
<1>2. ASSUME GameFollows, [Next]_vars PROVE GameFollows'
  <2>1. ASSUME NEW text, update(text), UNCHANGED useGameActivityTextInput
        PROVE  GameFollows'
    BY <2>1 DEF GameFollows, update, Known
  <2>2. CASE HideKeyboard
    BY <1>2, <2>2 DEF HideKeyboard, disable, GameFollows, Known, positionVars
  <2>3. CASE GetCursorPosition
    BY <1>2, <2>3 DEF GetCursorPosition, GameFollows, Known, positionVars
  <2>4. ASSUME NEW pos, SetCaretPosition(pos) PROVE GameFollows'
    BY <1>2, <2>4 DEF SetCaretPosition, GameFollows, SetPosition, caretPositionCallback
  <2>5. ASSUME NEW text, NEW pos, SetState(text, pos) PROVE GameFollows'
    BY <2>5 DEF SetState, GameFollows, SetPosition, caretPositionCallback
  <2>6. ASSUME NEW text, NEW p, Edited(text, p),
               UNCHANGED <<enabled, useGameActivityTextInput>>
        PROVE  GameFollows'
    BY <2>6 DEF Edited, GameFollows, SetPosition, textUpdateCallback, caretPositionCallback
  <2>7. CASE TextInput
    <3>1. ASSUME ~enabled PROVE GameFollows'
      BY <2>7, <3>1 DEF TextInput, GameFollows
    <3>2. CASE Backspace
      <4>1. ASSUME EraseBeforeText PROVE GameFollows'
        BY <1>2, <2>7, <4>1 DEF TextInput, EraseBeforeText, GameFollows, positionVars
      <4> QED
        BY <2>6, <2>7, <3>2, <4>1 DEF Backspace, TextInput
    <3>3. CASE Delete
      BY <2>6, <2>7, <3>3 DEF Delete, TextInput
    <3>4. ASSUME NEW x \in Characters, Insert(x) PROVE GameFollows'
      BY <2>6, <2>7, <3>4 DEF Insert, TextInput
    <3> QED
      BY <2>7, <3>1, <3>2, <3>3, <3>4 DEF TextInput
  <2>8. ASSUME NEW key, NEW pressed, NEW shift, NEW alt, KeyPressed(key, pressed, shift, alt)
        PROVE  GameFollows'
    <3>1. ASSUME Stay PROVE GameFollows'
      BY <1>2, <2>8, <3>1 DEF KeyPressed, Stay, GameFollows, positionVars
    <3>2. ASSUME NEW p, Moved(p) PROVE GameFollows'
      BY <1>2, <2>8, <3>2 DEF KeyPressed, Moved, GameFollows, SetPosition, caretPositionCallback
    <3>3. ASSUME Collapse(key) PROVE GameFollows'
      BY <3>2, <3>3, Zenon DEF Collapse
    <3>4. ASSUME MoveCursor(key, shift, alt) PROVE GameFollows'
      BY <3>2, <3>4, Zenon DEF MoveCursor
    <3> QED
      BY <2>8, <3>1, <3>3, <3>4 DEF KeyPressed
  <2>9. CASE UNCHANGED vars
    BY <1>2, <2>9 DEF vars, GameFollows, positionVars
  <2>10. CASE ConnectTextInput
    BY <2>10 DEF ConnectTextInput, GameFollows
  <2> QED
    BY <1>2, <2>10, <2>1, <2>2, <2>3, <2>4, <2>5, <2>7, <2>8, <2>9
       DEF Next, ShowKeyboard, UpdateTextboxText
<1> QED
  BY <1>1, <1>2, PTL DEF Spec

-----------------------------------------------------------------------------
(* The editor TextInputHandler promises.                                    *)
LEMMA PiecesOfConcat ==
  ASSUME NEW a \in Seq(Bytes), NEW b \in Seq(Bytes)
  PROVE  /\ SubSeq(a \o b, 1, Len(a)) = a
         /\ SubSeq(a \o b, Len(a) + 1, Len(a \o b)) = b
<1> DEFINE c == a \o b
           x == SubSeq(c, 1, Len(a))
           y == SubSeq(c, Len(a) + 1, Len(c))
<1>0. Len(a) \in Nat /\ Len(b) \in Nat
  OBVIOUS
<1>1. /\ c \in Seq(Bytes) /\ Len(c) = Len(a) + Len(b)
      /\ \A k \in 1..Len(a) + Len(b) : c[k] = IF k <= Len(a) THEN a[k] ELSE b[k - Len(a)]
  BY ConcatProperties
<1> HIDE DEF c
<1>2. Len(a) \in 0..Len(c)
  BY <1>0, <1>1
<1>3. /\ x \in Seq(Bytes) /\ Len(x) = Len(a) /\ \A i \in 1..Len(a) : x[i] = c[i]
      /\ y \in Seq(Bytes) /\ Len(y) = Len(c) - Len(a)
      /\ \A i \in 1..(Len(c) - Len(a)) : y[i] = c[Len(a) + i]
  BY <1>1, <1>2, Pieces
<1> HIDE DEF x, y
<1>4. ASSUME NEW i \in 1..Len(a) PROVE x[i] = a[i]
  BY <1>0, <1>1, <1>3
<1>5. ASSUME NEW i \in 1..Len(b) PROVE y[i] = b[i]
  <2>1. /\ i \in 1..(Len(c) - Len(a)) /\ Len(a) + i \in 1..Len(a) + Len(b)
        /\ ~(Len(a) + i <= Len(a)) /\ (Len(a) + i) - Len(a) = i
    BY <1>0, <1>1
  <2> QED
    BY <1>1, <1>3, <2>1
<1>6. x = a
  BY <1>3, <1>4, SeqEqual
<1>7. y = b
  <2>1. Len(y) = Len(b)
    BY <1>0, <1>1, <1>3
  <2> QED
    BY <1>3, <1>5, <2>1, SeqEqual
<1> QED
  BY <1>6, <1>7 DEF x, y, c

LEMMA EdgeIsBetween ==
  ASSUME NEW s \in Seq(Bytes), WholeCharacters(s), NEW p, NEW u, Place(s, p, u)
  PROVE  Editor!Between(s, p)
<1>1. Edge(s, p) /\ p \in 0..Len(s)
  BY DEF Place, Edge
<1>2. WholeCharacters(SubSeq(s, 1, p)) /\ WholeCharacters(SubSeq(s, p + 1, Len(s)))
  BY <1>1, WholePrefix, WholeSuffix
<1> QED
  BY <1>1, <1>2 DEF Editor!Between, Editor!Before, Editor!Behind

LEMMA PrimedBetween ==
  ASSUME TextInv'
  PROVE  Editor!Between(currentText', position') /\ Editor!Between(currentText', copyPosition')
<1>1. /\ currentText' \in Seq(Bytes) /\ WholeCharacters(currentText')
      /\ Place(currentText', position', positionUTF')
      /\ Place(currentText', copyPosition', copyPositionUTF')
  BY DEF TextInv, TextIs, CursorPlaced, AnchorPlaced
<1> QED
  BY <1>1, EdgeIsBetween

(* Each handler is an operation of the editor, or nothing to it.            *)
LEMMA LoadRefines ==
  ASSUME NEW text, update(text)
  PROVE  Editor!Load
BY DEF update, SetPosition, SetCopyPosition, Editor!Load

LEMMA SetStateRefines ==
  ASSUME NEW text, NEW pos, SetState(text, pos)
  PROVE  Editor!Load
<1>1. CursorTarget(text, -1).byte = Len(text)
  BY DEF CursorTarget
<1> QED
  BY <1>1 DEF SetState, SetPosition, SetCopyPosition, Editor!Load

LEMMA MoveRefines ==
  ASSUME NEW p, position' = p.byte, writer' = "user", currentText' = currentText,
         UNCHANGED <<copyPosition, copyPositionUTF>> \/ SetCopyPosition(p)
  PROVE  Editor!Move
BY DEF SetCopyPosition, Editor!Move

LEMMA BackspaceRefines ==
  ASSUME TextAssumption, TextInv, altPressed => OneByteCharacters, Backspace
  PROVE  Editor!Edit
<1>1. PICK first \in 0..(position - 1) :
        Edited(Erase(first, position),
               [byte |-> first, utf |-> getLength(currentText, first)])
  BY BackspaceErases
<1>2. /\ currentText' = Erase(first, position) /\ position' = first
      /\ copyPosition' = first /\ writer' = "user"
  BY <1>1 DEF Edited, SetPosition, SetCopyPosition
<1>3. position' < position
  BY <1>2, InvFacts
<1>4. Editor!EraseLeft
  BY <1>2, <1>3 DEF Erase, Size, Editor!EraseLeft, Editor!Before, Editor!Behind
<1> QED
  BY <1>2, <1>4 DEF Editor!Edit

LEMMA DeleteRefines ==
  ASSUME TextAssumption, TextInv, Delete
  PROVE  Editor!Edit
<1>1. PICK last \in (position + 1)..Size :
        Edited(Erase(position, last), [byte |-> position, utf |-> positionUTF])
  BY DeleteErases
<1>2. /\ currentText' = Erase(position, last) /\ position' = position
      /\ copyPosition' = position /\ writer' = "user"
  BY <1>1 DEF Edited, SetPosition, SetCopyPosition
<1>3. Editor!EraseRight
  BY <1>2 DEF Erase, Size, Editor!EraseRight, Editor!Before, Editor!Behind
<1> QED
  BY <1>2, <1>3 DEF Editor!Edit

LEMMA InsertRefines ==
  ASSUME TextAssumption, TextInv, NEW x \in Characters, Insert(x)
  PROVE  Editor!Edit
<1> DEFINE a == SubSeq(currentText, 1, position)
           b == SubSeq(currentText, position + 1, Size)
           t == a \o x \o b
<1>0. /\ currentText \in Seq(Bytes) /\ position \in 0..Size /\ Size = Len(currentText)
      /\ x \in Seq(Bytes) /\ Len(x) \in Nat /\ position \in Nat
  <2>1. currentText \in Seq(Bytes) /\ position \in 0..Size /\ Size = Len(currentText)
    BY InvFacts
  <2>2. x \in Seq(Bytes)
    BY DEF TextAssumption
  <2> QED
    BY <2>1, <2>2
<1>1. a \in Seq(Bytes) /\ Len(a) = position /\ b \in Seq(Bytes)
  BY <1>0, Pieces
<1>2. /\ currentText' = t /\ position' = position + Len(x)
      /\ copyPosition' = position + Len(x) /\ writer' = "user"
  BY DEF Insert, Edited, SetPosition, SetCopyPosition
<1> HIDE DEF a, b
<1>3. SubSeq(t, 1, position) = a
  <2>1. x \o b \in Seq(Bytes) /\ t = a \o (x \o b)
    <3>1. x \o b \in Seq(Bytes)
      BY <1>0, <1>1, ConcatProperties
    <3>2. (a \o x) \o b = a \o (x \o b)
      <4>1. a \in Seq(Bytes) /\ x \in Seq(Bytes) /\ b \in Seq(Bytes)
        BY <1>0, <1>1
      <4> QED
        BY <4>1, ConcatAssociative
    <3> QED
      BY <3>1, <3>2
  <2>2. SubSeq(a \o (x \o b), 1, Len(a)) = a
    BY <1>1, <2>1, PiecesOfConcat
  <2> HIDE DEF t
  <2> QED
    BY <1>1, <2>1, <2>2
<1>4. SubSeq(t, position + Len(x) + 1, Len(t)) = b
  <2> DEFINE c == a \o x
  <2>1. c \in Seq(Bytes) /\ Len(c) = position + Len(x)
    BY <1>0, <1>1, ConcatProperties
  <2>2. SubSeq(c \o b, Len(c) + 1, Len(c \o b)) = b
    <3> HIDE DEF c
    <3> QED
      BY <1>1, <2>1, PiecesOfConcat
  <2> QED
    BY <2>1, <2>2
<1> HIDE DEF t
<1>5. Editor!Type
  <2>1. position' >= position
    BY <1>0, <1>2
  <2>2. Editor!Before(currentText', position) = Editor!Before(currentText, position)
    BY <1>2, <1>3 DEF a, Editor!Before
  <2>3. Editor!Behind(currentText', position') = Editor!Behind(currentText, position)
    BY <1>0, <1>2, <1>4 DEF b, Editor!Behind
  <2> QED
    BY <2>1, <2>2, <2>3 DEF Editor!Type
<1> QED
  BY <1>2, <1>5 DEF Editor!Edit

LEMMA NextRefines ==
  ASSUME TextAssumption, TextsWhole, ~WideAlt, TextInv, Next
  PROVE  [Editor!Next]_(Editor!vars)
<1> DEFINE Stutter == UNCHANGED <<currentText, position, copyPosition, writer>>
<1>1. TextInv'
  BY NextInv
<1>2. ASSUME Editor!Load \/ Editor!Edit \/ Editor!Move PROVE Editor!Next
  BY <1>1, <1>2, PrimedBetween DEF Editor!Next
<1>3. ASSUME Stutter PROVE UNCHANGED Editor!vars
  BY <1>3 DEF Editor!vars
<1>4. ASSUME NEW text \in Texts, ShowKeyboard(text) \/ UpdateTextboxText(text)
      PROVE  Editor!Load
  BY <1>4, LoadRefines DEF ShowKeyboard, UpdateTextboxText
<1>5. ASSUME NEW text, NEW pos, SetState(text, pos) PROVE Editor!Load
  BY <1>5, SetStateRefines
<1>6. ASSUME HideKeyboard PROVE Editor!Load \/ Stutter
  BY <1>6 DEF HideKeyboard, disable, Editor!Load, positionVars
<1>7. ASSUME GetCursorPosition PROVE Stutter
  BY <1>7 DEF GetCursorPosition, positionVars
<1>8. ASSUME NEW pos, SetCaretPosition(pos) PROVE Editor!Move
  <2> DEFINE p == CursorTarget(currentText, pos)
  <2>1. /\ position' = p.byte /\ writer' = "user" /\ currentText' = currentText
        /\ UNCHANGED <<copyPosition, copyPositionUTF>> \/ SetCopyPosition(p)
    BY <1>8 DEF SetCaretPosition, SetPosition
  <2> HIDE DEF p
  <2> QED
    BY <2>1, MoveRefines
<1>9. ASSUME TextInput PROVE Editor!Edit \/ Stutter
  <2>1. ASSUME UNCHANGED <<currentText, positionVars, sentCaret, writer, wildErase>>
        PROVE  Stutter
    BY <2>1 DEF positionVars
  <2>2. ASSUME altPressed => WideAlt \/ OneByteCharacters, Backspace PROVE Editor!Edit
    BY <2>2, BackspaceRefines
  <2>3. ASSUME Delete PROVE Editor!Edit
    BY <2>3, DeleteRefines
  <2>4. ASSUME NEW x \in Characters, Insert(x) PROVE Editor!Edit
    BY <2>4, InsertRefines
  <2> QED
    BY <1>9, <2>1, <2>2, <2>3, <2>4 DEF TextInput
<1>10. ASSUME NEW key \in Keys, NEW pressed \in BOOLEAN, NEW shift \in BOOLEAN,
              NEW alt \in BOOLEAN, KeyPressed(key, pressed, shift, alt)
       PROVE  Editor!Move \/ Stutter
  <2>1. currentText' = currentText
    BY <1>10 DEF KeyPressed
  <2>2. ASSUME Stay PROVE Stutter
    BY <2>1, <2>2 DEF Stay, positionVars
  <2>3. ASSUME NEW p, Moved(p),
               UNCHANGED <<copyPosition, copyPositionUTF>> \/ SetCopyPosition(p)
        PROVE  Editor!Move
    <3>1. position' = p.byte /\ writer' = "user"
      BY <2>3 DEF Moved, SetPosition
    <3> QED
      BY <2>1, <2>3, <3>1, MoveRefines
  <2> QED
    BY <1>10, <2>2, <2>3, MovesToPlace
<1>11. ASSUME ConnectTextInput PROVE Stutter
  BY <1>11 DEF ConnectTextInput, positionVars
<1> HIDE DEF Stutter
<1> QED
  BY <1>2, <1>3, <1>4, <1>5, <1>6, <1>7, <1>8, <1>9, <1>10, <1>11, Zenon DEF Next

(* TextInputHandler implements the editor: the text is never cut inside a   *)
(* character, the user's edits touch only what is beside the caret, the     *)
(* caret and the other end of the selection stay between two characters,    *)
(* and only the game replaces the text.                                     *)
THEOREM EditorImplemented ==
  ASSUME TextsWhole, ~WideAlt
  PROVE  Spec => EditorSpec
<1>1. Init => Editor!Init
  BY DEF Init, Editor!Init
<1>2. TextInv /\ [Next]_vars => [Editor!Next]_(Editor!vars)
  <2>1. ASSUME UNCHANGED vars PROVE UNCHANGED Editor!vars
    BY <2>1 DEF vars, positionVars, Editor!vars
  <2> QED
    BY <2>1, TextAssumption, NextRefines
<1> QED
  BY <1>1, <1>2, Invariance, PTL DEF Spec, EditorSpec, Editor!Spec

=============================================================================
