------------------------- MODULE TurnContextProofs -------------------------
(***************************************************************************)
(* Proofs about the context engine, for every set of runs and topics,      *)
(* every registration of extensions, every size of the windows and of the  *)
(* recall, and any number of runs inside the engine at once.               *)
(***************************************************************************)
EXTENDS TurnContext, FiniteSetTheorems, SequenceTheorems, TLAPS

(* The states of a run and the facts it has told. *)

Windows  == {s \in Seq(Messages) : Len(s) <= Window}
Frames   == {s \in Seq(Messages) : Len(s) <= Longest}
Working  == {s \in Seq(Runs) : Len(s) <= L1Turns}
Recalls  == {s \in Seq(Items) : Len(s) <= TopN}
Found    == {s \in SUBSET Items : IsFiniteSet(s)}
Subjects == Seq(Verdict)

RunStates == [pc : Points, query : {"input", "rewritten"}, embedded : BOOLEAN, warm : BOOLEAN,
              items : Found, alike : Likenesses \cup {{}}, recalled : Recalls, frame : Frames, pending : Nat,
              previous : Verdict, verdict : Verdict]
Facts     == [asked : Nat, answered : Nat, failed : Nat, shift : Subjects, archived : Subjects]

Types ==
  /\ setup \in Setups /\ topic \in Verdict /\ truth \subseteq Runs
  /\ window \in Windows /\ l1 \in Working /\ l2 \subseteq Runs /\ IsFiniteSet(l2)
  /\ run \in [Runs -> RunStates] /\ jobs \subseteq Runs
  /\ told \in [Runs -> Facts] /\ failed \in [Runs -> Nat]
  /\ log \in Seq(Messages) /\ kept \in [Runs -> SUBSET Runs]

-----------------------------------------------------------------------------
(* The operators on sequences *)

LEMMA RangeType ==
  ASSUME NEW S, NEW s \in Seq(S)
  PROVE  /\ Range(s) \subseteq S /\ IsFiniteSet(Range(s))
         /\ \A x : x \in Range(s) <=> \E i \in 1..Len(s) : s[i] = x
<1>1. DOMAIN s = 1..Len(s) /\ Len(s) \in Nat /\ \A i \in 1..Len(s) : s[i] \in S
  BY LenProperties, ElementOfSeq
<1>2. \A x : x \in Range(s) <=> \E i \in 1..Len(s) : s[i] = x
  BY <1>1 DEF Range
<1>3. IsFiniteSet({s[i] : i \in 1..Len(s)})
  <2>1. IsFiniteSet(1..Len(s))
    BY <1>1, FS_Interval
  <2>2. s \in Surjection(1..Len(s), Range(s))
    BY <1>1, <1>2 DEF Surjection
  <2>3. IsFiniteSet(Range(s))
    BY <2>1, <2>2, FS_Surjection
  <2>4. Range(s) = {s[i] : i \in 1..Len(s)}
    BY <1>1 DEF Range
  <2>. QED
    BY <2>3, <2>4
<1>. QED
  BY <1>1, <1>2, <1>3 DEF Range

(* What is left when the excess is drained from the front. *)
LEMMA NewestType ==
  ASSUME NEW S, NEW s \in Seq(S), NEW n \in Nat
  PROVE  /\ Newest(s, n) \in Seq(S) /\ Len(Newest(s, n)) <= n
         /\ Range(Newest(s, n)) \subseteq Range(s)
<1>1. DOMAIN s = 1..Len(s) /\ Len(s) \in Nat /\ \A i \in 1..Len(s) : s[i] \in S
  BY LenProperties, ElementOfSeq
<1>. DEFINE a == IF Len(s) > n THEN Len(s) - n + 1 ELSE 1
<1>2. a \in Nat /\ a >= 1 /\ Newest(s, n) = SubSeq(s, a, Len(s)) /\ \A i \in a..Len(s) : s[i] \in S
  BY <1>1 DEF Newest
<1>3. IF a <= Len(s) THEN Len(s) - a + 1 <= n ELSE TRUE
  BY <1>1
<1>. HIDE DEF a
<1>4. /\ Newest(s, n) \in Seq(S)
      /\ Len(Newest(s, n)) = IF a <= Len(s) THEN Len(s) - a + 1 ELSE 0
      /\ \A i \in 1..(Len(s) - a + 1) : Newest(s, n)[i] = s[a + i - 1]
  BY <1>1, <1>2, SubSeqProperties, SMTT(30)
<1>5. ASSUME NEW x \in Range(Newest(s, n)) PROVE x \in Range(s)
  <2>1. PICK i \in 1..Len(Newest(s, n)) : Newest(s, n)[i] = x
    BY <1>4, <1>5, RangeType
  <2>2. i \in 1..(Len(s) - a + 1) /\ a + i - 1 \in 1..Len(s)
    BY <1>1, <1>2, <1>4, <2>1
  <2>. QED
    BY <1>1, <1>4, <2>1, <2>2, RangeType
<1>. QED
  BY <1>3, <1>4, <1>5

LEMMA Singleton ==
  ASSUME NEW S, NEW x \in S
  PROVE  <<x>> \in Seq(S) /\ Len(<<x>>) = 1 /\ Range(<<x>>) = {x}
<1>1. <<x>> \in Seq(S) /\ Len(<<x>>) = 1
  OBVIOUS
<1>2. \A y : y \in Range(<<x>>) <=> \E i \in 1..1 : <<x>>[i] = y
  BY <1>1, RangeType
<1>. QED
  BY <1>1, <1>2

-----------------------------------------------------------------------------
(* Every non-empty set of natural numbers has a least element. *)
LEMMA LeastElement ==
  ASSUME NEW T \in SUBSET Nat, T # {}
  PROVE  \E x \in T : \A y \in T : x <= y
<1>. DEFINE Upto(n) == 0..n
            I == {Upto(n) : n \in T}
            F == FiniteSubsetsOf(Nat)
            R == StrictSubsetOrdering(Nat)
<1>1. I \subseteq F
  <2>1. \A n \in T : Upto(n) \in SUBSET Nat /\ IsFiniteSet(Upto(n))
    BY FS_Interval
  <2>. QED
    BY <2>1 DEF FiniteSubsetsOf
<1>2. I # {}
  OBVIOUS
<1>3. IsWellFoundedOn(R, F)
  BY FS_StrictSubsetOrderingWellFounded
<1>4. PICK b \in I : \A c \in I : <<c, b>> \notin R
  <2>. HIDE DEF I, F, R
  <2>. QED
    BY <1>1, <1>2, <1>3, WFMin
<1>5. PICK x \in T : b = Upto(x)
  OBVIOUS
<1>6. ASSUME NEW y \in T, y < x PROVE FALSE
  <2>1. Upto(y) \in I /\ Upto(y) \in SUBSET Nat /\ b \in SUBSET Nat
    BY <1>5
  <2>2. Upto(y) \subseteq b /\ x \in b /\ x \notin Upto(y)
    BY <1>5, <1>6
  <2>3. <<Upto(y), b>> \in R
    BY <2>1, <2>2, Zenon DEF StrictSubsetOrdering
  <2>. QED
    BY <2>1, <2>3, <1>4
<1>. QED
  BY <1>6

(* Induction, stated over sets of numbers. *)
LEMMA SetInduction ==
  ASSUME NEW T \in SUBSET Nat, 0 \in T, \A n \in T : n + 1 \in T
  PROVE  T = Nat
<1>1. SUFFICES ASSUME Nat \ T # {} PROVE FALSE
  OBVIOUS
<1>2. PICK x \in Nat \ T : \A y \in Nat \ T : x <= y
  BY <1>1, LeastElement, Zenon
<1>. QED
  BY <1>2, x - 1 \in Nat, x - 1 \in T, (x - 1) + 1 = x

-----------------------------------------------------------------------------
(* Deduplication is well defined *)

Streams   == Seq(Items)
UpTo(n)   == {s \in Streams : Len(s) <= n}

(* One step of the recursion, over any function f. *)
Kept(alike, f, s) == IF s = <<>> THEN <<>>
              ELSE IF \E k \in Range(f[Front(s)]) : Alike(alike, k, Last(s)) THEN f[Front(s)]
              ELSE Append(f[Front(s)], Last(s))

Solves(alike, f, n) == f \in [UpTo(n) -> Streams] /\ \A s \in UpTo(n) : f[s] = Kept(alike, f, s)

LEMMA FrontType ==
  ASSUME NEW s \in Streams, s # <<>>
  PROVE  Front(s) \in Streams /\ Len(Front(s)) = Len(s) - 1 /\ Last(s) \in Items
         /\ Len(s) \in Nat \ {0} /\ s = Append(Front(s), Last(s))
<1>1. Len(s) \in Nat \ {0} /\ Last(s) \in Items
  BY DEF Streams, Last
<1>2. Front(s) \in Streams /\ Len(Front(s)) = Len(s) - 1
      /\ \A i \in 1..(Len(s) - 1) : Front(s)[i] = s[i]
  <2>. DEFINE n == Len(s) - 1
  <2>1. n \in Nat /\ Front(s) = SubSeq(s, 1, n) /\ \A i \in 1..n : s[i] \in Items
    BY <1>1 DEF Streams, Front
  <2>. HIDE DEF n
  <2>2. /\ SubSeq(s, 1, n) \in Seq(Items)
        /\ Len(SubSeq(s, 1, n)) = IF 1 <= n THEN n - 1 + 1 ELSE 0
        /\ \A i \in 1..(n - 1 + 1) : SubSeq(s, 1, n)[i] = s[1 + i - 1]
    BY <2>1, SubSeqProperties, SMTT(30)
  <2>3. Len(Front(s)) = n /\ \A i \in 1..n : Front(s)[i] = s[i]
    BY <2>1, <2>2
  <2>. QED
    BY <2>1, <2>2, <2>3 DEF n, Streams
<1>3. Append(Front(s), Last(s)) \in Streams /\ Len(Append(Front(s), Last(s))) = Len(s)
      /\ \A i \in 1..Len(s) : Append(Front(s), Last(s))[i] = s[i]
  BY <1>1, <1>2, AppendProperties DEF Streams, Last
<1>. QED
  BY <1>1, <1>2, <1>3, SeqEqual DEF Streams

LEMMA FrontAppend ==
  ASSUME NEW s \in Streams, NEW e \in Items
  PROVE  /\ Append(s, e) \in Streams /\ Append(s, e) # <<>>
         /\ Front(Append(s, e)) = s /\ Last(Append(s, e)) = e
<1>. DEFINE t == Append(s, e)
<1>1. /\ t \in Streams /\ Len(t) = Len(s) + 1 /\ t[Len(s) + 1] = e
      /\ \A i \in 1..Len(s) : t[i] = s[i]
  BY AppendProperties DEF Streams
<1>. HIDE DEF t
<1>2. t # <<>> /\ Last(t) = e
  BY <1>1 DEF Last, Streams
<1>3. Front(t) \in Streams /\ Len(Front(t)) = Len(s) /\ \A i \in 1..Len(s) : Front(t)[i] = s[i]
  BY <1>1 DEF Front, Streams
<1>4. Front(t) = s
  BY <1>3, SeqEqual DEF Streams
<1>. QED
  BY <1>1, <1>2, <1>4 DEF t

LEMMA ShorterFront ==
  ASSUME NEW n \in Nat, NEW s \in UpTo(n), s # <<>>
  PROVE  /\ s \in Streams /\ Front(s) \in Streams /\ Len(s) \in 1..n
         /\ Len(Front(s)) = Len(s) - 1 /\ Front(s) \in UpTo(n)
         /\ \A m \in Nat : n = m + 1 => Front(s) \in UpTo(m)
<1>1. s \in Streams /\ Len(s) <= n
  BY DEF UpTo
<1>2. Front(s) \in Streams /\ Len(Front(s)) = Len(s) - 1 /\ Len(s) \in Nat \ {0}
  BY <1>1, FrontType
<1>. QED
  BY <1>1, <1>2 DEF UpTo

LEMMA KeptType ==
  ASSUME NEW alike, NEW s \in Streams, NEW f, s # <<>> => f[Front(s)] \in Streams
  PROVE  Kept(alike, f, s) \in Streams
<1>1. CASE s = <<>>
  BY <1>1 DEF Kept, Streams
<1>2. CASE s # <<>> /\ ~(\E k \in Range(f[Front(s)]) : Alike(alike, k, Last(s)))
  <2>1. Last(s) \in Items
    BY <1>2, FrontType
  <2>. QED
    BY <1>2, <2>1, AppendProperties DEF Kept, Streams
<1>3. CASE s # <<>> /\ (\E k \in Range(f[Front(s)]) : Alike(alike, k, Last(s)))
  BY <1>3 DEF Kept
<1>. QED
  BY <1>1, <1>2, <1>3

LEMMA SolutionsExist ==
  ASSUME NEW alike
  PROVE  \A n \in Nat : \E f : Solves(alike, f, n)
<1>. DEFINE T == {n \in Nat : \E f : Solves(alike, f, n)}
<1>1. 0 \in T
  <2>1. \A s \in UpTo(0) : s = <<>>
    BY DEF UpTo, Streams
  <2>2. Solves(alike, [s \in UpTo(0) |-> <<>>], 0)
    BY <2>1 DEF Solves, Kept, Streams
  <2>. QED
    BY <2>2
<1>2. ASSUME NEW n \in T PROVE n + 1 \in T
  <2>1. PICK f : Solves(alike, f, n)
    OBVIOUS
  <2>. DEFINE g == [s \in UpTo(n + 1) |-> Kept(alike, f, s)]
  <2>2. ASSUME NEW s \in UpTo(n + 1), s # <<>> PROVE Front(s) \in UpTo(n)
    BY <2>2, ShorterFront
  <2>3. g \in [UpTo(n + 1) -> Streams]
    <3>1. ASSUME NEW s \in UpTo(n + 1) PROVE Kept(alike, f, s) \in Streams
      <4>1. s \in Streams
        BY DEF UpTo
      <4>2. s # <<>> => f[Front(s)] \in Streams
        BY <2>1, <2>2 DEF Solves
      <4>. QED
        BY <4>1, <4>2, KeptType
    <3>. QED
      BY <3>1
  <2>4. \A s \in UpTo(n) : s \in UpTo(n + 1) /\ g[s] = f[s]
    BY <2>1 DEF Solves, UpTo, Streams
  <2>5. ASSUME NEW s \in UpTo(n + 1) PROVE g[s] = Kept(alike, g, s)
    <3>1. s # <<>> => g[Front(s)] = f[Front(s)]
      BY <2>2, <2>4
    <3>2. g[s] = Kept(alike, f, s)
      OBVIOUS
    <3>. HIDE DEF g
    <3>. QED
      BY <3>1, <3>2 DEF Kept
  <2>. HIDE DEF g
  <2>6. Solves(alike, g, n + 1)
    BY <2>3, <2>5 DEF Solves
  <2>. QED
    BY <2>6
<1>. HIDE DEF T
<1>3. T \in SUBSET Nat
  BY DEF T
<1>4. T = Nat
  BY <1>1, <1>2, <1>3, SetInduction
<1>. QED
  BY <1>4 DEF T

LEMMA SolutionsAgree ==
  ASSUME NEW alike, NEW m \in Nat, NEW n \in Nat, NEW f, NEW g, Solves(alike, f, m), Solves(alike, g, n),
         NEW s \in UpTo(m), s \in UpTo(n)
  PROVE  f[s] = g[s]
<1>. DEFINE T == {k \in Nat : \A p \in Streams : Len(p) = k /\ p \in UpTo(m) /\ p \in UpTo(n) => f[p] = g[p]}
<1>1. 0 \in T
  <2>1. ASSUME NEW p \in Streams, Len(p) = 0, p \in UpTo(m), p \in UpTo(n) PROVE f[p] = g[p]
    <3>1. p = <<>>
      BY <2>1 DEF Streams
    <3>. QED
      BY <2>1, <3>1 DEF Solves, Kept
  <2>. QED
    BY <2>1
<1>2. ASSUME NEW k \in T PROVE k + 1 \in T
  <2>1. ASSUME NEW p \in Streams, Len(p) = k + 1, p \in UpTo(m), p \in UpTo(n)
        PROVE  f[p] = g[p]
    <3>1. p # <<>>
      BY <2>1
    <3>2. Front(p) \in Streams /\ Len(Front(p)) = k /\ Front(p) \in UpTo(m) /\ Front(p) \in UpTo(n)
      BY <2>1, <3>1, ShorterFront
    <3>3. f[Front(p)] = g[Front(p)]
      BY <3>2
    <3>. QED
      BY <2>1, <3>3 DEF Solves, Kept
  <2>. QED
    BY <2>1
<1>. HIDE DEF T
<1>3. T \in SUBSET Nat
  BY DEF T
<1>4. T = Nat
  BY <1>1, <1>2, <1>3, SetInduction
<1>. QED
  BY <1>4, Len(s) \in Nat DEF T, UpTo, Streams

(* The function that Deduped applies. *)
Deduper(alike) ==
  CHOOSE deduped : deduped = [s \in Seq(Items) |->
    IF s = <<>> THEN <<>>
    ELSE LET sofar == deduped[Front(s)]
         IN  IF \E k \in Range(sofar) : Alike(alike, k, Last(s))
               THEN sofar ELSE Append(sofar, Last(s))]

LEMMA DedupedDef ==
  ASSUME NEW alike
  PROVE  \A s \in Streams : /\ Deduped(alike, s) = Deduper(alike)[s]
                            /\ Deduper(alike)[s] = Kept(alike, Deduper(alike), s)
<1>. DEFINE Sol(n) == CHOOSE f : Solves(alike, f, n)
            F == [s \in Streams |-> Sol(Len(s))[s]]
<1>1. ASSUME NEW n \in Nat PROVE Solves(alike, Sol(n), n)
  BY SolutionsExist
<1>. HIDE DEF Sol
<1>2. ASSUME NEW s \in Streams PROVE F[s] = Kept(alike, F, s)
  <2>1. Len(s) \in Nat /\ s \in UpTo(Len(s))
    BY DEF UpTo, Streams
  <2>2. Solves(alike, Sol(Len(s)), Len(s))
    BY <1>1, <2>1
  <2>3. F[s] = Kept(alike, Sol(Len(s)), s)
    BY <2>1, <2>2 DEF Solves
  <2>4. CASE s = <<>>
    BY <2>3, <2>4 DEF Kept
  <2>5. CASE s # <<>>
    <3>1. Front(s) \in Streams /\ Len(Front(s)) \in Nat /\ Front(s) \in UpTo(Len(Front(s)))
          /\ Front(s) \in UpTo(Len(s))
      BY <2>5, FrontType DEF UpTo, Streams
    <3>2. Sol(Len(Front(s)))[Front(s)] = Sol(Len(s))[Front(s)]
      BY <2>1, <2>2, <1>1, <3>1, SolutionsAgree
    <3>3. F[Front(s)] = Sol(Len(s))[Front(s)]
      BY <3>1, <3>2
    <3>. QED
      BY <2>3, <3>3 DEF Kept
  <2>. QED
    BY <2>4, <2>5
<1>3. F = [s \in Streams |-> IF s = <<>> THEN <<>>
             ELSE LET sofar == F[Front(s)]
                  IN  IF \E k \in Range(sofar) : Alike(alike, k, Last(s))
                        THEN sofar ELSE Append(sofar, Last(s))]
  <2>. DEFINE G == [s \in Streams |-> Kept(alike, F, s)]
  <2>1. F = G
    BY <1>2
  <2>. QED
    BY <2>1, Zenon DEF Kept
<1>. HIDE DEF F
<1>4. Deduper(alike) = [s \in Streams |-> IF s = <<>> THEN <<>>
             ELSE LET sofar == Deduper(alike)[Front(s)]
                  IN  IF \E k \in Range(sofar) : Alike(alike, k, Last(s))
                        THEN sofar ELSE Append(sofar, Last(s))]
  BY <1>3, Zenon DEF Deduper, Streams
<1>5. \A s \in Streams : Deduper(alike)[s] = Kept(alike, Deduper(alike), s)
  BY <1>4, Zenon DEF Kept
<1>6. \A s : Deduped(alike, s) = Deduper(alike)[s]
  BY Zenon DEF Deduped, Deduper
<1>. QED
  BY <1>5, <1>6

(* What deduplication keeps: no two that are alike, and for every item that *)
(* is met one it is like, itself perhaps.                                   *)
Deduplicates(alike, d, s) ==
  /\ d \in Streams /\ Range(d) \subseteq Range(s)
  /\ \A x \in Range(s) : \E k \in Range(d) : Alike(alike, k, x)
  /\ \A i, j \in 1..Len(d) : i < j => ~Alike(alike, d[i], d[j])

LEMMA RangeAppend ==
  ASSUME NEW S, NEW s \in Seq(S), NEW e \in S
  PROVE  Range(Append(s, e)) = Range(s) \cup {e}
<1>. DEFINE t == Append(s, e)
<1>1. /\ t \in Seq(S) /\ Len(t) = Len(s) + 1 /\ t[Len(s) + 1] = e
      /\ \A i \in 1..Len(s) : t[i] = s[i]
  BY AppendProperties
<1>2. Len(s) \in Nat
  OBVIOUS
<1>. HIDE DEF t
<1>3. /\ \A x : x \in Range(t) <=> \E i \in 1..Len(t) : t[i] = x
      /\ \A x : x \in Range(s) <=> \E i \in 1..Len(s) : s[i] = x
  BY <1>1, RangeType
<1>4. ASSUME NEW x \in Range(t) PROVE x \in Range(s) \cup {e}
  <2>1. PICK i \in 1..Len(t) : t[i] = x
    BY <1>3, <1>4
  <2>. QED
    BY <1>1, <1>2, <1>3, <2>1
<1>5. e \in Range(t)
  <2>1. Len(s) + 1 \in 1..Len(t)
    BY <1>1, <1>2
  <2>. QED
    BY <1>1, <1>3, <2>1
<1>6. ASSUME NEW x \in Range(s) PROVE x \in Range(t)
  <2>1. PICK i \in 1..Len(s) : s[i] = x
    BY <1>3, <1>6
  <2>2. i \in 1..Len(t) /\ t[i] = x
    BY <1>1, <1>2, <2>1
  <2>. QED
    BY <1>3, <2>2
<1>. QED
  BY <1>4, <1>5, <1>6 DEF t

LEMMA DeduplicatesStep ==
  ASSUME NEW alike, NEW s \in Streams, NEW d, Deduplicates(alike, d, s), NEW e \in Items
  PROVE  Deduplicates(alike, IF \E k \in Range(d) : Alike(alike, k, e) THEN d ELSE Append(d, e),
                      Append(s, e))
<1>1. Range(Append(s, e)) = Range(s) \cup {e}
  BY RangeAppend DEF Streams
<1>2. CASE \E k \in Range(d) : Alike(alike, k, e)
  BY <1>1, <1>2 DEF Deduplicates
<1>3. CASE ~(\E k \in Range(d) : Alike(alike, k, e))
  <2>. DEFINE c == Append(d, e)
  <2>1. d \in Seq(Items) /\ Len(d) \in Nat
    BY DEF Deduplicates, Streams
  <2>2. Range(c) = Range(d) \cup {e}
    BY <2>1, RangeAppend
  <2>3. /\ c \in Seq(Items) /\ Len(c) = Len(d) + 1 /\ c[Len(d) + 1] = e
        /\ \A i \in 1..Len(d) : c[i] = d[i]
    BY <2>1, AppendProperties
  <2>. HIDE DEF c
  <2>4. ASSUME NEW i \in 1..Len(d) PROVE ~Alike(alike, c[i], e)
    <3>1. d[i] \in Range(d)
      BY <2>1, RangeType
    <3>. QED
      BY <1>3, <2>3, <3>1
  <2>5. ASSUME NEW i \in 1..Len(c), NEW j \in 1..Len(c), i < j PROVE ~Alike(alike, c[i], c[j])
    <3>1. CASE j \in 1..Len(d)
      <4>1. i \in 1..Len(d) /\ c[i] = d[i] /\ c[j] = d[j]
        BY <2>1, <2>3, <2>5, <3>1
      <4>2. ~Alike(alike, d[i], d[j])
        BY <2>5, <3>1, <4>1 DEF Deduplicates
      <4>. QED
        BY <4>1, <4>2
    <3>2. CASE j = Len(d) + 1
      <4>1. i \in 1..Len(d) /\ c[j] = e
        BY <2>1, <2>3, <2>5, <3>2
      <4>. QED
        BY <2>4, <4>1
    <3>. QED
      BY <2>1, <2>3, <3>1, <3>2
  <2>6. Deduplicates(alike, c, Append(s, e))
    <3>1. c \in Streams /\ Range(c) \subseteq Range(Append(s, e))
      BY <1>1, <2>2, <2>3 DEF Deduplicates, Streams
    <3>2. ASSUME NEW x \in Range(Append(s, e)) PROVE \E k \in Range(c) : Alike(alike, k, x)
      <4>1. CASE x \in Range(s)
        BY <2>2, <4>1 DEF Deduplicates
      <4>2. CASE x = e
        <5>1. e \in Range(c) /\ Alike(alike, e, e)
          BY <2>2 DEF Alike
        <5>. QED
          BY <4>2, <5>1
      <4>. QED
        BY <1>1, <4>1, <4>2
    <3>. QED
      BY <2>5, <3>1, <3>2 DEF Deduplicates
  <2>. QED
    BY <1>3, <2>6 DEF c
<1>. QED
  BY <1>2, <1>3

LEMMA DedupedKeeps ==
  ASSUME NEW alike
  PROVE  \A s \in Streams : Deduplicates(alike, Deduped(alike, s), s)
<1>. DEFINE T == {n \in Nat : \A s \in UpTo(n) : Deduplicates(alike, Deduped(alike, s), s)}
<1>0. Deduplicates(alike, Deduped(alike, <<>>), <<>>)
  <2>1. <<>> \in Streams /\ Len(<<>>) = 0
    BY DEF Streams
  <2>2. Deduped(alike, <<>>) = <<>>
    BY <2>1, DedupedDef DEF Kept
  <2>3. Range(<<>>) = {}
    <3>1. \A x : x \in Range(<<>>) <=> \E i \in 1..0 : <<>>[i] = x
      BY <2>1, RangeType DEF Streams
    <3>. QED
      BY <3>1
  <2>. QED
    BY <2>1, <2>2, <2>3 DEF Deduplicates
<1>1. 0 \in T
  <2>5. \A s \in UpTo(0) : s = <<>>
    BY DEF UpTo, Streams
  <2>. QED
    BY <1>0, <2>5, Zenon
<1>2. ASSUME NEW n \in T PROVE n + 1 \in T
  <2>1. ASSUME NEW s \in UpTo(n + 1) PROVE Deduplicates(alike, Deduped(alike, s), s)
    <3>1. CASE s = <<>>
      BY <1>0, <3>1
    <3>2. CASE s # <<>>
      <4>1. s \in Streams /\ Front(s) \in UpTo(n) /\ Front(s) \in Streams /\ Last(s) \in Items
            /\ s = Append(Front(s), Last(s))
        BY <3>2, ShorterFront, FrontType
      <4>2. Deduplicates(alike, Deduped(alike, Front(s)), Front(s))
        BY <4>1
      <4>3. Deduped(alike, s) = IF \E k \in Range(Deduped(alike, Front(s))) : Alike(alike, k, Last(s))
                           THEN Deduped(alike, Front(s)) ELSE Append(Deduped(alike, Front(s)), Last(s))
        BY <3>2, <4>1, DedupedDef DEF Kept
      <4>. DEFINE d == Deduped(alike, Front(s))
                  f == Front(s)
                  e == Last(s)
      <4>4. Deduplicates(alike, d, f) /\ f \in Streams /\ e \in Items
        BY <4>1, <4>2
      <4>5. Deduped(alike, s) = IF \E k \in Range(d) : Alike(alike, k, e) THEN d ELSE Append(d, e)
        BY <4>3
      <4>6. s = Append(f, e)
        BY <4>1
      <4>. HIDE DEF d, f, e
      <4>7. Deduplicates(alike, IF \E k \in Range(d) : Alike(alike, k, e) THEN d ELSE Append(d, e), Append(f, e))
        BY <4>4, DeduplicatesStep
      <4>. QED
        BY <4>5, <4>6, <4>7
    <3>. QED
      BY <3>1, <3>2
  <2>. QED
    BY <2>1
<1>. HIDE DEF T
<1>3. T = Nat
  BY <1>1, <1>2, SetInduction, T \in SUBSET Nat DEF T
<1>4. \A s \in Streams : Len(s) \in T /\ s \in UpTo(Len(s))
  BY <1>3 DEF UpTo, Streams
<1>. QED
  BY <1>4 DEF T

(* The ranked candidates are all the candidates. *)
LEMMA ScoredType ==
  ASSUME NEW items \in Found, NEW ranked \in Scored(items)
  PROVE  ranked \in Streams /\ Range(ranked) = items
<1>. DEFINE D == 1..Cardinality(items)
<1>1. IsFiniteSet(items) /\ items \subseteq Items /\ Cardinality(items) \in Nat
  BY FS_CardinalityType DEF Found
<1>2. ranked \in [D -> items] /\ \A i, j \in D : i # j => ranked[i] # ranked[j]
  BY DEF Scored, SetToSeqs
<1>3. IsFiniteSet(D) /\ Cardinality(D) = Cardinality(items)
  BY <1>1, FS_Interval
<1>. HIDE DEF D
<1>4. ranked \in Injection(D, items)
  BY <1>2 DEF Injection, IsInjective
<1>5. ranked \in Surjection(D, items)
  BY <1>1, <1>3, <1>4, FS_Injection
<1>6. Range(ranked) = items
  BY <1>2, <1>5 DEF Range, Surjection
<1>7. ranked \in Seq(Items)
  <2>1. ranked \in [1..Cardinality(items) -> Items]
    BY <1>1, <1>2 DEF D
  <2>. QED
    BY <1>1, <2>1
<1>. QED
  BY <1>6, <1>7 DEF Streams

(* What is shown of the candidates: no two that are alike, and of each the *)
(* candidate itself or one it is like, unless the recall is full.          *)
Complete(b, items, alike) ==
  /\ \A i, j \in 1..Len(b) : i < j => ~Alike(alike, b[i], b[j])
  /\ Len(b) < TopN => \A item \in items : \E k \in Range(b) : Alike(alike, k, item)

LEMMA BestRecall ==
  ASSUME NEW items \in Found, NEW ranked \in Scored(items), NEW alike
  PROVE  Best(alike, ranked) \in Recalls /\ Complete(Best(alike, ranked), items, alike)
<1>. DEFINE d == Deduped(alike, ranked)
            n == IF Len(d) < TopN THEN Len(d) ELSE TopN
            b == SubSeq(d, 1, n)
<1>1. ranked \in Streams /\ Range(ranked) = items
  BY ScoredType
<1>2. Deduplicates(alike, d, ranked)
  BY <1>1, DedupedKeeps
<1>3. Best(alike, ranked) = b
  BY DEF Best, Truncated
<1>. HIDE DEF d
<1>4. d \in Seq(Items) /\ Len(d) \in Nat /\ \A i \in 1..Len(d) : d[i] \in Items
  BY <1>2 DEF Deduplicates, Streams
<1>5. n \in Nat /\ n <= Len(d) /\ n <= TopN /\ (n # Len(d) => n = TopN)
  BY <1>4, ContextAssumption
<1>. HIDE DEF n
<1>6. /\ b \in Seq(Items)
      /\ Len(b) = IF 1 <= n THEN n - 1 + 1 ELSE 0
      /\ \A i \in 1..(n - 1 + 1) : b[i] = d[1 + i - 1]
  BY <1>4, <1>5, SubSeqProperties, SMTT(30)
<1>7. b \in Streams /\ Len(b) = n /\ \A i \in 1..n : b[i] = d[i]
  BY <1>5, <1>6 DEF Streams
<1>8. n = Len(d) => b = d
  BY <1>4, <1>7, SubSeqFull
<1>. HIDE DEF b
<1>9. \A i, j \in 1..Len(b) : i < j => ~Alike(alike, b[i], b[j])
  BY <1>2, <1>4, <1>5, <1>7 DEF Deduplicates
<1>10. Len(b) < TopN => \A item \in items : \E k \in Range(b) : Alike(alike, k, item)
  BY <1>1, <1>2, <1>5, <1>7, <1>8 DEF Deduplicates
<1>. QED
  BY <1>3, <1>5, <1>7, <1>9, <1>10 DEF Complete, Recalls, Streams

-----------------------------------------------------------------------------
(* Types *)

(* The facts and failures of the other runs are left alone. *)
OthersTold(r) == \A q \in Runs : q # r => told'[q] = told[q] /\ failed'[q] = failed[q]

LEMMA CountedFacts ==
  ASSUME Types, NEW r \in Runs, NEW fact \in {"asked", "answered", "failed"}, More(r, fact)
  PROVE  /\ told' \in [Runs -> Facts]
         /\ \A q \in Runs : q # r => told'[q] = told[q]
         /\ told'[r] = [told[r] EXCEPT ![fact] = @ + 1]
<1>1. told \in [Runs -> Facts] /\ told[r] \in Facts
  BY DEF Types
<1>2. told' = [told EXCEPT ![r] = [told[r] EXCEPT ![fact] = told[r][fact] + 1]]
  BY DEF More, Emit
<1>3. [told[r] EXCEPT ![fact] = told[r][fact] + 1] \in Facts
  BY <1>1 DEF Facts
<1>. QED
  BY <1>1, <1>2, <1>3

LEMMA FailureTypes ==
  ASSUME Types, NEW r \in Runs, Meets(r)
  PROVE  /\ failed' \in [Runs -> Nat] /\ failed'[r] = failed[r] + 1
         /\ \A q \in Runs : q # r => failed'[q] = failed[q]
  BY DEF Types, Meets

(* The three ways in which a failure is met, or none. *)
LEMMA FailsTypes ==
  ASSUME Types, NEW r \in Runs, NEW now \in BOOLEAN, Fails(r, now)
  PROVE  /\ told' \in [Runs -> Facts] /\ failed' \in [Runs -> Nat] /\ OthersTold(r)
         /\ failed'[r] = failed[r] + 1
         /\ now => told'[r] = [told[r] EXCEPT !.failed = @ + 1]
         /\ ~now => told'[r] = told[r]
<1>1. Meets(r)
  BY DEF Fails
<1>2. CASE now
  BY <1>1, <1>2, FailureTypes, CountedFacts DEF Fails, OthersTold
<1>3. CASE ~now
  BY <1>1, <1>3, FailureTypes DEF Fails, OthersTold, Types
<1>. QED
  BY <1>2, <1>3

LEMMA SmallFrames ==
  ASSUME Types, NEW r \in Runs
  PROVE  /\ Query(r) \in Messages /\ \A k \in Kinds : Message(r, k) \in Messages
         /\ <<>> \in Frames /\ <<Query(r)>> \in Frames /\ \A k \in Kinds : <<Message(r, k)>> \in Frames
         /\ run[r].frame \in Frames /\ Frame(r) \in Frames /\ Frame(r) # <<>>
<1>1. Query(r) \in Messages /\ \A k \in Kinds : Message(r, k) \in Messages
  BY DEF Types, RunStates, Query, Message, Messages, Kinds
<1>2. \A m \in Messages : <<m>> \in Frames
  BY ContextAssumption DEF Frames, Longest
<1>3. <<>> \in Frames /\ run[r].frame \in Frames
  BY ContextAssumption DEF Frames, Longest, Types, RunStates
<1>. QED
  BY <1>1, <1>2, <1>3 DEF Frame, Kinds

LEMMA BundledFrame ==
  ASSUME Types, NEW m \in Messages
  PROVE  Append(window, m) \in Frames
<1>1. window \in Seq(Messages) /\ Len(window) <= Window /\ Len(window) \in Nat /\ Window \in Nat
  BY ContextAssumption DEF Types, Windows
<1>. QED
  BY <1>1, ContextAssumption, AppendProperties DEF Frames, Longest

(* A foreign frame. *)
LEMMA ForeignFrame ==
  ASSUME Types, NEW r \in Runs, NEW frame \in ForeignFrames(r)
  PROVE  frame \in Frames
<1>1. {Query(r), Message(r, "note")} \subseteq Messages
  BY SmallFrames DEF Kinds
<1>2. frame \in Seq(Messages) /\ Len(frame) <= MaxForeign
  <2>1. PICK m \in 0..MaxForeign : frame \in [1..m -> {Query(r), Message(r, "note")}]
    BY DEF ForeignFrames, BoundedSeq, SeqOf
  <2>2. m \in Nat /\ frame \in [1..m -> Messages] /\ m <= MaxForeign
    BY <1>1, <2>1, ContextAssumption
  <2>. QED
    BY <2>2, ContextAssumption
<1>. QED
  BY <1>2, ContextAssumption DEF Frames, Longest

LEMMA EntriesType ==
  ASSUME NEW layer \in {"l1", "l2", "l3"}, NEW turns, turns \subseteq Runs \cup {Past}, IsFiniteSet(turns)
  PROVE  {[layer |-> layer, turn |-> t] : t \in turns} \in Found
<1>. DEFINE f == [t \in turns |-> [layer |-> layer, turn |-> t]]
            I == {[layer |-> layer, turn |-> t] : t \in turns}
<1>1. I \subseteq Items
  BY DEF Items
<1>2. f \in Surjection(turns, I)
  BY DEF Surjection
<1>. HIDE DEF f, I
<1>3. IsFiniteSet(I)
  BY <1>2, FS_Surjection
<1>. QED
  BY <1>1, <1>3 DEF Found, I

LEMMA FoundUnion ==
  ASSUME NEW a \in Found, NEW b \in Found
  PROVE  a \cup b \in Found /\ \A x : a \cup (b \ {x}) \in Found
<1>1. IsFiniteSet(a \cup b) /\ a \cup b \subseteq Items
  BY FS_Union DEF Found
<1>2. ASSUME NEW x PROVE a \cup (b \ {x}) \in Found
  <2>1. a \cup (b \ {x}) \in SUBSET (a \cup b)
    OBVIOUS
  <2>2. IsFiniteSet(a \cup (b \ {x}))
    BY <1>1, <2>1, FS_Subset
  <2>. QED
    BY <1>1, <2>1, <2>2 DEF Found
<1>. QED
  BY <1>1, <1>2 DEF Found

(* n failures met at once, and the facts left alone. *)
LEMMA FailsTimesTypes ==
  ASSUME Types, NEW r \in Runs, NEW n \in Nat, FailsTimes(r, n)
  PROVE  /\ told' \in [Runs -> Facts] /\ failed' \in [Runs -> Nat] /\ OthersTold(r)
         /\ failed'[r] = failed[r] + n /\ told'[r] = told[r]
  BY DEF Types, FailsTimes, OthersTold

(* A step of one run leaves the others as they are, but that their recall  *)
(* may lose sight of a turn.                                               *)
OthersKept(r) ==
  /\ OthersTold(r)
  /\ \A q \in Runs : q # r => run'[q] = run[q] /\ kept'[q] \subseteq kept[q]

ReadPhase(r) ==
  \/ Start(r) \/ Ask(r, "rewrite", "rewriting") \/ Rewrite(r)
  \/ AssembleBundled(r) \/ AssembleForeign(r)
  \/ EmbedQuery(r) \/ RecallFirst(r) \/ RecallSecond(r) \/ RecallL3(r) \/ Rank(r)
  \/ Ask(r, "enhance", "enhancing") \/ Enhance(r) \/ Report(r)

WritePhase(r) ==
  \/ Loop(r) \/ Detect(r) \/ SetTopic(r) \/ EmitShift(r)
  \/ Archive(r) \/ Spawn(r) \/ Background(r)

LEMMA NextSteps == Next <=> \E r \in Runs : ReadPhase(r) \/ WritePhase(r)
  BY DEF Next, ReadPhase, WritePhase

LEMMA RunExcept ==
  ASSUME Types, NEW r \in Runs, NEW rec \in RunStates, run' = [run EXCEPT ![r] = rec]
  PROVE  /\ run' \in [Runs -> RunStates] /\ run'[r] = rec
         /\ \A q \in Runs : q # r => run'[q] = run[q]
  BY DEF Types

LEMMA GoTypes ==
  ASSUME Types, NEW r \in Runs, NEW pc \in Points, Go(r, pc)
  PROVE  /\ run' \in [Runs -> RunStates] /\ run'[r] = [run[r] EXCEPT !.pc = pc]
         /\ \A q \in Runs : q # r => run'[q] = run[q]
<1>1. run' = [run EXCEPT ![r] = [run[r] EXCEPT !.pc = pc]]
  BY DEF Go
<1>2. [run[r] EXCEPT !.pc = pc] \in RunStates
  <2>. DEFINE o == run[r]
  <2>1. o \in RunStates
    BY DEF Types
  <2>. HIDE DEF o
  <2>2. [o EXCEPT !.pc = pc] \in RunStates
    BY <2>1 DEF RunStates
  <2>. QED
    BY <2>2 DEF o
<1>. QED
  BY <1>1, <1>2, RunExcept

LEMMA RestingType == Resting \in RunStates /\ [Resting EXCEPT !.pc = "done"] \in RunStates
<1>1. {} \in Found
  BY FS_EmptySet DEF Found
<1>2. <<>> \in Recalls /\ <<>> \in Frames
  BY ContextAssumption DEF Recalls, Frames, Longest
<1>3. NoTopic \in Verdict /\ "idle" \in Points /\ "done" \in Points
  BY DEF Verdict, Points
<1>. QED
  BY <1>1, <1>2, <1>3 DEF Resting, RunStates

LEMMA QuitTypes ==
  ASSUME Types, NEW r \in Runs, Quit(r)
  PROVE  /\ run' \in [Runs -> RunStates] /\ run'[r] = [Resting EXCEPT !.pc = "done"]
         /\ \A q \in Runs : q # r => run'[q] = run[q]
  BY RestingType, RunExcept DEF Quit

(* A reply is answered, or a failure is met, or both. *)
AnsweredWell(r) == Answered(r) /\ UNCHANGED failed
AnsweredIll(r)  == Fails(r, FALSE) \/ (Answered(r) /\ Meets(r))

LEMMA ReplyCases ==
  ASSUME NEW r \in Runs
  PROVE  /\ Rewrite(r) => \/ AnsweredWell(r) /\ Coreference(r)
                          \/ AnsweredIll(r) /\ RewriteFailed(r)
         /\ Enhance(r) => \/ AnsweredWell(r) /\ Folded(r)
                          \/ AnsweredIll(r) /\ Unfolded(r)
  BY DEF Rewrite, Enhance, Reply, AnsweredWell, AnsweredIll

LEMMA ReplyTypes ==
  ASSUME Types, NEW r \in Runs, AnsweredWell(r) \/ AnsweredIll(r)
  PROVE  /\ told' \in [Runs -> Facts] /\ failed' \in [Runs -> Nat] /\ OthersTold(r)
         /\ \E a \in {0, 1} : told'[r] = [told[r] EXCEPT !.answered = @ + a]
         /\ \/ AnsweredWell(r) /\ failed'[r] = failed[r]
            \/ AnsweredIll(r) /\ failed'[r] = failed[r] + 1
<1>1. told \in [Runs -> Facts] /\ told[r] \in Facts /\ failed \in [Runs -> Nat]
  BY DEF Types
<1>2. told[r] = [told[r] EXCEPT !.answered = @ + 0]
  BY <1>1 DEF Facts
<1>3. CASE AnsweredWell(r)
  BY <1>1, <1>3, CountedFacts DEF AnsweredWell, Answered, OthersTold
<1>4. CASE Fails(r, FALSE)
  <2>1. told' \in [Runs -> Facts] /\ failed' \in [Runs -> Nat] /\ OthersTold(r)
        /\ told'[r] = told[r] /\ failed'[r] = failed[r] + 1
    BY <1>4, FailsTypes
  <2>. QED
    BY <1>2, <1>4, <2>1 DEF AnsweredIll
<1>5. CASE Answered(r) /\ Meets(r)
  BY <1>5, CountedFacts, FailureTypes DEF AnsweredIll, Answered, OthersTold
<1>. QED
  BY <1>3, <1>4, <1>5 DEF AnsweredIll

(* The records a step makes of a run's. *)

LEMMA Pending ==
  ASSUME NEW o \in RunStates
  PROVE  o.pending \in Nat /\ o.pending + 0 = o.pending /\ \A n \in Nat : o.pending + n \in Nat
  BY DEF RunStates

LEMMA MovedRecord ==
  ASSUME NEW o \in RunStates, NEW pc \in Points
  PROVE  [o EXCEPT !.pc = pc] \in RunStates
  BY DEF RunStates

LEMMA CountedRecord ==
  ASSUME NEW f \in Facts
  PROVE  /\ [f EXCEPT !.asked = @ + 1] \in Facts /\ [f EXCEPT !.failed = @ + 1] \in Facts
         /\ \A a \in {0, 1} : [f EXCEPT !.answered = @ + a] \in Facts
<1>1. f.asked + 1 \in Nat /\ f.failed + 1 \in Nat /\ \A a \in {0, 1} : f.answered + a \in Nat
  BY DEF Facts
<1>2. \A m \in Nat : /\ [f EXCEPT !.asked = m] \in Facts /\ [f EXCEPT !.failed = m] \in Facts
                     /\ [f EXCEPT !.answered = m] \in Facts
  BY DEF Facts
<1>. QED
  BY <1>1, <1>2

LEMMA StateTypes ==
  ASSUME Types, NEW r \in Runs
  PROVE  /\ run \in [Runs -> RunStates] /\ run[r] \in RunStates
         /\ told \in [Runs -> Facts] /\ told[r] \in Facts
         /\ failed \in [Runs -> Nat] /\ failed[r] \in Nat
         /\ kept \in [Runs -> SUBSET Runs] /\ kept[r] \subseteq Runs
  BY DEF Types

LEMMA RewrittenRecord ==
  ASSUME NEW o \in RunStates, NEW query \in {"input", "rewritten"}
  PROVE  /\ \A n \in {0, 1} :
              [o EXCEPT !.pc = "assemble", !.query = query, !.pending = @ + n] \in RunStates
         /\ [o EXCEPT !.pc = "assemble", !.query = query]
              = [o EXCEPT !.pc = "assemble", !.query = query, !.pending = @ + 0]
         /\ [o EXCEPT !.pc = "assemble", !.pending = @ + 1]
              = [o EXCEPT !.pc = "assemble", !.query = o.query, !.pending = @ + 1]
<1>1. \A m \in Nat : [o EXCEPT !.pc = "assemble", !.query = query, !.pending = m] \in RunStates
  BY DEF RunStates, Points
<1>2. [o EXCEPT !.pc = "assemble", !.query = query]
              = [o EXCEPT !.pc = "assemble", !.query = query, !.pending = o.pending]
  BY DEF RunStates
<1>3. \A m \in Nat : [o EXCEPT !.pc = "assemble", !.pending = m]
              = [o EXCEPT !.pc = "assemble", !.query = o.query, !.pending = m]
  BY DEF RunStates
<1>. QED
  BY <1>1, <1>2, <1>3, Pending

LEMMA FramedRecord ==
  ASSUME NEW o \in RunStates, NEW frame \in Frames
  PROVE  /\ \A n \in {0, 1} :
              [o EXCEPT !.pc = "report", !.frame = frame, !.pending = @ + n] \in RunStates
         /\ [o EXCEPT !.pc = "report", !.frame = frame]
              = [o EXCEPT !.pc = "report", !.frame = frame, !.pending = @ + 0]
<1>1. \A m \in Nat : [o EXCEPT !.pc = "report", !.frame = frame, !.pending = m] \in RunStates
  BY DEF RunStates, Points
<1>2. [o EXCEPT !.pc = "report", !.frame = frame]
              = [o EXCEPT !.pc = "report", !.frame = frame, !.pending = o.pending]
  BY DEF RunStates
<1>. QED
  BY <1>1, <1>2, Pending

LEMMA EmbeddedRecord ==
  ASSUME NEW o \in RunStates
  PROVE  /\ \A e \in BOOLEAN, n \in {0, 1} :
              [o EXCEPT !.pc = "recall first", !.embedded = e, !.pending = @ + n] \in RunStates
         /\ [o EXCEPT !.pc = "recall first"]
              = [o EXCEPT !.pc = "recall first", !.embedded = o.embedded, !.pending = @ + 0]
<1>1. \A e \in BOOLEAN, m \in Nat : [o EXCEPT !.pc = "recall first", !.embedded = e, !.pending = m] \in RunStates
  BY DEF RunStates, Points
<1>2. [o EXCEPT !.pc = "recall first"]
              = [o EXCEPT !.pc = "recall first", !.embedded = o.embedded, !.pending = o.pending]
  BY DEF RunStates
<1>. QED
  BY <1>1, <1>2, Pending

(* A step gives the run a new record and new facts, and meets n failures;  *)
(* it touches neither of another run.                                      *)
Turn(r, rec, facts, n) ==
  /\ rec \in RunStates /\ run' \in [Runs -> RunStates] /\ run'[r] = rec
  /\ facts \in Facts /\ told' \in [Runs -> Facts] /\ told'[r] = facts
  /\ n \in Nat /\ failed' \in [Runs -> Nat] /\ failed'[r] = failed[r] + n
  /\ OthersTold(r) /\ \A q \in Runs : q # r => run'[q] = run[q]

LEMMA Quietly ==
  ASSUME Types, NEW r \in Runs, NEW rec \in RunStates, run' = [run EXCEPT ![r] = rec], NoFailure
  PROVE  Turn(r, rec, told[r], 0)
  BY RunExcept DEF Types, Turn, NoFailure, OthersTold

LEMMA Loudly ==
  ASSUME Types, NEW r \in Runs, NEW rec \in RunStates, run' = [run EXCEPT ![r] = rec],
         Fails(r, FALSE)
  PROVE  Turn(r, rec, told[r], 1)
  BY RunExcept, FailsTypes DEF Types, Turn

LEMMA FailsAtOnce ==
  ASSUME Types, NEW r \in Runs, NEW rec \in RunStates, run' = [run EXCEPT ![r] = rec],
         Fails(r, TRUE)
  PROVE  Turn(r, rec, [told[r] EXCEPT !.failed = @ + 1], 1)
<1>1. [told[r] EXCEPT !.failed = @ + 1] \in Facts
  BY StateTypes, CountedRecord
<1>. QED
  BY <1>1, RunExcept, FailsTypes DEF Turn

(* Each step of the read phase, as a turn. *)

LEMMA StartTurn ==
  ASSUME Types, NEW r \in Runs, Start(r)
  PROVE  /\ run[r].pc = "idle"
         /\ \E pc \in {"rewrite", "assemble"} : Turn(r, [run[r] EXCEPT !.pc = pc], told[r], 0)
         /\ kept' = [kept EXCEPT ![r] = Range(l1) \cup l2]
         /\ UNCHANGED <<setup, topic, truth, window, l1, l2, log, jobs>>
<1>1. PICK pc \in {"rewrite", "assemble"} : Go(r, pc)
  BY DEF Start
<1>2. [run[r] EXCEPT !.pc = pc] \in RunStates /\ run' = [run EXCEPT ![r] = [run[r] EXCEPT !.pc = pc]]
  <2>1. [run[r] EXCEPT !.pc = pc] \in RunStates
    BY StateTypes, MovedRecord DEF Points
  <2>. QED
    BY <1>1, <2>1 DEF Go
<1>. QED
  BY <1>2, Quietly DEF Start, NoFailure, At, stores

LEMMA AskTurn ==
  ASSUME Types, NEW r \in Runs, NEW from \in {"rewrite", "enhance"},
         NEW pc \in {"rewriting", "enhancing"}, Ask(r, from, pc)
  PROVE  /\ run[r].pc = from
         /\ Turn(r, [run[r] EXCEPT !.pc = pc], [told[r] EXCEPT !.asked = @ + 1], 0)
         /\ UNCHANGED <<setup, topic, truth, window, l1, l2, log, jobs, kept>>
<1>1. [run[r] EXCEPT !.pc = pc] \in RunStates /\ run' = [run EXCEPT ![r] = [run[r] EXCEPT !.pc = pc]]
  <2>1. [run[r] EXCEPT !.pc = pc] \in RunStates
    BY StateTypes, MovedRecord DEF Points, Calling
  <2>. QED
    BY <2>1 DEF Go, Ask
<1>2. [told[r] EXCEPT !.asked = @ + 1] \in Facts
  BY StateTypes, CountedRecord
<1>3. told' \in [Runs -> Facts] /\ told'[r] = [told[r] EXCEPT !.asked = @ + 1]
      /\ \A q \in Runs : q # r => told'[q] = told[q]
  BY CountedFacts DEF Ask
<1>. QED
  <2>1. Turn(r, [run[r] EXCEPT !.pc = pc], [told[r] EXCEPT !.asked = @ + 1], 0)
    <3>. DEFINE rec == [run[r] EXCEPT !.pc = pc]
                facts == [told[r] EXCEPT !.asked = @ + 1]
    <3>1. rec \in RunStates /\ facts \in Facts /\ told' \in [Runs -> Facts] /\ told'[r] = facts
          /\ \A q \in Runs : q # r => told'[q] = told[q]
      BY <1>1, <1>2, <1>3
    <3>2. run' \in [Runs -> RunStates] /\ run'[r] = rec /\ \A q \in Runs : q # r => run'[q] = run[q]
      BY <1>1, RunExcept
    <3>. HIDE DEF rec, facts
    <3>3. failed' \in [Runs -> Nat] /\ failed'[r] = failed[r] + 0 /\ failed' = failed
      BY StateTypes DEF Ask
    <3>4. Turn(r, rec, facts, 0)
      BY <3>1, <3>2, <3>3 DEF Turn, OthersTold
    <3>. QED
      BY <3>4 DEF rec, facts
  <2>. QED
    BY <2>1 DEF Ask, At, stores

LEMMA ReplyTurn ==
  ASSUME Types, NEW r \in Runs, NEW rec \in RunStates, run' = [run EXCEPT ![r] = rec]
  PROVE  /\ AnsweredWell(r) =>
              \E a \in {0, 1} : Turn(r, rec, [told[r] EXCEPT !.answered = @ + a], 0)
         /\ AnsweredIll(r) =>
              \E a \in {0, 1} : Turn(r, rec, [told[r] EXCEPT !.answered = @ + a], 1)
<1>1. \A a \in {0, 1} : [told[r] EXCEPT !.answered = @ + a] \in Facts
  BY StateTypes, CountedRecord
<1>2. failed[r] \in Nat
  BY DEF Types
<1>3. AnsweredIll(r) => failed'[r] = failed[r] + 1
  BY FailsTypes, FailureTypes DEF AnsweredIll
<1>4. AnsweredWell(r) => failed'[r] = failed[r] + 0
  BY <1>2 DEF AnsweredWell
<1>. QED
  BY <1>1, <1>3, <1>4, RunExcept, ReplyTypes DEF Turn

LEMMA RewriteTurn ==
  ASSUME Types, NEW r \in Runs, Rewrite(r)
  PROVE  /\ run[r].pc = "rewriting"
         /\ \E query \in {"input", "rewritten"}, n \in {0, 1}, a \in {0, 1} :
              Turn(r, [run[r] EXCEPT !.pc = "assemble", !.query = query, !.pending = @ + n],
                   [told[r] EXCEPT !.answered = @ + a], n)
         /\ UNCHANGED <<setup, topic, truth, window, l1, l2, log, jobs, kept>>
<1>0. run[r] \in RunStates
  BY DEF Types
<1>. DEFINE rec(query, n) == [run[r] EXCEPT !.pc = "assemble", !.query = query, !.pending = @ + n]
<1>1. \A query \in {"input", "rewritten"}, n \in {0, 1} : rec(query, n) \in RunStates
  BY <1>0, RewrittenRecord
<1>2. CASE AnsweredWell(r) /\ Coreference(r)
  <2>1. PICK query \in {"input", "rewritten"} :
          run' = [run EXCEPT ![r] = [run[r] EXCEPT !.pc = "assemble", !.query = query]]
    BY <1>2 DEF Coreference
  <2>2. [run[r] EXCEPT !.pc = "assemble", !.query = query] = rec(query, 0)
    BY <1>0, RewrittenRecord
  <2>. HIDE DEF rec
  <2>3. \E a \in {0, 1} : Turn(r, rec(query, 0), [told[r] EXCEPT !.answered = @ + a], 0)
    BY <1>1, <1>2, <2>1, <2>2, ReplyTurn
  <2>. QED
    BY <2>3 DEF Rewrite, At, stores, rec
<1>3. CASE AnsweredIll(r) /\ RewriteFailed(r)
  <2>1. run' = [run EXCEPT ![r] = [run[r] EXCEPT !.pc = "assemble", !.pending = @ + 1]]
    BY <1>3 DEF RewriteFailed
  <2>2. [run[r] EXCEPT !.pc = "assemble", !.pending = @ + 1] = rec(run[r].query, 1)
        /\ run[r].query \in {"input", "rewritten"}
    <3>1. run[r].query \in {"input", "rewritten"}
      BY <1>0 DEF RunStates
    <3>. QED
      BY <1>0, <3>1, RewrittenRecord
  <2>. HIDE DEF rec
  <2>3. \E a \in {0, 1} : Turn(r, rec(run[r].query, 1), [told[r] EXCEPT !.answered = @ + a], 1)
    BY <1>1, <1>3, <2>1, <2>2, ReplyTurn
  <2>. QED
    BY <2>2, <2>3 DEF Rewrite, At, stores, rec
<1>. QED
  BY <1>2, <1>3, ReplyCases

LEMMA AssembleTurn ==
  ASSUME Types, NEW r \in Runs, AssembleBundled(r) \/ AssembleForeign(r)
  PROVE  /\ run[r].pc = "assemble"
         /\ \E frame \in Frames, n \in {0, 1} :
              /\ Turn(r, [run[r] EXCEPT !.pc = "report", !.frame = frame, !.pending = @ + n], told[r], n)
              /\ setup.provider # "foreign" => frame = Append(window, Query(r))
         /\ UNCHANGED <<setup, topic, truth, window, l1, l2, log, jobs, kept>>
<1>0. run[r] \in RunStates
  BY DEF Types
<1>. DEFINE rec(frame, n) == [run[r] EXCEPT !.pc = "report", !.frame = frame, !.pending = @ + n]
<1>1. \A frame \in Frames, n \in {0, 1} : rec(frame, n) \in RunStates
  BY <1>0, FramedRecord
<1>2. \A frame \in Frames : [run[r] EXCEPT !.pc = "report", !.frame = frame] = rec(frame, 0)
  BY <1>0, FramedRecord
<1>3. Append(window, Query(r)) \in Frames
  BY SmallFrames, BundledFrame
<1>4. CASE AssembleBundled(r)
  <2>. DEFINE f == Append(window, Query(r))
  <2>1. run' = [run EXCEPT ![r] = [run[r] EXCEPT !.pc = "report", !.frame = f]] /\ NoFailure
    BY <1>4 DEF AssembleBundled
  <2>. HIDE DEF rec
  <2>2. Turn(r, rec(f, 0), told[r], 0)
    BY <1>1, <1>2, <1>3, <2>1, Quietly
  <2>. QED
    BY <1>3, <1>4, <2>2 DEF AssembleBundled, At, stores, rec
<1>5. CASE AssembleForeign(r)
  <2>1. PICK frame \in ForeignFrames(r) :
          \/ run' = [run EXCEPT ![r] = [run[r] EXCEPT !.pc = "report", !.frame = frame]] /\ NoFailure
          \/ /\ Fails(r, FALSE)
             /\ run' = [run EXCEPT ![r] = [run[r] EXCEPT !.pc = "report", !.frame = frame, !.pending = @ + 1]]
    BY <1>5 DEF AssembleForeign
  <2>2. frame \in Frames
    BY ForeignFrame
  <2>3. [run[r] EXCEPT !.pc = "report", !.frame = frame, !.pending = @ + 1] = rec(frame, 1)
    OBVIOUS
  <2>. HIDE DEF rec
  <2>4. \E n \in {0, 1} : Turn(r, rec(frame, n), told[r], n)
    BY <1>1, <1>2, <2>1, <2>2, <2>3, Quietly, Loudly
  <2>. QED
    BY <1>5, <2>2, <2>4 DEF AssembleForeign, At, stores, rec
<1>. QED
  BY <1>4, <1>5

LEMMA EmbedTurn ==
  ASSUME Types, NEW r \in Runs, EmbedQuery(r)
  PROVE  /\ run[r].pc = "assemble"
         /\ \E embedded \in BOOLEAN, n \in {0, 1} :
              Turn(r, [run[r] EXCEPT !.pc = "recall first", !.embedded = embedded, !.pending = @ + n],
                   told[r], n)
         /\ UNCHANGED <<setup, topic, truth, window, l1, l2, log, jobs, kept>>
<1>0. run[r] \in RunStates
  BY DEF Types
<1>. DEFINE rec(e, n) == [run[r] EXCEPT !.pc = "recall first", !.embedded = e, !.pending = @ + n]
<1>1. \A e \in BOOLEAN, n \in {0, 1} : rec(e, n) \in RunStates
  BY <1>0, EmbeddedRecord
<1>2. CASE Go(r, "recall first") /\ NoFailure
  <2>1. run' = [run EXCEPT ![r] = [run[r] EXCEPT !.pc = "recall first"]]
    BY <1>2 DEF Go
  <2>2. [run[r] EXCEPT !.pc = "recall first"] = rec(run[r].embedded, 0) /\ run[r].embedded \in BOOLEAN
    <3>1. run[r].embedded \in BOOLEAN
      BY <1>0 DEF RunStates
    <3>. QED
      BY <1>0, <3>1, EmbeddedRecord
  <2>. HIDE DEF rec
  <2>3. Turn(r, rec(run[r].embedded, 0), told[r], 0)
    BY <1>1, <1>2, <2>1, <2>2, Quietly
  <2>. QED
    BY <2>2, <2>3 DEF EmbedQuery, At, stores, rec
<1>3. CASE /\ Fails(r, FALSE)
           /\ run' = [run EXCEPT ![r].pc = "recall first", ![r].embedded = FALSE, ![r].pending = @ + 1]
  <2>1. run' = [run EXCEPT ![r] = rec(FALSE, 1)]
    BY <1>3
  <2>. HIDE DEF rec
  <2>2. Turn(r, rec(FALSE, 1), told[r], 1)
    BY <1>1, <1>3, <2>1, Loudly
  <2>. QED
    BY <2>2 DEF EmbedQuery, At, stores, rec
<1>. QED
  BY <1>2, <1>3 DEF EmbedQuery

LEMMA FoundRecord ==
  ASSUME NEW o \in RunStates, NEW pc \in Points
  PROVE  /\ \A found \in Found, warm \in BOOLEAN, n \in Nat :
              [o EXCEPT !.pc = pc, !.items = found, !.warm = warm, !.pending = @ + n] \in RunStates
         /\ [o EXCEPT !.pc = pc]
              = [o EXCEPT !.pc = pc, !.items = o.items, !.warm = o.warm, !.pending = @ + 0]
         /\ o.items \in Found /\ o.warm \in BOOLEAN
<1>1. \A found \in Found, warm \in BOOLEAN, m \in Nat :
         [o EXCEPT !.pc = pc, !.items = found, !.warm = warm, !.pending = m] \in RunStates
  BY DEF RunStates
<1>2. [o EXCEPT !.pc = pc]
       = [o EXCEPT !.pc = pc, !.items = o.items, !.warm = o.warm, !.pending = o.pending]
  BY DEF RunStates
<1>3. o.items \in Found /\ o.warm \in BOOLEAN
  BY DEF RunStates
<1>. QED
  BY <1>1, <1>2, <1>3, Pending

LEMMA GatherTurn ==
  ASSUME Types, NEW r \in Runs, NEW items \in Found, NEW warm \in BOOLEAN, NEW n \in Nat,
         NEW pc \in Points, Gather(r, items, warm, n, pc)
  PROVE  \E w \in BOOLEAN :
           Turn(r, [run[r] EXCEPT !.pc = pc, !.items = run[r].items \cup items, !.warm = w,
                                  !.pending = @ + n], told[r], n)
<1>. DEFINE found == run[r].items \cup items
            w == run[r].warm \/ warm
            rec == [run[r] EXCEPT !.pc = pc, !.items = found, !.warm = w, !.pending = @ + n]
<1>1. run[r] \in RunStates /\ run[r].items \in Found /\ run[r].warm \in BOOLEAN
  BY StateTypes DEF RunStates
<1>2. found \in Found /\ w \in BOOLEAN
  BY <1>1, FoundUnion
<1>3. run' = [run EXCEPT ![r] = rec] /\ FailsTimes(r, n)
  BY Zenon DEF Gather
<1>. HIDE DEF found, w
<1>4. rec \in RunStates
  BY <1>1, <1>2, FoundRecord
<1>. HIDE DEF rec
<1>5. Turn(r, rec, told[r], n)
  <2>1. run' \in [Runs -> RunStates] /\ run'[r] = rec /\ \A q \in Runs : q # r => run'[q] = run[q]
    BY <1>3, <1>4, RunExcept
  <2>. QED
    BY <1>3, <1>4, <2>1, FailsTimesTypes, StateTypes DEF Turn
<1>. QED
  BY <1>2, <1>5 DEF rec, found

(* A layer is read: what it holds and the run still counts on is found.    *)
Reads(r, from, pc, turns) ==
  /\ run[r].pc = from
  /\ \E found \in Found, warm \in BOOLEAN, n \in Nat :
       /\ Turn(r, [run[r] EXCEPT !.pc = pc, !.items = found, !.warm = warm, !.pending = @ + n],
               told[r], n)
       /\ run[r].items \subseteq found
       /\ \A t \in turns \cap kept'[r] : \E item \in found : item.turn = t
  /\ kept' \in [Runs -> SUBSET Runs] /\ kept'[r] \subseteq kept[r]
  /\ \A q \in Runs : q # r => kept'[q] = kept[q]
  /\ UNCHANGED <<setup, topic, truth, window, l1, l2, log, jobs>>

LEMMA EntriesTurns ==
  ASSUME NEW layer, NEW turns, NEW t \in turns
  PROVE  \E item \in Entries(layer, turns) : item.turn = t
<1>. DEFINE e == [layer |-> layer, turn |-> t]
<1>1. e \in Entries(layer, turns) /\ e.turn = t
  BY DEF Entries
<1>. QED
  BY <1>1, Zenon

LEMMA LayerTurn ==
  ASSUME Types, NEW r \in Runs, NEW layer \in {"l1", "l2"}, NEW pc \in Points,
         NEW turns, turns \subseteq Runs, IsFiniteSet(turns),
         Recall(r, layer, turns, pc), UNCHANGED <<setup, topic, truth, stores, jobs>>
  PROVE  Reads(r, run[r].pc, pc, turns)
<1>1. PICK lost \in SUBSET turns :
        /\ \/ Gather(r, Entries(layer, turns \ lost), turns # {}, Cardinality(lost), pc)
           \/ lost = turns /\ Gather(r, {}, FALSE, 1, pc)
        /\ kept' = [kept EXCEPT ![r] = @ \ lost]
  BY DEF Recall
<1>2. /\ kept' \in [Runs -> SUBSET Runs] /\ kept'[r] = kept[r] \ lost
      /\ \A q \in Runs : q # r => kept'[q] = kept[q]
  BY <1>1, StateTypes
<1>. DEFINE Hands(items, n) ==
       /\ \E w \in BOOLEAN :
            Turn(r, [run[r] EXCEPT !.pc = pc, !.items = run[r].items \cup items, !.warm = w,
                                   !.pending = @ + n], told[r], n)
       /\ run[r].items \cup items \in Found /\ n \in Nat
       /\ \A t \in turns \ lost : \E item \in items : item.turn = t
<1>3. \E items, n : Hands(items, n)
  <2>1. run[r].items \in Found
    BY StateTypes DEF RunStates
  <2>2. CASE Gather(r, Entries(layer, turns \ lost), turns # {}, Cardinality(lost), pc)
    <3>. DEFINE items == Entries(layer, turns \ lost)
    <3>1. IsFiniteSet(turns \ lost) /\ IsFiniteSet(lost)
      BY FS_Subset
    <3>2. items \in Found
      BY <3>1, EntriesType DEF Entries
    <3>3. Cardinality(lost) \in Nat
      BY <3>1, FS_CardinalityType
    <3>4. \A t \in turns \ lost : \E item \in items : item.turn = t
      BY EntriesTurns
    <3>5. run[r].items \cup items \in Found
      BY <2>1, <3>2, FoundUnion
    <3>6. (turns # {}) \in BOOLEAN
      OBVIOUS
    <3>. HIDE DEF items
    <3>7. Hands(items, Cardinality(lost))
      <4>1. Gather(r, items, turns # {}, Cardinality(lost), pc)
        BY <2>2 DEF items
      <4>. QED
        BY <3>2, <3>3, <3>4, <3>5, <3>6, <4>1, GatherTurn
    <3>. QED
      BY <3>7
  <2>3. CASE lost = turns /\ Gather(r, {}, FALSE, 1, pc)
    <3>1. {} \in Found
      BY FS_EmptySet DEF Found
    <3>2. run[r].items \cup {} \in Found
      BY <2>1
    <3>3. Hands({}, 1)
      BY <2>3, <3>1, <3>2, GatherTurn
    <3>. QED
      BY <3>3
  <2>. QED
    BY <1>1, <2>2, <2>3
<1>4. PICK items, n : Hands(items, n)
  BY <1>3
<1>5. \A t \in turns \cap kept'[r] : \E item \in run[r].items \cup items : item.turn = t
  BY <1>2, <1>4
<1>. QED
  BY <1>2, <1>4, <1>5 DEF Reads, stores

LEMMA RecallTurn ==
  ASSUME Types, NEW r \in Runs
  PROVE  /\ RecallFirst(r)  => Reads(r, "recall first", "recall second", Range(l1))
         /\ RecallSecond(r) => Reads(r, "recall second", "recall l3", l2)
         /\ RecallL3(r)     => Reads(r, "recall l3", "rank", {})
<1>1. /\ Range(l1) \subseteq Runs /\ IsFiniteSet(Range(l1))
      /\ l2 \subseteq Runs /\ IsFiniteSet(l2)
      /\ IsFiniteSet({}) /\ IsFiniteSet({Past})
  BY RangeType, FS_EmptySet, FS_Singleton DEF Types, Working
<1>2. ASSUME RecallFirst(r) PROVE Reads(r, "recall first", "recall second", Range(l1))
  <2>1. run[r].pc = "recall first" /\ Recall(r, "l1", Range(l1), "recall second")
        /\ UNCHANGED <<setup, topic, truth, stores, jobs>>
    BY <1>2 DEF RecallFirst, At, FirstLayer, HeldBy
  <2>. QED
    BY <1>1, <2>1, LayerTurn DEF Points
<1>3. ASSUME RecallSecond(r) PROVE Reads(r, "recall second", "recall l3", l2)
  <2>1. run[r].pc = "recall second" /\ Recall(r, "l2", l2, "recall l3")
        /\ UNCHANGED <<setup, topic, truth, stores, jobs>>
    BY <1>3 DEF RecallSecond, At, SecondLayer, FirstLayer, HeldBy
  <2>. QED
    BY <1>1, <2>1, LayerTurn DEF Points
<1>4. ASSUME RecallL3(r) PROVE Reads(r, "recall l3", "rank", {})
  <2>1. CASE run[r].warm /\ run[r].embedded
    <3>1. PICK found \in SUBSET {Past}, n \in 0..MaxFailures :
            Gather(r, Entries("l3", found), FALSE, n, "rank")
      BY <1>4, <2>1 DEF RecallL3
    <3>. DEFINE items == Entries("l3", found)
    <3>2. items \in Found
      <4>1. IsFiniteSet(found) /\ found \subseteq Runs \cup {Past}
        BY <1>1, FS_Subset
      <4>. QED
        BY <4>1, EntriesType DEF Entries
    <3>3. n \in Nat
      BY ContextAssumption
    <3>4. run[r].pc = "recall l3" /\ UNCHANGED <<setup, topic, truth, stores, jobs, kept>>
      BY <1>4 DEF RecallL3, At
    <3>5. run[r].items \cup items \in Found
      BY <3>2, StateTypes, FoundUnion DEF RunStates
    <3>. HIDE DEF items
    <3>6. PICK w \in BOOLEAN :
            Turn(r, [run[r] EXCEPT !.pc = "rank", !.items = run[r].items \cup items, !.warm = w,
                                   !.pending = @ + n], told[r], n)
      BY <3>1, <3>2, <3>3, GatherTurn DEF Points, items
    <3>7. kept' \in [Runs -> SUBSET Runs] /\ kept'[r] \subseteq kept[r]
          /\ \A q \in Runs : q # r => kept'[q] = kept[q]
      BY <3>4, StateTypes
    <3>. QED
      BY <3>3, <3>4, <3>5, <3>6, <3>7 DEF Reads, stores
  <2>2. CASE ~(run[r].warm /\ run[r].embedded)
    <3>1. Go(r, "rank") /\ NoFailure /\ UNCHANGED kept /\ run[r].pc = "recall l3"
          /\ UNCHANGED <<setup, topic, truth, stores, jobs>>
      BY <1>4, <2>2 DEF RecallL3, At, NoFailure
    <3>. DEFINE rec == [run[r] EXCEPT !.pc = "rank", !.items = run[r].items, !.warm = run[r].warm,
                                      !.pending = @ + 0]
    <3>2. rec \in RunStates /\ run' = [run EXCEPT ![r] = rec]
      <4>1. "rank" \in Points
        BY DEF Points
      <4>2. rec \in RunStates /\ [run[r] EXCEPT !.pc = "rank"] = rec
        BY <4>1, StateTypes, FoundRecord
      <4>. QED
        BY <3>1, <4>2 DEF Go
    <3>. HIDE DEF rec
    <3>3. Turn(r, rec, told[r], 0)
      BY <3>1, <3>2, Quietly
    <3>4. Turn(r, [run[r] EXCEPT !.pc = "rank", !.items = run[r].items, !.warm = run[r].warm,
                                      !.pending = @ + 0], told[r], 0)
      BY <3>3 DEF rec
    <3>5. run[r].items \in Found /\ run[r].warm \in BOOLEAN
      BY StateTypes, FoundRecord DEF Points
    <3>6. kept' \in [Runs -> SUBSET Runs] /\ kept'[r] \subseteq kept[r]
          /\ \A q \in Runs : q # r => kept'[q] = kept[q]
      BY <3>1, StateTypes
    <3>. QED
      BY <3>1, <3>4, <3>5, <3>6 DEF Reads, stores
  <2>. QED
    BY <2>1, <2>2
<1>. QED
  BY <1>2, <1>3, <1>4

LEMMA RankTurn ==
  ASSUME Types, NEW r \in Runs, Rank(r)
  PROVE  /\ run[r].pc = "rank"
         /\ \E alike \in Likenesses, recalled \in Recalls, frame \in Frames, pc \in {"report", "enhance"} :
              /\ Turn(r, [run[r] EXCEPT !.alike = alike, !.recalled = recalled, !.frame = frame, !.pc = pc],
                      told[r], 0)
              /\ Complete(recalled, run[r].items, alike)
              /\ (pc = "report" /\ frame = <<Query(r)>>) \/ (pc = "enhance" /\ frame = run[r].frame)
         /\ UNCHANGED <<setup, topic, truth, window, l1, l2, log, jobs, kept>>
<1>1. PICK ranked \in Scored(run[r].items), alike \in Likenesses :
        run' = [run EXCEPT ![r].alike = alike, ![r].recalled = Best(alike, ranked),
                           ![r].frame = IF ranked = <<>> THEN <<Query(r)>> ELSE @,
                           ![r].pc = IF ranked = <<>> THEN "report" ELSE "enhance"]
  BY Zenon DEF Rank
<1>. DEFINE b == Best(alike, ranked)
            f == IF ranked = <<>> THEN <<Query(r)>> ELSE run[r].frame
            p == IF ranked = <<>> THEN "report" ELSE "enhance"
            rec == [run[r] EXCEPT !.alike = alike, !.recalled = b, !.frame = f, !.pc = p]
<1>2. run[r].items \in Found
  BY StateTypes DEF RunStates
<1>3. b \in Recalls /\ Complete(b, run[r].items, alike)
  BY <1>2, BestRecall
<1>4. f \in Frames /\ p \in {"report", "enhance"} /\ p \in Points
  BY SmallFrames DEF Points
<1>5. rec \in RunStates
  <2>. DEFINE o == run[r]
  <2>1. o \in RunStates
    BY StateTypes
  <2>. HIDE DEF b, f, p, o
  <2>2. [o EXCEPT !.alike = alike, !.recalled = b, !.frame = f, !.pc = p] \in RunStates
    BY <1>3, <1>4, <2>1 DEF RunStates
  <2>. QED
    BY <2>2 DEF o
<1>6. run' = [run EXCEPT ![r] = rec]
  <2>. DEFINE q == <<Query(r)>>
  <2>1. CASE ranked = <<>>
    <3>1. f = q /\ p = "report"
      BY <2>1
    <3>2. run' = [run EXCEPT ![r].alike = alike, ![r].recalled = b, ![r].frame = q, ![r].pc = "report"]
      BY <1>1, <2>1
    <3>. HIDE DEF b, f, p, q
    <3>. QED
      BY <3>1, <3>2
  <2>2. CASE ranked # <<>>
    <3>1. f = run[r].frame /\ p = "enhance"
      BY <2>2
    <3>2. run' = [run EXCEPT ![r].alike = alike, ![r].recalled = b, ![r].frame = @, ![r].pc = "enhance"]
      BY <1>1, <2>2
    <3>. HIDE DEF b, f, p, q
    <3>3. run[r] \in RunStates
      BY StateTypes
    <3>. QED
      BY <3>1, <3>2, <3>3 DEF RunStates
  <2>. QED
    BY <2>1, <2>2
<1>7. (p = "report" /\ f = <<Query(r)>>) \/ (p = "enhance" /\ f = run[r].frame)
  OBVIOUS
<1>. HIDE DEF rec
<1>8. Turn(r, rec, told[r], 0)
  BY <1>5, <1>6, Quietly DEF Rank
<1>. HIDE DEF b, f, p
<1>9. Turn(r, [run[r] EXCEPT !.alike = alike, !.recalled = b, !.frame = f, !.pc = p], told[r], 0)
  BY <1>8 DEF rec
<1>. QED
  BY <1>3, <1>4, <1>7, <1>9 DEF Rank, At, stores

LEMMA EnhanceTurn ==
  ASSUME Types, NEW r \in Runs, Enhance(r)
  PROVE  /\ run[r].pc = "enhancing"
         /\ \E frame \in {<<Message(r, "enhanced")>>, <<Query(r)>>}, n \in {0, 1}, a \in {0, 1} :
              Turn(r, [run[r] EXCEPT !.pc = "report", !.frame = frame, !.pending = @ + n],
                   [told[r] EXCEPT !.answered = @ + a], n)
         /\ UNCHANGED <<setup, topic, truth, window, l1, l2, log, jobs, kept>>
<1>. DEFINE rec(f, n) == [run[r] EXCEPT !.pc = "report", !.frame = f, !.pending = @ + n]
            e == <<Message(r, "enhanced")>>
            q == <<Query(r)>>
<1>1. e \in Frames /\ q \in Frames
  BY SmallFrames DEF Kinds
<1>2. CASE AnsweredWell(r) /\ Folded(r)
  <2>1. run' = [run EXCEPT ![r] = [run[r] EXCEPT !.pc = "report", !.frame = e]]
    BY <1>2 DEF Folded
  <2>. HIDE DEF e, q
  <2>2. [run[r] EXCEPT !.pc = "report", !.frame = e] = rec(e, 0) /\ rec(e, 0) \in RunStates
    BY <1>1, StateTypes, FramedRecord
  <2>. HIDE DEF rec
  <2>3. \E a \in {0, 1} : Turn(r, rec(e, 0), [told[r] EXCEPT !.answered = @ + a], 0)
    BY <1>2, <2>1, <2>2, ReplyTurn
  <2>. QED
    BY <2>3 DEF Enhance, At, stores, rec, e
<1>3. CASE AnsweredIll(r) /\ Unfolded(r)
  <2>1. run' = [run EXCEPT ![r] = rec(q, 1)]
    BY <1>3 DEF Unfolded
  <2>. HIDE DEF e, q
  <2>2. rec(q, 1) \in RunStates
    BY <1>1, StateTypes, FramedRecord
  <2>. HIDE DEF rec
  <2>3. \E a \in {0, 1} : Turn(r, rec(q, 1), [told[r] EXCEPT !.answered = @ + a], 1)
    BY <1>3, <2>1, <2>2, ReplyTurn
  <2>. QED
    BY <2>3 DEF Enhance, At, stores, rec, q
<1>. QED
  BY <1>2, <1>3, ReplyCases

(* The failures of the read phase are told as it ends. *)
ReportTold(r, empty) == [told[r] EXCEPT !.failed = @ + run[r].pending + empty]

LEMMA ReportTurn ==
  ASSUME Types, NEW r \in Runs, Report(r)
  PROVE  /\ run[r].pc = "report"
         /\ \E empty \in {0, 1} :
              Turn(r, [run[r] EXCEPT !.pc = "loop", !.pending = 0, !.frame = Frame(r),
                                     !.items = {}, !.alike = {}, !.recalled = <<>>],
                   ReportTold(r, empty), empty)
         /\ kept' = [kept EXCEPT ![r] = {}]
         /\ UNCHANGED <<setup, topic, truth, window, l1, l2, log, jobs>>
<1>. DEFINE empty == IF run[r].frame = <<>> THEN 1 ELSE 0
            f == Frame(r)
            o == run[r]
            rec == [o EXCEPT !.pc = "loop", !.pending = 0, !.frame = f,
                                     !.items = {}, !.alike = {}, !.recalled = <<>>]
            m == told[r].failed + run[r].pending + empty
            facts == [told[r] EXCEPT !.failed = m]
<1>1. empty \in {0, 1} /\ empty \in Nat
  OBVIOUS
<1>2. /\ failed' = [failed EXCEPT ![r] = @ + empty]
      /\ told' = [told EXCEPT ![r] = facts]
      /\ run' = [run EXCEPT ![r] = rec]
      /\ run[r].pc = "report"
  BY DEF Report, Emit, At
<1>3. f \in Frames /\ {} \in Found /\ <<>> \in Recalls /\ o \in RunStates /\ "loop" \in Points
  <2>1. f \in Frames /\ o \in RunStates
    BY SmallFrames, StateTypes
  <2>2. {} \in Found
    BY FS_EmptySet DEF Found
  <2>3. <<>> \in Recalls
    BY ContextAssumption DEF Recalls
  <2>. QED
    BY <2>1, <2>2, <2>3 DEF Points
<1>4. m \in Nat
  <2>1. told[r].failed \in Nat /\ run[r].pending \in Nat
    BY StateTypes DEF Facts, RunStates
  <2>. QED
    BY <1>1, <2>1
<1>. HIDE DEF empty
<1>5. facts \in Facts
  <2>. HIDE DEF m
  <2>1. told[r] \in Facts
    BY StateTypes
  <2>. QED
    BY <1>4, <2>1 DEF Facts
<1>6. rec \in RunStates
  <2>. HIDE DEF f, o
  <2>. QED
    BY <1>3 DEF RunStates
<1>. HIDE DEF rec
<1>7. run' \in [Runs -> RunStates] /\ run'[r] = rec /\ \A q \in Runs : q # r => run'[q] = run[q]
  BY <1>2, <1>6, RunExcept
<1>8. told' \in [Runs -> Facts] /\ told'[r] = facts /\ \A q \in Runs : q # r => told'[q] = told[q]
  <2>. HIDE DEF facts
  <2>. QED
    BY <1>2, <1>5, StateTypes
<1>9. failed' \in [Runs -> Nat] /\ failed'[r] = failed[r] + empty
      /\ \A q \in Runs : q # r => failed'[q] = failed[q]
  BY <1>1, <1>2, StateTypes
<1>10. Turn(r, rec, facts, empty)
  <2>. HIDE DEF facts
  <2>. QED
    BY <1>1, <1>5, <1>6, <1>7, <1>8, <1>9 DEF Turn, OthersTold
<1>11. Turn(r, [run[r] EXCEPT !.pc = "loop", !.pending = 0, !.frame = Frame(r),
                              !.items = {}, !.alike = {}, !.recalled = <<>>], ReportTold(r, empty), empty)
  BY <1>10 DEF rec, ReportTold
<1>. QED
  BY <1>1, <1>2, <1>11 DEF Report, stores

Done == [Resting EXCEPT !.pc = "done"]

LEMMA LoopTurn ==
  ASSUME Types, NEW r \in Runs, Loop(r)
  PROVE  /\ run[r].pc = "loop"
         /\ \/ /\ truth' = truth \cup {r}
               /\ \E pc \in {"detect", "archive"} :
                    Turn(r, [run[r] EXCEPT !.previous = topic, !.pc = pc], told[r], 0)
            \/ truth' = truth /\ Turn(r, Done, told[r], 0)
         /\ UNCHANGED <<setup, topic, window, l1, l2, log, jobs, kept>>
<1>1. NoFailure /\ run[r].pc = "loop" /\ UNCHANGED <<setup, topic, window, l1, l2, log, jobs, kept>>
  BY DEF Loop, At, stores
<1>2. CASE truth' = truth /\ Quit(r)
  <2>1. Done \in RunStates /\ run' = [run EXCEPT ![r] = Done]
    BY <1>2, RestingType DEF Quit, Done
  <2>. QED
    BY <1>1, <1>2, <2>1, Quietly
<1>3. ASSUME truth' = truth \cup {r}, NEW pc \in {"detect", "archive"},
             run' = [run EXCEPT ![r] = [run[r] EXCEPT !.previous = topic, !.pc = pc]]
      PROVE  Turn(r, [run[r] EXCEPT !.previous = topic, !.pc = pc], told[r], 0)
  <2>. DEFINE o == run[r]
  <2>1. o \in RunStates /\ topic \in Verdict /\ pc \in Points
    BY StateTypes DEF Types, Points
  <2>. HIDE DEF o
  <2>2. [o EXCEPT !.previous = topic, !.pc = pc] \in RunStates
    BY <2>1 DEF RunStates
  <2>. QED
    BY <1>1, <1>3, <2>2, Quietly DEF o
<1>. QED
  BY <1>1, <1>2, <1>3 DEF Loop

LEMMA DetectTurn ==
  ASSUME Types, NEW r \in Runs, Detect(r)
  PROVE  /\ run[r].pc = "detect"
         /\ \/ \E verdict \in Verdict :
                 Turn(r, [run[r] EXCEPT !.pc = "detected", !.verdict = verdict], told[r], 0)
            \/ Turn(r, [run[r] EXCEPT !.pc = "archive"], [told[r] EXCEPT !.failed = @ + 1], 1)
         /\ UNCHANGED <<setup, topic, truth, window, l1, l2, log, jobs, kept>>
<1>1. run[r].pc = "detect" /\ UNCHANGED <<setup, topic, truth, window, l1, l2, log, jobs, kept>>
  BY DEF Detect, At, stores
<1>2. ASSUME NEW verdict \in Verdicts, NoFailure,
             run' = [run EXCEPT ![r].pc = "detected", ![r].verdict = verdict]
      PROVE  verdict \in Verdict
             /\ Turn(r, [run[r] EXCEPT !.pc = "detected", !.verdict = verdict], told[r], 0)
  <2>. DEFINE o == run[r]
  <2>1. o \in RunStates /\ verdict \in Verdict
    BY StateTypes DEF Verdicts, Verdict
  <2>2. run' = [run EXCEPT ![r] = [o EXCEPT !.pc = "detected", !.verdict = verdict]]
    BY <1>2
  <2>. HIDE DEF o
  <2>3. [o EXCEPT !.pc = "detected", !.verdict = verdict] \in RunStates
    BY <2>1 DEF RunStates, Points
  <2>. QED
    BY <1>2, <2>1, <2>2, <2>3, Quietly DEF o
<1>3. ASSUME Fails(r, TRUE), Go(r, "archive")
      PROVE  Turn(r, [run[r] EXCEPT !.pc = "archive"], [told[r] EXCEPT !.failed = @ + 1], 1)
  <2>1. [run[r] EXCEPT !.pc = "archive"] \in RunStates
        /\ run' = [run EXCEPT ![r] = [run[r] EXCEPT !.pc = "archive"]]
    BY <1>3, StateTypes, MovedRecord DEF Go, Points
  <2>. QED
    BY <1>3, <2>1, FailsAtOnce
<1>. QED
  BY <1>1, <1>2, <1>3 DEF Detect

LEMMA SetTopicTurn ==
  ASSUME Types, NEW r \in Runs, SetTopic(r)
  PROVE  /\ run[r].pc = "detected"
         /\ topic' \in {topic, run[r].verdict}
         /\ \E pc \in {"archive", "shift"} :
              /\ Turn(r, [run[r] EXCEPT !.pc = pc], told[r], 0)
              /\ pc = "shift" => Changes(r)
         /\ UNCHANGED <<setup, truth, window, l1, l2, log, jobs, kept>>
<1>1. run[r].pc = "detected" /\ NoFailure /\ topic' \in {topic, run[r].verdict}
      /\ UNCHANGED <<setup, truth, window, l1, l2, log, jobs, kept>>
  BY DEF SetTopic, At, stores
<1>2. PICK pc \in {"archive", "shift"} : Go(r, pc) /\ (pc = "shift" => Changes(r))
  BY DEF SetTopic
<1>3. [run[r] EXCEPT !.pc = pc] \in RunStates /\ run' = [run EXCEPT ![r] = [run[r] EXCEPT !.pc = pc]]
  <2>1. [run[r] EXCEPT !.pc = pc] \in RunStates
    BY StateTypes, MovedRecord DEF Points
  <2>. QED
    BY <1>2, <2>1 DEF Go
<1>. QED
  BY <1>1, <1>2, <1>3, Quietly

LEMMA ShiftTurn ==
  ASSUME Types, NEW r \in Runs, EmitShift(r)
  PROVE  /\ run[r].pc = "shift"
         /\ Turn(r, [run[r] EXCEPT !.pc = "archive"],
                 [told[r] EXCEPT !.shift = <<run[r].previous, run[r].verdict>>], 0)
         /\ UNCHANGED <<setup, topic, truth, window, l1, l2, log, jobs, kept>>
<1>. DEFINE rec == [run[r] EXCEPT !.pc = "archive"]
            pair == <<run[r].previous, run[r].verdict>>
            facts == [told[r] EXCEPT !.shift = pair]
<1>1. /\ run[r].pc = "shift" /\ run' = [run EXCEPT ![r] = rec] /\ told' = [told EXCEPT ![r] = facts]
      /\ UNCHANGED <<setup, topic, truth, window, l1, l2, log, jobs, failed, kept>>
  BY DEF EmitShift, At, Go, Emit, stores
<1>2. rec \in RunStates
  BY StateTypes, MovedRecord DEF Points
<1>3. pair \in Subjects
  <2>1. run[r].previous \in Verdict /\ run[r].verdict \in Verdict
    BY StateTypes DEF RunStates
  <2>. QED
    BY <2>1 DEF Subjects
<1>4. facts \in Facts
  <2>. HIDE DEF pair
  <2>1. told[r] \in Facts
    BY StateTypes
  <2>. QED
    BY <1>3, <2>1 DEF Facts
<1>. HIDE DEF rec, facts
<1>5. told' \in [Runs -> Facts] /\ told'[r] = facts /\ \A q \in Runs : q # r => told'[q] = told[q]
  BY <1>1, <1>4, StateTypes
<1>6. failed' \in [Runs -> Nat] /\ failed'[r] = failed[r] + 0 /\ failed' = failed
  BY <1>1, StateTypes
<1>7. run' \in [Runs -> RunStates] /\ run'[r] = rec /\ \A q \in Runs : q # r => run'[q] = run[q]
  BY <1>1, <1>2, RunExcept
<1>8. Turn(r, rec, facts, 0)
  BY <1>2, <1>4, <1>5, <1>6, <1>7 DEF Turn, OthersTold
<1>. QED
  BY <1>1, <1>8 DEF rec, facts

(* What the archive hook does to the stores, and to what the recalls of    *)
(* other runs count on.                                                    *)
LEMMA ArchiveTurn ==
  ASSUME Types, NEW r \in Runs, Archive(r)
  PROVE  /\ run[r].pc = "archive"
         /\ \/ /\ Turn(r, [run[r] EXCEPT !.pc = "spawn"], [told[r] EXCEPT !.archived = <<TurnTopic(r)>>], 0)
               /\ ArchiveHook(r)
            \/ /\ Turn(r, [run[r] EXCEPT !.pc = "spawn"], [told[r] EXCEPT !.failed = @ + 1], 1)
               /\ UNCHANGED <<window, l1, l2, log>>
         /\ kept' = [q \in Runs |-> kept[q] \cap (Range(l1') \cup l2')]
         /\ UNCHANGED <<setup, topic, truth, jobs>>
<1>. DEFINE rec == [run[r] EXCEPT !.pc = "spawn"]
            facts == [told[r] EXCEPT !.archived = <<TurnTopic(r)>>]
<1>1. /\ run[r].pc = "archive" /\ run' = [run EXCEPT ![r] = rec]
      /\ kept' = [q \in Runs |-> kept[q] \cap (Range(l1') \cup l2')]
      /\ UNCHANGED <<setup, topic, truth, jobs>>
  BY DEF Archive, At, Go
<1>2. rec \in RunStates
  BY StateTypes, MovedRecord DEF Points
<1>3. CASE Emit(r, "archived", <<TurnTopic(r)>>) /\ UNCHANGED failed /\ ArchiveHook(r)
  <2>1. <<TurnTopic(r)>> \in Subjects
    <3>1. run[r].previous \in Verdict /\ run[r].verdict \in Verdict
      BY StateTypes DEF RunStates
    <3>. QED
      BY <3>1 DEF Subjects, TurnTopic
  <2>2. facts \in Facts
    <3>. DEFINE s == <<TurnTopic(r)>>
    <3>1. told[r] \in Facts /\ s \in Subjects
      BY <2>1, StateTypes
    <3>. HIDE DEF s
    <3>2. [told[r] EXCEPT !.archived = s] \in Facts
      BY <3>1 DEF Facts
    <3>. QED
      BY <3>2 DEF s
  <2>3. told' = [told EXCEPT ![r] = facts]
    BY <1>3 DEF Emit
  <2>. HIDE DEF rec, facts
  <2>4. told' \in [Runs -> Facts] /\ told'[r] = facts /\ \A q \in Runs : q # r => told'[q] = told[q]
    BY <2>2, <2>3, StateTypes
  <2>5. failed' \in [Runs -> Nat] /\ failed'[r] = failed[r] + 0 /\ failed' = failed
    BY <1>3, StateTypes
  <2>6. run' \in [Runs -> RunStates] /\ run'[r] = rec /\ \A q \in Runs : q # r => run'[q] = run[q]
    BY <1>1, <1>2, RunExcept
  <2>7. Turn(r, rec, facts, 0)
    BY <1>2, <2>2, <2>4, <2>5, <2>6 DEF Turn, OthersTold
  <2>. QED
    BY <1>1, <1>3, <2>7 DEF rec, facts
<1>4. CASE Fails(r, TRUE) /\ UNCHANGED stores
  BY <1>1, <1>2, <1>4, FailsAtOnce DEF stores
<1>. QED
  BY <1>3, <1>4 DEF Archive

LEMMA SpawnTurn ==
  ASSUME Types, NEW r \in Runs, Spawn(r)
  PROVE  /\ run[r].pc = "spawn"
         /\ \/ Turn(r, Done, told[r], 0)
            \/ Turn(r, Done, [told[r] EXCEPT !.failed = @ + 1], 1)
         /\ jobs' \subseteq Runs
         /\ UNCHANGED <<setup, topic, truth, window, l1, l2, log, kept>>
<1>1. run[r].pc = "spawn" /\ UNCHANGED <<setup, topic, truth, window, l1, l2, log, kept>>
  BY DEF Spawn, At, stores
<1>2. Done \in RunStates /\ run' = [run EXCEPT ![r] = Done]
  BY RestingType DEF Spawn, Quit, Done
<1>3. jobs' \subseteq Runs
  BY DEF Spawn, Types
<1>4. NoFailure \/ Fails(r, TRUE)
  BY DEF Spawn
<1>. QED
  BY <1>1, <1>2, <1>3, <1>4, Quietly, FailsAtOnce

LEMMA BackgroundTurn ==
  ASSUME Types, NEW r \in Runs, Background(r)
  PROVE  /\ \/ Turn(r, run[r], told[r], 0)
            \/ Turn(r, run[r], [told[r] EXCEPT !.failed = @ + 1], 1)
         /\ \/ l2' = l2
            \/ \E t \in Range(l1) : l2' = l2 \cup {t}
         /\ jobs' \subseteq Runs
         /\ UNCHANGED <<setup, topic, truth, window, l1, log, kept>>
<1>1. run' = [run EXCEPT ![r] = run[r]] /\ run[r] \in RunStates
  BY StateTypes DEF Background
<1>2. NoFailure \/ Fails(r, TRUE)
  BY DEF Background
<1>. QED
  BY <1>1, <1>2, Quietly, FailsAtOnce DEF Background, Types

(* The stores after an archive hook. *)
LEMMA HookTypes ==
  ASSUME Types, NEW r \in Runs, ArchiveHook(r)
  PROVE  window' \in Windows /\ l1' \in Working /\ l2' = l2 /\ log' \in Seq(Messages)
<1>1. window \in Seq(Messages) /\ log \in Seq(Messages) /\ window \in Windows
      /\ l1 \in Seq(Runs) /\ l1 \in Working /\ Window \in Nat /\ L1Turns \in Nat
  BY ContextAssumption DEF Types, Windows, Working
<1>. DEFINE new == NewMessages(r)
<1>2. new \in Seq(Messages)
  <2>1. Message(r, "input") \in Messages /\ Message(r, "answer") \in Messages
    BY DEF Message, Messages, Kinds
  <2>. QED
    BY <2>1 DEF NewMessages
<1>. HIDE DEF new
<1>3. CASE window' = Windowed(new) /\ log' = log \o new /\ UNCHANGED <<l1, l2>>
  <2>1. window \o new \in Seq(Messages) /\ log \o new \in Seq(Messages)
    BY <1>1, <1>2
  <2>2. window' \in Windows
    BY <1>1, <1>3, <2>1, NewestType DEF Windowed, Windows
  <2>. QED
    BY <1>1, <1>3, <2>1, <2>2
<1>4. CASE l1' = Newest(Append(l1, r), L1Turns) /\ UNCHANGED <<window, l2, log>>
  <2>1. Append(l1, r) \in Seq(Runs)
    BY <1>1
  <2>2. l1' \in Working
    BY <1>1, <1>4, <2>1, NewestType DEF Working
  <2>. QED
    BY <1>1, <1>4, <2>2
<1>5. CASE UNCHANGED stores
  BY <1>1, <1>5 DEF stores
<1>. QED
  BY <1>3, <1>4, <1>5 DEF ArchiveHook, new

LEMMA NextTypes ==
  ASSUME Types, NEW r \in Runs, ReadPhase(r) \/ WritePhase(r)
  PROVE  Types' /\ OthersKept(r)
<1>0. /\ setup \in Setups /\ topic \in Verdict /\ truth \subseteq Runs
      /\ window \in Windows /\ l1 \in Working /\ l2 \subseteq Runs /\ IsFiniteSet(l2)
      /\ run \in [Runs -> RunStates] /\ run[r] \in RunStates /\ jobs \subseteq Runs
      /\ told \in [Runs -> Facts] /\ told[r] \in Facts /\ failed \in [Runs -> Nat]
      /\ log \in Seq(Messages) /\ kept \in [Runs -> SUBSET Runs]
  BY DEF Types
<1>1. ASSUME NEW rec, NEW facts, NEW n, Turn(r, rec, facts, n),
             UNCHANGED <<setup, topic, truth, window, l1, l2, log, jobs, kept>>
      PROVE  Types' /\ OthersKept(r)
  BY <1>0, <1>1 DEF Types, OthersKept, Turn
<1>2. CASE Start(r) \/ Report(r)
  <2>1. \E rec, facts, n : Turn(r, rec, facts, n)
    BY <1>2, StartTurn, ReportTurn
  <2>2. UNCHANGED <<setup, topic, truth, window, l1, l2, log, jobs>>
        /\ (kept' = [kept EXCEPT ![r] = Range(l1) \cup l2] \/ kept' = [kept EXCEPT ![r] = {}])
    BY <1>2, StartTurn, ReportTurn
  <2>3. Range(l1) \subseteq Runs
    BY <1>0, RangeType DEF Working
  <2>4. kept' \in [Runs -> SUBSET Runs] /\ \A q \in Runs : q # r => kept'[q] = kept[q]
    <3>1. \A K \in SUBSET Runs : kept' = [kept EXCEPT ![r] = K] =>
             kept' \in [Runs -> SUBSET Runs] /\ \A q \in Runs : q # r => kept'[q] = kept[q]
      BY <1>0
    <3>2. Range(l1) \cup l2 \in SUBSET Runs /\ {} \in SUBSET Runs
      BY <1>0, <2>3
    <3>. QED
      BY <2>2, <3>1, <3>2
  <2>. QED
    BY <1>0, <2>1, <2>2, <2>4 DEF Types, OthersKept, Turn
<1>3. CASE \/ Ask(r, "rewrite", "rewriting") \/ Rewrite(r) \/ AssembleBundled(r)
           \/ AssembleForeign(r) \/ EmbedQuery(r) \/ Rank(r)
           \/ Ask(r, "enhance", "enhancing") \/ Enhance(r) \/ Detect(r) \/ EmitShift(r)
  <2>1. /\ UNCHANGED <<setup, topic, truth, window, l1, l2, log, jobs, kept>>
        /\ \E rec, facts, n : Turn(r, rec, facts, n)
    <3>1. CASE Ask(r, "rewrite", "rewriting") \/ Ask(r, "enhance", "enhancing")
      BY <3>1, AskTurn
    <3>2. CASE Rewrite(r) \/ Enhance(r)
      BY <3>2, RewriteTurn, EnhanceTurn
    <3>3. CASE AssembleBundled(r) \/ AssembleForeign(r) \/ EmbedQuery(r)
      BY <3>3, AssembleTurn, EmbedTurn
    <3>4. CASE Rank(r)
      BY <3>4, RankTurn
    <3>5. CASE Detect(r) \/ EmitShift(r)
      BY <3>5, DetectTurn, ShiftTurn
    <3>. QED
      BY <1>3, <3>1, <3>2, <3>3, <3>4, <3>5
  <2>. QED
    BY <1>1, <2>1
<1>4. CASE RecallFirst(r) \/ RecallSecond(r) \/ RecallL3(r)
  <2>1. \E from, pc, turns : Reads(r, from, pc, turns)
    BY <1>4, RecallTurn
  <2>2. /\ UNCHANGED <<setup, topic, truth, window, l1, l2, log, jobs>>
        /\ \E rec, facts, n : Turn(r, rec, facts, n)
        /\ kept' \in [Runs -> SUBSET Runs] /\ \A q \in Runs : q # r => kept'[q] = kept[q]
    BY <2>1 DEF Reads
  <2>. QED
    BY <1>0, <2>2 DEF Types, OthersKept, Turn
<1>5. CASE Loop(r)
  <2>1. /\ UNCHANGED <<setup, topic, window, l1, l2, log, jobs, kept>> /\ truth' \subseteq Runs
        /\ \E rec, facts, n : Turn(r, rec, facts, n)
    BY <1>0, <1>5, LoopTurn
  <2>. QED
    BY <1>0, <2>1 DEF Types, OthersKept, Turn
<1>6. CASE SetTopic(r)
  <2>1. /\ UNCHANGED <<setup, truth, window, l1, l2, log, jobs, kept>>
        /\ topic' \in {topic, run[r].verdict}
        /\ \E rec, facts, n : Turn(r, rec, facts, n)
    BY <1>6, SetTopicTurn
  <2>2. run[r].verdict \in Verdict
    BY <1>0 DEF RunStates
  <2>. QED
    BY <1>0, <2>1, <2>2 DEF Types, OthersKept, Turn
<1>7. CASE Archive(r)
  <2>1. /\ UNCHANGED <<setup, topic, truth, jobs>>
        /\ kept' = [q \in Runs |-> kept[q] \cap (Range(l1') \cup l2')]
        /\ \E rec, facts, n : Turn(r, rec, facts, n)
        /\ ArchiveHook(r) \/ UNCHANGED <<window, l1, l2, log>>
    BY <1>7, ArchiveTurn
  <2>2. window' \in Windows /\ l1' \in Working /\ l2' = l2 /\ log' \in Seq(Messages)
    BY <1>0, <2>1, HookTypes
  <2>3. kept' \in [Runs -> SUBSET Runs] /\ \A q \in Runs : kept'[q] \subseteq kept[q]
    BY <1>0, <2>1
  <2>. QED
    BY <1>0, <2>1, <2>2, <2>3 DEF Types, OthersKept, Turn
<1>8. CASE Spawn(r)
  <2>1. /\ UNCHANGED <<setup, topic, truth, window, l1, l2, log, kept>> /\ jobs' \subseteq Runs
        /\ \E rec, facts, n : Turn(r, rec, facts, n)
    BY <1>8, SpawnTurn
  <2>. QED
    BY <1>0, <2>1 DEF Types, OthersKept, Turn
<1>9. CASE Background(r)
  <2>1. /\ UNCHANGED <<setup, topic, truth, window, l1, log, kept>> /\ jobs' \subseteq Runs
        /\ \E rec, facts, n : Turn(r, rec, facts, n)
        /\ \/ l2' = l2
           \/ \E t \in Range(l1) : l2' = l2 \cup {t}
    BY <1>9, BackgroundTurn
  <2>2. Range(l1) \subseteq Runs
    BY <1>0, RangeType DEF Working
  <2>3. l2' \subseteq Runs /\ IsFiniteSet(l2')
    <3>1. CASE l2' = l2
      BY <1>0, <3>1
    <3>2. ASSUME NEW t \in Range(l1), l2' = l2 \cup {t} PROVE l2' \subseteq Runs /\ IsFiniteSet(l2')
      <4>1. IsFiniteSet(l2 \cup {t})
        BY <1>0, FS_AddElement
      <4>. QED
        BY <1>0, <2>2, <3>2, <4>1
    <3>. QED
      BY <2>1, <3>1, <3>2
  <2>. QED
    BY <1>0, <2>1, <2>3 DEF Types, OthersKept, Turn
<1>. QED
  BY <1>2, <1>3, <1>4, <1>5, <1>6, <1>7, <1>8, <1>9 DEF ReadPhase, WritePhase

LEMMA InitTypes == Init => Types
<1>. SUFFICES ASSUME Init PROVE Types
  OBVIOUS
<1>1. <<>> \in Windows /\ <<>> \in Working /\ <<>> \in Seq(Messages)
  BY ContextAssumption DEF Windows, Working
<1>2. IsFiniteSet(l2) /\ l2 = {}
  BY FS_EmptySet DEF Init
<1>3. NoFacts \in Facts
  BY <<>> \in Subjects DEF NoFacts, Facts, Subjects
<1>. QED
  BY <1>1, <1>2, <1>3, RestingType DEF Init, Types, Verdict

LEMMA StutterTypes == Types /\ UNCHANGED vars => Types'
  BY DEF Types, vars, stores

-----------------------------------------------------------------------------
(* What is told *)

(* The points at which no failure is being gathered, and those before a    *)
(* shift of topic can have been told.                                      *)
Gathered == {"idle", "loop", "detect", "detected", "shift", "archive", "spawn", "done"}
Unshifted == {"idle", "rewrite", "assemble", "recall first", "recall second", "recall l3", "rank",
              "enhance", "report", "loop", "detect", "detected", "shift"} \cup Calling

(* What the facts f of a run in state o have told of the m failures it met, *)
(* of its calls, and of its topic.                                          *)
FactsOf(o, f, m) ==
  /\ m = f.failed + o.pending
  /\ o.pc \in Gathered => o.pending = 0
  /\ f.answered <= f.asked
  /\ o.pc \in Calling => f.answered + 1 <= f.asked
  /\ o.pc \in Unshifted => f.shift = <<>> /\ f.archived = <<>>
  /\ o.pc = "shift" => o.verdict \notin {NoTopic, o.previous}
  /\ o.pc = "archive" =>
       /\ f.archived = <<>>
       /\ f.shift # <<>> => /\ f.shift = <<o.previous, o.verdict>>
                            /\ o.verdict \notin {NoTopic, o.previous}
  /\ f.shift # <<>> => /\ f.shift[1] # f.shift[2]
                       /\ f.archived # <<>> => f.archived[1] = f.shift[2]

FactsInv == \A r \in Runs : FactsOf(run[r], told[r], failed[r])

LEMMA FactsStep ==
  ASSUME Types, FactsInv, NEW r \in Runs, NEW rec, NEW facts, NEW n, Turn(r, rec, facts, n),
         FactsOf(rec, facts, failed[r] + n)
  PROVE  FactsInv'
<1>1. ASSUME NEW q \in Runs PROVE FactsOf(run'[q], told'[q], failed'[q])
  <2>1. CASE q = r
    BY <2>1 DEF Turn
  <2>2. CASE q # r
    BY <2>2 DEF Turn, OthersTold, FactsInv
  <2>. QED
    BY <2>1, <2>2
<1>. QED
  BY <1>1 DEF FactsInv

(* How a step may change the record of a run and its facts. *)

LEMMA PassOn ==
  ASSUME NEW o \in RunStates, NEW f \in Facts, NEW m \in Nat, FactsOf(o, f, m),
         o.pc \in Unshifted, NEW rec \in RunStates, NEW n \in Nat, NEW a \in {0, 1},
         o.pc \notin Calling => a = 0,
         rec.pc \in Unshifted \ {"shift"} \/ rec.pc = "archive", rec.pc \notin Calling,
         rec.pending = o.pending + n, rec.pc \in Gathered => rec.pending = 0
  PROVE  FactsOf(rec, [f EXCEPT !.answered = @ + a], m + n)
<1>. DEFINE g == [f EXCEPT !.answered = @ + a]
<1>1. /\ g.failed = f.failed /\ g.asked = f.asked /\ g.answered = f.answered + a
      /\ g.shift = f.shift /\ g.archived = f.archived
      /\ f.failed \in Nat /\ f.asked \in Nat /\ f.answered \in Nat /\ o.pending \in Nat
  BY DEF Facts, RunStates
<1>. HIDE DEF g
<1>2. f.answered + a <= f.asked
  BY <1>1 DEF FactsOf
<1>3. m + n = f.failed + rec.pending
  BY <1>1 DEF FactsOf
<1>4. rec.pc # "shift" /\ f.shift = <<>> /\ f.archived = <<>>
  BY DEF FactsOf, Unshifted
<1>5. FactsOf(rec, g, m + n)
  BY <1>1, <1>2, <1>3, <1>4 DEF FactsOf
<1>. QED
  BY <1>5 DEF g

LEMMA Unanswered ==
  ASSUME NEW f \in Facts
  PROVE  [f EXCEPT !.answered = @ + 0] = f
<1>1. f.answered + 0 = f.answered
  BY DEF Facts
<1>. QED
  BY <1>1 DEF Facts

(* A step of the read phase, or of the loop: nothing of the topic is told. *)
LEMMA PassedOn ==
  ASSUME Types, FactsInv, NEW r \in Runs, NEW rec, NEW n, NEW a \in {0, 1},
         Turn(r, rec, [told[r] EXCEPT !.answered = @ + a], n),
         run[r].pc \in Unshifted, run[r].pc \notin Calling => a = 0,
         rec.pc \in Unshifted \ {"shift"} \/ rec.pc = "archive", rec.pc \notin Calling,
         rec.pending = run[r].pending + n, rec.pc \in Gathered => rec.pending = 0
  PROVE  FactsInv'
<1>1. rec \in RunStates /\ n \in Nat /\ run[r] \in RunStates /\ told[r] \in Facts /\ failed[r] \in Nat
  BY StateTypes DEF Turn
<1>2. FactsOf(run[r], told[r], failed[r])
  BY DEF FactsInv
<1>3. FactsOf(rec, [told[r] EXCEPT !.answered = @ + a], failed[r] + n)
  BY <1>1, <1>2, PassOn
<1>. QED
  BY <1>3, FactsStep

LEMMA PassedOnQuietly ==
  ASSUME Types, FactsInv, NEW r \in Runs, NEW rec, NEW n, Turn(r, rec, told[r], n),
         run[r].pc \in Unshifted,
         rec.pc \in Unshifted \ {"shift"} \/ rec.pc = "archive", rec.pc \notin Calling,
         rec.pending = run[r].pending + n, rec.pc \in Gathered => rec.pending = 0
  PROVE  FactsInv'
<1>1. told[r] = [told[r] EXCEPT !.answered = @ + 0]
  BY StateTypes, Unanswered
<1>2. Turn(r, rec, [told[r] EXCEPT !.answered = @ + 0], n)
  BY <1>1
<1>. QED
  BY <1>2, PassedOn

LEMMA ReadFacts ==
  ASSUME Types, FactsInv, NEW r \in Runs, ReadPhase(r)
  PROVE  FactsInv'
<1>. DEFINE o == run[r]
<1>0. o \in RunStates /\ o.pending \in Nat /\ o.pending + 0 = o.pending
      /\ (o.pc \in Gathered => o.pending = 0)
      /\ told[r] \in Facts /\ failed[r] \in Nat /\ FactsOf(o, told[r], failed[r])
  BY StateTypes, Pending DEF FactsInv, FactsOf
<1>1. CASE Start(r)
  <2>1. PICK pc \in {"rewrite", "assemble"} : Turn(r, [o EXCEPT !.pc = pc], told[r], 0)
    BY <1>1, StartTurn
  <2>2. o.pc = "idle"
    BY <1>1, StartTurn
  <2>. DEFINE rec == [o EXCEPT !.pc = pc]
  <2>3. rec.pc = pc /\ rec.pending = o.pending + 0
    BY <1>0 DEF RunStates
  <2>. HIDE DEF rec, o
  <2>. QED
    BY <2>1, <2>2, <2>3, <1>0, PassedOnQuietly DEF rec, o, Unshifted, Gathered, Calling
<1>2. CASE Ask(r, "rewrite", "rewriting") \/ Ask(r, "enhance", "enhancing")
  <2>1. PICK pc \in {"rewriting", "enhancing"} :
          Turn(r, [o EXCEPT !.pc = pc], [told[r] EXCEPT !.asked = @ + 1], 0)
    BY <1>2, AskTurn
  <2>2. o.pc \in {"rewrite", "enhance"}
    BY <1>2, AskTurn
  <2>. DEFINE rec == [o EXCEPT !.pc = pc]
              f == told[r]
              facts == [f EXCEPT !.asked = @ + 1]
  <2>3. rec.pc = pc /\ rec.pending = o.pending
    BY <1>0 DEF RunStates
  <2>4. /\ facts.failed = f.failed /\ facts.asked = f.asked + 1 /\ facts.answered = f.answered
        /\ facts.shift = f.shift /\ facts.archived = f.archived
        /\ f.failed \in Nat /\ f.asked \in Nat /\ f.answered \in Nat
    BY <1>0 DEF Facts
  <2>. HIDE DEF rec, o, f, facts
  <2>5. FactsOf(rec, facts, failed[r] + 0)
    <3>1. FactsOf(o, f, failed[r])
      BY <1>0 DEF f
    <3>2. o.pc \in Unshifted
      BY <2>2 DEF Unshifted
    <3>3. f.shift = <<>> /\ f.archived = <<>>
      BY <3>1, <3>2 DEF FactsOf
    <3>4. failed[r] = f.failed + o.pending /\ f.answered <= f.asked
      BY <3>1 DEF FactsOf
    <3>5. failed[r] + 0 = f.failed + o.pending /\ f.answered + 1 <= f.asked + 1
      BY <1>0, <2>4, <3>4
    <3>. QED
      BY <2>1, <2>3, <2>4, <3>3, <3>5 DEF FactsOf, Gathered, Calling
  <2>. QED
    BY <2>1, <2>5, FactsStep DEF rec, facts, f, o
<1>3. CASE Rewrite(r)
  <2>1. PICK query \in {"input", "rewritten"}, n \in {0, 1}, a \in {0, 1} :
          Turn(r, [o EXCEPT !.pc = "assemble", !.query = query, !.pending = @ + n],
               [told[r] EXCEPT !.answered = @ + a], n)
    BY <1>3, RewriteTurn
  <2>2. o.pc = "rewriting"
    BY <1>3, RewriteTurn
  <2>. DEFINE rec == [o EXCEPT !.pc = "assemble", !.query = query, !.pending = @ + n]
  <2>3. rec.pc = "assemble" /\ rec.pending = o.pending + n
    BY <1>0 DEF RunStates
  <2>4. Turn(r, rec, [told[r] EXCEPT !.answered = @ + a], n)
    BY <2>1
  <2>. HIDE DEF rec
  <2>. QED
    BY <2>2, <2>3, <2>4, PassedOn DEF Unshifted, Gathered, Calling
<1>4. CASE AssembleBundled(r) \/ AssembleForeign(r)
  <2>1. PICK frame \in Frames, n \in {0, 1} :
          Turn(r, [o EXCEPT !.pc = "report", !.frame = frame, !.pending = @ + n], told[r], n)
    BY <1>4, AssembleTurn
  <2>2. o.pc = "assemble"
    BY <1>4, AssembleTurn
  <2>. DEFINE rec == [o EXCEPT !.pc = "report", !.frame = frame, !.pending = @ + n]
  <2>3. rec.pc = "report" /\ rec.pending = o.pending + n
    BY <1>0 DEF RunStates
  <2>4. Turn(r, rec, told[r], n)
    BY <2>1
  <2>. HIDE DEF rec
  <2>. QED
    BY <2>2, <2>3, <2>4, PassedOnQuietly DEF Unshifted, Gathered, Calling
<1>5. CASE EmbedQuery(r)
  <2>1. PICK e \in BOOLEAN, n \in {0, 1} :
          Turn(r, [o EXCEPT !.pc = "recall first", !.embedded = e, !.pending = @ + n], told[r], n)
    BY <1>5, EmbedTurn
  <2>2. o.pc = "assemble"
    BY <1>5, EmbedTurn
  <2>. DEFINE rec == [o EXCEPT !.pc = "recall first", !.embedded = e, !.pending = @ + n]
  <2>3. rec.pc = "recall first" /\ rec.pending = o.pending + n
    BY <1>0 DEF RunStates
  <2>4. Turn(r, rec, told[r], n)
    BY <2>1
  <2>. HIDE DEF rec
  <2>. QED
    BY <2>2, <2>3, <2>4, PassedOnQuietly DEF Unshifted, Gathered, Calling
<1>6. ASSUME NEW from \in {"recall first", "recall second", "recall l3"},
             NEW pc \in {"recall second", "recall l3", "rank"}, NEW turns, Reads(r, from, pc, turns)
      PROVE  FactsInv'
  <2>1. PICK found \in Found, warm \in BOOLEAN, n \in Nat :
          Turn(r, [o EXCEPT !.pc = pc, !.items = found, !.warm = warm, !.pending = @ + n], told[r], n)
    BY <1>6 DEF Reads
  <2>2. o.pc = from
    BY <1>6 DEF Reads
  <2>. DEFINE rec == [o EXCEPT !.pc = pc, !.items = found, !.warm = warm, !.pending = @ + n]
  <2>3. rec.pc = pc /\ rec.pending = o.pending + n
    BY <1>0 DEF RunStates
  <2>4. Turn(r, rec, told[r], n)
    BY <2>1
  <2>. HIDE DEF rec
  <2>. QED
    BY <2>2, <2>3, <2>4, PassedOnQuietly DEF Unshifted, Gathered, Calling
<1>7. CASE Rank(r)
  <2>1. PICK alike \in Likenesses, recalled \in Recalls, frame \in Frames, pc \in {"report", "enhance"} :
          Turn(r, [o EXCEPT !.alike = alike, !.recalled = recalled, !.frame = frame, !.pc = pc],
               told[r], 0)
    BY <1>7, RankTurn
  <2>2. o.pc = "rank"
    BY <1>7, RankTurn
  <2>. DEFINE rec == [o EXCEPT !.alike = alike, !.recalled = recalled, !.frame = frame, !.pc = pc]
  <2>3. rec.pc = pc /\ rec.pending = o.pending + 0
    BY <1>0 DEF RunStates
  <2>4. Turn(r, rec, told[r], 0)
    BY <2>1
  <2>. HIDE DEF rec
  <2>. QED
    BY <2>2, <2>3, <2>4, PassedOnQuietly DEF Unshifted, Gathered, Calling
<1>8. CASE Enhance(r)
  <2>1. PICK frame \in {<<Message(r, "enhanced")>>, <<Query(r)>>}, n \in {0, 1}, a \in {0, 1} :
          Turn(r, [o EXCEPT !.pc = "report", !.frame = frame, !.pending = @ + n],
               [told[r] EXCEPT !.answered = @ + a], n)
    BY <1>8, EnhanceTurn
  <2>2. o.pc = "enhancing"
    BY <1>8, EnhanceTurn
  <2>. DEFINE rec == [o EXCEPT !.pc = "report", !.frame = frame, !.pending = @ + n]
  <2>3. rec.pc = "report" /\ rec.pending = o.pending + n
    BY <1>0 DEF RunStates
  <2>4. Turn(r, rec, [told[r] EXCEPT !.answered = @ + a], n)
    BY <2>1
  <2>. HIDE DEF rec
  <2>. QED
    BY <2>2, <2>3, <2>4, PassedOn DEF Unshifted, Gathered, Calling
<1>9. CASE Report(r)
  <2>1. PICK empty \in {0, 1} :
          Turn(r, [o EXCEPT !.pc = "loop", !.pending = 0, !.frame = Frame(r),
                            !.items = {}, !.alike = {}, !.recalled = <<>>], ReportTold(r, empty), empty)
    BY <1>9, ReportTurn
  <2>2. o.pc = "report"
    BY <1>9, ReportTurn
  <2>. DEFINE rec == [o EXCEPT !.pc = "loop", !.pending = 0, !.frame = Frame(r),
                               !.items = {}, !.alike = {}, !.recalled = <<>>]
              f == told[r]
              facts == [f EXCEPT !.failed = @ + o.pending + empty]
  <2>3. rec.pc = "loop" /\ rec.pending = 0
    BY <1>0 DEF RunStates
  <2>4. /\ facts.failed = f.failed + o.pending + empty /\ facts.asked = f.asked
        /\ facts.answered = f.answered /\ facts.shift = f.shift /\ facts.archived = f.archived
        /\ f.failed \in Nat /\ f.asked \in Nat /\ f.answered \in Nat
    BY <1>0 DEF Facts
  <2>5. Turn(r, rec, facts, empty)
    BY <2>1 DEF ReportTold
  <2>. HIDE DEF rec, o, f, facts
  <2>6. FactsOf(rec, facts, failed[r] + empty)
    <3>1. FactsOf(o, f, failed[r])
      BY <1>0 DEF f
    <3>2. f.shift = <<>> /\ f.archived = <<>> /\ failed[r] + empty = facts.failed + 0
          /\ f.answered <= f.asked
      BY <1>0, <2>2, <2>4, <3>1 DEF FactsOf, Unshifted
    <3>. QED
      BY <2>3, <2>4, <3>2 DEF FactsOf, Gathered, Calling
  <2>. QED
    BY <2>5, <2>6, FactsStep
<1>. QED
  BY <1>1, <1>2, <1>3, <1>4, <1>5, <1>6, <1>7, <1>8, <1>9, RecallTurn DEF ReadPhase

(* What a failure told at once changes in the facts. *)
LEMMA OneMoreFailure ==
  ASSUME NEW f \in Facts
  PROVE  LET g == [f EXCEPT !.failed = @ + 1] IN
           /\ g.failed = f.failed + 1 /\ g.asked = f.asked /\ g.answered = f.answered
           /\ g.shift = f.shift /\ g.archived = f.archived
  BY DEF Facts

(* A step of the loop or of the write phase that tells nothing of the topic. *)
Advances(o, rec) ==
  \/ rec = o
  \/ /\ o.pc \in Gathered /\ rec.pc \in Gathered /\ rec.pending = 0
     /\ rec.pc \in Unshifted \cup {"archive"} => o.pc \in Unshifted
     /\ rec.pc = "shift" => rec.verdict \notin {NoTopic, rec.previous}

LEMMA Onward ==
  ASSUME NEW o \in RunStates, NEW f \in Facts, NEW m \in Nat, FactsOf(o, f, m),
         NEW rec, NEW g, NEW n \in {0, 1}, Advances(o, rec),
         (g = f /\ n = 0) \/ (g = [f EXCEPT !.failed = @ + 1] /\ n = 1)
  PROVE  FactsOf(rec, g, m + n)
<1>1. /\ g.failed = f.failed + n /\ g.asked = f.asked /\ g.answered = f.answered
      /\ g.shift = f.shift /\ g.archived = f.archived
  <2>1. f.failed + 0 = f.failed
    BY DEF Facts
  <2>. QED
    BY <2>1, OneMoreFailure
<1>2. f.failed \in Nat /\ o.pending \in Nat
  BY DEF Facts, RunStates
<1>3. m = f.failed + o.pending
  BY DEF FactsOf
<1>4. CASE rec = o
  <2>1. m + n = g.failed + o.pending
    BY <1>1, <1>2, <1>3
  <2>. QED
    BY <1>1, <1>4, <2>1 DEF FactsOf
<1>5. CASE /\ o.pc \in Gathered /\ rec.pc \in Gathered /\ rec.pending = 0
           /\ rec.pc \in Unshifted \cup {"archive"} => o.pc \in Unshifted
           /\ rec.pc = "shift" => rec.verdict \notin {NoTopic, rec.previous}
  <2>1. o.pending = 0
    BY <1>5 DEF FactsOf
  <2>2. m + n = g.failed + rec.pending
    BY <1>1, <1>2, <1>3, <1>5, <2>1
  <2>3. rec.pc \notin Calling
    BY <1>5 DEF Gathered, Calling
  <2>4. rec.pc \in Unshifted \cup {"archive"} => f.shift = <<>> /\ f.archived = <<>>
    BY <1>5 DEF FactsOf
  <2>5. g.answered <= g.asked
    BY <1>1 DEF FactsOf
  <2>6. rec.pc = "archive" => g.archived = <<>> /\ g.shift = <<>>
    BY <1>1, <2>4
  <2>7. rec.pc \in Unshifted => g.archived = <<>> /\ g.shift = <<>>
    BY <1>1, <2>4
  <2>8. g.shift # <<>> => /\ g.shift[1] # g.shift[2]
                          /\ g.archived # <<>> => g.archived[1] = g.shift[2]
    BY <1>1 DEF FactsOf
  <2>. QED
    BY <1>5, <2>2, <2>3, <2>5, <2>6, <2>7, <2>8 DEF FactsOf
<1>. QED
  BY <1>4, <1>5 DEF Advances

LEMMA OnwardStep ==
  ASSUME Types, FactsInv, NEW r \in Runs, NEW rec, Advances(run[r], rec),
         \/ Turn(r, rec, told[r], 0)
         \/ Turn(r, rec, [told[r] EXCEPT !.failed = @ + 1], 1)
  PROVE  FactsInv'
<1>1. run[r] \in RunStates /\ told[r] \in Facts /\ failed[r] \in Nat
      /\ FactsOf(run[r], told[r], failed[r])
  BY StateTypes DEF FactsInv
<1>2. FactsOf(rec, told[r], failed[r] + 0)
  BY <1>1, Onward
<1>. DEFINE more == [told[r] EXCEPT !.failed = @ + 1]
<1>3. more = [told[r] EXCEPT !.failed = @ + 1]
  OBVIOUS
<1>. HIDE DEF more
<1>4. FactsOf(rec, more, failed[r] + 1)
  BY <1>1, <1>3, Onward
<1>. QED
  BY <1>2, <1>3, <1>4, FactsStep

(* A step of the write phase that tells something of the topic. *)
LEMMA TopicTold ==
  ASSUME NEW o \in RunStates, NEW f \in Facts, NEW m \in Nat, FactsOf(o, f, m),
         NEW rec, NEW g, rec.pending = o.pending, rec.previous = o.previous, rec.verdict = o.verdict,
         g.failed = f.failed, g.asked = f.asked, g.answered = f.answered,
         \/ /\ o.pc = "shift" /\ rec.pc = "archive"
            /\ g.shift = <<o.previous, o.verdict>> /\ g.archived = f.archived
         \/ /\ o.pc = "archive" /\ rec.pc = "spawn" /\ g.shift = f.shift
            /\ g.archived = <<IF o.verdict \notin {NoTopic, o.previous} THEN o.verdict ELSE o.previous>>
  PROVE  FactsOf(rec, g, m)
<1>1. m = g.failed + rec.pending /\ g.answered <= g.asked
  BY DEF FactsOf
<1>2. rec.pc \notin Calling /\ rec.pc \notin Unshifted /\ rec.pc # "shift" /\ o.pending = 0
  BY DEF FactsOf, Calling, Unshifted, Gathered
<1>3. CASE /\ o.pc = "shift" /\ rec.pc = "archive"
           /\ g.shift = <<o.previous, o.verdict>> /\ g.archived = f.archived
  <2>1. f.archived = <<>> /\ o.verdict \notin {NoTopic, o.previous}
    BY <1>3 DEF FactsOf, Unshifted
  <2>. QED
    BY <1>1, <1>2, <1>3, <2>1 DEF FactsOf
<1>4. CASE /\ o.pc = "archive" /\ rec.pc = "spawn" /\ g.shift = f.shift
           /\ g.archived = <<IF o.verdict \notin {NoTopic, o.previous} THEN o.verdict ELSE o.previous>>
  <2>1. f.shift # <<>> => /\ f.shift = <<o.previous, o.verdict>>
                          /\ o.verdict \notin {NoTopic, o.previous}
    BY <1>4 DEF FactsOf
  <2>2. g.shift # <<>> => /\ g.shift[1] # g.shift[2] /\ g.archived[1] = g.shift[2]
    BY <1>4, <2>1
  <2>. QED
    BY <1>1, <1>2, <1>4, <2>2 DEF FactsOf
<1>. QED
  BY <1>3, <1>4

LEMMA WriteFacts ==
  ASSUME Types, FactsInv, NEW r \in Runs, WritePhase(r)
  PROVE  FactsInv'
<1>. DEFINE o == run[r]
<1>0. /\ o \in RunStates /\ (o.pc \in Gathered => o.pending = 0)
      /\ told[r] \in Facts /\ failed[r] \in Nat /\ FactsOf(o, told[r], failed[r])
      /\ (o.pc = "shift" => o.verdict \notin {NoTopic, o.previous})
  BY StateTypes DEF FactsInv, FactsOf
<1>1. Done.pc = "done" /\ Done.pending = 0
  BY DEF Done, Resting
<1>2. CASE Loop(r)
  <2>1. o.pc = "loop"
    BY <1>2, LoopTurn
  <2>2. CASE Turn(r, Done, told[r], 0)
    BY <1>1, <2>1, <2>2, OnwardStep DEF Advances, Gathered, Unshifted, Calling
  <2>3. ASSUME NEW pc \in {"detect", "archive"},
               Turn(r, [o EXCEPT !.previous = topic, !.pc = pc], told[r], 0)
        PROVE  FactsInv'
    <3>. DEFINE rec == [o EXCEPT !.previous = topic, !.pc = pc]
    <3>1. rec.pc = pc /\ rec.pending = 0
      BY <1>0, <2>1 DEF RunStates, Gathered
    <3>2. Turn(r, rec, told[r], 0)
      BY <2>3
    <3>. HIDE DEF rec
    <3>. QED
      BY <2>1, <3>1, <3>2, OnwardStep DEF Advances, Gathered, Unshifted
  <2>. QED
    BY <1>2, <2>2, <2>3, LoopTurn
<1>3. CASE Detect(r)
  <2>1. o.pc = "detect"
    BY <1>3, DetectTurn
  <2>2. ASSUME NEW verdict \in Verdict,
               Turn(r, [o EXCEPT !.pc = "detected", !.verdict = verdict], told[r], 0)
        PROVE  FactsInv'
    <3>. DEFINE rec == [o EXCEPT !.pc = "detected", !.verdict = verdict]
    <3>1. rec.pc = "detected" /\ rec.pending = 0
      BY <1>0, <2>1 DEF RunStates, Gathered
    <3>2. Turn(r, rec, told[r], 0)
      BY <2>2
    <3>. HIDE DEF rec
    <3>. QED
      BY <2>1, <3>1, <3>2, OnwardStep DEF Advances, Gathered, Unshifted
  <2>3. CASE Turn(r, [o EXCEPT !.pc = "archive"], [told[r] EXCEPT !.failed = @ + 1], 1)
    <3>. DEFINE rec == [o EXCEPT !.pc = "archive"]
    <3>1. rec.pc = "archive" /\ rec.pending = 0
      BY <1>0, <2>1 DEF RunStates, Gathered
    <3>2. Turn(r, rec, [told[r] EXCEPT !.failed = @ + 1], 1)
      BY <2>3
    <3>. HIDE DEF rec
    <3>. QED
      BY <2>1, <3>1, <3>2, OnwardStep DEF Advances, Gathered, Unshifted
  <2>. QED
    BY <1>3, <2>2, <2>3, DetectTurn
<1>4. CASE SetTopic(r)
  <2>1. o.pc = "detected"
    BY <1>4, SetTopicTurn
  <2>2. PICK pc \in {"archive", "shift"} :
          Turn(r, [o EXCEPT !.pc = pc], told[r], 0) /\ (pc = "shift" => Changes(r))
    BY <1>4, SetTopicTurn
  <2>. DEFINE rec == [o EXCEPT !.pc = pc]
  <2>3. rec.pc = pc /\ rec.pending = 0 /\ rec.verdict = o.verdict /\ rec.previous = o.previous
    BY <1>0, <2>1 DEF RunStates, Gathered
  <2>4. Turn(r, rec, told[r], 0)
    BY <2>2
  <2>. HIDE DEF rec
  <2>5. rec.pc = "shift" => rec.verdict \notin {NoTopic, rec.previous}
    BY <2>2, <2>3 DEF Changes
  <2>. QED
    BY <2>1, <2>2, <2>3, <2>4, <2>5, OnwardStep DEF Advances, Gathered, Unshifted
<1>5. CASE EmitShift(r)
  <2>. DEFINE rec == [o EXCEPT !.pc = "archive"]
              pair == <<o.previous, o.verdict>>
              f == told[r]
              facts == [f EXCEPT !.shift = pair]
  <2>1. o.pc = "shift" /\ Turn(r, rec, facts, 0)
    BY <1>5, ShiftTurn
  <2>2. /\ rec.pc = "archive" /\ rec.pending = o.pending /\ rec.previous = o.previous
        /\ rec.verdict = o.verdict
    BY <1>0 DEF RunStates
  <2>3. /\ facts.failed = f.failed /\ facts.asked = f.asked /\ facts.answered = f.answered
        /\ facts.shift = pair /\ facts.archived = f.archived
    <3>1. f \in Facts
      BY <1>0
    <3>. HIDE DEF f, pair
    <3>. QED
      BY <3>1 DEF Facts
  <2>. HIDE DEF rec, facts
  <2>4. FactsOf(rec, facts, failed[r])
    BY <1>0, <2>1, <2>2, <2>3, TopicTold
  <2>5. failed[r] + 0 = failed[r]
    BY <1>0
  <2>. QED
    BY <2>1, <2>4, <2>5, FactsStep
<1>6. CASE Archive(r)
  <2>. DEFINE rec == [o EXCEPT !.pc = "spawn"]
              f == told[r]
              facts == [f EXCEPT !.archived = <<TurnTopic(r)>>]
  <2>1. o.pc = "archive" /\ (Turn(r, rec, facts, 0) \/ Turn(r, rec, [f EXCEPT !.failed = @ + 1], 1))
    BY <1>6, ArchiveTurn
  <2>2. /\ rec.pc = "spawn" /\ rec.pending = o.pending /\ rec.previous = o.previous
        /\ rec.verdict = o.verdict /\ o.pending = 0
    BY <1>0, <2>1 DEF RunStates, Gathered
  <2>3. CASE Turn(r, rec, facts, 0)
    <3>1. /\ facts.failed = f.failed /\ facts.asked = f.asked /\ facts.answered = f.answered
          /\ facts.shift = f.shift /\ facts.archived = <<TurnTopic(r)>>
      BY <1>0 DEF Facts
    <3>2. TurnTopic(r) = IF o.verdict \notin {NoTopic, o.previous} THEN o.verdict ELSE o.previous
      BY DEF TurnTopic, Changes
    <3>. HIDE DEF rec, facts
    <3>3. FactsOf(rec, facts, failed[r])
      BY <1>0, <2>1, <2>2, <3>1, <3>2, TopicTold
    <3>4. failed[r] + 0 = failed[r]
      BY <1>0
    <3>. QED
      BY <2>3, <3>3, <3>4, FactsStep
  <2>4. CASE Turn(r, rec, [f EXCEPT !.failed = @ + 1], 1)
    <3>. HIDE DEF rec
    <3>. QED
      BY <2>1, <2>2, <2>4, OnwardStep DEF Advances, Gathered, Unshifted, Calling
  <2>. QED
    BY <2>1, <2>3, <2>4
<1>7. CASE Spawn(r)
  <2>1. o.pc = "spawn"
    BY <1>7, SpawnTurn
  <2>. QED
    BY <1>1, <1>7, <2>1, SpawnTurn, OnwardStep DEF Advances, Gathered, Unshifted, Calling
<1>8. CASE Background(r)
  BY <1>8, BackgroundTurn, OnwardStep DEF Advances
<1>. QED
  BY <1>2, <1>3, <1>4, <1>5, <1>6, <1>7, <1>8 DEF WritePhase

LEMMA InitFacts == Init => FactsInv
<1>1. FactsOf(Resting, NoFacts, 0)
  BY DEF FactsOf, Resting, NoFacts, Calling, Gathered
<1>. QED
  BY <1>1 DEF Init, FactsInv

LEMMA NextFacts == Types /\ FactsInv /\ [Next]_vars => Types' /\ FactsInv'
<1>. SUFFICES ASSUME Types, FactsInv, [Next]_vars PROVE Types' /\ FactsInv'
  OBVIOUS
<1>1. ASSUME NEW r \in Runs, ReadPhase(r) \/ WritePhase(r) PROVE Types' /\ FactsInv'
  BY <1>1, NextTypes, ReadFacts, WriteFacts
<1>2. CASE UNCHANGED vars
  BY <1>2, StutterTypes DEF vars, FactsInv
<1>. QED
  BY <1>1, <1>2, NextSteps

LEMMA TypesAndFacts == Spec => [](Types /\ FactsInv)
  BY InitTypes, InitFacts, NextFacts, PTL DEF Spec

LEMMA TypesSuffice == Types /\ FactsInv => TypeOK
<1>. SUFFICES ASSUME Types, FactsInv PROVE TypeOK
  OBVIOUS
<1>1. /\ Len(window) <= Window /\ Range(window) \subseteq Messages
      /\ Len(l1) <= L1Turns /\ Range(l1) \subseteq Runs
  BY RangeType DEF Types, Windows, Working
<1>2. ASSUME NEW r \in Runs
      PROVE  /\ run[r].pc \in Points /\ run[r].query \in {"input", "rewritten"}
             /\ run[r].items \subseteq Items /\ Len(run[r].recalled) <= TopN
             /\ run[r].alike \in Likenesses \cup {{}}
             /\ Range(run[r].frame) \subseteq Messages /\ Len(run[r].frame) <= Longest
             /\ {run[r].previous, run[r].verdict} \subseteq Verdict
             /\ told[r].failed <= failed[r] /\ told[r].answered <= told[r].asked
             /\ Range(told[r].shift) \cup Range(told[r].archived) \subseteq Verdict
  <2>. DEFINE o == run[r]
              f == told[r]
  <2>1. o \in RunStates /\ f \in Facts /\ failed[r] \in Nat /\ FactsOf(o, f, failed[r])
    BY StateTypes DEF FactsInv
  <2>. HIDE DEF o, f
  <2>2. /\ o.pc \in Points /\ o.query \in {"input", "rewritten"} /\ o.items \subseteq Items
        /\ o.alike \in Likenesses \cup {{}}
        /\ o.recalled \in Recalls /\ o.frame \in Frames /\ o.pending \in Nat
        /\ o.previous \in Verdict /\ o.verdict \in Verdict
    BY <2>1 DEF RunStates, Found
  <2>3. f.shift \in Seq(Verdict) /\ f.archived \in Seq(Verdict) /\ f.failed \in Nat
    BY <2>1 DEF Facts, Subjects
  <2>4. Range(f.shift) \subseteq Verdict /\ Range(f.archived) \subseteq Verdict
    BY <2>3, RangeType
  <2>5. Range(o.frame) \subseteq Messages
    BY <2>2, RangeType DEF Frames
  <2>6. f.failed <= failed[r]
    <3>1. failed[r] = f.failed + o.pending
      BY <2>1 DEF FactsOf
    <3>. QED
      BY <2>2, <2>3, <3>1
  <2>7. f.answered <= f.asked
    BY <2>1 DEF FactsOf
  <2>. QED
    BY <2>2, <2>4, <2>5, <2>6, <2>7 DEF Recalls, Frames, o, f
<1>. QED
  BY <1>1, <1>2 DEF TypeOK, Types

(* Every variable keeps its type: no window, working memory or frame ever   *)
(* outgrows its limit, no run tells more failures than it met, and no more  *)
(* answers than calls.                                                      *)
THEOREM ContextTypes == Spec => []TypeOK
  BY TypesAndFacts, TypesSuffice, PTL

LEMMA FactsSuffice == Types /\ FactsInv => FactsAreTrue
<1>. SUFFICES ASSUME Types, FactsInv, NEW r \in Runs
              PROVE  /\ failed[r] = told[r].failed + run[r].pending
                     /\ told[r].answered + (IF run[r].pc \in Calling THEN 1 ELSE 0) <= told[r].asked
                     /\ told[r].shift # <<>> =>
                          /\ told[r].shift[1] # told[r].shift[2]
                          /\ told[r].archived # <<>> => told[r].archived[1] = told[r].shift[2]
  BY DEF FactsAreTrue, NothingSilent, TopicsAgree
<1>1. FactsOf(run[r], told[r], failed[r]) /\ told[r] \in Facts
  BY StateTypes DEF FactsInv
<1>2. told[r].answered + 0 = told[r].answered
  BY <1>1 DEF Facts
<1>. QED
  BY <1>1, <1>2 DEF FactsOf

(* What a turn put on the bus is what happened to it, whatever the other    *)
(* runs do meanwhile: every failure an extension or a store handed over is  *)
(* told, or still gathered by the read phase; a call is answered once at    *)
(* most; a shift names two topics, the second of which the turn is archived *)
(* under (assemble, on_turn_completed, spawn_failing, NarratedModel).       *)
THEOREM FactsTold == Spec => []FactsAreTrue
  BY TypesAndFacts, FactsSuffice, PTL

-----------------------------------------------------------------------------
(* What is recalled *)

TurnsOf(items) == {item.turn : item \in items}

(* What a run in state o knows of the turns k that the layers w and s never *)
(* lost sight of: as long as neither is read, one of them holds the turn;   *)
(* once the first is read, the turn is a candidate, or still in the second, *)
(* for a turn moves from the first layer to the second and never back.      *)
RecallOf(o, k, w, s) ==
  /\ o.pc \in {"rewrite", "rewriting", "assemble", "recall first"} => k \subseteq w \cup s
  /\ o.pc = "recall second" => k \subseteq TurnsOf(o.items) \cup s
  /\ o.pc \in {"recall l3", "rank"} => k \subseteq TurnsOf(o.items)
  /\ o.pc \in {"enhance", "enhancing"} => Complete(o.recalled, o.items, o.alike)

RecallInv == \A r \in Runs : RecallOf(run[r], kept[r], Range(l1), l2)

Unread == {"idle", "report", "loop", "detect", "detected", "shift", "archive", "spawn", "done"}

(* The layers as a step may leave them: the second loses nothing, and what  *)
(* drops out of the first is counted on by no run.                          *)
LayersMove ==
  /\ l2 \subseteq l2'
  /\ \/ l1' = l1
     \/ \A q \in Runs : kept'[q] \subseteq Range(l1') \cup l2'

LEMMA RecallKept ==
  ASSUME NEW o, NEW k, NEW w, NEW s, NEW l, NEW u, NEW t, RecallOf(o, k, w, s),
         l \subseteq k, s \subseteq t, u = w \/ l \subseteq u \cup t
  PROVE  RecallOf(o, l, u, t)
  BY DEF RecallOf

LEMMA RecallStep ==
  ASSUME Types, RecallInv, NEW r \in Runs, NEW rec, NEW facts, NEW n, Turn(r, rec, facts, n),
         LayersMove, OthersKept(r), RecallOf(rec, kept'[r], Range(l1'), l2')
  PROVE  RecallInv'
<1>1. ASSUME NEW q \in Runs PROVE RecallOf(run'[q], kept'[q], Range(l1'), l2')
  <2>1. CASE q = r
    BY <2>1 DEF Turn
  <2>2. CASE q # r
    <3>1. RecallOf(run[q], kept[q], Range(l1), l2) /\ run'[q] = run[q] /\ kept'[q] \subseteq kept[q]
      BY <2>2 DEF OthersKept, RecallInv
    <3>2. l2 \subseteq l2' /\ (Range(l1') = Range(l1) \/ kept'[q] \subseteq Range(l1') \cup l2')
      BY DEF LayersMove
    <3>. QED
      BY <3>1, <3>2, RecallKept
  <2>. QED
    BY <2>1, <2>2
<1>. QED
  BY <1>1 DEF RecallInv

(* A step at which no layer is being read, or which leaves the layers and   *)
(* what was found in them as they were.                                     *)
LEMMA RecallUntouched ==
  ASSUME Types, RecallInv, NEW r \in Runs, NEW rec, NEW facts, NEW n, Turn(r, rec, facts, n),
         LayersMove, OthersKept(r),
         \/ rec.pc \in Unread
         \/ RecallOf(rec, kept[r], Range(l1), l2) /\ UNCHANGED <<l1, l2, kept>>
  PROVE  RecallInv'
<1>1. CASE rec.pc \in Unread
  <2>1. RecallOf(rec, kept'[r], Range(l1'), l2')
    BY <1>1 DEF RecallOf, Unread
  <2>. QED
    BY <2>1, RecallStep
<1>2. CASE RecallOf(rec, kept[r], Range(l1), l2) /\ UNCHANGED <<l1, l2, kept>>
  <2>1. RecallOf(rec, kept'[r], Range(l1'), l2')
    BY <1>2
  <2>. QED
    BY <2>1, RecallStep
<1>. QED
  BY <1>1, <1>2

LEMMA ReadRecall ==
  ASSUME Types, RecallInv, NEW r \in Runs, ReadPhase(r)
  PROVE  RecallInv'
<1>. DEFINE o == run[r]
            Quiet == UNCHANGED <<l1, l2, kept>>
<1>0. o \in RunStates /\ RecallOf(o, kept[r], Range(l1), l2) /\ OthersKept(r)
  BY StateTypes, NextTypes DEF RecallInv
<1>1. CASE Start(r)
  <2>1. PICK pc \in {"rewrite", "assemble"} : Turn(r, [o EXCEPT !.pc = pc], told[r], 0)
    BY <1>1, StartTurn
  <2>. DEFINE rec == [o EXCEPT !.pc = pc]
  <2>2. rec.pc = pc /\ Turn(r, rec, told[r], 0)
    BY <1>0, <2>1 DEF RunStates
  <2>3. kept'[r] = Range(l1) \cup l2 /\ UNCHANGED <<l1, l2>>
    BY <1>1, StartTurn DEF Types
  <2>. HIDE DEF rec
  <2>4. RecallOf(rec, kept'[r], Range(l1'), l2')
    BY <2>2, <2>3 DEF RecallOf
  <2>. QED
    BY <1>0, <2>2, <2>3, <2>4, RecallStep DEF LayersMove
<1>2. CASE Ask(r, "rewrite", "rewriting") \/ Ask(r, "enhance", "enhancing")
  <2>1. PICK pc \in {"rewriting", "enhancing"} :
          /\ Turn(r, [o EXCEPT !.pc = pc], [told[r] EXCEPT !.asked = @ + 1], 0)
          /\ (o.pc = "rewrite" /\ pc = "rewriting") \/ (o.pc = "enhance" /\ pc = "enhancing")
          /\ Quiet
    BY <1>2, AskTurn
  <2>. DEFINE rec == [o EXCEPT !.pc = pc]
              facts == [told[r] EXCEPT !.asked = @ + 1]
  <2>2. rec.pc = pc /\ rec.items = o.items /\ rec.recalled = o.recalled /\ rec.alike = o.alike /\ Turn(r, rec, facts, 0)
    BY <1>0, <2>1 DEF RunStates
  <2>. HIDE DEF rec, facts
  <2>3. RecallOf(rec, kept[r], Range(l1), l2)
    BY <1>0, <2>1, <2>2 DEF RecallOf
  <2>. QED
    BY <1>0, <2>1, <2>2, <2>3, RecallUntouched DEF LayersMove
<1>3. CASE Rewrite(r)
  <2>1. PICK query \in {"input", "rewritten"}, n \in {0, 1}, a \in {0, 1} :
          Turn(r, [o EXCEPT !.pc = "assemble", !.query = query, !.pending = @ + n],
               [told[r] EXCEPT !.answered = @ + a], n)
    BY <1>3, RewriteTurn
  <2>2. o.pc = "rewriting" /\ Quiet
    BY <1>3, RewriteTurn
  <2>. DEFINE rec == [o EXCEPT !.pc = "assemble", !.query = query, !.pending = @ + n]
              facts == [told[r] EXCEPT !.answered = @ + a]
  <2>3. rec.pc = "assemble" /\ Turn(r, rec, facts, n)
    BY <1>0, <2>1 DEF RunStates
  <2>. HIDE DEF rec, facts
  <2>4. RecallOf(rec, kept[r], Range(l1), l2)
    BY <1>0, <2>2, <2>3 DEF RecallOf
  <2>. QED
    BY <1>0, <2>2, <2>3, <2>4, RecallUntouched DEF LayersMove
<1>4. CASE AssembleBundled(r) \/ AssembleForeign(r)
  <2>1. PICK frame \in Frames, n \in {0, 1} :
          Turn(r, [o EXCEPT !.pc = "report", !.frame = frame, !.pending = @ + n], told[r], n)
    BY <1>4, AssembleTurn
  <2>2. Quiet
    BY <1>4, AssembleTurn
  <2>. DEFINE rec == [o EXCEPT !.pc = "report", !.frame = frame, !.pending = @ + n]
  <2>3. rec.pc = "report" /\ Turn(r, rec, told[r], n)
    BY <1>0, <2>1 DEF RunStates
  <2>. HIDE DEF rec
  <2>. QED
    BY <1>0, <2>2, <2>3, RecallUntouched DEF LayersMove, Unread
<1>5. CASE EmbedQuery(r)
  <2>1. PICK e \in BOOLEAN, n \in {0, 1} :
          Turn(r, [o EXCEPT !.pc = "recall first", !.embedded = e, !.pending = @ + n], told[r], n)
    BY <1>5, EmbedTurn
  <2>2. o.pc = "assemble" /\ Quiet
    BY <1>5, EmbedTurn
  <2>. DEFINE rec == [o EXCEPT !.pc = "recall first", !.embedded = e, !.pending = @ + n]
  <2>3. rec.pc = "recall first" /\ Turn(r, rec, told[r], n)
    BY <1>0, <2>1 DEF RunStates
  <2>. HIDE DEF rec
  <2>4. RecallOf(rec, kept[r], Range(l1), l2)
    BY <1>0, <2>2, <2>3 DEF RecallOf
  <2>. QED
    BY <1>0, <2>2, <2>3, <2>4, RecallUntouched DEF LayersMove
<1>6. ASSUME NEW from, NEW pc, NEW turns, Reads(r, from, pc, turns),
             \/ from = "recall first" /\ pc = "recall second" /\ turns = Range(l1)
             \/ from = "recall second" /\ pc = "recall l3" /\ turns = l2
             \/ from = "recall l3" /\ pc = "rank"
      PROVE  RecallInv'
  <2>1. PICK found \in Found, warm \in BOOLEAN, n \in Nat :
          /\ Turn(r, [o EXCEPT !.pc = pc, !.items = found, !.warm = warm, !.pending = @ + n], told[r], n)
          /\ o.items \subseteq found
          /\ \A t \in turns \cap kept'[r] : \E item \in found : item.turn = t
    BY <1>6 DEF Reads
  <2>2. o.pc = from /\ kept'[r] \subseteq kept[r] /\ UNCHANGED <<l1, l2>>
    BY <1>6 DEF Reads
  <2>. DEFINE rec == [o EXCEPT !.pc = pc, !.items = found, !.warm = warm, !.pending = @ + n]
  <2>3. rec.pc = pc /\ rec.items = found /\ Turn(r, rec, told[r], n)
    BY <1>0, <2>1 DEF RunStates
  <2>. HIDE DEF rec
  <2>4. TurnsOf(o.items) \subseteq TurnsOf(found) /\ turns \cap kept'[r] \subseteq TurnsOf(found)
    BY <2>1 DEF TurnsOf
  <2>5. RecallOf(rec, kept'[r], Range(l1), l2)
    <3>1. CASE from = "recall first" /\ pc = "recall second" /\ turns = Range(l1)
      <4>1. kept[r] \subseteq Range(l1) \cup l2
        BY <1>0, <2>2, <3>1 DEF RecallOf
      <4>2. kept'[r] \subseteq TurnsOf(found) \cup l2
        BY <2>2, <2>4, <3>1, <4>1
      <4>. QED
        BY <2>3, <3>1, <4>2 DEF RecallOf
    <3>2. CASE from = "recall second" /\ pc = "recall l3" /\ turns = l2
      <4>1. kept[r] \subseteq TurnsOf(o.items) \cup l2
        BY <1>0, <2>2, <3>2 DEF RecallOf
      <4>2. kept'[r] \subseteq TurnsOf(found)
        BY <2>2, <2>4, <3>2, <4>1
      <4>. QED
        BY <2>3, <3>2, <4>2 DEF RecallOf
    <3>3. CASE from = "recall l3" /\ pc = "rank"
      <4>1. kept'[r] \subseteq TurnsOf(found)
        BY <1>0, <2>2, <2>4, <3>3 DEF RecallOf
      <4>. QED
        BY <2>3, <3>3, <4>1 DEF RecallOf
    <3>. QED
      BY <1>6, <3>1, <3>2, <3>3
  <2>6. RecallOf(rec, kept'[r], Range(l1'), l2')
    BY <2>2, <2>5
  <2>. QED
    BY <1>0, <2>2, <2>3, <2>6, RecallStep DEF LayersMove
<1>7. CASE Rank(r)
  <2>1. PICK alike \in Likenesses, recalled \in Recalls, frame \in Frames, pc \in {"report", "enhance"} :
          /\ Turn(r, [o EXCEPT !.alike = alike, !.recalled = recalled, !.frame = frame, !.pc = pc], told[r], 0)
          /\ Complete(recalled, o.items, alike)
    BY <1>7, RankTurn
  <2>2. Quiet
    BY <1>7, RankTurn
  <2>. DEFINE rec == [o EXCEPT !.alike = alike, !.recalled = recalled, !.frame = frame, !.pc = pc]
  <2>3. /\ rec.pc = pc /\ rec.recalled = recalled /\ rec.items = o.items /\ rec.alike = alike
        /\ Turn(r, rec, told[r], 0)
    BY <1>0, <2>1 DEF RunStates
  <2>. HIDE DEF rec
  <2>4. RecallOf(rec, kept[r], Range(l1), l2)
    BY <2>1, <2>3 DEF RecallOf
  <2>. QED
    BY <1>0, <2>2, <2>3, <2>4, RecallUntouched DEF LayersMove
<1>8. CASE Enhance(r)
  <2>1. PICK frame \in {<<Message(r, "enhanced")>>, <<Query(r)>>}, n \in {0, 1}, a \in {0, 1} :
          Turn(r, [o EXCEPT !.pc = "report", !.frame = frame, !.pending = @ + n],
               [told[r] EXCEPT !.answered = @ + a], n)
    BY <1>8, EnhanceTurn
  <2>2. Quiet
    BY <1>8, EnhanceTurn
  <2>. DEFINE rec == [o EXCEPT !.pc = "report", !.frame = frame, !.pending = @ + n]
              facts == [told[r] EXCEPT !.answered = @ + a]
  <2>3. rec.pc = "report" /\ Turn(r, rec, facts, n)
    BY <1>0, <2>1 DEF RunStates
  <2>. HIDE DEF rec, facts
  <2>. QED
    BY <1>0, <2>2, <2>3, RecallUntouched DEF LayersMove, Unread
<1>9. CASE Report(r)
  <2>1. PICK empty \in {0, 1} :
          Turn(r, [o EXCEPT !.pc = "loop", !.pending = 0, !.frame = Frame(r),
                            !.items = {}, !.alike = {}, !.recalled = <<>>], ReportTold(r, empty), empty)
    BY <1>9, ReportTurn
  <2>2. UNCHANGED <<l1, l2>>
    BY <1>9, ReportTurn
  <2>. DEFINE rec == [o EXCEPT !.pc = "loop", !.pending = 0, !.frame = Frame(r),
                               !.items = {}, !.alike = {}, !.recalled = <<>>]
  <2>3. rec.pc = "loop" /\ Turn(r, rec, ReportTold(r, empty), empty)
    BY <1>0, <2>1 DEF RunStates
  <2>. HIDE DEF rec
  <2>. QED
    BY <1>0, <2>2, <2>3, RecallUntouched DEF LayersMove, Unread
<1>. QED
  BY <1>1, <1>2, <1>3, <1>4, <1>5, <1>6, <1>7, <1>8, <1>9, RecallTurn DEF ReadPhase

LEMMA WriteRecall ==
  ASSUME Types, RecallInv, NEW r \in Runs, WritePhase(r)
  PROVE  RecallInv'
<1>. DEFINE o == run[r]
<1>0. o \in RunStates /\ RecallOf(o, kept[r], Range(l1), l2) /\ OthersKept(r)
  BY StateTypes, NextTypes DEF RecallInv
<1>1. ASSUME NEW rec, NEW facts, NEW n, Turn(r, rec, facts, n), rec.pc \in Unread, LayersMove
      PROVE  RecallInv'
  BY <1>0, <1>1, RecallUntouched
<1>2. \A pc \in Points : [o EXCEPT !.pc = pc].pc = pc
  BY <1>0 DEF RunStates
<1>3. Done.pc \in Unread
  BY DEF Done, Resting, Unread
<1>4. CASE Loop(r)
  <2>1. LayersMove
    BY <1>4, LoopTurn DEF LayersMove
  <2>2. ASSUME NEW pc \in {"detect", "archive"},
               Turn(r, [o EXCEPT !.previous = topic, !.pc = pc], told[r], 0)
        PROVE  RecallInv'
    <3>1. [o EXCEPT !.previous = topic, !.pc = pc].pc = pc
      BY <1>0 DEF RunStates
    <3>2. [o EXCEPT !.previous = topic, !.pc = pc].pc \in Unread
      BY <3>1 DEF Unread
    <3>. QED
      BY <1>1, <2>1, <2>2, <3>2
  <2>. QED
    BY <1>1, <1>3, <1>4, <2>1, <2>2, LoopTurn
<1>5. CASE Detect(r)
  <2>1. LayersMove
    BY <1>5, DetectTurn DEF LayersMove
  <2>2. ASSUME NEW v \in Verdict,
               Turn(r, [o EXCEPT !.pc = "detected", !.verdict = v], told[r], 0)
        PROVE  RecallInv'
    <3>1. [o EXCEPT !.pc = "detected", !.verdict = v].pc = "detected"
      BY <1>0 DEF RunStates
    <3>2. [o EXCEPT !.pc = "detected", !.verdict = v].pc \in Unread
      BY <3>1 DEF Unread
    <3>. QED
      BY <1>1, <2>1, <2>2, <3>2
  <2>3. [o EXCEPT !.pc = "archive"].pc \in Unread
    BY <1>2 DEF Unread, Points
  <2>. QED
    BY <1>1, <1>5, <2>1, <2>2, <2>3, DetectTurn
<1>6. CASE SetTopic(r)
  <2>1. LayersMove
    BY <1>6, SetTopicTurn DEF LayersMove
  <2>2. \A pc \in {"archive", "shift"} : [o EXCEPT !.pc = pc].pc \in Unread
    BY <1>2 DEF Unread, Points
  <2>. QED
    BY <1>1, <1>6, <2>1, <2>2, SetTopicTurn
<1>7. CASE EmitShift(r)
  <2>1. LayersMove
    BY <1>7, ShiftTurn DEF LayersMove
  <2>2. [o EXCEPT !.pc = "archive"].pc \in Unread
    BY <1>2 DEF Unread, Points
  <2>. QED
    BY <1>1, <1>7, <2>1, <2>2, ShiftTurn
<1>8. CASE Archive(r)
  <2>1. kept' = [q \in Runs |-> kept[q] \cap (Range(l1') \cup l2')]
    BY <1>8, ArchiveTurn
  <2>2. l2' = l2
    BY <1>8, ArchiveTurn, HookTypes
  <2>3. LayersMove
    BY <2>1, <2>2 DEF LayersMove
  <2>4. [o EXCEPT !.pc = "spawn"].pc \in Unread
    BY <1>2 DEF Unread, Points
  <2>5. \E facts, n : Turn(r, [o EXCEPT !.pc = "spawn"], facts, n)
    BY <1>8, ArchiveTurn
  <2>. QED
    BY <1>1, <2>3, <2>4, <2>5
<1>9. CASE Spawn(r)
  <2>1. LayersMove
    BY <1>9, SpawnTurn DEF LayersMove
  <2>. QED
    BY <1>1, <1>3, <1>9, <2>1, SpawnTurn
<1>10. CASE Background(r)
  <2>1. l1' = l1 /\ kept' = kept /\ l2 \subseteq l2'
    BY <1>10, BackgroundTurn
  <2>2. LayersMove
    BY <2>1 DEF LayersMove
  <2>3. RecallOf(o, kept'[r], Range(l1'), l2')
    BY <1>0, <2>1, RecallKept
  <2>4. \E facts, n : Turn(r, o, facts, n)
    BY <1>10, BackgroundTurn
  <2>. QED
    BY <1>0, <2>2, <2>3, <2>4, RecallStep
<1>. QED
  BY <1>4, <1>5, <1>6, <1>7, <1>8, <1>9, <1>10 DEF WritePhase

LEMMA RecallsHold == Spec => [](Types /\ RecallInv)
<1>1. Init => RecallInv
  BY DEF Init, Resting, RecallInv, RecallOf
<1>2. Types /\ RecallInv /\ [Next]_vars => RecallInv'
  <2>. SUFFICES ASSUME Types, RecallInv, [Next]_vars PROVE RecallInv'
    OBVIOUS
  <2>1. ASSUME NEW r \in Runs, ReadPhase(r) \/ WritePhase(r) PROVE RecallInv'
    BY <2>1, ReadRecall, WriteRecall
  <2>2. CASE UNCHANGED vars
    BY <2>2 DEF vars, stores, RecallInv
  <2>. QED
    BY <2>1, <2>2, NextSteps
<1>3. Types /\ [Next]_vars => Types'
  BY StutterTypes, NextTypes, NextSteps
<1>. QED
  BY InitTypes, <1>1, <1>2, <1>3, PTL DEF Spec

(* Recall has no blind spot and leaves no memory out, although the layers   *)
(* are read one after the other while the turns of other runs are archived, *)
(* evicted and summarised between the reads: a turn moves from the layer    *)
(* read first to the one read second only (assemble, dedupe).               *)
THEOREM RecallComplete == Spec => []RecallIsComplete
<1>1. Types /\ RecallInv => RecallIsComplete
  BY DEF RecallInv, RecallOf, RecallIsComplete, TurnsOf, Complete
<1>. QED
  BY <1>1, RecallsHold, PTL

-----------------------------------------------------------------------------
(* The window and the frames taken from it *)

(* The newest n elements, one by one. *)
LEMMA NewestAt ==
  ASSUME NEW S, NEW s \in Seq(S), NEW n \in Nat
  PROVE  /\ Newest(s, n) \in Seq(S)
         /\ Len(Newest(s, n)) = IF Len(s) > n THEN n ELSE Len(s)
         /\ \A i \in 1..Len(Newest(s, n)) :
              Newest(s, n)[i] = s[Len(s) - Len(Newest(s, n)) + i]
<1>1. Len(s) \in Nat /\ \A i \in 1..Len(s) : s[i] \in S
  BY LenProperties, ElementOfSeq
<1>. DEFINE a == IF Len(s) > n THEN Len(s) - n + 1 ELSE 1
            l == IF Len(s) > n THEN n ELSE Len(s)
<1>2. a \in Nat /\ a >= 1 /\ Newest(s, n) = SubSeq(s, a, Len(s)) /\ \A i \in a..Len(s) : s[i] \in S
  BY <1>1 DEF Newest
<1>3. l \in Nat /\ a = Len(s) - l + 1
  BY <1>1
<1>. HIDE DEF a, l
<1>4. /\ Newest(s, n) \in Seq(S)
      /\ Len(Newest(s, n)) = IF a <= Len(s) THEN Len(s) - a + 1 ELSE 0
      /\ \A i \in 1..(Len(s) - a + 1) : Newest(s, n)[i] = s[a + i - 1]
  BY <1>1, <1>2, SubSeqProperties, SMTT(30)
<1>5. Len(Newest(s, n)) = l
  BY <1>1, <1>2, <1>3, <1>4
<1>6. ASSUME NEW i \in 1..l PROVE Newest(s, n)[i] = s[Len(s) - l + i]
  <2>1. i \in 1..(Len(s) - a + 1) /\ a + i - 1 = Len(s) - l + i
    BY <1>1, <1>3
  <2>. QED
    BY <1>4, <2>1
<1>. QED
  BY <1>4, <1>5, <1>6 DEF l

(* Draining the excess after each append keeps the newest of everything.    *)
LEMMA NewestOfNewest ==
  ASSUME NEW S, NEW s \in Seq(S), NEW t \in Seq(S), NEW n \in Nat
  PROVE  Newest(Newest(s, n) \o t, n) = Newest(s \o t, n)
<1>. DEFINE u == Newest(s, n)
            a == u \o t
            b == s \o t
            x == Newest(a, n)
            y == Newest(b, n)
<1>1. /\ u \in Seq(S) /\ Len(s) \in Nat /\ Len(t) \in Nat
      /\ Len(u) = IF Len(s) > n THEN n ELSE Len(s)
      /\ \A i \in 1..Len(u) : u[i] = s[Len(s) - Len(u) + i]
  BY NewestAt
<1>. HIDE DEF u
<1>2. /\ a \in Seq(S) /\ Len(a) = Len(u) + Len(t)
      /\ \A i \in 1..(Len(u) + Len(t)) : a[i] = IF i <= Len(u) THEN u[i] ELSE t[i - Len(u)]
      /\ b \in Seq(S) /\ Len(b) = Len(s) + Len(t)
      /\ \A i \in 1..(Len(s) + Len(t)) : b[i] = IF i <= Len(s) THEN s[i] ELSE t[i - Len(s)]
  BY <1>1, ConcatProperties
<1>. HIDE DEF a, b
<1>3. /\ x \in Seq(S) /\ Len(x) = IF Len(a) > n THEN n ELSE Len(a)
      /\ \A i \in 1..Len(x) : x[i] = a[Len(a) - Len(x) + i]
      /\ y \in Seq(S) /\ Len(y) = IF Len(b) > n THEN n ELSE Len(b)
      /\ \A i \in 1..Len(y) : y[i] = b[Len(b) - Len(y) + i]
  BY <1>2, NewestAt
<1>. HIDE DEF x, y
<1>4. Len(u) \in Nat /\ Len(x) \in Nat /\ Len(x) = Len(y) /\ Len(x) <= Len(a) /\ Len(u) <= Len(s)
      /\ Len(x) <= Len(b)
  BY <1>1, <1>2, <1>3
<1>5. ASSUME NEW i \in 1..Len(x) PROVE x[i] = y[i]
  <2>. DEFINE j == Len(a) - Len(x) + i
              k == Len(b) - Len(y) + i
  <2>1. /\ j \in 1..(Len(u) + Len(t)) /\ k \in 1..(Len(s) + Len(t)) /\ j \in Nat /\ k \in Nat
        /\ k = j + (Len(s) - Len(u))
    <3>1. Len(u) \in Nat /\ Len(t) \in Nat /\ Len(s) \in Nat /\ Len(x) \in Nat
      BY <1>1, <1>4
    <3>2. i \in Nat /\ i >= 1 /\ i <= Len(x) /\ Len(u) + Len(t) = Len(a) /\ Len(s) + Len(t) = Len(b)
          /\ Len(y) = Len(x)
      BY <1>2, <1>4
    <3>. HIDE DEF x, y, j, k
    <3>3. Len(x) <= Len(u) + Len(t) /\ Len(x) <= Len(s) + Len(t)
      BY <1>4, <3>2
    <3>4. /\ (Len(u) + Len(t)) - Len(x) + i \in 1..(Len(u) + Len(t))
          /\ (Len(s) + Len(t)) - Len(x) + i \in 1..(Len(s) + Len(t))
          /\ (Len(s) + Len(t)) - Len(x) + i
               = ((Len(u) + Len(t)) - Len(x) + i) + (Len(s) - Len(u))
      BY <3>1, <3>2, <3>3
    <3>5. j = (Len(u) + Len(t)) - Len(x) + i /\ k = (Len(s) + Len(t)) - Len(x) + i
      BY <3>2 DEF j, k
    <3>6. 1..(Len(u) + Len(t)) \subseteq Nat /\ 1..(Len(s) + Len(t)) \subseteq Nat
      OBVIOUS
    <3>. QED
      BY <3>4, <3>5, <3>6
  <2>2. x[i] = a[j] /\ y[i] = b[k]
    BY <1>3, <1>4
  <2>. HIDE DEF j, k
  <2>3. CASE j <= Len(u)
    <3>1. k <= Len(s) /\ j \in 1..Len(u) /\ Len(s) - Len(u) + j = k
      BY <1>1, <1>4, <2>1, <2>3
    <3>. QED
      BY <1>1, <1>2, <2>1, <2>2, <2>3, <3>1
  <2>4. CASE ~(j <= Len(u))
    <3>1. ~(k <= Len(s)) /\ j - Len(u) = k - Len(s)
      BY <1>1, <1>4, <2>1, <2>4
    <3>. QED
      BY <1>2, <2>1, <2>2, <2>4, <3>1
  <2>. QED
    BY <2>3, <2>4
<1>6. x = y
  BY <1>3, <1>4, <1>5, SeqEqual
<1>. QED
  BY <1>6 DEF x, y, a, b, u

(* s is empty, or a contiguous run of the elements of t. *)
Slice(s, t) ==
  s # <<>> => \E i \in 1..Len(t) : /\ i + Len(s) - 1 <= Len(t)
                                   /\ SubSeq(t, i, i + Len(s) - 1) = s

LEMMA NewestSlice ==
  ASSUME NEW S, NEW s \in Seq(S), NEW n \in Nat
  PROVE  Slice(Newest(s, n), s)
<1>. SUFFICES ASSUME Newest(s, n) # <<>>
              PROVE  \E i \in 1..Len(s) : /\ i + Len(Newest(s, n)) - 1 <= Len(s)
                                          /\ SubSeq(s, i, i + Len(Newest(s, n)) - 1) = Newest(s, n)
  BY DEF Slice
<1>. DEFINE l == Len(Newest(s, n))
            i == Len(s) - l + 1
<1>1. /\ Newest(s, n) \in Seq(S) /\ Len(s) \in Nat /\ l = IF Len(s) > n THEN n ELSE Len(s)
  BY NewestAt
<1>2. l \in Nat \ {0}
  BY <1>1
<1>3. i \in 1..Len(s) /\ i + l - 1 = Len(s)
  BY <1>1, <1>2
<1>4. Newest(s, n) = SubSeq(s, i, Len(s))
  <2>. HIDE DEF l
  <2>1. i = IF Len(s) > n THEN Len(s) - n + 1 ELSE 1
    BY <1>1
  <2>. QED
    BY <2>1 DEF Newest
<1>. HIDE DEF i, l
<1>5. SubSeq(s, i, i + l - 1) = Newest(s, n) /\ i + l - 1 <= Len(s)
  BY <1>1, <1>3, <1>4
<1>. QED
  BY <1>3, <1>5 DEF l

LEMMA SliceGrows ==
  ASSUME NEW S, NEW s \in Seq(S), NEW t \in Seq(S), NEW u \in Seq(S), Slice(s, t)
  PROVE  Slice(s, t \o u)
<1>. SUFFICES ASSUME s # <<>>
              PROVE  \E i \in 1..Len(t \o u) : /\ i + Len(s) - 1 <= Len(t \o u)
                                               /\ SubSeq(t \o u, i, i + Len(s) - 1) = s
  BY DEF Slice
<1>1. Len(s) \in Nat \ {0} /\ Len(t) \in Nat /\ Len(u) \in Nat /\ Len(t \o u) = Len(t) + Len(u)
  BY ConcatProperties
<1>2. PICK i \in 1..Len(t) : i + Len(s) - 1 <= Len(t) /\ SubSeq(t, i, i + Len(s) - 1) = s
  BY DEF Slice
<1>3. /\ i \in 1..Len(t \o u) /\ i + Len(s) - 1 <= Len(t \o u) /\ i + Len(s) - 1 \in 1..Len(t)
  BY <1>1, <1>2
<1>4. SubSeq(t \o u, i, i + Len(s) - 1) = s
  BY <1>2, <1>3, SubSeqOfConcat1
<1>. QED
  BY <1>3, <1>4

(* The message that a sequence is completed with. *)
LEMMA LastAppended ==
  ASSUME NEW S, NEW s \in Seq(S), NEW e \in S
  PROVE  /\ Append(s, e) \in Seq(S) /\ Append(s, e) # <<>>
         /\ Front(Append(s, e)) = s /\ Last(Append(s, e)) = e
<1>. DEFINE t == Append(s, e)
<1>1. /\ t \in Seq(S) /\ Len(s) \in Nat /\ Len(t) = Len(s) + 1 /\ t[Len(s) + 1] = e
      /\ \A i \in 1..Len(s) : t[i] = s[i]
  BY AppendProperties
<1>. HIDE DEF t
<1>2. t # <<>> /\ Last(t) = e
  BY <1>1 DEF Last
<1>3. Front(t) \in Seq(S) /\ Len(Front(t)) = Len(s) /\ \A i \in 1..Len(s) : Front(t)[i] = s[i]
  BY <1>1 DEF Front
<1>4. Front(t) = s
  BY <1>1, <1>3, SeqEqual
<1>. QED
  BY <1>1, <1>2, <1>4 DEF t

LEMMA LastOfOne ==
  ASSUME NEW S, NEW e \in S
  PROVE  <<e>> # <<>> /\ Front(<<e>>) = <<>> /\ Last(<<e>>) = e
<1>1. <<>> \in Seq(S) /\ Append(<<>>, e) = <<e>>
  OBVIOUS
<1>. QED
  BY <1>1, LastAppended

LEMMA FrontSeq ==
  ASSUME NEW S, NEW s \in Seq(S), s # <<>>
  PROVE  Front(s) \in Seq(S) /\ Len(Front(s)) = Len(s) - 1 /\ Len(s) \in Nat \ {0}
<1>1. Len(s) \in Nat \ {0} /\ \A i \in 1..Len(s) : s[i] \in S
  BY LenProperties, ElementOfSeq
<1>. DEFINE n == Len(s) - 1
<1>2. n \in Nat /\ Front(s) = SubSeq(s, 1, n) /\ \A i \in 1..n : s[i] \in S
  BY <1>1 DEF Front
<1>. HIDE DEF n
<1>3. SubSeq(s, 1, n) \in Seq(S) /\ Len(SubSeq(s, 1, n)) = IF 1 <= n THEN n - 1 + 1 ELSE 0
  BY <1>2, SubSeqProperties, SMTT(30)
<1>4. Len(SubSeq(s, 1, n)) = n
  BY <1>2, <1>3
<1>. QED
  BY <1>1, <1>2, <1>3, <1>4 DEF n

LEMMA NoRange == Range(<<>>) = {}
<1>1. DOMAIN <<>> = {}
  OBVIOUS
<1>. QED
  BY <1>1 DEF Range

(* The points at which a run has no frame yet or no longer, and those of a  *)
(* run whose turn has completed.                                            *)
Frameless == {"idle", "rewrite", "assemble", "recall first", "recall second", "recall l3", "rank",
              "enhance", "done"} \cup Calling
Completed == {"detect", "detected", "shift", "archive", "spawn"}

(* A frame of run r: its own message, behind a run of the messages s of     *)
(* other turns, all of them completed.                                      *)
Whole(r, frame, turns, s) ==
  /\ Last(frame).turn = r /\ Last(frame).kind # "answer"
  /\ Slice(Front(frame), s)
  /\ \A m \in Range(Front(frame)) : m.turn \in turns \ {r}

(* The frames of the framework's own providers are whole; a foreign one is  *)
(* any, but never empty once it is passed on.                               *)
Sound(p, r, frame, turns, s) == p # "foreign" => Whole(r, frame, turns, s)

FrameOf(p, r, o, turns, s) ==
  /\ o.pc \in Frameless => o.frame = <<>>
  /\ o.frame # <<>> => Sound(p, r, o.frame, turns, s)
  /\ o.pc \in Completed \cup {"loop"} => o.frame # <<>>
  /\ o.pc \in Completed => r \in turns

(* What the window received was written at the end of completed turns.      *)
Archived == \A m \in Range(log) : m.turn \in truth /\ run[m.turn].pc \in {"spawn", "done"}

FrameInv ==
  /\ window = Newest(log, Window) /\ Archived
  /\ \A r \in Runs : FrameOf(setup.provider, r, run[r], truth, log)

LEMMA FrameLater ==
  ASSUME NEW p, NEW r \in Runs, NEW o \in RunStates, NEW turns, NEW more, turns \subseteq more,
         NEW s \in Seq(Messages), NEW t \in Seq(Messages), FrameOf(p, r, o, turns, s)
  PROVE  FrameOf(p, r, o, more, s \o t)
<1>1. o.frame \in Seq(Messages)
  BY DEF RunStates, Frames
<1>2. CASE o.frame # <<>> /\ p # "foreign"
  <2>1. Whole(r, o.frame, turns, s) /\ Front(o.frame) \in Seq(Messages)
    BY <1>1, <1>2, FrontSeq DEF FrameOf, Sound
  <2>2. Slice(Front(o.frame), s \o t)
    BY <2>1, SliceGrows DEF Whole
  <2>3. Whole(r, o.frame, more, s \o t)
    BY <2>1, <2>2 DEF Whole
  <2>. QED
    BY <1>2, <2>3 DEF FrameOf, Sound
<1>3. CASE o.frame = <<>> \/ p = "foreign"
  BY <1>3 DEF FrameOf, Sound
<1>. QED
  BY <1>2, <1>3

(* A frame of one message. *)
LEMMA OneMessage ==
  ASSUME NEW r \in Runs, NEW kind \in Kinds \ {"answer"}, NEW turns, NEW s
  PROVE  /\ <<Message(r, kind)>> # <<>>
         /\ Whole(r, <<Message(r, kind)>>, turns, s)
<1>1. Message(r, kind) \in Messages /\ Message(r, kind).turn = r /\ Message(r, kind).kind = kind
  BY DEF Message, Messages
<1>. DEFINE m == Message(r, kind)
<1>. HIDE DEF m
<1>2. <<m>> # <<>> /\ Front(<<m>>) = <<>> /\ Last(<<m>>) = m
  BY <1>1, LastOfOne DEF m
<1>3. Whole(r, <<m>>, turns, s)
  BY <1>1, <1>2, NoRange DEF Whole, Slice, m
<1>. QED
  BY <1>2, <1>3 DEF m

LEMMA AQuery ==
  ASSUME Types, NEW r \in Runs
  PROVE  Query(r) \in Messages /\ Query(r) = Message(r, run[r].query) /\ run[r].query \in Kinds \ {"answer"}
<1>1. run[r].query \in {"input", "rewritten"}
  BY StateTypes DEF RunStates
<1>. QED
  BY <1>1 DEF Query, Message, Messages, Kinds

(* The bundled assembler's frame. *)
LEMMA WindowFrame ==
  ASSUME Types, FrameInv, NEW r \in Runs, run[r].pc \notin {"spawn", "done"}
  PROVE  /\ Append(window, Query(r)) # <<>>
         /\ Whole(r, Append(window, Query(r)), truth, log)
<1>. DEFINE f == Append(window, Query(r))
<1>1. window \in Seq(Messages) /\ log \in Seq(Messages) /\ Window \in Nat
  BY ContextAssumption DEF Types, Windows
<1>2. f # <<>> /\ Front(f) = window /\ Last(f) = Query(r)
  BY <1>1, AQuery, LastAppended
<1>. HIDE DEF f
<1>3. Last(f).turn = r /\ Last(f).kind # "answer"
  <2>1. Query(r).turn = r /\ Query(r).kind = run[r].query
    BY AQuery DEF Message
  <2>. QED
    BY <1>2, <2>1, AQuery
<1>4. Slice(window, log) /\ Range(window) \subseteq Range(log)
  BY <1>1, NewestSlice, NewestType DEF FrameInv
<1>5. \A m \in Range(window) : m.turn \in truth \ {r}
  BY <1>4 DEF FrameInv, Archived
<1>. QED
  BY <1>2, <1>3, <1>4, <1>5 DEF Whole, f

(* A step that leaves the window as it is. *)
LEMMA FrameStep ==
  ASSUME Types, FrameInv, NEW r \in Runs, NEW rec, NEW facts, NEW n, Turn(r, rec, facts, n),
         truth \subseteq truth', UNCHANGED <<setup, window, log>>,
         run[r].pc \in {"spawn", "done"} => rec.pc \in {"spawn", "done"},
         FrameOf(setup.provider, r, rec, truth', log)
  PROVE  FrameInv'
<1>1. ASSUME NEW q \in Runs PROVE FrameOf(setup.provider, q, run'[q], truth', log')
  <2>1. CASE q = r
    BY <2>1 DEF Turn
  <2>2. CASE q # r
    <3>1. run'[q] = run[q] /\ FrameOf(setup.provider, q, run[q], truth, log)
      BY <2>2 DEF Turn, FrameInv
    <3>2. log \o <<>> = log /\ log \in Seq(Messages) /\ <<>> \in Seq(Messages)
      BY DEF Types
    <3>3. FrameOf(setup.provider, q, run[q], truth', log \o <<>>)
      BY <3>1, <3>2, StateTypes, FrameLater
    <3>. QED
      BY <3>1, <3>2, <3>3
  <2>. QED
    BY <2>1, <2>2
<1>2. Archived'
  <2>1. ASSUME NEW m \in Range(log) PROVE m.turn \in truth' /\ run'[m.turn].pc \in {"spawn", "done"}
    <3>1. m.turn \in truth /\ run[m.turn].pc \in {"spawn", "done"} /\ m.turn \in Runs
      BY <2>1 DEF FrameInv, Archived, Types
    <3>. QED
      BY <3>1 DEF Turn
  <2>. QED
    BY <2>1 DEF Archived
<1>3. (window = Newest(log, Window))'
  BY DEF FrameInv
<1>. QED
  BY <1>1, <1>2, <1>3 DEF FrameInv

(* A step on the way to a frame, one that settles it, and one that keeps it. *)
FrameMoves(r, rec) ==
  \/ rec.pc \in Frameless /\ rec.frame = <<>>
  \/ rec.pc = "report" /\ (rec.frame # <<>> => Sound(setup.provider, r, rec.frame, truth, log))
  \/ /\ rec.pc \in Completed \cup {"loop"} /\ rec.frame # <<>>
     /\ rec.frame = run[r].frame \/ Sound(setup.provider, r, rec.frame, truth, log)
     /\ rec.pc = "loop" \/ r \in truth'
  \/ rec = run[r]

LEMMA FrameSteps ==
  ASSUME Types, FrameInv, NEW r \in Runs, NEW rec, NEW facts, NEW n, Turn(r, rec, facts, n),
         truth \subseteq truth', UNCHANGED <<setup, window, log>>,
         run[r].pc \in {"spawn", "done"} => rec.pc \in {"spawn", "done"}, FrameMoves(r, rec)
  PROVE  FrameInv'
<1>0. /\ run[r] \in RunStates /\ FrameOf(setup.provider, r, run[r], truth, log) /\ log \in Seq(Messages)
      /\ log \o <<>> = log /\ <<>> \in Seq(Messages) /\ rec \in RunStates
  BY StateTypes DEF FrameInv, Types, Turn
<1>1. CASE rec.pc \in Frameless /\ rec.frame = <<>>
  <2>1. FrameOf(setup.provider, r, rec, truth', log)
    BY <1>1 DEF FrameOf, Frameless, Completed, Calling
  <2>. QED
    BY <2>1, FrameStep
<1>2. ASSUME FrameOf(setup.provider, r, rec, truth, log) PROVE FrameInv'
  <2>1. FrameOf(setup.provider, r, rec, truth', log \o <<>>)
    BY <1>0, <1>2, FrameLater
  <2>2. FrameOf(setup.provider, r, rec, truth', log)
    BY <1>0, <2>1
  <2>. QED
    BY <2>2, FrameStep
<1>3. CASE rec.pc = "report" /\ (rec.frame # <<>> => Sound(setup.provider, r, rec.frame, truth, log))
  BY <1>2, <1>3 DEF FrameOf, Frameless, Completed, Calling
<1>4. CASE /\ rec.pc \in Completed \cup {"loop"} /\ rec.frame # <<>>
           /\ rec.frame = run[r].frame \/ Sound(setup.provider, r, rec.frame, truth, log)
           /\ rec.pc = "loop" \/ r \in truth'
  <2>1. Sound(setup.provider, r, rec.frame, truth, log) /\ rec.pc \notin Frameless
    <3>1. run[r].frame # <<>> => Sound(setup.provider, r, run[r].frame, truth, log)
      BY <1>0 DEF FrameOf
    <3>2. rec.pc \notin Frameless
      BY <1>4 DEF Frameless, Completed, Calling
    <3>. QED
      BY <1>4, <3>1, <3>2
  <2>2. Sound(setup.provider, r, rec.frame, truth', log)
    BY <2>1 DEF Sound, Whole
  <2>3. FrameOf(setup.provider, r, rec, truth', log)
    BY <1>4, <2>1, <2>2 DEF FrameOf, Completed
  <2>. QED
    BY <2>3, FrameStep
<1>5. CASE rec = run[r]
  BY <1>0, <1>2, <1>5
<1>. QED
  BY <1>1, <1>3, <1>4, <1>5 DEF FrameMoves

LEMMA ReadFrame ==
  ASSUME Types, FrameInv, NEW r \in Runs, ReadPhase(r)
  PROVE  FrameInv'
<1>. DEFINE o == run[r]
            Quiet == truth \subseteq truth' /\ UNCHANGED <<setup, window, log>>
<1>0. o \in RunStates /\ FrameOf(setup.provider, r, o, truth, log) /\ (o.pc \in Frameless => o.frame = <<>>)
  BY StateTypes DEF FrameInv, FrameOf
<1>1. CASE Start(r)
  <2>1. PICK pc \in {"rewrite", "assemble"} : Turn(r, [o EXCEPT !.pc = pc], told[r], 0)
    BY <1>1, StartTurn
  <2>2. o.pc = "idle" /\ Quiet
    BY <1>1, StartTurn
  <2>. DEFINE rec == [o EXCEPT !.pc = pc]
  <2>3. rec.pc = pc /\ rec.frame = o.frame /\ Turn(r, rec, told[r], 0)
    BY <1>0, <2>1 DEF RunStates
  <2>. HIDE DEF rec
  <2>. QED
    BY <1>0, <2>2, <2>3, FrameSteps DEF FrameMoves, Frameless
<1>2. CASE Ask(r, "rewrite", "rewriting") \/ Ask(r, "enhance", "enhancing")
  <2>1. PICK pc \in {"rewriting", "enhancing"} :
          Turn(r, [o EXCEPT !.pc = pc], [told[r] EXCEPT !.asked = @ + 1], 0)
    BY <1>2, AskTurn
  <2>2. o.pc \in {"rewrite", "enhance"} /\ Quiet
    BY <1>2, AskTurn
  <2>. DEFINE rec == [o EXCEPT !.pc = pc]
              facts == [told[r] EXCEPT !.asked = @ + 1]
  <2>3. rec.pc = pc /\ rec.frame = o.frame /\ Turn(r, rec, facts, 0)
    BY <1>0, <2>1 DEF RunStates
  <2>. HIDE DEF rec, facts
  <2>. QED
    BY <1>0, <2>2, <2>3, FrameSteps DEF FrameMoves, Frameless, Calling
<1>3. CASE Rewrite(r)
  <2>1. PICK query \in {"input", "rewritten"}, n \in {0, 1}, a \in {0, 1} :
          Turn(r, [o EXCEPT !.pc = "assemble", !.query = query, !.pending = @ + n],
               [told[r] EXCEPT !.answered = @ + a], n)
    BY <1>3, RewriteTurn
  <2>2. o.pc = "rewriting" /\ Quiet
    BY <1>3, RewriteTurn
  <2>. DEFINE rec == [o EXCEPT !.pc = "assemble", !.query = query, !.pending = @ + n]
              facts == [told[r] EXCEPT !.answered = @ + a]
  <2>3. rec.pc = "assemble" /\ rec.frame = o.frame /\ Turn(r, rec, facts, n)
    BY <1>0, <2>1 DEF RunStates
  <2>. HIDE DEF rec, facts
  <2>. QED
    BY <1>0, <2>2, <2>3, FrameSteps DEF FrameMoves, Frameless, Calling
<1>4. CASE AssembleBundled(r) \/ AssembleForeign(r)
  <2>1. PICK frame \in Frames, n \in {0, 1} :
          /\ Turn(r, [o EXCEPT !.pc = "report", !.frame = frame, !.pending = @ + n], told[r], n)
          /\ setup.provider # "foreign" => frame = Append(window, Query(r))
    BY <1>4, AssembleTurn
  <2>2. o.pc = "assemble" /\ Quiet
    BY <1>4, AssembleTurn
  <2>. DEFINE rec == [o EXCEPT !.pc = "report", !.frame = frame, !.pending = @ + n]
  <2>3. rec.pc = "report" /\ rec.frame = frame /\ Turn(r, rec, told[r], n)
    BY <1>0, <2>1 DEF RunStates
  <2>. HIDE DEF rec
  <2>4. Whole(r, Append(window, Query(r)), truth, log)
    BY <2>2, WindowFrame
  <2>5. Sound(setup.provider, r, rec.frame, truth, log)
    BY <2>1, <2>3, <2>4 DEF Sound
  <2>. QED
    BY <2>1, <2>2, <2>3, <2>5, FrameSteps DEF FrameMoves
<1>5. CASE EmbedQuery(r)
  <2>1. PICK e \in BOOLEAN, n \in {0, 1} :
          Turn(r, [o EXCEPT !.pc = "recall first", !.embedded = e, !.pending = @ + n], told[r], n)
    BY <1>5, EmbedTurn
  <2>2. o.pc = "assemble" /\ Quiet
    BY <1>5, EmbedTurn
  <2>. DEFINE rec == [o EXCEPT !.pc = "recall first", !.embedded = e, !.pending = @ + n]
  <2>3. rec.pc = "recall first" /\ rec.frame = o.frame /\ Turn(r, rec, told[r], n)
    BY <1>0, <2>1 DEF RunStates
  <2>. HIDE DEF rec
  <2>. QED
    BY <1>0, <2>2, <2>3, FrameSteps DEF FrameMoves, Frameless
<1>6. ASSUME NEW from \in {"recall first", "recall second", "recall l3"},
             NEW pc \in {"recall second", "recall l3", "rank"}, NEW turns, Reads(r, from, pc, turns)
      PROVE  FrameInv'
  <2>1. PICK found \in Found, warm \in BOOLEAN, n \in Nat :
          Turn(r, [o EXCEPT !.pc = pc, !.items = found, !.warm = warm, !.pending = @ + n], told[r], n)
    BY <1>6 DEF Reads
  <2>2. o.pc = from /\ Quiet
    BY <1>6 DEF Reads
  <2>. DEFINE rec == [o EXCEPT !.pc = pc, !.items = found, !.warm = warm, !.pending = @ + n]
  <2>3. rec.pc = pc /\ rec.frame = o.frame /\ Turn(r, rec, told[r], n)
    BY <1>0, <2>1 DEF RunStates
  <2>. HIDE DEF rec
  <2>. QED
    BY <1>0, <2>2, <2>3, FrameSteps DEF FrameMoves, Frameless
<1>7. CASE Rank(r)
  <2>1. PICK alike \in Likenesses, recalled \in Recalls, frame \in Frames, pc \in {"report", "enhance"} :
          /\ Turn(r, [o EXCEPT !.alike = alike, !.recalled = recalled, !.frame = frame, !.pc = pc], told[r], 0)
          /\ (pc = "report" /\ frame = <<Query(r)>>) \/ (pc = "enhance" /\ frame = o.frame)
    BY <1>7, RankTurn
  <2>2. o.pc = "rank" /\ Quiet
    BY <1>7, RankTurn
  <2>. DEFINE rec == [o EXCEPT !.alike = alike, !.recalled = recalled, !.frame = frame, !.pc = pc]
  <2>3. rec.pc = pc /\ rec.frame = frame /\ Turn(r, rec, told[r], 0)
    BY <1>0, <2>1 DEF RunStates
  <2>. HIDE DEF rec
  <2>4. Whole(r, <<Query(r)>>, truth, log)
    BY AQuery, OneMessage
  <2>. QED
    BY <1>0, <2>1, <2>2, <2>3, <2>4, FrameSteps DEF FrameMoves, Frameless, Sound
<1>8. CASE Enhance(r)
  <2>1. PICK frame \in {<<Message(r, "enhanced")>>, <<Query(r)>>}, n \in {0, 1}, a \in {0, 1} :
          Turn(r, [o EXCEPT !.pc = "report", !.frame = frame, !.pending = @ + n],
               [told[r] EXCEPT !.answered = @ + a], n)
    BY <1>8, EnhanceTurn
  <2>2. o.pc = "enhancing" /\ Quiet
    BY <1>8, EnhanceTurn
  <2>. DEFINE rec == [o EXCEPT !.pc = "report", !.frame = frame, !.pending = @ + n]
              facts == [told[r] EXCEPT !.answered = @ + a]
  <2>3. rec.pc = "report" /\ rec.frame = frame /\ Turn(r, rec, facts, n)
    BY <1>0, <2>1 DEF RunStates
  <2>. HIDE DEF rec, facts
  <2>4. Whole(r, <<Query(r)>>, truth, log) /\ Whole(r, <<Message(r, "enhanced")>>, truth, log)
    BY AQuery, OneMessage DEF Kinds
  <2>. QED
    BY <2>1, <2>2, <2>3, <2>4, FrameSteps DEF FrameMoves, Sound
<1>9. CASE Report(r)
  <2>1. PICK empty \in {0, 1} :
          Turn(r, [o EXCEPT !.pc = "loop", !.pending = 0, !.frame = Frame(r),
                            !.items = {}, !.alike = {}, !.recalled = <<>>], ReportTold(r, empty), empty)
    BY <1>9, ReportTurn
  <2>2. o.pc = "report" /\ Quiet
    BY <1>9, ReportTurn
  <2>. DEFINE rec == [o EXCEPT !.pc = "loop", !.pending = 0, !.frame = Frame(r),
                               !.items = {}, !.alike = {}, !.recalled = <<>>]
  <2>3. rec.pc = "loop" /\ rec.frame = Frame(r) /\ Turn(r, rec, ReportTold(r, empty), empty)
    BY <1>0, <2>1 DEF RunStates
  <2>. HIDE DEF rec
  <2>4. Frame(r) # <<>> /\ Sound(setup.provider, r, Frame(r), truth, log)
    <3>1. CASE o.frame = <<>>
      <4>1. Frame(r) = <<Message(r, "input")>>
        BY <3>1 DEF Frame
      <4>. QED
        BY <4>1, OneMessage DEF Kinds, Sound
    <3>2. CASE o.frame # <<>>
      BY <1>0, <3>2 DEF Frame, FrameOf
    <3>. QED
      BY <3>1, <3>2
  <2>. QED
    BY <2>2, <2>3, <2>4, FrameSteps DEF FrameMoves
<1>. QED
  BY <1>1, <1>2, <1>3, <1>4, <1>5, <1>6, <1>7, <1>8, <1>9, RecallTurn DEF ReadPhase

(* The archive hook of the bundled provider: the window stays the tail of   *)
(* everything it received, and no frame is disturbed.                       *)
LEMMA ArchiveFrame ==
  ASSUME Types, FrameInv, NEW r \in Runs, Archive(r)
  PROVE  FrameInv'
<1>. DEFINE o == run[r]
            rec == [o EXCEPT !.pc = "spawn"]
            new == NewMessages(r)
<1>1. /\ o \in RunStates /\ o.pc = "archive" /\ FrameOf(setup.provider, r, o, truth, log)
      /\ window \in Seq(Messages) /\ log \in Seq(Messages) /\ Window \in Nat /\ truth' = truth
      /\ window = Newest(log, Window)
  BY StateTypes, ArchiveTurn, ContextAssumption DEF FrameInv, Types, Windows
<1>2. r \in truth /\ o.frame # <<>>
  BY <1>1 DEF FrameOf, Completed
<1>3. rec.pc = "spawn" /\ rec.frame = o.frame
  BY <1>1 DEF RunStates
<1>4. PICK facts, n : Turn(r, rec, facts, n)
  BY ArchiveTurn
<1>5. ArchiveHook(r) \/ UNCHANGED <<setup, window, log>>
  BY ArchiveTurn
<1>. HIDE DEF rec
<1>6. CASE UNCHANGED <<setup, window, log>>
  <2>1. FrameMoves(r, rec)
    BY <1>1, <1>2, <1>3 DEF FrameMoves, Completed
  <2>. QED
    BY <1>1, <1>3, <1>4, <1>6, <2>1, FrameSteps
<1>7. CASE window' = Windowed(new) /\ log' = log \o new
  <2>1. new \in Seq(Messages) /\ \A m \in Range(new) : m.turn = r
    <3>1. Message(r, "input") \in Messages /\ Message(r, "answer") \in Messages
      BY DEF Message, Messages, Kinds
    <3>2. Message(r, "input").turn = r /\ Message(r, "answer").turn = r
      BY DEF Message
    <3>. DEFINE a == Message(r, "input")
                b == Message(r, "answer")
    <3>. HIDE DEF a, b
    <3>3. <<a, b>> \in Seq(Messages) /\ Len(<<a, b>>) = 2 /\ <<a, b>>[1] = a /\ <<a, b>>[2] = b
      BY <3>1 DEF a, b
    <3>4. \A m \in Range(<<a, b>>) : m = a \/ m = b
      <4>1. \A m \in Range(<<a, b>>) : \E i \in 1..2 : <<a, b>>[i] = m
        BY <3>3, RangeType
      <4>. QED
        BY <3>3, <4>1
    <3>. QED
      BY <3>2, <3>3, <3>4 DEF NewMessages, a, b
  <2>. HIDE DEF new
  <2>2. window' = Newest(log', Window)
    BY <1>1, <1>7, <2>1, NewestOfNewest DEF Windowed
  <2>3. Archived'
    <3>1. Range(log') = Range(log) \cup Range(new)
      BY <1>1, <1>7, <2>1, RangeConcatenation
    <3>2. ASSUME NEW m \in Range(log') PROVE m.turn \in truth' /\ run'[m.turn].pc \in {"spawn", "done"}
      <4>1. CASE m \in Range(log)
        <5>1. m.turn \in truth /\ run[m.turn].pc \in {"spawn", "done"} /\ m.turn \in Runs
          BY <4>1 DEF FrameInv, Archived, Types
        <5>. QED
          BY <1>1, <1>3, <1>4, <5>1 DEF Turn
      <4>2. CASE m \in Range(new)
        <5>1. m.turn = r
          BY <2>1, <4>2
        <5>. QED
          BY <1>1, <1>2, <1>3, <1>4, <5>1 DEF Turn
      <4>. QED
        BY <3>1, <3>2, <4>1, <4>2
    <3>. QED
      BY <3>2 DEF Archived
  <2>4. ASSUME NEW q \in Runs PROVE FrameOf(setup.provider, q, run'[q], truth', log')
    <3>1. CASE q = r
      <4>1. FrameOf(setup.provider, r, o, truth, log \o new)
        BY <1>1, <2>1, FrameLater
      <4>2. FrameOf(setup.provider, r, rec, truth, log \o new)
        BY <1>1, <1>2, <1>3, <4>1 DEF FrameOf, Frameless, Completed, Calling
      <4>. QED
        BY <1>1, <1>4, <1>7, <3>1, <4>2 DEF Turn
    <3>2. CASE q # r
      <4>1. FrameOf(setup.provider, q, run[q], truth, log) /\ run'[q] = run[q]
        BY <1>4, <3>2 DEF FrameInv, Turn
      <4>2. FrameOf(setup.provider, q, run[q], truth, log \o new)
        BY <1>1, <2>1, <4>1, StateTypes, FrameLater
      <4>. QED
        BY <1>1, <1>7, <4>1, <4>2
    <3>. QED
      BY <3>1, <3>2
  <2>5. setup' = setup
    BY ArchiveTurn
  <2>. QED
    BY <2>2, <2>3, <2>4, <2>5 DEF FrameInv
<1>8. setup' = setup
  BY ArchiveTurn
<1>. QED
  BY <1>5, <1>6, <1>7, <1>8 DEF ArchiveHook, stores

LEMMA WriteFrame ==
  ASSUME Types, FrameInv, NEW r \in Runs, WritePhase(r)
  PROVE  FrameInv'
<1>. DEFINE o == run[r]
            Quiet == truth \subseteq truth' /\ UNCHANGED <<setup, window, log>>
<1>0. o \in RunStates /\ FrameOf(setup.provider, r, o, truth, log)
      /\ (o.pc \in Completed \cup {"loop"} => o.frame # <<>>) /\ (o.pc \in Completed => r \in truth)
  BY StateTypes DEF FrameInv, FrameOf
<1>1. Done.pc = "done" /\ Done.frame = <<>>
  BY DEF Done, Resting
<1>2. CASE Loop(r)
  <2>1. o.pc = "loop" /\ Quiet
    BY <1>2, LoopTurn
  <2>2. CASE Turn(r, Done, told[r], 0)
    BY <1>1, <2>1, <2>2, FrameSteps DEF FrameMoves, Frameless
  <2>3. ASSUME NEW pc \in {"detect", "archive"}, truth' = truth \cup {r},
               Turn(r, [o EXCEPT !.previous = topic, !.pc = pc], told[r], 0)
        PROVE  FrameInv'
    <3>. DEFINE rec == [o EXCEPT !.previous = topic, !.pc = pc]
    <3>1. rec.pc = pc /\ rec.frame = o.frame
      BY <1>0 DEF RunStates
    <3>2. Turn(r, rec, told[r], 0)
      BY <2>3
    <3>. HIDE DEF rec
    <3>3. FrameMoves(r, rec)
      BY <1>0, <2>1, <2>3, <3>1 DEF FrameMoves, Completed
    <3>. QED
      BY <2>1, <3>1, <3>2, <3>3, FrameSteps
  <2>. QED
    BY <1>2, <2>2, <2>3, LoopTurn
<1>3. ASSUME NEW rec, NEW facts, NEW n, Turn(r, rec, facts, n), Quiet, o.pc \in Completed \ {"spawn"},
             rec.pc \in Completed, rec.frame = o.frame
      PROVE  FrameInv'
  <2>1. FrameMoves(r, rec) /\ r \in truth'
    BY <1>0, <1>3 DEF FrameMoves
  <2>2. run[r].pc \notin {"spawn", "done"}
    BY <1>3 DEF Completed
  <2>. QED
    BY <1>3, <2>1, <2>2, FrameSteps
<1>4. \A pc \in Points : [o EXCEPT !.pc = pc].pc = pc /\ [o EXCEPT !.pc = pc].frame = o.frame
  BY <1>0 DEF RunStates
<1>5. CASE Detect(r)
  <2>1. o.pc = "detect" /\ Quiet
    BY <1>5, DetectTurn
  <2>2. ASSUME NEW v \in Verdict,
               Turn(r, [o EXCEPT !.pc = "detected", !.verdict = v], told[r], 0)
        PROVE  FrameInv'
    <3>. DEFINE rec == [o EXCEPT !.pc = "detected", !.verdict = v]
    <3>1. rec.pc = "detected" /\ rec.frame = o.frame
      BY <1>0 DEF RunStates
    <3>2. Turn(r, rec, told[r], 0)
      BY <2>2
    <3>. HIDE DEF rec
    <3>. QED
      BY <1>3, <2>1, <3>1, <3>2 DEF Completed
  <2>3. CASE Turn(r, [o EXCEPT !.pc = "archive"], [told[r] EXCEPT !.failed = @ + 1], 1)
    <3>. DEFINE rec == [o EXCEPT !.pc = "archive"]
                facts == [told[r] EXCEPT !.failed = @ + 1]
    <3>1. rec.pc = "archive" /\ rec.frame = o.frame /\ Turn(r, rec, facts, 1)
      BY <1>4, <2>3 DEF Points
    <3>. HIDE DEF rec, facts
    <3>. QED
      BY <1>3, <2>1, <3>1 DEF Completed
  <2>. QED
    BY <1>5, <2>2, <2>3, DetectTurn
<1>6. CASE SetTopic(r)
  <2>1. o.pc = "detected" /\ Quiet
    BY <1>6, SetTopicTurn
  <2>2. PICK pc \in {"archive", "shift"} : Turn(r, [o EXCEPT !.pc = pc], told[r], 0)
    BY <1>6, SetTopicTurn
  <2>. DEFINE rec == [o EXCEPT !.pc = pc]
  <2>3. rec.pc = pc /\ rec.frame = o.frame /\ Turn(r, rec, told[r], 0)
    BY <1>4, <2>2 DEF Points
  <2>. HIDE DEF rec
  <2>. QED
    BY <1>3, <2>1, <2>3 DEF Completed
<1>7. CASE EmitShift(r)
  <2>. DEFINE rec == [o EXCEPT !.pc = "archive"]
              facts == [told[r] EXCEPT !.shift = <<o.previous, o.verdict>>]
  <2>1. o.pc = "shift" /\ Quiet /\ Turn(r, rec, facts, 0)
    BY <1>7, ShiftTurn
  <2>2. rec.pc = "archive" /\ rec.frame = o.frame
    BY <1>4 DEF Points
  <2>. HIDE DEF rec, facts
  <2>. QED
    BY <1>3, <2>1, <2>2 DEF Completed
<1>8. CASE Spawn(r)
  <2>1. Quiet /\ \E facts, n : Turn(r, Done, facts, n)
    BY <1>8, SpawnTurn
  <2>. QED
    BY <1>1, <2>1, FrameSteps DEF FrameMoves, Frameless
<1>9. CASE Background(r)
  <2>1. Quiet /\ \E facts, n : Turn(r, o, facts, n)
    BY <1>9, BackgroundTurn
  <2>2. FrameMoves(r, o)
    BY DEF FrameMoves
  <2>. QED
    BY <2>1, <2>2, FrameSteps
<1>. QED
  BY <1>2, <1>5, <1>6, <1>7, <1>8, <1>9, ArchiveFrame DEF WritePhase

LEMMA FramesHold == Spec => [](Types /\ FrameInv)
<1>1. Init => FrameInv
  <2>. SUFFICES ASSUME Init PROVE FrameInv
    OBVIOUS
  <2>1. Newest(<<>>, Window) = <<>>
    <3>. DEFINE e == <<>>
    <3>1. e \in Seq(Messages) /\ Window \in Nat /\ Len(e) = 0
      BY ContextAssumption
    <3>. HIDE DEF e
    <3>2. /\ Newest(e, Window) \in Seq(Messages)
          /\ Len(Newest(e, Window)) = IF Len(e) > Window THEN Window ELSE Len(e)
      BY <3>1, NewestAt, Zenon
    <3>3. Newest(e, Window) = <<>>
      BY <3>1, <3>2
    <3>. QED
      BY <3>3 DEF e
  <2>2. Archived
    BY NoRange DEF Init, Archived
  <2>3. \A r \in Runs : FrameOf(setup.provider, r, Resting, {}, <<>>)
    BY DEF FrameOf, Resting, Completed
  <2>. QED
    BY <2>1, <2>2, <2>3 DEF Init, FrameInv
<1>2. Types /\ FrameInv /\ [Next]_vars => FrameInv'
  <2>. SUFFICES ASSUME Types, FrameInv, [Next]_vars PROVE FrameInv'
    OBVIOUS
  <2>1. ASSUME NEW r \in Runs, ReadPhase(r) \/ WritePhase(r) PROVE FrameInv'
    BY <2>1, ReadFrame, WriteFrame
  <2>2. CASE UNCHANGED vars
    BY <2>2 DEF vars, stores, FrameInv, Archived
  <2>. QED
    BY <2>1, <2>2, NextSteps
<1>3. Types /\ [Next]_vars => Types'
  BY StutterTypes, NextTypes, NextSteps
<1>. QED
  BY InitTypes, <1>1, <1>2, <1>3, PTL DEF Spec

(* However the turns of several handles interleave and whatever fails, no   *)
(* frame is empty, and one of the framework's own assemblers shows this     *)
(* run's message last, and before it only messages of other turns that have *)
(* completed: the bundled window is at all times the tail of everything     *)
(* archived, and a frame is a contiguous run of it (InProcessTurnStore::    *)
(* append and recent, the empty-frame substitution, both assemblers).       *)
THEOREM FramesKeepInput == Spec => []FrameKeepsInput
<1>1. Types /\ FrameInv => FrameKeepsInput
  <2>. SUFFICES ASSUME Types, FrameInv PROVE FrameKeepsInput
    OBVIOUS
  <2>1. ASSUME NEW r \in Runs, setup.provider = "bundled", Len(run[r].frame) > 1
        PROVE  \E i \in 1..Len(log) : i + Len(run[r].frame) - 2 <= Len(log)
                 /\ SubSeq(log, i, i + Len(run[r].frame) - 2) = Front(run[r].frame)
    <3>. DEFINE f == run[r].frame
    <3>1. f \in Seq(Messages)
      BY StateTypes DEF RunStates, Frames
    <3>2. f # <<>>
      BY <2>1
    <3>3. FrameOf(setup.provider, r, run[r], truth, log)
      BY DEF FrameInv
    <3>4. Whole(r, f, truth, log)
      BY <2>1, <3>2, <3>3 DEF FrameOf, Sound
    <3>. HIDE DEF f
    <3>5. /\ Slice(Front(f), log) /\ Front(f) \in Seq(Messages) /\ Len(Front(f)) = Len(f) - 1
          /\ Len(f) \in Nat /\ Len(log) \in Nat
      BY <3>1, <3>2, <3>4, FrontSeq DEF Whole, Types
    <3>6. Front(f) # <<>>
      BY <2>1, <3>5 DEF f
    <3>7. PICK i \in 1..Len(log) : /\ i + Len(Front(f)) - 1 <= Len(log)
                                   /\ SubSeq(log, i, i + Len(Front(f)) - 1) = Front(f)
      BY <3>5, <3>6 DEF Slice
    <3>8. i + Len(Front(f)) - 1 = i + Len(f) - 2
      BY <3>5
    <3>. QED
      BY <3>7, <3>8 DEF f
  <2>2. WindowIsTail
    BY <2>1 DEF WindowIsTail, FrameInv
  <2>3. ASSUME NEW r \in Runs, run[r].pc \in {"loop", "detect", "detected", "shift", "archive", "spawn"}
        PROVE  /\ run[r].frame # <<>>
               /\ setup.provider # "foreign" =>
                    /\ Last(run[r].frame).turn = r /\ Last(run[r].frame).kind # "answer"
                    /\ \A m \in Range(Front(run[r].frame)) : m.turn \in truth \ {r}
    <3>1. FrameOf(setup.provider, r, run[r], truth, log) /\ run[r].pc \in Completed \cup {"loop"}
      BY <2>3 DEF FrameInv, Completed
    <3>. QED
      BY <3>1 DEF FrameOf, Sound, Whole
  <2>. QED
    BY <2>2, <2>3 DEF FrameKeepsInput
<1>. QED
  BY <1>1, FramesHold, PTL
=============================================================================
