---------------------------- MODULE ChangeProofs ----------------------------
(***************************************************************************)
(* Proofs about the readers of a change.  ChangeSource and Advice: for     *)
(* changes of any size that move any number of times while they are read,  *)
(* any limits of the pages, and texts of any length.  CodePieces and       *)
(* ChangedTests: for edit scripts of any length, any tests, and hunks with *)
(* any context.                                                            *)
(***************************************************************************)
EXTENDS CodePieces, ChangedTests, Advice,
        FiniteSetTheorems, WellFoundedInduction, SequenceTheorems, TLAPS

-----------------------------------------------------------------------------
(* What the calls list *)

LEMMA ListedFacts ==
    ASSUME NEW i \in Nat \ {0}, NEW j \in Nat, i <= j + 1, Now \in Nat
    PROVE  /\ Listed(i, j) \in Seq(Nat \X Nat)
           /\ Len(Listed(i, j)) = j - i + 1
           /\ \A k \in 1 .. j - i + 1 : Listed(i, j)[k] = <<i + k - 1, Now>>
<1> DEFINE n == j - i + 1
<1>1. n \in Nat
  OBVIOUS
<1>2. \A k \in 1 .. n : <<i + k - 1, Now>> \in Nat \X Nat
  OBVIOUS
<1> HIDE DEF n
<1>3. [k \in 1 .. n |-> <<i + k - 1, Now>>] \in Seq(Nat \X Nat)
  BY <1>1, <1>2
<1>4. Listed(i, j) = [k \in 1 .. n |-> <<i + k - 1, Now>>]
  BY DEF Listed, n
<1>5. Len([k \in 1 .. n |-> <<i + k - 1, Now>>]) = n
  BY <1>1
<1> QED
  BY <1>3, <1>4, <1>5 DEF n

LEMMA FirstFiles ==
    ASSUME NEW j \in Nat, Now \in Nat
    PROVE  /\ Listed(1, j) \in Seq(Nat \X Nat)
           /\ Len(Listed(1, j)) = j
           /\ \A k \in 1 .. j : Listed(1, j)[k] = <<k, Now>>
<1> DEFINE i == 1
<1>1. i \in Nat \ {0} /\ i <= j + 1 /\ j - i + 1 = j
      /\ \A k \in Nat : i + k - 1 = k
  OBVIOUS
<1> HIDE DEF i
<1>2. /\ Listed(i, j) \in Seq(Nat \X Nat) /\ Len(Listed(i, j)) = j
      /\ \A k \in 1 .. j : Listed(i, j)[k] = <<i + k - 1, Now>>
  BY <1>1, ListedFacts
<1>3. \A k \in 1 .. j : Listed(i, j)[k] = <<k, Now>>
  BY <1>1, <1>2
<1> QED
  BY <1>2, <1>3 DEF i

(***************************************************************************)
(* A listing of a page that the change does not reach is empty.            *)
(***************************************************************************)
LEMMA ListedType ==
    ASSUME NEW i \in Nat \ {0}, NEW j \in Nat, Now \in Nat
    PROVE  Listed(i, j) \in Seq(Nat \X Nat)
<1>1. CASE i <= j + 1
  BY <1>1, ListedFacts
<1>2. CASE ~(i <= j + 1)
  <2>1. 1 .. j - i + 1 = {}
    BY <1>2
  <2>2. Listed(i, j) = [k \in {} |-> <<i + k - 1, Now>>]
    BY <2>1 DEF Listed
  <2>3. Listed(i, j) = <<>>
    BY <2>2
  <2> QED
    BY <2>3
<1> QED
  BY <1>1, <1>2

(***************************************************************************)
(* git lists every file once.                                              *)
(***************************************************************************)
LEMMA InTreeFacts ==
    ASSUME NEW F \in SUBSET Nat, IsFiniteSet(F), Now \in Nat
    PROVE  /\ InTree(F) \in Seq(Nat \X Nat)
           /\ Len(InTree(F)) = Cardinality(F)
           /\ \A i \in F : \E k \in 1 .. Len(InTree(F)) : InTree(F)[k] = <<i, Now>>
<1> DEFINE S == {<<i, Now>> : i \in F}
           n == Cardinality(F)
           f == InTree(F)
<1>1. IsFiniteSet(S) /\ Cardinality(S) = n
  <2> DEFINE g == [i \in F |-> <<i, Now>>]
  <2>1. g \in Bijection(F, S)
    BY DEF Bijection, Injection, Surjection, IsInjective
  <2> QED
    BY <2>1, FS_Bijection DEF ExistsBijection
<1>2. n \in Nat
  BY FS_CardinalityType
<1>3. \E h \in [1 .. n -> S] : IsInjective(h)
  <2>1. ExistsBijection(1 .. n, S)
    BY <1>1, FS_CardinalityType
  <2> QED
    BY <2>1 DEF ExistsBijection, Bijection, Injection, IsInjective
<1>4. f \in [1 .. n -> S] /\ IsInjective(f)
  <2>1. f = CHOOSE h \in [1 .. Cardinality(S) -> S] : IsInjective(h)
    BY DEF InTree, SetToSeq
  <2> HIDE DEF f, S, n
  <2>2. f = CHOOSE h \in [1 .. n -> S] : IsInjective(h)
    BY <1>1, <2>1
  <2> QED
    BY <1>3, <2>2
<1>5. f \in Surjection(1 .. n, S)
  <2>1. f \in Injection(1 .. n, S)
    BY <1>4 DEF Injection, IsInjective
  <2>2. Cardinality(1 .. n) = n
    BY <1>2, FS_Interval
  <2> HIDE DEF f, S, n
  <2> QED
    BY <1>1, <2>1, <2>2, FS_Injection
<1>6. f \in Seq(Nat \X Nat) /\ Len(f) = n
  <2>1. S \subseteq Nat \X Nat
    OBVIOUS
  <2> HIDE DEF f, S, n
  <2>2. f \in [1 .. n -> Nat \X Nat]
    BY <1>4, <2>1
  <2> QED
    BY <1>2, <2>2
<1>7. ASSUME NEW i \in F PROVE \E k \in 1 .. n : f[k] = <<i, Now>>
  <2>1. <<i, Now>> \in S
    OBVIOUS
  <2> HIDE DEF f, S, n
  <2> QED
    BY <1>5, <2>1 DEF Surjection
<1> HIDE DEF f, n
<1>8. \A i \in F : \E k \in 1 .. Len(f) : f[k] = <<i, Now>>
  BY <1>6, <1>7
<1> QED
  BY <1>6, <1>8 DEF f, n

-----------------------------------------------------------------------------
(* Reading a change *)

Stages ==
    CASE mode = "pr" -> {"head", "pages", "tree", "read"}
      [] mode = "compare" -> {"compare", "tree", "read"}
      [] mode \in {"local", "below"} -> {"diff", "others", "read"}

SourceTyped ==
    /\ mode \in {"pr", "compare", "local", "below"}
    /\ at \in Stages
    /\ states \in Seq(Nat)
    /\ input \in [files : Seq(Nat \X Nat), head : Nat, incomplete : BOOLEAN]
    /\ input.head \in 1 .. Now

(***************************************************************************)
(* Each of these files is in the list, once, as it is now.                 *)
(***************************************************************************)
ListsAll(files, want) ==
    /\ Len(files) = Cardinality(want)
    /\ \A i \in want : \E k \in 1 .. Len(files) : files[k] = <<i, Now>>

(***************************************************************************)
(* Whole pages, fewer than the last, and every file on them in its place.  *)
(***************************************************************************)
NothingRead == at = "head" => input.files = <<>>

PagesRead ==
    at = "pages" /\ ~Moved =>
      \E p \in 0 .. MaxPages - 1 :
        /\ p * PageSize <= states[Now]
        /\ Len(input.files) = p * PageSize
        /\ \A k \in 1 .. p * PageSize : input.files[k] = <<k, Now>>

DiffRead ==
    at = "others" /\ ~Moved =>
      QuotedName \/ ListsAll(input.files, (1 .. states[Now]) \ untracked)

HasAll(v) ==
    /\ Len(input.files) = states[v]
    /\ \A i \in 1 .. states[v] : \E k \in 1 .. Len(input.files) : input.files[k] = <<i, v>>

AllRead ==
    at \in {"tree", "read"} /\ ~input.incomplete =>
      \/ Moved \/ PastLastPage \/ QuotedName \/ FromBelow
      \/ HasAll(input.head)

SourceInv == SourceTyped /\ NothingRead /\ PagesRead /\ DiffRead /\ AllRead

\* What the head lists is all of the change while it is where the head is.
LEMMA AllOfHead ==
    ASSUME SourceTyped', ~Moved', mode' # "compare",
           ListsAll(input.files, 1 .. states[Now])'
    PROVE  HasAll(input.head)'
<1>1. input'.head = Now' /\ states'[Now'] \in Nat
  BY DEF SourceTyped, Moved, Now
<1>2. Cardinality(1 .. states'[Now']) = states'[Now']
  BY <1>1, FS_Interval
<1> QED
  BY <1>1, <1>2 DEF ListsAll, HasAll

LEMMA SourceInitInv == SourceInit => SourceInv
<1> SUFFICES ASSUME SourceInit PROVE SourceInv
  OBVIOUS
<1>1. /\ mode \in {"pr", "compare", "local", "below"}
      /\ at = CASE mode = "pr" -> "head" [] mode = "compare" -> "compare"
                [] OTHER -> "diff"
      /\ input = [files |-> <<>>, head |-> 1, incomplete |-> FALSE]
  BY DEF SourceInit
<1>2. states \in Seq(Nat) /\ Now = 1
  <2>1. PICK n \in Counts : states = <<n>>
    BY DEF SourceInit
  <2>2. n \in Nat
    BY SourceAssumption
  <2> QED
    BY <2>1, <2>2 DEF Now
<1>3. at \in Stages /\ at \in {"head", "compare", "diff"}
  <2>1. CASE mode = "pr"
    BY <1>1, <2>1 DEF Stages
  <2>2. CASE mode = "compare"
    <3>1. at = "compare"
      BY <1>1, <2>2
    <3>2. Stages = {"compare", "tree", "read"}
      BY <2>2 DEF Stages
    <3> QED
      BY <3>1, <3>2
  <2>3. CASE mode \in {"local", "below"}
    <3>1. at = "diff"
      BY <1>1, <2>3
    <3>2. Stages = {"diff", "others", "read"}
      BY <2>3 DEF Stages
    <3> QED
      BY <3>1, <3>2
  <2> QED
    BY <1>1, <2>1, <2>2, <2>3
<1>4. SourceTyped
  BY <1>1, <1>2, <1>3 DEF SourceTyped
<1> QED
  BY <1>1, <1>3, <1>4 DEF SourceInv, NothingRead, PagesRead, DiffRead, AllRead

(***************************************************************************)
(* What was read before the change moved is not held to be whole.          *)
(***************************************************************************)
LEMMA ChangeMovesInv ==
    ASSUME SourceInv, ChangeMoves
    PROVE  SourceInv'
<1>1. PICK n \in Counts : states' = Append(states, n)
  BY DEF ChangeMoves
<1>2. states' \in Seq(Nat) /\ Now' = Now + 1 /\ Now \in Nat
  BY <1>1, SourceAssumption DEF SourceInv, SourceTyped, Now
<1>3. UNCHANGED <<mode, at, input>>
  BY DEF ChangeMoves
<1>4. SourceTyped'
  <2>1. Stages' = Stages
    BY <1>3 DEF Stages
  <2> QED
    BY <1>2, <1>3, <2>1 DEF SourceInv, SourceTyped
<1>5. CASE mode # "compare"
  <2>1. Moved'
    BY <1>2, <1>3, <1>5 DEF SourceInv, SourceTyped, Moved
  <2> QED
    BY <1>3, <1>4, <2>1 DEF SourceInv, NothingRead, PagesRead, DiffRead, AllRead
<1>6. CASE mode = "compare"
  <2>1. at \notin {"head", "pages", "others"}
    BY <1>6 DEF SourceInv, SourceTyped, Stages
  <2>2. ~Moved /\ ~PastLastPage /\ ~QuotedName /\ ~FromBelow
    BY <1>6 DEF Moved, PastLastPage, QuotedName, FromBelow, InCheckout
  <2>3. states'[input.head] = states[input.head]
    BY <1>1, SourceAssumption DEF SourceInv, SourceTyped, Now
  <2>4. AllRead'
    BY <1>3, <2>2, <2>3 DEF SourceInv, AllRead, HasAll
  <2> QED
    BY <1>3, <1>4, <2>1, <2>4 DEF SourceInv, NothingRead, PagesRead, DiffRead
<1> QED
  BY <1>5, <1>6

LEMMA ReadHeadInv ==
    ASSUME SourceInv, ReadHead
    PROVE  SourceInv'
<1>1. /\ at = "head" /\ at' = "pages" /\ input' = [input EXCEPT !.head = Now]
      /\ UNCHANGED <<mode, states, untracked>>
  BY DEF ReadHead
<1>2. Now \in Nat /\ Now >= 1 /\ states[Now] \in Nat
  BY DEF SourceInv, SourceTyped, Now
<1>3. /\ input'.head = Now /\ input'.files = <<>> /\ Now' = Now
      /\ states'[Now'] = states[Now]
      /\ input' \in [files : Seq(Nat \X Nat), head : Nat, incomplete : BOOLEAN]
  <2>1. input \in [files : Seq(Nat \X Nat), head : Nat, incomplete : BOOLEAN]
    BY DEF SourceInv, SourceTyped
  <2>2. input.files = <<>>
    BY <1>1 DEF SourceInv, NothingRead
  <2>3. Now' = Now /\ states'[Now'] = states[Now]
    BY <1>1 DEF Now
  <2> QED
    BY <1>1, <1>2, <2>1, <2>2, <2>3
<1>4. mode = "pr" /\ Stages' = Stages /\ at' \in Stages
  BY <1>1 DEF SourceInv, SourceTyped, Stages
<1>5. SourceTyped'
  BY <1>1, <1>2, <1>3, <1>4 DEF SourceInv, SourceTyped
<1>6. PagesRead'
  <2>1. 0 \in 0 .. MaxPages - 1 /\ 0 * PageSize = 0 /\ 1 .. 0 = {}
    BY SourceAssumption
  <2> QED
    BY <1>2, <1>3, <2>1 DEF PagesRead
<1> QED
  BY <1>1, <1>5, <1>6 DEF SourceInv, NothingRead, DiffRead, AllRead

(***************************************************************************)
(* One page more.  A list that ends on a page that is not full, or in the  *)
(* middle of one, is all of it; one that ends with the last page may not   *)
(* be, and then the change has more files than the pages hold.             *)
(***************************************************************************)
LEMMA PageNumber ==
    ASSUME NEW p \in Nat
    PROVE  (p * PageSize) \div PageSize = p
<1> DEFINE P == PageSize
           x == p * P
           q == x \div P
<1>1. P \in Nat \ {0}
  BY SourceAssumption
<1> HIDE DEF P
<1>2. x \in Nat /\ q \in Nat
  BY <1>1
<1>3. q * P <= x /\ x < (q + 1) * P
  BY <1>1
<1>4. q = p
  <2>1. CASE q < p
    <3>1. (q + 1) * P <= p * P
      BY <1>1, <1>2, <2>1
    <3> QED
      BY <1>1, <1>2, <1>3, <3>1
  <2>2. CASE q > p
    <3>1. (p + 1) * P <= q * P
      BY <1>1, <1>2, <2>2
    <3>2. (p + 1) * P = p * P + P
      BY <1>1
    <3> QED
      BY <1>1, <1>2, <1>3, <3>1, <3>2
  <2> QED
    BY <1>2, <2>1, <2>2
<1> QED
  BY <1>4 DEF P

LEMMA PagesType ==
    ASSUME NEW x \in Nat
    PROVE  x \div PageSize \in Nat /\ x * PageSize \in Nat
BY SourceAssumption

LEMMA ConcatAt ==
    ASSUME NEW S, NEW s \in Seq(S), NEW t \in Seq(S), NEW k \in 1 .. Len(t)
    PROVE  (s \o t)[Len(s) + k] = t[k]
OBVIOUS

LEMMA ReadPageInv ==
    ASSUME SourceInv, ReadPage
    PROVE  SourceInv'
<1> DEFINE page == Len(input.files) \div PageSize + 1
           from == (page - 1) * PageSize + 1
           to == LowerOf(page * PageSize, states[Now])
           batch == Listed(from, to)
<1>1. /\ at = "pages" /\ input' = [input EXCEPT !.files = @ \o batch]
      /\ at' = IF LastPage(page, Len(batch)) THEN "tree" ELSE "pages"
      /\ UNCHANGED <<mode, states, untracked>>
  BY DEF ReadPage
<1>2. /\ Now \in Nat /\ Now >= 1 /\ states[Now] \in Nat
      /\ input.files \in Seq(Nat \X Nat) /\ Len(input.files) \in Nat
      /\ PageSize \in Nat \ {0} /\ MaxPages \in Nat \ {0}
  BY SourceAssumption DEF SourceInv, SourceTyped, Now
<1>3. page \in Nat \ {0} /\ from \in Nat \ {0} /\ to \in Nat
  <2>1. Len(input.files) \div PageSize \in Nat
    BY <1>2, PagesType
  <2>2. page \in Nat \ {0} /\ page - 1 \in Nat
    BY <2>1
  <2> HIDE DEF page
  <2>3. (page - 1) * PageSize \in Nat /\ page * PageSize \in Nat
    BY <2>2, PagesType
  <2>4. from \in Nat \ {0}
    BY <2>3
  <2>5. to \in Nat
    BY <1>2, <2>3 DEF LowerOf
  <2> QED
    BY <2>2, <2>4, <2>5
<1>4. batch \in Seq(Nat \X Nat)
  <2> HIDE DEF from, to
  <2> QED
    BY <1>2, <1>3, ListedType
<1> HIDE DEF batch
<1>5. /\ input'.files = input.files \o batch /\ input'.head = input.head
      /\ input'.files \in Seq(Nat \X Nat) /\ Now' = Now
      /\ input'.incomplete = input.incomplete
  <2>1. input \in [files : Seq(Nat \X Nat), head : Nat, incomplete : BOOLEAN]
    BY DEF SourceInv, SourceTyped
  <2>2. /\ input'.files = input.files \o batch /\ input'.head = input.head
        /\ input'.incomplete = input.incomplete
    BY <1>1, <2>1
  <2>3. input.files \o batch \in Seq(Nat \X Nat)
    BY <1>2, <1>4
  <2>4. Now' = Now
    BY <1>1 DEF Now
  <2> QED
    BY <2>2, <2>3, <2>4
<1>6. SourceTyped'
  <2>1. mode = "pr" /\ Stages' = Stages /\ at' \in Stages
    BY <1>1 DEF SourceInv, SourceTyped, Stages
  <2>2. input' \in [files : Seq(Nat \X Nat), head : Nat, incomplete : BOOLEAN]
    BY <1>1, <1>5 DEF SourceInv, SourceTyped
  <2> QED
    BY <1>1, <1>5, <2>1, <2>2 DEF SourceInv, SourceTyped
<1>7. CASE Moved
  <2>1. Moved'
    BY <1>1, <1>5, <1>7 DEF Moved
  <2> QED
    BY <1>1, <1>6, <2>1 DEF SourceInv, NothingRead, PagesRead, DiffRead, AllRead
<1>8. CASE ~Moved
  <2>1. PICK p \in 0 .. MaxPages - 1 :
          /\ p * PageSize <= states[Now]
          /\ Len(input.files) = p * PageSize
          /\ \A k \in 1 .. p * PageSize : input.files[k] = <<k, Now>>
    BY <1>1, <1>8 DEF SourceInv, PagesRead
  <2> DEFINE done == p * PageSize
             n == states[Now]
  <2>2. p \in Nat /\ done \in Nat /\ (p + 1) * PageSize = done + PageSize
    BY <1>2, <2>1
  <2>3. page = p + 1
    BY <2>1, <2>2, PageNumber
  <2>4. from = done + 1 /\ to = LowerOf(done + PageSize, n)
    BY <2>2, <2>3
  <2> HIDE DEF page, from, to, done, n
  <2>5. done <= n /\ n \in Nat
    BY <1>2, <2>1 DEF n, done
  <2>6. to \in Nat /\ done <= to /\ to <= n /\ to <= done + PageSize
        /\ (to = n \/ to = done + PageSize)
    BY <1>2, <2>2, <2>4, <2>5 DEF LowerOf
  <2>7. /\ Len(batch) = to - done
        /\ \A k \in 1 .. to - done : batch[k] = <<done + k, Now>>
    <3>1. /\ Len(batch) = to - from + 1
          /\ \A k \in 1 .. to - from + 1 : batch[k] = <<from + k - 1, Now>>
      <4>1. from \in Nat \ {0} /\ from <= to + 1
        BY <2>2, <2>4, <2>6
      <4> QED
        BY <1>2, <2>6, <4>1, ListedFacts DEF batch
    <3>2. to - from + 1 = to - done /\ \A k \in Nat : from + k - 1 = done + k
      BY <2>2, <2>4, <2>6
    <3> QED
      BY <3>1, <3>2
  <2>8. Len(input'.files) = to
    BY <1>2, <1>4, <1>5, <2>1, <2>2, <2>6, <2>7 DEF done
  <2>9. ASSUME NEW k \in 1 .. to PROVE input'.files[k] = <<k, Now>>
    <3>1. CASE k <= done
      <4>1. input'.files[k] = input.files[k]
        BY <1>2, <1>4, <1>5, <2>1, <2>2, <2>6, <3>1 DEF done
      <4> QED
        BY <2>1, <2>2, <2>6, <3>1, <4>1 DEF done
    <3>2. CASE k > done
      <4>1. k - done \in 1 .. to - done /\ done + (k - done) = k
        BY <2>2, <2>6, <3>2
      <4>2. input'.files[k] = batch[k - done]
        <5>1. k - done \in 1 .. Len(batch)
          BY <2>7, <4>1
        <5>2. (input.files \o batch)[Len(input.files) + (k - done)] = batch[k - done]
          BY <1>2, <1>4, <5>1, ConcatAt
        <5>3. Len(input.files) = done
          BY <2>1 DEF done
        <5> QED
          BY <1>5, <4>1, <5>2, <5>3
      <4> QED
        BY <2>7, <4>1, <4>2
    <3> QED
      BY <2>2, <2>6, <3>1, <3>2
  <2>10. CASE to = n
    <3>1. ListsAll(input.files, 1 .. states[Now])'
      <4>1. Cardinality(1 .. n) = n
        BY <2>5, FS_Interval
      <4> QED
        BY <1>1, <1>5, <2>8, <2>9, <2>10, <4>1 DEF ListsAll, n
    <3>2. ~Moved' /\ mode' # "compare"
      BY <1>1, <1>5, <1>8 DEF Moved, SourceInv, SourceTyped, Stages
    <3>3. HasAll(input.head)'
      <4>1. SourceTyped' /\ ListsAll(input.files, 1 .. states[Now])'
        BY <1>6, <3>1
      <4> QED
        BY <3>2, <4>1, AllOfHead
    <3>4. PagesRead'
      <4>1. CASE LastPage(page, Len(batch))
        BY <1>1, <4>1 DEF PagesRead
      <4>2. CASE ~LastPage(page, Len(batch))
        <5>1. p + 1 # MaxPages /\ to - done >= PageSize
          BY <1>2, <2>2, <2>3, <2>6, <2>7, <4>2 DEF LastPage
        <5>2. p + 1 \in 0 .. MaxPages - 1 /\ to = (p + 1) * PageSize
          BY <1>2, <2>1, <2>2, <2>6, <5>1
        <5> QED
          BY <1>1, <1>5, <2>6, <2>8, <2>9, <5>2 DEF PagesRead, n
      <4> QED
        BY <4>1, <4>2
    <3> QED
      BY <1>1, <1>6, <3>3, <3>4 DEF SourceInv, NothingRead, DiffRead, AllRead
  <2>11. CASE to # n
    <3>1. to = (p + 1) * PageSize /\ to < n /\ Len(batch) = PageSize
      BY <1>2, <2>2, <2>5, <2>6, <2>7, <2>11
    <3>2. CASE p + 1 = MaxPages
      <4>1. at' = "tree"
        BY <1>1, <2>3, <3>2 DEF LastPage
      <4>2. PastLastPage'
        <5>1. mode = "pr"
          BY <1>1 DEF SourceInv, SourceTyped, Stages
        <5>2. n > PageSize * MaxPages
          <6>1. MaxPages * PageSize = PageSize * MaxPages
            BY <1>2
          <6> QED
            BY <3>1, <3>2, <6>1
        <5> QED
          BY <1>1, <1>5, <5>1, <5>2 DEF PastLastPage, n
      <4> QED
        BY <1>6, <4>1, <4>2 DEF SourceInv, NothingRead, PagesRead, DiffRead, AllRead
    <3>3. CASE p + 1 # MaxPages
      <4>1. ~LastPage(page, Len(batch))
        BY <1>2, <2>3, <3>1, <3>3 DEF LastPage
      <4>2. at' = "pages"
        BY <1>1, <4>1
      <4>3. p + 1 \in 0 .. MaxPages - 1
        BY <1>2, <2>1, <3>3
      <4>4. PagesRead'
        BY <1>1, <1>5, <2>6, <2>8, <2>9, <3>1, <4>3 DEF PagesRead, n
      <4> QED
        BY <1>6, <4>2, <4>4 DEF SourceInv, NothingRead, DiffRead, AllRead
    <3> QED
      BY <3>2, <3>3
  <2> QED
    BY <2>10, <2>11
<1> QED
  BY <1>7, <1>8

(***************************************************************************)
(* The compare API lists the first files, and the code does not trust a    *)
(* list of just as many.                                                   *)
(***************************************************************************)
LEMMA ReadCompareInv ==
    ASSUME SourceInv, ReadCompare
    PROVE  SourceInv'
<1> DEFINE n == states[Now]
           to == LowerOf(CompareLimit, n)
           files == Listed(1, to)
<1>1. /\ at = "compare" /\ at' = "tree"
      /\ input' = [files |-> files, head |-> Now, incomplete |-> AtLimit(Len(files))]
      /\ UNCHANGED <<mode, states, untracked>>
  BY DEF ReadCompare
<1>2. Now \in Nat /\ Now >= 1 /\ n \in Nat /\ CompareLimit \in Nat \ {0}
  BY SourceAssumption DEF SourceInv, SourceTyped, Now
<1> HIDE DEF n
<1>3. to \in Nat /\ (to = n \/ to = CompareLimit)
  BY <1>2 DEF LowerOf
<1> HIDE DEF to
<1>4. /\ files \in Seq(Nat \X Nat) /\ Len(files) = to
      /\ \A k \in 1 .. to : files[k] = <<k, Now>>
  BY <1>2, <1>3, FirstFiles
<1> HIDE DEF files
<1>5. Now' = Now /\ AtLimit(Len(files)) \in BOOLEAN
  BY <1>1 DEF Now, AtLimit
<1>6. input' \in [files : Seq(Nat \X Nat), head : Nat, incomplete : BOOLEAN]
  BY <1>1, <1>2, <1>4, <1>5
<1>7. mode = "compare" /\ Stages' = Stages /\ at' \in Stages
  BY <1>1 DEF SourceInv, SourceTyped, Stages
<1>8. SourceTyped'
  BY <1>1, <1>2, <1>5, <1>6, <1>7 DEF SourceInv, SourceTyped
<1>9. AllRead'
  <2>1. CASE AtLimit(Len(files))
    <3>1. input'.incomplete
      BY <1>1, <2>1
    <3> QED
      BY <3>1 DEF AllRead
  <2>2. CASE ~AtLimit(Len(files))
    <3>1. to = n
      BY <1>2, <1>3, <1>4, <2>2 DEF AtLimit
    <3>2. input'.files = files /\ input'.head = Now /\ states'[Now] = n
      BY <1>1 DEF n
    <3>3. HasAll(input.head)'
      BY <1>4, <3>1, <3>2 DEF HasAll
    <3> QED
      BY <3>3 DEF AllRead
  <2> QED
    BY <2>1, <2>2
<1> QED
  BY <1>1, <1>8, <1>9 DEF SourceInv, NothingRead, PagesRead, DiffRead

LEMMA ReadTreeInv ==
    ASSUME SourceInv, ReadTree, at' # "failed"
    PROVE  SourceInv'
<1>1. /\ at = "tree" /\ at' = "read"
      /\ UNCHANGED <<mode, states, untracked, input>>
  BY DEF ReadTree
<1>2. Now' = Now /\ Stages' = Stages /\ at' \in Stages
  BY <1>1 DEF Now, SourceInv, SourceTyped, Stages
<1>3. SourceTyped'
  BY <1>1, <1>2 DEF SourceInv, SourceTyped
<1>4. AllRead'
  <2>1. /\ Moved' = Moved /\ PastLastPage' = PastLastPage
        /\ QuotedName' = QuotedName /\ FromBelow' = FromBelow
        /\ HasAll(input.head)' = HasAll(input.head)
    BY <1>1, <1>2 DEF Moved, PastLastPage, QuotedName, FromBelow, InCheckout, HasAll
  <2> QED
    BY <1>1, <2>1 DEF SourceInv, AllRead
<1> QED
  BY <1>1, <1>3, <1>4 DEF SourceInv, NothingRead, PagesRead, DiffRead

-----------------------------------------------------------------------------
(* Reading a checkout *)

LEMMA SomeOf ==
    ASSUME NEW n \in Nat, NEW F \in SUBSET (1 .. n)
    PROVE  F \in SUBSET Nat /\ IsFiniteSet(F)
<1>1. IsFiniteSet(1 .. n)
  BY FS_Interval
<1>2. F \in SUBSET Nat
  OBVIOUS
<1>3. IsFiniteSet(F)
  BY <1>1, FS_Subset
<1> QED
  BY <1>2, <1>3

LEMMA ReadDiffInv ==
    ASSUME SourceInv, ReadDiff
    PROVE  SourceInv'
<1> DEFINE n == states[Now]
           tracked == (1 .. n) \ untracked
           files == InTree(SplitDiff(tracked))
<1>1. /\ at = "diff" /\ at' = "others"
      /\ input' = [input EXCEPT !.head = Now, !.files = files]
      /\ UNCHANGED <<mode, states, untracked>>
  BY DEF ReadDiff
<1>2. Now \in Nat /\ Now >= 1 /\ n \in Nat
  BY DEF SourceInv, SourceTyped, Now
<1> HIDE DEF n
<1>3. /\ files \in Seq(Nat \X Nat)
      /\ ListsAll(files, SplitDiff(tracked))
  <2>1. SplitDiff(tracked) \in SUBSET (1 .. n)
    BY DEF SplitDiff
  <2> QED
    BY <1>2, <2>1, SomeOf, InTreeFacts DEF ListsAll
<1> HIDE DEF files
<1>4. /\ Now' = Now
      /\ input'.files = files /\ input'.head = Now
      /\ input' \in [files : Seq(Nat \X Nat), head : Nat, incomplete : BOOLEAN]
  <2>1. input \in [files : Seq(Nat \X Nat), head : Nat, incomplete : BOOLEAN]
    BY DEF SourceInv, SourceTyped
  <2>2. Now' = Now
    BY <1>1 DEF Now
  <2> QED
    BY <1>1, <1>2, <1>3, <2>1, <2>2
<1>5. InCheckout /\ Stages' = Stages /\ at' \in Stages
  BY <1>1 DEF SourceInv, SourceTyped, Stages, InCheckout
<1>6. SourceTyped'
  BY <1>1, <1>2, <1>4, <1>5 DEF SourceInv, SourceTyped
<1>7. DiffRead'
  <2>1. CASE QuotedFile \in tracked
    <3>1. QuotedName'
      BY <1>1, <1>4, <1>5, <2>1 DEF QuotedName, InCheckout, n
    <3> QED
      BY <3>1 DEF DiffRead
  <2>2. CASE QuotedFile \notin tracked
    <3>1. SplitDiff(tracked) = tracked
      BY <2>2 DEF SplitDiff
    <3>2. ListsAll(files, tracked)
      BY <1>3, <3>1
    <3>3. ListsAll(input.files, (1 .. states[Now]) \ untracked)'
      BY <1>1, <1>4, <3>2 DEF ListsAll, n
    <3> QED
      BY <3>3 DEF DiffRead
  <2> QED
    BY <2>1, <2>2
<1> QED
  BY <1>1, <1>6, <1>7 DEF SourceInv, NothingRead, PagesRead, AllRead

(***************************************************************************)
(* What git tracks and what it does not make the whole checkout.           *)
(***************************************************************************)
LEMMA ReadOthersInv ==
    ASSUME SourceInv, ReadOthers, at' # "failed"
    PROVE  SourceInv'
<1> DEFINE n == states[Now]
           tracked == (1 .. n) \ untracked
           rest == (1 .. n) \cap untracked
           others == Others
<1>1. /\ at = "others" /\ at' = "read"
      /\ input' = [input EXCEPT !.files = input.files \o others]
      /\ UNCHANGED <<mode, states, untracked>>
  BY DEF ReadOthers
<1>2. /\ Now \in Nat /\ Now >= 1 /\ n \in Nat
      /\ input.files \in Seq(Nat \X Nat) /\ Len(input.files) \in Nat
  BY DEF SourceInv, SourceTyped, Now
<1>0. others = IF mode = "below"
               THEN [k \in 1 .. Cardinality(rest \cap BelowDir) |-> <<0, Now>>]
               ELSE InTree(rest)
  BY DEF Others
<1> HIDE DEF n, others
<1>3. others \in Seq(Nat \X Nat) /\ (mode # "below" \/ rest = {} => ListsAll(others, rest))
  <2>1. rest \in SUBSET (1 .. n) /\ rest \cap BelowDir \in SUBSET (1 .. n)
    OBVIOUS
  <2>2. IsFiniteSet(rest) /\ rest \in SUBSET Nat /\ IsFiniteSet(rest \cap BelowDir)
    BY <1>2, <2>1, SomeOf
  <2>3. Cardinality(rest \cap BelowDir) \in Nat
    BY <2>2, FS_CardinalityType
  <2>4. CASE mode # "below"
    BY <1>0, <1>2, <2>2, <2>4, InTreeFacts DEF ListsAll
  <2>5. CASE mode = "below"
    <3>1. others \in Seq(Nat \X Nat)
      <4> DEFINE c == Cardinality(rest \cap BelowDir)
      <4>1. c \in Nat /\ others = [k \in 1 .. c |-> <<0, Now>>] /\ <<0, Now>> \in Nat \X Nat
        BY <1>0, <1>2, <2>3, <2>5
      <4> HIDE DEF c
      <4> QED
        BY <4>1
    <3>2. ASSUME rest = {} PROVE ListsAll(others, rest)
      <4>1. rest \cap BelowDir = {} /\ Cardinality({}) = 0
        BY <3>2, FS_EmptySet
      <4>2. others = [k \in 1 .. 0 |-> <<0, Now>>]
        BY <1>0, <2>5, <4>1
      <4>3. Len(others) = 0
        BY <4>2
      <4> HIDE DEF rest
      <4> QED
        BY <3>2, <4>1, <4>3 DEF ListsAll
    <3> QED
      BY <2>5, <3>1, <3>2
  <2> QED
    BY <2>4, <2>5
<1>4. /\ Now' = Now
      /\ input'.files = input.files \o others /\ input'.head = input.head
      /\ input' \in [files : Seq(Nat \X Nat), head : Nat, incomplete : BOOLEAN]
  <2>1. input \in [files : Seq(Nat \X Nat), head : Nat, incomplete : BOOLEAN]
    BY DEF SourceInv, SourceTyped
  <2>2. Now' = Now
    BY <1>1 DEF Now
  <2>3. input.files \o others \in Seq(Nat \X Nat)
    BY <1>2, <1>3
  <2> QED
    BY <1>1, <2>1, <2>2, <2>3
<1>5. InCheckout /\ Stages' = Stages /\ at' \in Stages
  BY <1>1 DEF SourceInv, SourceTyped, Stages, InCheckout
<1>6. SourceTyped'
  BY <1>1, <1>4, <1>5 DEF SourceInv, SourceTyped
<1>7. AllRead'
  <2>1. /\ Moved' = Moved /\ QuotedName' = QuotedName /\ FromBelow' = FromBelow
        /\ mode' # "compare"
        /\ ~FromBelow => mode # "below" \/ rest = {}
    BY <1>1, <1>4, <1>5 DEF Moved, QuotedName, FromBelow, InCheckout, n
  <2>2. CASE Moved \/ QuotedName \/ FromBelow
    BY <2>1, <2>2 DEF AllRead
  <2>3. CASE ListsAll(input.files, tracked) /\ ~FromBelow /\ ~Moved
    <3>0. ListsAll(others, rest)
      BY <1>3, <2>1, <2>3
    <3>1. Cardinality(tracked) + Cardinality(rest) = n
      <4>1. IsFiniteSet(1 .. n) /\ Cardinality(1 .. n) = n
        BY <1>2, FS_Interval
      <4>2. Cardinality(tracked) = n - Cardinality(rest)
        BY <4>1, FS_Difference
      <4>3. Cardinality(rest) \in Nat
        BY <4>1, FS_Intersection, FS_CardinalityType
      <4> QED
        BY <1>2, <4>2, <4>3
    <3>2. Len(input.files \o others) = n
      <4>1. Len(input.files \o others) = Len(input.files) + Len(others)
        BY <1>2, <1>3
      <4> QED
        BY <2>3, <3>0, <3>1, <4>1 DEF ListsAll
    <3>3. ASSUME NEW i \in 1 .. n
          PROVE  \E k \in 1 .. n : (input.files \o others)[k] = <<i, Now>>
      <4>0. Len(input.files) + Len(others) = n /\ Len(others) \in Nat
        BY <1>2, <1>3, <3>2
      <4> HIDE DEF tracked, rest
      <4>1. CASE i \in tracked
        <5>1. PICK k \in 1 .. Len(input.files) : input.files[k] = <<i, Now>>
          BY <2>3, <4>1 DEF ListsAll
        <5>2. (input.files \o others)[k] = input.files[k]
          BY <1>2, <1>3, <5>1
        <5>3. k \in 1 .. n
          BY <1>2, <4>0, <5>1
        <5> QED
          BY <5>1, <5>2, <5>3
      <4>2. CASE i \in rest
        <5>1. PICK k \in 1 .. Len(others) : others[k] = <<i, Now>>
          BY <3>0, <4>2 DEF ListsAll
        <5>2. (input.files \o others)[Len(input.files) + k] = others[k]
          BY <1>2, <1>3, <5>1, ConcatAt
        <5>3. Len(input.files) + k \in 1 .. n
          BY <1>2, <4>0, <5>1
        <5> QED
          BY <5>1, <5>2, <5>3
      <4> QED
        BY <4>1, <4>2 DEF tracked, rest
    <3>4. Cardinality(1 .. n) = n
      BY <1>2, FS_Interval
    <3>5. ListsAll(input.files, 1 .. states[Now])'
      BY <1>1, <1>4, <3>2, <3>3, <3>4 DEF ListsAll, n
    <3>6. HasAll(input.head)'
      <4>1. ~Moved' /\ mode' # "compare" /\ SourceTyped'
        BY <1>6, <2>1, <2>3
      <4> QED
        BY <3>5, <4>1, AllOfHead
    <3> QED
      BY <3>6 DEF AllRead
  <2> QED
    BY <1>1, <2>2, <2>3 DEF SourceInv, DiffRead, n
<1> QED
  BY <1>1, <1>6, <1>7 DEF SourceInv, NothingRead, PagesRead, DiffRead

-----------------------------------------------------------------------------
(* The input *)

Collecting == at \in {"head", "pages", "compare", "tree", "diff", "others", "read"}

LEMMA SourceStep ==
    ASSUME Collecting => SourceInv, [AdviceNext]_<<sourceVars, adviceVars>>
    PROVE  (Collecting => SourceInv)'
<1>1. CASE SourceNext
  <2>1. CASE CallFails
    BY <2>1 DEF CallFails, Collecting
  <2>2. CASE ChangeMoves
    BY <2>2, ChangeMovesInv DEF ChangeMoves, Reading, Collecting
  <2>3. CASE ReadHead \/ ReadPage \/ ReadCompare \/ ReadDiff
    <3>1. SourceInv
      BY <2>3 DEF ReadHead, ReadPage, ReadCompare, ReadDiff, Collecting
    <3> QED
      BY <2>3, <3>1, ReadHeadInv, ReadPageInv, ReadCompareInv, ReadDiffInv
  <2>4. CASE ReadTree \/ ReadOthers
    <3>1. SourceInv
      BY <2>4 DEF ReadTree, ReadOthers, Collecting
    <3> QED
      BY <2>4, <3>1, ReadTreeInv, ReadOthersInv DEF Collecting
  <2> QED
    BY <1>1, <2>1, <2>2, <2>3, <2>4 DEF SourceNext
<1>2. CASE BadCompare \/ SourceFailed \/ NoKey \/ Advise
  BY <1>2 DEF BadCompare, SourceFailed, NoKey, Advise, End, Collecting
<1>3. CASE RecordInput \/ Render \/ Ask
  BY <1>3 DEF RecordInput, Render, Ask, End, Collecting
<1>4. CASE UNCHANGED <<sourceVars, adviceVars>>
  <2>1. UNCHANGED <<mode, at, states, untracked, input>>
    BY <1>4 DEF sourceVars
  <2> QED
    BY <2>1 DEF Collecting, SourceInv, SourceTyped, Stages, Now, NothingRead,
                PagesRead, DiffRead, AllRead, Moved, PastLastPage, QuotedName,
                FromBelow, InCheckout, ListsAll, HasAll
<1> QED
  BY <1>1, <1>2, <1>3, <1>4 DEF AdviceNext

(***************************************************************************)
(* "Incomplete: the source knows files are missing from Files": an input   *)
(* that is not marked has every file of the head it names, once, but for   *)
(* the four holes that InputIsWhole names.                                 *)
(***************************************************************************)
THEOREM InputsAreWhole == AdviceSpec => []InputIsWhole
<1>1. (Collecting => SourceInv) => InputIsWhole
  <2> SUFFICES ASSUME SourceInv, at = "read", ~input.incomplete,
                      ~Moved, ~PastLastPage, ~QuotedName, ~FromBelow
               PROVE  /\ Len(input.files) = states[input.head]
                      /\ \A i \in 1 .. states[input.head] :
                           \E k \in DOMAIN input.files :
                             input.files[k] = <<i, input.head>>
    BY DEF InputIsWhole, Collecting
  <2>1. HasAll(input.head)
    BY DEF SourceInv, AllRead
  <2>2. input.files \in Seq(Nat \X Nat)
    BY DEF SourceInv, SourceTyped
  <2>3. DOMAIN input.files = 1 .. Len(input.files)
    BY <2>2
  <2> QED
    BY <2>1, <2>3 DEF HasAll
<1>2. SourceInit => (Collecting => SourceInv)
  BY SourceInitInv
<1>3. (Collecting => SourceInv) /\ [AdviceNext]_<<sourceVars, adviceVars>>
        => (Collecting => SourceInv)'
  BY SourceStep
<1> QED
  BY <1>1, <1>2, <1>3, PTL DEF AdviceSpec

-----------------------------------------------------------------------------
(* The advice *)

(***************************************************************************)
(* Past the key, and at the end what was earned.                           *)
(***************************************************************************)
AdviceInv ==
    /\ at \in {"rendered", "answered"} => key
    /\ AdviceIsEarned

LEMMA AdviceInitInv == SourceInit /\ AdviceInit => AdviceInv
<1> SUFFICES ASSUME SourceInit PROVE AdviceInv
  OBVIOUS
<1>1. at \in {"head", "compare", "diff"}
  BY DEF SourceInit
<1> QED
  BY <1>1 DEF AdviceInv, AdviceIsEarned

(***************************************************************************)
(* An end without advice.                                                  *)
(***************************************************************************)
LEMMA EndInv ==
    ASSUME NEW exit, NEW receipt, End(exit, receipt),
           \/ exit = 1 /\ receipt = "error"
           \/ exit = 2 /\ receipt = "unsaved"
           \/ exit = 3 /\ receipt = "unavailable"
    PROVE  AdviceInv'
<1>1. at' = "ended" /\ ended'.exit = exit /\ ended'.receipt = receipt
  BY DEF End, Running
<1>2. ended'.exit \in {1, 2, 3} /\ ended'.exit \in 0 .. 3 /\ ended'.exit # 0
  BY <1>1
<1>3. ended'.receipt \notin Options
  BY <1>1 DEF Options
<1>4. /\ ended'.exit = 1 <=> ended'.receipt = "error"
      /\ ended'.exit = 2 => ended'.receipt = "unsaved"
      /\ ended'.exit = 3 <=> ended'.receipt = "unavailable"
  BY <1>1
<1> QED
  BY <1>1, <1>2, <1>3, <1>4 DEF AdviceInv, AdviceIsEarned

(***************************************************************************)
(* needsTestWork and nextStep say the same of a whole answer.              *)
(***************************************************************************)
LEMMA StepsAgree ==
    ASSUME NEW a, Whole(a)
    PROVE  NeedsTestWork(a) <=> NextStep(a) \cap {"write a test", "warning"} # {}
<1>1. CASE a.lowValue = "high"
  BY <1>1 DEF NeedsTestWork, NextStep
<1>2. CASE a.lowValue # "high" /\ a.advice \in {"new_test", "extend_test"}
  <2>1. CASE a.covered = "high"
    BY <1>2, <2>1 DEF NeedsTestWork, NextStep
  <2>2. CASE a.covered # "high"
    BY <1>2, <2>2 DEF NeedsTestWork, NextStep
  <2> QED
    BY <2>1, <2>2
<1>3. CASE a.lowValue # "high" /\ a.advice \notin {"new_test", "extend_test"}
  <2>1. NextStep(a) = {a.advice}
    BY <1>3 DEF NextStep
  <2>2. a.advice \notin {"write a test", "warning"}
    BY DEF Whole, Options
  <2> QED
    BY <1>3, <2>1, <2>2 DEF NeedsTestWork
<1> QED
  BY <1>1, <1>2, <1>3

LEMMA AdviseInv ==
    ASSUME AdviceInv, Advise
    PROVE  AdviceInv'
<1>1. CASE ~Whole(answers)
  BY <1>1, EndInv DEF Advise
<1>2. CASE Whole(answers)
  <2>1. /\ at = "answered" /\ at' = "ended" /\ UNCHANGED <<key, complete, answers>>
        /\ ended' = [exit |-> 0, receipt |-> answers.advice, warned |-> ~complete,
                     testWork |-> NeedsTestWork(answers), next |-> NextStep(answers)]
    BY <1>2 DEF Advise
  <2>2. /\ ended'.exit = 0 /\ ended'.receipt = answers.advice
        /\ ended'.warned = ~complete
        /\ ended'.testWork = NeedsTestWork(answers)
        /\ ended'.next = NextStep(answers)
    BY <2>1
  <2>3. key /\ answers.advice \in Options
        /\ {answers.covered, answers.lowValue} \subseteq Probabilities
    BY <1>2, <2>1 DEF AdviceInv, Whole
  <2>4. ended'.testWork = (ended'.next \cap {"write a test", "warning"} # {})
    <3>1. NeedsTestWork(answers) \in BOOLEAN
      BY DEF NeedsTestWork
    <3> QED
      BY <1>2, <2>2, <3>1, StepsAgree
  <2>5. ended'.receipt \notin {"error", "unavailable"}
    BY <2>2, <2>3 DEF Options
  <2>6. ended'.exit \in 0 .. 3 /\ ended'.exit \notin {1, 2, 3}
    BY <2>2
  <2>7. ended'.warned = ~complete'
    BY <2>1, <2>2
  <2> QED
    BY <2>1, <2>2, <2>3, <2>4, <2>5, <2>6, <2>7 DEF AdviceInv, AdviceIsEarned
<1> QED
  BY <1>1, <1>2

LEMMA AdviceStep ==
    ASSUME AdviceInv, [AdviceNext]_<<sourceVars, adviceVars>>
    PROVE  AdviceInv'
<1>1. CASE SourceNext
  <2>1. at' \notin {"rendered", "answered", "ended"}
    BY <1>1 DEF SourceNext, ReadHead, ReadPage, ReadCompare, ReadTree, ReadDiff,
                ReadOthers, CallFails, ChangeMoves, Reading
  <2> QED
    BY <2>1 DEF AdviceInv, AdviceIsEarned
<1>2. CASE BadCompare
  BY <1>2, EndInv DEF BadCompare
<1>3. CASE SourceFailed
  BY <1>3, EndInv DEF SourceFailed
<1>4. CASE RecordInput
  BY <1>4 DEF RecordInput, AdviceInv, AdviceIsEarned
<1>5. CASE NoKey
  BY <1>5, EndInv DEF NoKey
<1>6. CASE Render
  <2>1. at' = "rendered" /\ key /\ key' = key
    BY <1>6 DEF Render
  <2> QED
    BY <2>1 DEF AdviceInv, AdviceIsEarned
<1>7. CASE Ask
  <2>1. CASE End(3, "unavailable")
    BY <2>1, EndInv
  <2>2. CASE at' = "answered"
    <3>1. key' = key /\ at = "rendered"
      BY <1>7 DEF Ask
    <3> QED
      BY <2>2, <3>1 DEF AdviceInv, AdviceIsEarned
  <2> QED
    BY <1>7, <2>1, <2>2 DEF Ask
<1>8. CASE Advise
  BY <1>8, AdviseInv
<1>9. CASE UNCHANGED <<sourceVars, adviceVars>>
  BY <1>9 DEF sourceVars, adviceVars, AdviceInv, AdviceIsEarned
<1> QED
  BY <1>1, <1>2, <1>3, <1>4, <1>5, <1>6, <1>7, <1>8, <1>9 DEF AdviceNext

(***************************************************************************)
(* "Any failure to get a complete answer is an error": advice is given     *)
(* only on three whole answers, the receipt says what the exit code says,  *)
(* and the next step asks for test work when needs_test_work does.         *)
(***************************************************************************)
THEOREM AdviceEarned == AdviceSpec => []AdviceIsEarned
<1>1. AdviceInv => AdviceIsEarned
  BY DEF AdviceInv
<1>2. AdviceInv /\ [AdviceNext]_<<sourceVars, adviceVars>> => AdviceInv'
  BY AdviceStep
<1> QED
  BY <1>1, <1>2, AdviceInitInv, PTL DEF AdviceSpec

-----------------------------------------------------------------------------
(* Induction, and folds *)

LEMMA LeastNumber ==
    ASSUME NEW T \in SUBSET Nat, T # {}
    PROVE  \E m \in T : \A k \in T : m <= k
<1>1. T \subseteq Nat
  OBVIOUS
<1>2. PICK x \in T : \A y \in T : <<y, x>> \notin OpToRel(<, Nat)
  BY <1>1, NatLessThanWellFounded, WFMin
<1>3. \A y \in T : y \in Nat /\ ~ (y < x)
  BY <1>2 DEF OpToRel
<1> QED
  BY <1>3

LEMMA NumberInduction ==
    ASSUME NEW T \in SUBSET Nat, 0 \in T, \A n \in T : n + 1 \in T
    PROVE  T = Nat
<1> DEFINE U == Nat \ T
<1>1. SUFFICES ASSUME U # {} PROVE FALSE
  OBVIOUS
<1>2. PICK m \in U : \A k \in U : m <= k
  <2>1. U \in SUBSET Nat
    OBVIOUS
  <2> HIDE DEF U
  <2> QED
    BY <1>1, <2>1, LeastNumber
<1>3. m # 0 /\ m - 1 \in Nat /\ m - 1 \notin U
  BY <1>2
<1> QED
  BY <1>2, <1>3

LEMMA LastOf ==
    ASSUME NEW k \in Nat, NEW T \in SUBSET (1 .. k), k \in T
    PROVE  Max(T) = k
<1>1. k \in T /\ \A y \in T : k >= y
  OBVIOUS
<1>2. \A x \in T : (\A y \in T : x >= y) => x = k
  OBVIOUS
<1> QED
  BY <1>1, <1>2 DEF Max

LEMMA GreatestOf ==
    ASSUME NEW N \in Nat, NEW T \in SUBSET (0 .. N), T # {}
    PROVE  Max(T) \in T /\ \A x \in T : x <= Max(T)
<1> DEFINE D == {N - x : x \in T}
<1>1. D \in SUBSET Nat /\ D # {}
  <2>1. \A x \in T : N - x \in Nat
    OBVIOUS
  <2>2. PICK x \in T : TRUE
    OBVIOUS
  <2>3. N - x \in D
    OBVIOUS
  <2> QED
    BY <2>1, <2>3
<1>2. PICK m \in D : \A k \in D : m <= k
  BY <1>1, LeastNumber
<1>3. PICK y \in T : m = N - y
  BY <1>2
<1>4. \A x \in T : y >= x
  <2> TAKE x \in T
  <2>1. m <= N - x
    BY <1>2
  <2> QED
    BY <1>3, <2>1
<1>5. Max(T) \in T /\ \A x \in T : Max(T) >= x
  BY <1>4 DEF Max
<1> QED
  BY <1>5

LEMMA LastIsIn ==
    ASSUME NEW N \in Nat, NEW T \in SUBSET (1 .. N), T # {}
    PROVE  Max(T) \in T
<1>1. T \in SUBSET (0 .. N)
  OBVIOUS
<1> QED
  BY <1>1, GreatestOf

(***************************************************************************)
(* A fold from left to right, as FoldLeft defines it over the sets of      *)
(* positions, exists: `step' takes a value and a position.                 *)
(***************************************************************************)
FoldsOver(g, n, V, base, step) ==
    /\ g \in [SUBSET (1 .. n) -> V]
    /\ g[{}] = base
    /\ \A T \in SUBSET (1 .. n) : T # {} => g[T] = step[<<g[T \ {Max(T)}], Max(T)>>]

LEMMA FoldExists ==
    ASSUME NEW N \in Nat, NEW V, NEW base \in V, NEW step \in [V \X (1 .. N) -> V]
    PROVE  \E g : FoldsOver(g, N, V, base, step)
<1> DEFINE P(n) == \E g : FoldsOver(g, n, V, base, step)
           Good == {n \in Nat : n <= N => P(n)}
<1>1. 0 \in Good
  <2> DEFINE g == [T \in {{}} |-> base]
  <2>1. SUBSET (1 .. 0) = {{}} /\ \A T \in SUBSET (1 .. 0) : T = {}
    OBVIOUS
  <2>2. FoldsOver(g, 0, V, base, step)
    BY <2>1 DEF FoldsOver
  <2> QED
    BY <2>2
<1>2. ASSUME NEW n \in Good PROVE n + 1 \in Good
  <2> SUFFICES ASSUME n + 1 <= N PROVE P(n + 1)
    OBVIOUS
  <2>1. PICK g : FoldsOver(g, n, V, base, step)
    OBVIOUS
  <2>2. n \in Nat /\ n + 1 \in 1 .. N
    OBVIOUS
  <2>3. (1 .. n + 1) \ {n + 1} = 1 .. n /\ 1 .. n \subseteq 1 .. n + 1
    BY <2>2
  <2> DEFINE h == [T \in SUBSET (1 .. n + 1) |->
                     IF n + 1 \in T THEN step[<<g[T \ {n + 1}], n + 1>>] ELSE g[T]]
  <2>4. ASSUME NEW T \in SUBSET (1 .. n + 1), n + 1 \in T
        PROVE  /\ Max(T) = n + 1
               /\ T \ {n + 1} \in SUBSET (1 .. n)
               /\ h[T] = step[<<h[T \ {n + 1}], n + 1>>]
               /\ h[T] \in V
    <3>1. Max(T) = n + 1
      BY <2>2, <2>4, LastOf
    <3>2. T \ {n + 1} \in SUBSET (1 .. n) /\ T \ {n + 1} \in SUBSET (1 .. n + 1)
      BY <2>3
    <3>3. g[T \ {n + 1}] \in V /\ h[T \ {n + 1}] = g[T \ {n + 1}]
      BY <2>1, <3>2 DEF FoldsOver
    <3> QED
      BY <2>2, <2>4, <3>1, <3>2, <3>3
  <2>5. ASSUME NEW T \in SUBSET (1 .. n + 1), n + 1 \notin T
        PROVE  /\ h[T] \in V
               /\ T # {} => h[T] = step[<<h[T \ {Max(T)}], Max(T)>>]
               /\ T = {} => h[T] = base
    <3>1. T \in SUBSET (1 .. n) /\ h[T] = g[T]
      BY <2>3, <2>5
    <3>2. /\ T \ {Max(T)} \in SUBSET (1 .. n)
          /\ T \ {Max(T)} \in SUBSET (1 .. n + 1)
          /\ n + 1 \notin T \ {Max(T)}
      BY <2>3, <2>5, <3>1
    <3>3. h[T \ {Max(T)}] = g[T \ {Max(T)}]
      BY <3>2
    <3> QED
      BY <2>1, <3>1, <3>3 DEF FoldsOver
  <2>6. h \in [SUBSET (1 .. n + 1) -> V]
    BY <2>4, <2>5
  <2>7. h[{}] = base
    BY <2>5
  <2>8. FoldsOver(h, n + 1, V, base, step)
    <3> HIDE DEF h
    <3>1. \A T \in SUBSET (1 .. n + 1) :
             T # {} => h[T] = step[<<h[T \ {Max(T)}], Max(T)>>]
      <4> TAKE T \in SUBSET (1 .. n + 1)
      <4>1. CASE n + 1 \in T
        BY <2>4, <4>1
      <4>2. CASE n + 1 \notin T
        BY <2>5, <4>2
      <4> QED
        BY <4>1, <4>2
    <3> QED
      BY <2>6, <2>7, <3>1 DEF FoldsOver
  <2> QED
    BY <2>8
<1>3. Good \in SUBSET Nat
  OBVIOUS
<1> HIDE DEF Good
<1>4. Good = Nat
  BY <1>1, <1>2, <1>3, NumberInduction
<1> QED
  BY <1>4 DEF Good

(***************************************************************************)
(* What a fold has after k positions.                                      *)
(***************************************************************************)
FoldsAlong(P, N, V, base, step) ==
    /\ P \in [0 .. N -> V]
    /\ P[0] = base
    /\ \A k \in 1 .. N : P[k] = step[<<P[k - 1], k>>]

LEMMA FoldPrefix ==
    ASSUME NEW N \in Nat, NEW V, NEW base \in V, NEW step \in [V \X (1 .. N) -> V],
           NEW g, g[{}] = base,
           \A T \in SUBSET (1 .. N) : T # {} /\ g[T \ {Max(T)}] \in V
              => g[T] = step[<<g[T \ {Max(T)}], Max(T)>>]
    PROVE  FoldsAlong([k \in 0 .. N |-> g[1 .. k]], N, V, base, step)
<1> DEFINE P == [k \in 0 .. N |-> g[1 .. k]]
           Good == {k \in Nat : k <= N => P[k] \in V}
<1>1. P[0] = base
  <2>1. 1 .. 0 = {} /\ 0 \in 0 .. N
    OBVIOUS
  <2> QED
    BY <2>1
<1>2. ASSUME NEW k \in 1 .. N, P[k - 1] \in V
      PROVE  P[k] = step[<<P[k - 1], k>>] /\ P[k] \in V
  <2>1. /\ k - 1 \in 0 .. N /\ k \in 0 .. N /\ k \in Nat
        /\ 1 .. k \in SUBSET (1 .. N) /\ 1 .. k # {}
        /\ (1 .. k) \ {k} = 1 .. k - 1
    OBVIOUS
  <2>2. Max(1 .. k) = k
    BY <2>1, LastOf
  <2>3. P[k] = g[1 .. k] /\ P[k - 1] = g[1 .. k - 1]
    BY <2>1
  <2>4. g[(1 .. k) \ {Max(1 .. k)}] \in V
    BY <1>2, <2>1, <2>2, <2>3
  <2>5. g[1 .. k] = step[<<g[(1 .. k) \ {Max(1 .. k)}], Max(1 .. k)>>]
    BY <2>1, <2>4
  <2>6. P[k] = step[<<P[k - 1], k>>]
    BY <2>1, <2>2, <2>3, <2>5
  <2> HIDE DEF P
  <2>7. step[<<P[k - 1], k>>] \in V
    BY <1>2
  <2> QED
    BY <2>6, <2>7
<1> HIDE DEF P
<1>3. 0 \in Good
  BY <1>1
<1>4. ASSUME NEW n \in Good PROVE n + 1 \in Good
  <2> SUFFICES ASSUME n + 1 <= N PROVE P[n + 1] \in V
    OBVIOUS
  <2>1. n + 1 \in 1 .. N /\ (n + 1) - 1 = n /\ P[n] \in V
    OBVIOUS
  <2> QED
    BY <1>2, <2>1
<1>5. Good \in SUBSET Nat
  OBVIOUS
<1>6. Good = Nat
  <2> HIDE DEF Good
  <2> QED
    BY <1>3, <1>4, <1>5, NumberInduction
<1>7. \A k \in 0 .. N : P[k] \in V
  BY <1>6
<1>8. \A k \in 1 .. N : P[k] = step[<<P[k - 1], k>>]
  BY <1>2, <1>7
<1>9. P = [k \in 0 .. N |-> P[k]]
  BY DEF P
<1>10. FoldsAlong(P, N, V, base, step)
  BY <1>1, <1>7, <1>8, <1>9 DEF FoldsAlong
<1> QED
  BY <1>10 DEF P

-----------------------------------------------------------------------------
(* Sums *)

\* The sums of the first 0, 1 .. N numbers of s.
Totals(P, N, s) ==
    /\ P \in [0 .. N -> Int]
    /\ P[0] = 0
    /\ \A k \in 1 .. N : P[k] = P[k - 1] + s[k]

LEMMA SumUnfolds ==
    ASSUME NEW N \in Nat, NEW s \in [1 .. N -> Int]
    PROVE  \E P : Totals(P, N, s) /\ SumOf(s) = P[N]
<1> DEFINE step == [x \in Int \X (1 .. N) |-> x[1] + s[x[2]]]
           Rec(g) == [T \in SUBSET (1 .. N) |->
                        IF T = {} THEN 0 ELSE g[T \ {Max(T)}] + s[Max(T)]]
           g == CHOOSE h : h = Rec(h)
<1>1. DOMAIN s = 1 .. N
  OBVIOUS
<1>2. SumOf(s) = g[1 .. N]
  <2>1. SumOf(s) = (CHOOSE h : h = [T \in SUBSET DOMAIN s |->
                      IF T = {} THEN 0 ELSE h[T \ {Max(T)}] + s[Max(T)]])[DOMAIN s]
    BY DEF SumOf, FoldLeft, MapThenFoldSet
  <2> QED
    BY <1>1, <2>1
<1>3. step \in [Int \X (1 .. N) -> Int] /\ 0 \in Int
  OBVIOUS
<1>4. \A T \in SUBSET (1 .. N) : T # {} => Max(T) \in 1 .. N
  BY LastIsIn
<1>5. \A v \in Int, k \in 1 .. N : step[<<v, k>>] = v + s[k]
  OBVIOUS
<1> HIDE DEF step
<1>6. \E h : h = Rec(h)
  <2>1. PICK h : FoldsOver(h, N, Int, 0, step)
    BY <1>3, FoldExists
  <2>2. ASSUME NEW T \in SUBSET (1 .. N)
        PROVE  h[T] = IF T = {} THEN 0 ELSE h[T \ {Max(T)}] + s[Max(T)]
    <3>1. CASE T = {}
      BY <2>1, <3>1 DEF FoldsOver
    <3>2. CASE T # {}
      <4>1. h[T] = step[<<h[T \ {Max(T)}], Max(T)>>]
        BY <2>1, <3>2 DEF FoldsOver
      <4>2. h[T \ {Max(T)}] \in Int
        BY <2>1 DEF FoldsOver
      <4> QED
        BY <1>4, <1>5, <3>2, <4>1, <4>2
    <3> QED
      BY <3>1, <3>2
  <2>3. h = [T \in SUBSET (1 .. N) |-> h[T]]
    BY <2>1 DEF FoldsOver
  <2> QED
    BY <2>2, <2>3
<1>7. g = Rec(g)
  BY <1>6
<1> HIDE DEF g
<1>8. g[{}] = 0
  BY <1>7
<1>9. ASSUME NEW T \in SUBSET (1 .. N), T # {}, g[T \ {Max(T)}] \in Int
      PROVE  g[T] = step[<<g[T \ {Max(T)}], Max(T)>>]
  <2>1. g[T] = g[T \ {Max(T)}] + s[Max(T)]
    BY <1>7, <1>9
  <2> QED
    BY <1>4, <1>5, <1>9, <2>1
<1> DEFINE P == [k \in 0 .. N |-> g[1 .. k]]
<1>10. FoldsAlong(P, N, Int, 0, step)
  <2> DEFINE V == Int
             zero == 0
  <2>1. \A T \in SUBSET (1 .. N) : T # {} /\ g[T \ {Max(T)}] \in V
           => g[T] = step[<<g[T \ {Max(T)}], Max(T)>>]
    BY <1>9
  <2>2. step \in [V \X (1 .. N) -> V] /\ zero \in V /\ g[{}] = zero
    BY <1>3, <1>8
  <2> HIDE DEF V, zero
  <2>3. FoldsAlong(P, N, V, zero, step)
    BY <2>1, <2>2, FoldPrefix
  <2> QED
    BY <2>3 DEF V, zero
<1>11. P[N] = g[1 .. N]
  OBVIOUS
<1> HIDE DEF P
<1>12. Totals(P, N, s)
  <2>1. \A k \in 1 .. N : P[k] = P[k - 1] + s[k]
    <3> TAKE k \in 1 .. N
    <3>1. P[k - 1] \in Int /\ P[k] = step[<<P[k - 1], k>>]
      BY <1>10 DEF FoldsAlong
    <3> QED
      BY <1>5, <3>1
  <2> QED
    BY <1>10, <2>1 DEF FoldsAlong, Totals
<1> QED
  BY <1>2, <1>11, <1>12

LEMMA SumType ==
    ASSUME NEW N \in Nat, NEW s \in [1 .. N -> Int]
    PROVE  SumOf(s) \in Int
<1>1. PICK P : Totals(P, N, s) /\ SumOf(s) = P[N]
  BY SumUnfolds
<1> QED
  BY <1>1 DEF Totals

LEMMA SumZero ==
    ASSUME NEW N \in Nat, NEW s \in [1 .. N -> {0}]
    PROVE  SumOf(s) = 0
<1>1. PICK P : Totals(P, N, s) /\ SumOf(s) = P[N]
  BY SumUnfolds
<1> DEFINE Good == {k \in Nat : k <= N => P[k] = 0}
<1>2. 0 \in Good
  BY <1>1 DEF Totals
<1>3. ASSUME NEW k \in Good PROVE k + 1 \in Good
  <2> SUFFICES ASSUME k + 1 <= N PROVE P[k + 1] = 0
    OBVIOUS
  <2>1. k + 1 \in 1 .. N /\ (k + 1) - 1 = k /\ P[k] = 0
    OBVIOUS
  <2>2. P[k + 1] = P[k] + s[k + 1]
    BY <1>1, <2>1 DEF Totals
  <2> QED
    BY <2>1, <2>2
<1>4. Good \in SUBSET Nat
  OBVIOUS
<1>5. Good = Nat
  <2> HIDE DEF Good
  <2> QED
    BY <1>2, <1>3, <1>4, NumberInduction
<1>6. N \in Good
  BY <1>5
<1> QED
  BY <1>1, <1>6

(***************************************************************************)
(* A sum changes by what one of its members changes.                       *)
(***************************************************************************)
LEMMA SumPut ==
    ASSUME NEW N \in Nat, NEW s \in [1 .. N -> Int], NEW t \in [1 .. N -> Int],
           NEW i \in 1 .. N, \A j \in 1 .. N : j # i => t[j] = s[j]
    PROVE  SumOf(t) = SumOf(s) - s[i] + t[i]
<1>1. PICK P : Totals(P, N, s) /\ SumOf(s) = P[N]
  BY SumUnfolds
<1>2. PICK Q : Totals(Q, N, t) /\ SumOf(t) = Q[N]
  BY SumUnfolds
<1> DEFINE d == t[i] - s[i]
           Good == {k \in Nat : k <= N => Q[k] = P[k] + (IF k < i THEN 0 ELSE d)}
<1>3. 0 \in Good
  BY <1>1, <1>2 DEF Totals
<1>4. ASSUME NEW k \in Good PROVE k + 1 \in Good
  <2> SUFFICES ASSUME k + 1 <= N
               PROVE  Q[k + 1] = P[k + 1] + (IF k + 1 < i THEN 0 ELSE d)
    OBVIOUS
  <2>1. k \in Nat /\ k + 1 \in 1 .. N /\ k \in 0 .. N /\ (k + 1) - 1 = k
        /\ Q[k] = P[k] + (IF k < i THEN 0 ELSE d)
    OBVIOUS
  <2>2. P[k + 1] = P[k] + s[k + 1] /\ Q[k + 1] = Q[k] + t[k + 1]
        /\ P[k] \in Int /\ s[k + 1] \in Int /\ t[k + 1] \in Int
    BY <1>1, <1>2, <2>1 DEF Totals
  <2>3. CASE k + 1 = i
    <3>1. s[k + 1] = s[i] /\ t[k + 1] = t[i] /\ k < i /\ ~(k + 1 < i)
      BY <2>1, <2>3
    <3>2. Q[k] = P[k]
      BY <2>1, <2>2, <3>1
    <3>3. Q[k + 1] = P[k + 1] + (t[k + 1] - s[k + 1])
      BY <2>2, <3>2
    <3> QED
      BY <3>1, <3>3
  <2>4. CASE k + 1 # i
    <3>1. t[k + 1] = s[k + 1] /\ (k < i <=> k + 1 < i) /\ d \in Int
      BY <2>1, <2>4
    <3> QED
      BY <2>1, <2>2, <3>1
  <2> QED
    BY <2>3, <2>4
<1>5. Good \in SUBSET Nat
  OBVIOUS
<1>6. Good = Nat
  <2> HIDE DEF Good
  <2> QED
    BY <1>3, <1>4, <1>5, NumberInduction
<1>7. N \in Good
  BY <1>6
<1>8. P[N] \in Int /\ s[i] \in Int /\ t[i] \in Int
  BY <1>1 DEF Totals
<1> QED
  BY <1>1, <1>2, <1>7, <1>8

-----------------------------------------------------------------------------
(* The order of the turns *)

\* `turn' is the inverse of BudgetOrder, which is sorted.
Turns(turn, N, lens) ==
    /\ turn \in [1 .. N -> 1 .. N]
    /\ \A n \in 1 .. N : /\ BudgetOrder(lens)[n] \in 1 .. N
                         /\ turn[BudgetOrder(lens)[n]] = n
    /\ \A i \in 1 .. N : BudgetOrder(lens)[turn[i]] = i
    /\ \A n, i \in 1 .. N : n <= turn[i] => lens[BudgetOrder(lens)[n]] <= lens[i]

(***************************************************************************)
(* Every text has one turn, every turn one text, and the short ones come   *)
(* first.                                                                  *)
(***************************************************************************)
LEMMA OrderTurns ==
    ASSUME NEW N \in Nat, NEW lens \in [1 .. N -> Nat]
    PROVE  \E turn : Turns(turn, N, lens)
<1> DEFINE B(i) == {j \in 1 .. N : Before(lens, j, i)}
           turn == [i \in 1 .. N |-> Cardinality(B(i)) + 1]
           o == BudgetOrder(lens)
<1>1. IsFiniteSet(1 .. N) /\ Cardinality(1 .. N) = N
  BY FS_Interval
<1>2. \A i, j \in 1 .. N : i = j \/ Before(lens, i, j) \/ Before(lens, j, i)
  BY DEF Before
<1>3. \A i, j, k \in 1 .. N :
        Before(lens, i, j) /\ Before(lens, j, k) => Before(lens, i, k)
  BY DEF Before
<1>4. \A i \in 1 .. N : ~Before(lens, i, i)
  BY DEF Before
<1>5. ASSUME NEW i \in 1 .. N
      PROVE  /\ IsFiniteSet(B(i)) /\ Cardinality(B(i)) \in Nat
             /\ Cardinality(B(i)) < N
  <2>1. B(i) \in SUBSET (1 .. N) /\ i \notin B(i)
    BY <1>4
  <2> HIDE DEF B
  <2>2. IsFiniteSet(B(i)) /\ Cardinality(B(i)) <= N /\ Cardinality(B(i)) # N
    BY <1>1, <2>1, FS_Subset
  <2>3. Cardinality(B(i)) \in Nat
    BY <2>2, FS_CardinalityType
  <2> QED
    BY <2>2, <2>3
<1>6. ASSUME NEW i \in 1 .. N, NEW j \in 1 .. N, Before(lens, i, j)
      PROVE  Cardinality(B(i)) < Cardinality(B(j))
  <2>1. B(i) \in SUBSET B(j) /\ i \in B(j) /\ i \notin B(i)
    BY <1>3, <1>4, <1>6
  <2>2. IsFiniteSet(B(j)) /\ Cardinality(B(i)) \in Nat /\ Cardinality(B(j)) \in Nat
    BY <1>5
  <2> HIDE DEF B
  <2>3. Cardinality(B(i)) <= Cardinality(B(j)) /\ Cardinality(B(i)) # Cardinality(B(j))
    BY <2>1, <2>2, FS_Subset
  <2> QED
    BY <2>2, <2>3
<1>7. /\ turn \in [1 .. N -> 1 .. N]
      /\ \A i \in 1 .. N : turn[i] = Cardinality(B(i)) + 1
  <2>1. \A i \in 1 .. N : Cardinality(B(i)) + 1 \in 1 .. N
    <3> TAKE i \in 1 .. N
    <3>1. Cardinality(B(i)) \in Nat /\ Cardinality(B(i)) < N
      BY <1>5
    <3> HIDE DEF B
    <3> QED
      BY <3>1
  <2> HIDE DEF B
  <2> QED
    BY <2>1
<1>8. \A i, j \in 1 .. N : Before(lens, i, j) => turn[i] < turn[j]
  <2> TAKE i, j \in 1 .. N
  <2> HAVE Before(lens, i, j)
  <2>1. Cardinality(B(i)) < Cardinality(B(j))
    BY <1>6
  <2>2. Cardinality(B(i)) \in Nat /\ Cardinality(B(j)) \in Nat
    BY <1>5
  <2>3. turn[i] = Cardinality(B(i)) + 1 /\ turn[j] = Cardinality(B(j)) + 1
    BY <1>7
  <2> HIDE DEF B, turn
  <2> QED
    BY <2>1, <2>2, <2>3
<1>9. \A n \in 1 .. N :
        o[n] = CHOOSE i \in 1 .. N : Cardinality(B(i)) = n - 1
  BY DEF BudgetOrder
<1> HIDE DEF turn, o
<1>10. \A i, j \in 1 .. N : turn[i] = turn[j] => i = j
  <2> TAKE i, j \in 1 .. N
  <2>1. turn[i] \in 1 .. N /\ turn[j] \in 1 .. N
    BY <1>7
  <2> QED
    BY <1>2, <1>8, <2>1
<1>11. \A n \in 1 .. N : \E i \in 1 .. N : turn[i] = n
  <2>1. turn \in Injection(1 .. N, 1 .. N)
    BY <1>7, <1>10 DEF Injection, IsInjective
  <2>2. turn \in Surjection(1 .. N, 1 .. N)
    BY <1>1, <2>1, FS_Injection
  <2> QED
    BY <2>2 DEF Surjection
<1>12. \A n \in 1 .. N : o[n] \in 1 .. N /\ turn[o[n]] = n
  <2> TAKE n \in 1 .. N
  <2>1. PICK i \in 1 .. N : turn[i] = n
    BY <1>11
  <2>2. Cardinality(B(i)) = n - 1
    <3>1. Cardinality(B(i)) \in Nat /\ turn[i] = Cardinality(B(i)) + 1
      BY <1>5, <1>7
    <3> HIDE DEF B
    <3> QED
      BY <2>1, <3>1
  <2>3. o[n] \in 1 .. N /\ Cardinality(B(o[n])) = n - 1
    <3> HIDE DEF B
    <3> QED
      BY <1>9, <2>2
  <2>4. turn[o[n]] = Cardinality(B(o[n])) + 1
    BY <1>7, <2>3
  <2> HIDE DEF B
  <2> QED
    BY <2>3, <2>4
<1> HIDE DEF B
<1>13. \A i \in 1 .. N : o[turn[i]] = i
  BY <1>7, <1>10, <1>12
<1>14. \A n, i \in 1 .. N : n <= turn[i] => lens[o[n]] <= lens[i]
  <2> TAKE n, i \in 1 .. N
  <2> HAVE n <= turn[i]
  <2>1. o[n] \in 1 .. N /\ turn[o[n]] = n /\ turn[i] \in 1 .. N
    BY <1>7, <1>12
  <2>2. ~Before(lens, i, o[n])
    BY <1>8, <2>1
  <2>3. o[n] = i \/ Before(lens, o[n], i)
    BY <1>2, <2>1, <2>2
  <2> QED
    BY <2>1, <2>3 DEF Before
<1> QED
  BY <1>7, <1>12, <1>13, <1>14 DEF Turns, o

-----------------------------------------------------------------------------
(* The turns of fitBudget *)

\* The state of fitBudget's loop, and its states after 0, 1 .. N turns.
Fits(N) == [remaining : Int, fitted : [1 .. N -> Int]]

Rounds(R, N, lens, invalid) ==
    /\ R \in [0 .. N -> Fits(N)]
    /\ R[0] = [remaining |-> Budget, fitted |-> lens]
    /\ \A k \in 1 .. N : R[k] = FitText(lens, invalid, R[k - 1], k)

LEMMA CutType ==
    ASSUME NEW length \in Nat, NEW share \in Int, NEW l \in Int
    PROVE  Cut(length, share, l) \in Int
BY AdviceAssumption DEF Cut

LEMMA FitTextType ==
    ASSUME NEW N \in Nat, NEW lens \in [1 .. N -> Nat], NEW invalid \in [1 .. N -> Nat],
           NEW r \in Fits(N), NEW k \in 1 .. N
    PROVE  FitText(lens, invalid, r, k) \in Fits(N)
<1>1. PICK turn : Turns(turn, N, lens)
  BY OrderTurns
<1> DEFINE i == BudgetOrder(lens)[k]
           share == r.remaining \div (Len(lens) - k + 1)
           length == Cut(lens[i], share, invalid[i])
<1>2. i \in 1 .. N
  BY <1>1 DEF Turns
<1>3. Len(lens) = N
  OBVIOUS
<1>4. r.remaining \in Int /\ r.fitted \in [1 .. N -> Int]
  BY DEF Fits
<1>5. share \in Int
  <2>1. N - k + 1 \in Nat \ {0}
    OBVIOUS
  <2> QED
    BY <1>3, <1>4, <2>1
<1> HIDE DEF share, i
<1>6. length \in Int
  <2>1. lens[i] \in Nat /\ invalid[i] \in Int
    BY <1>2
  <2> QED
    BY <1>5, <2>1, CutType
<1> HIDE DEF length
<1>7. r.remaining - length \in Int
  BY <1>4, <1>6
<1>8. [r.fitted EXCEPT ![i] = length] \in [1 .. N -> Int]
  BY <1>4, <1>6
<1>9. FitText(lens, invalid, r, k) =
        [remaining |-> r.remaining - length, fitted |-> [r.fitted EXCEPT ![i] = length]]
  BY DEF FitText, length, share, i
<1> QED
  BY <1>7, <1>8, <1>9 DEF Fits

LEMMA BudgetUnfolds ==
    ASSUME NEW N \in Nat, NEW lens \in [1 .. N -> Nat], NEW invalid \in [1 .. N -> Nat],
           ~(SumOf(lens) <= Budget)
    PROVE  \E R : Rounds(R, N, lens, invalid) /\ FitBudget(lens, invalid) = R[N].fitted
<1> DEFINE V == Fits(N)
           base == [remaining |-> Budget, fitted |-> lens]
           step == [x \in V \X (1 .. N) |-> FitText(lens, invalid, x[1], x[2])]
           Rec(g) == [T \in SUBSET (1 .. N) |->
                        IF T = {} THEN base
                        ELSE FitText(lens, invalid, g[T \ {Max(T)}], Max(T))]
           g == CHOOSE h : h = Rec(h)
<1>1. DOMAIN lens = 1 .. N
  OBVIOUS
<1>2. FitBudget(lens, invalid) = g[1 .. N].fitted
  <2> DEFINE id == [i \in DOMAIN lens |-> i]
  <2>1. DOMAIN id = 1 .. N /\ \A i \in 1 .. N : id[i] = i
    BY <1>1
  <2> DEFINE Raw(h) == [T \in SUBSET DOMAIN id |->
                          IF T = {} THEN base
                          ELSE FitText(lens, invalid, h[T \ {Max(T)}], id[Max(T)])]
  <2>2. FitBudget(lens, invalid) = (CHOOSE h : h = Raw(h))[DOMAIN id].fitted
    BY DEF FitBudget, FoldLeftDomain, FoldLeft, MapThenFoldSet
  <2>3. ASSUME NEW h PROVE Raw(h) = Rec(h)
    <3>1. \A T \in SUBSET (1 .. N) : T # {} => id[Max(T)] = Max(T)
      BY <2>1, LastIsIn
    <3> HIDE DEF id, base
    <3> QED
      BY <2>1, <3>1
  <2> HIDE DEF Raw, Rec, id
  <2>4. (CHOOSE h : h = Raw(h)) = (CHOOSE h : h = Rec(h))
    BY <2>3
  <2> QED
    BY <2>1, <2>2, <2>4
<1>3. step \in [V \X (1 .. N) -> V]
  <2>1. \A x \in V \X (1 .. N) : FitText(lens, invalid, x[1], x[2]) \in V
    BY FitTextType
  <2> HIDE DEF V
  <2> QED
    BY <2>1
<1>4. base \in V
  BY AdviceAssumption DEF Fits
<1>5. \A T \in SUBSET (1 .. N) : T # {} => Max(T) \in 1 .. N
  BY LastIsIn
<1>6. \A v \in V, k \in 1 .. N : step[<<v, k>>] = FitText(lens, invalid, v, k)
  <2> HIDE DEF V
  <2> QED
    OBVIOUS
<1> HIDE DEF step, V, base
<1>7. \E h : h = Rec(h)
  <2>1. PICK h : FoldsOver(h, N, V, base, step)
    BY <1>3, <1>4, FoldExists
  <2>2. ASSUME NEW T \in SUBSET (1 .. N)
        PROVE  h[T] = IF T = {} THEN base
                      ELSE FitText(lens, invalid, h[T \ {Max(T)}], Max(T))
    <3>1. CASE T = {}
      BY <2>1, <3>1 DEF FoldsOver
    <3>2. CASE T # {}
      <4>1. h[T] = step[<<h[T \ {Max(T)}], Max(T)>>]
        BY <2>1, <3>2 DEF FoldsOver
      <4>2. h[T \ {Max(T)}] \in V
        BY <2>1 DEF FoldsOver
      <4> QED
        BY <1>5, <1>6, <3>2, <4>1, <4>2
    <3> QED
      BY <3>1, <3>2
  <2>3. h = [T \in SUBSET (1 .. N) |-> h[T]]
    BY <2>1 DEF FoldsOver
  <2> QED
    BY <2>2, <2>3
<1>8. g = Rec(g)
  BY <1>7
<1> HIDE DEF g
<1>9. g[{}] = base
  BY <1>8
<1>10. ASSUME NEW T \in SUBSET (1 .. N), T # {}, g[T \ {Max(T)}] \in V
       PROVE  g[T] = step[<<g[T \ {Max(T)}], Max(T)>>]
  <2>1. g[T] = FitText(lens, invalid, g[T \ {Max(T)}], Max(T))
    BY <1>8, <1>10
  <2> QED
    BY <1>5, <1>6, <1>10, <2>1
<1> DEFINE R == [k \in 0 .. N |-> g[1 .. k]]
<1>11. FoldsAlong(R, N, V, base, step)
  <2>1. \A T \in SUBSET (1 .. N) : T # {} /\ g[T \ {Max(T)}] \in V
           => g[T] = step[<<g[T \ {Max(T)}], Max(T)>>]
    BY <1>10
  <2> QED
    BY <1>3, <1>4, <1>9, <2>1, FoldPrefix
<1>12. R[N] = g[1 .. N]
  OBVIOUS
<1> HIDE DEF R
<1>13. \A k \in 1 .. N : R[k] = FitText(lens, invalid, R[k - 1], k)
  <2> TAKE k \in 1 .. N
  <2>1. R[k - 1] \in V /\ R[k] = step[<<R[k - 1], k>>]
    BY <1>11 DEF FoldsAlong
  <2> QED
    BY <1>6, <2>1
<1>14. Rounds(R, N, lens, invalid)
  BY <1>11, <1>13 DEF FoldsAlong, Rounds, V, base
<1> QED
  BY <1>2, <1>12, <1>14

-----------------------------------------------------------------------------
(* What a turn does to the budget *)

LEMMA ShareFacts ==
    ASSUME NEW m \in Nat \ {0}, NEW R \in Nat
    PROVE  /\ R \div m \in Nat
           /\ m * (R \div m) <= R
           /\ R < m * (R \div m) + m
OBVIOUS

(***************************************************************************)
(* A text that gets a share is whole, dropped, or cut to the share but for *)
(* what it loses.                                                          *)
(***************************************************************************)
LEMMA CutFacts ==
    ASSUME NEW length \in Nat, NEW share \in Nat, NEW l \in Nat
    PROVE  LET c == Cut(length, share, l)
           IN  /\ c \in Nat /\ c <= share /\ c <= length
               /\ \/ c = length
                  \/ c = 0 /\ share < length /\ share < MarkerLength
                  \/ share < length /\ MarkerLength <= c /\ share <= c + l /\ c < length
BY AdviceAssumption DEF Cut

(***************************************************************************)
(* What remains after a turn, for m texts that had s, or more, each.       *)
(***************************************************************************)
LEMMA Remaining ==
    ASSUME NEW m \in Nat \ {0}, NEW R \in Nat, NEW c \in Nat, c <= R \div m
    PROVE  /\ R - c \in Nat
           /\ \A s \in Nat : m * s <= R => (m - 1) * s <= R - c
<1> DEFINE q == R \div m
<1>1. q \in Nat /\ m * q <= R /\ R < m * q + m
  BY ShareFacts
<1> HIDE DEF q
<1>2. c <= q
  BY DEF q
<1>3. m * q = (m - 1) * q + q /\ (m - 1) * q \in Nat
  BY <1>1
<1>4. R - c >= (m - 1) * q
  <2> DEFINE x == (m - 1) * q
             y == m * q
  <2>1. y = x + q /\ x \in Nat /\ y <= R
    BY <1>1, <1>3
  <2> HIDE DEF x, y
  <2>2. R - c >= x
    BY <1>1, <1>2, <2>1
  <2> QED
    BY <2>2 DEF x
<1>5. ASSUME NEW s \in Nat, m * s <= R PROVE (m - 1) * s <= R - c
  <2>1. s <= q
    <3>1. SUFFICES ASSUME s >= q + 1 PROVE FALSE
      BY <1>1
    <3>2. m * s >= m * (q + 1)
      BY <1>1, <3>1
    <3>3. m * (q + 1) = m * q + m
      BY <1>1
    <3> DEFINE x == m * s
               y == m * q
               z == m * (q + 1)
    <3>4. x \in Int /\ y \in Int /\ z \in Int
      BY <1>1
    <3>5. x >= z /\ z = y + m /\ x <= R /\ R < y + m
      BY <1>1, <1>5, <3>2, <3>3
    <3> HIDE DEF x, y, z
    <3> QED
      BY <3>4, <3>5
  <2>2. (m - 1) * s <= (m - 1) * q
    BY <1>1, <2>1
  <2> DEFINE x == (m - 1) * q
             y == (m - 1) * s
  <2>3. x \in Int /\ y \in Int /\ y <= x /\ x <= R - c
    BY <1>1, <1>4, <2>2
  <2> HIDE DEF x, y
  <2>4. y <= R - c
    BY <2>3
  <2> QED
    BY <2>4 DEF y
<1>6. R - c \in Nat
  <2> DEFINE x == (m - 1) * q
  <2>1. x \in Nat /\ R - c >= x
    BY <1>3, <1>4
  <2> HIDE DEF x
  <2> QED
    BY <2>1
<1> QED
  BY <1>5, <1>6

(***************************************************************************)
(* After a cut, what remains is no more than what the cut text lost and    *)
(* what the texts that are left, none of them shorter, have.               *)
(***************************************************************************)
LEMMA AfterCut ==
    ASSUME NEW m \in Nat \ {0}, NEW R \in Nat, NEW c \in Nat, NEW l \in Nat,
           NEW length \in Nat, R \div m < length, R \div m <= c + l
    PROVE  R - c <= (m - 1) * length + l
<1> DEFINE q == R \div m
           x == (m - 1) * q
           y == (m - 1) * length
<1>1. q \in Nat /\ m * q <= R /\ R < m * q + m /\ q + 1 <= length /\ q <= c + l
  BY ShareFacts
<1> HIDE DEF q
<1>2. m * q = x + q /\ (m - 1) * (q + 1) = x + (m - 1) /\ x \in Nat /\ y \in Nat
  BY <1>1
<1>3. (m - 1) * (q + 1) <= y
  BY <1>1
<1> DEFINE z == m * q
<1>4. z = x + q /\ R < z + m /\ x + (m - 1) <= y
  BY <1>1, <1>2, <1>3
<1> HIDE DEF x, y, z
<1>5. R - c <= y + l
  BY <1>1, <1>2, <1>4
<1> QED
  BY <1>5 DEF y

LEMMA AfterWhole ==
    ASSUME NEW m \in Nat \ {0}, NEW R \in Nat, NEW c \in Nat, NEW l \in Nat,
           NEW length \in Nat, length <= c, R <= m * length + l
    PROVE  R - c <= (m - 1) * length + l
<1>1. m * length = (m - 1) * length + length /\ (m - 1) * length \in Nat
  OBVIOUS
<1> DEFINE x == (m - 1) * length
           y == m * length
<1>2. y = x + length /\ x \in Nat /\ R <= y + l
  BY <1>1
<1> HIDE DEF x, y
<1>3. R - c <= x + l
  BY <1>2
<1> QED
  BY <1>3 DEF x

-----------------------------------------------------------------------------
(* The budget after k turns *)

Done(turn, N, k) == {i \in 1 .. N : turn[i] <= k}

\* The lengths of the texts in D.
Counted(f, D, N) == [i \in 1 .. N |-> IF i \in D THEN f[i] ELSE 0]

(***************************************************************************)
(* The lengths so far and what remains are the budget, and what remains is *)
(* an equal share for each of the texts that are left.                     *)
(***************************************************************************)
Balanced(r, turn, N, lens, k) ==
    /\ r.remaining \in Nat /\ r.fitted \in [1 .. N -> Nat]
    /\ SumOf(Counted(r.fitted, Done(turn, N, k), N)) + r.remaining = Budget
    /\ (N - k) * (Budget \div N) <= r.remaining

(***************************************************************************)
(* Each text that had its turn is whole, dropped or cut to a fair share;   *)
(* the others are as they were.                                            *)
(***************************************************************************)
Fair(r, turn, N, lens, invalid, k) ==
    \A i \in 1 .. N :
      \/ r.fitted[i] = lens[i]
      \/ /\ turn[i] <= k
         /\ \/ r.fitted[i] = 0 /\ Budget \div N < MarkerLength
            \/ /\ r.fitted[i] < lens[i] /\ MarkerLength <= r.fitted[i]
               /\ Budget \div N <= r.fitted[i] + invalid[i]

(***************************************************************************)
(* Nothing was cut so far, or a text was dropped, or there is a cut text   *)
(* such that what remains is no more than what it lost and what the texts  *)
(* that are left would have if they were as long.                          *)
(***************************************************************************)
Spent(r, turn, N, lens, invalid, k) ==
    \/ \A i \in 1 .. N : r.fitted[i] = lens[i]
    \/ \E i \in 1 .. N : turn[i] <= k /\ r.fitted[i] = 0
    \/ \E i \in 1 .. N : /\ turn[i] <= k /\ r.fitted[i] < lens[i]
                        /\ r.remaining <= (N - k) * lens[i] + invalid[i]

Fitted(r, turn, N, lens, invalid, k) ==
    /\ Balanced(r, turn, N, lens, k)
    /\ \A i \in 1 .. N : turn[i] > k => r.fitted[i] = lens[i]
    /\ Fair(r, turn, N, lens, invalid, k)
    /\ Spent(r, turn, N, lens, invalid, k)

LEMMA FittedFirst ==
    ASSUME NEW N \in Nat \ {0}, NEW lens \in [1 .. N -> Nat],
           NEW invalid, NEW turn, Turns(turn, N, lens)
    PROVE  Fitted([remaining |-> Budget, fitted |-> lens], turn, N, lens, invalid, 0)
<1> DEFINE r == [remaining |-> Budget, fitted |-> lens]
<1>1. \A i \in 1 .. N : turn[i] > 0 /\ ~(turn[i] <= 0)
  BY DEF Turns
<1>2. SumOf(Counted(r.fitted, Done(turn, N, 0), N)) = 0
  <2>1. Counted(r.fitted, Done(turn, N, 0), N) = [i \in 1 .. N |-> 0]
    BY <1>1 DEF Counted, Done
  <2>2. [i \in 1 .. N |-> 0] \in [1 .. N -> {0}]
    OBVIOUS
  <2> QED
    BY <2>1, <2>2, SumZero
<1>3. (N - 0) * (Budget \div N) <= Budget
  <2> DEFINE d == Budget \div N
  <2>1. N * d <= Budget
    BY AdviceAssumption, ShareFacts
  <2> HIDE DEF d
  <2>2. N - 0 = N
    OBVIOUS
  <2> QED
    BY <2>1, <2>2 DEF d
<1>4. Budget \in Nat
  BY AdviceAssumption
<1>5. r.remaining = Budget /\ r.fitted = lens
  OBVIOUS
<1> HIDE DEF r
<1>6. Balanced(r, turn, N, lens, 0)
  BY <1>2, <1>3, <1>4, <1>5 DEF Balanced
<1> QED
  BY <1>5, <1>6 DEF Fitted, Fair, Spent, r

LEMMA CountedType ==
    ASSUME NEW N \in Nat, NEW D, NEW f \in [1 .. N -> Nat]
    PROVE  /\ Counted(f, D, N) \in [1 .. N -> Int]
           /\ SumOf(Counted(f, D, N)) \in Int
<1>1. Counted(f, D, N) \in [1 .. N -> Int]
  BY DEF Counted
<1> QED
  BY <1>1, SumType

LEMMA CountedNext ==
    ASSUME NEW N \in Nat, NEW D, NEW i \in (1 .. N) \ D,
           NEW f \in [1 .. N -> Nat], NEW g \in [1 .. N -> Nat],
           \A j \in 1 .. N : j # i => g[j] = f[j]
    PROVE  SumOf(Counted(g, D \cup {i}, N)) = SumOf(Counted(f, D, N)) + g[i]
<1> DEFINE u == Counted(f, D, N)
           v == Counted(g, D \cup {i}, N)
<1>1. u \in [1 .. N -> Int] /\ v \in [1 .. N -> Int] /\ SumOf(u) \in Int
  BY CountedType
<1>2. u[i] = 0 /\ v[i] = g[i] /\ g[i] \in Nat
  BY DEF Counted
<1>3. \A j \in 1 .. N : j # i => v[j] = u[j]
  BY DEF Counted
<1> HIDE DEF u, v
<1>4. SumOf(v) = SumOf(u) - u[i] + v[i]
  BY <1>1, <1>3, SumPut
<1>5. SumOf(v) = SumOf(u) + g[i]
  BY <1>1, <1>2, <1>4
<1> QED
  BY <1>5 DEF u, v

\* Named, so that a step has these types only where it needs them.
Given(N, lens, invalid) == lens \in [1 .. N -> Nat] /\ invalid \in [1 .. N -> Nat]

(***************************************************************************)
(* One turn.                                                               *)
(***************************************************************************)
LEMMA FittedNext ==
    ASSUME NEW N \in Nat, N # 0, NEW lens, NEW invalid,
           Given(N, lens, invalid), NEW turn, Turns(turn, N, lens), NEW k \in 1 .. N, NEW r \in Fits(N),
           Fitted(r, turn, N, lens, invalid, k - 1)
    PROVE  Fitted(FitText(lens, invalid, r, k), turn, N, lens, invalid, k)
<1> DEFINE after == FitText(lens, invalid, r, k)
           turned == BudgetOrder(lens)[k]
           m == N - k + 1
           share == r.remaining \div m
           c == Cut(lens[turned], share, invalid[turned])
           d == Budget \div N
<1>1. /\ turned \in 1 .. N /\ turn[turned] = k
      /\ \A j \in 1 .. N : turn[j] \in 1 .. N
      /\ \A j \in 1 .. N : turn[j] = k => j = turned
      /\ \A j \in 1 .. N : k <= turn[j] => lens[turned] <= lens[j]
  BY DEF Turns
<1>2. m \in Nat \ {0} /\ m = N - (k - 1) /\ m - 1 = N - k /\ k - 1 \in Nat
      /\ (k - 1) + 1 = k
  OBVIOUS
<1>3. r.remaining \in Nat /\ r.fitted \in [1 .. N -> Nat]
  BY DEF Fitted, Balanced
<1>4. after.remaining = r.remaining - c /\ after.fitted = [r.fitted EXCEPT ![turned] = c]
  <2>1. Len(lens) = N
    BY DEF Given
  <2> QED
    BY <2>1 DEF FitText
<1>5. lens[turned] \in Nat /\ invalid[turned] \in Nat
  BY <1>1 DEF Given
<1>6. share \in Nat
  BY <1>2, <1>3, ShareFacts
<1>7. /\ c \in Nat /\ c <= share /\ c <= lens[turned]
      /\ \/ c = lens[turned]
         \/ c = 0 /\ share < lens[turned] /\ share < MarkerLength
         \/ /\ share < lens[turned] /\ MarkerLength <= c
            /\ share <= c + invalid[turned] /\ c < lens[turned]
  BY <1>5, <1>6, CutFacts
<1>8. d \in Nat
  BY AdviceAssumption, ShareFacts
<1>9. (m - 1) * d <= after.remaining /\ after.remaining \in Nat /\ d <= share
  <2>1. m * d <= r.remaining
    BY <1>2 DEF Fitted, Balanced
  <2>2. r.remaining - c \in Nat /\ (m - 1) * d <= r.remaining - c
    <3>1. \A s \in Nat : m * s <= r.remaining => (m - 1) * s <= r.remaining - c
      BY <1>2, <1>3, <1>7, Remaining
    <3>2. r.remaining - c \in Nat
      BY <1>2, <1>3, <1>7, Remaining
    <3> HIDE DEF d, c, m
    <3> QED
      BY <1>8, <2>1, <3>1, <3>2
  <2>3. d <= share
    <3>1. (m - 1) * d <= r.remaining - share
      <4>1. share <= r.remaining \div m
        BY <1>6
      <4> HIDE DEF share, d, m
      <4>2. \A s \in Nat : m * s <= r.remaining => (m - 1) * s <= r.remaining - share
        BY <1>2, <1>3, <1>6, <4>1, Remaining
      <4> QED
        BY <1>8, <2>1, <4>2
    <3>2. r.remaining < m * share + m
      BY <1>2, <1>3, ShareFacts
    <3> HIDE DEF share, d, m
    <3>3. SUFFICES ASSUME share + 1 <= d PROVE FALSE
      BY <1>6, <1>8
    <3>4. m * (share + 1) <= m * d /\ m * (share + 1) = m * share + m
      BY <1>2, <1>6, <1>8, <3>3
    <3> DEFINE x == m * share
               y == m * d
               z == m * (share + 1)
    <3>5. x \in Int /\ y \in Int /\ z \in Int
      BY <1>2, <1>6, <1>8
    <3>6. z <= y /\ z = x + m /\ y <= r.remaining /\ r.remaining < x + m
      BY <2>1, <3>2, <3>4
    <3> HIDE DEF x, y, z
    <3> QED
      BY <1>2, <1>3, <3>5, <3>6
  <2> QED
    BY <1>4, <2>2, <2>3
<1> HIDE DEF after, turned, d, c
<1>10. after.fitted \in [1 .. N -> Nat] /\ after.fitted[turned] = c
       /\ \A j \in 1 .. N : j # turned => after.fitted[j] = r.fitted[j]
  BY <1>1, <1>3, <1>4, <1>7
<1>11. r.fitted[turned] = lens[turned]
  BY <1>1 DEF Fitted
<1>12. SumOf(Counted(after.fitted, Done(turn, N, k), N)) + after.remaining = Budget
  <2> DEFINE D == Done(turn, N, k - 1)
  <2>1. turned \notin D /\ Done(turn, N, k) = D \cup {turned}
    <3>1. \A j \in 1 .. N : turn[j] <= k <=> turn[j] <= k - 1 \/ j = turned
      BY <1>1
    <3>2. ~(turn[turned] <= k - 1)
      BY <1>1
    <3> QED
      BY <1>1, <3>1, <3>2 DEF Done
  <2>2. SumOf(Counted(r.fitted, D, N)) + r.remaining = Budget
    BY DEF Fitted, Balanced
  <2> HIDE DEF m, share, D
  <2>3. SumOf(Counted(after.fitted, D \cup {turned}, N)) =
          SumOf(Counted(r.fitted, D, N)) + c
    <3>1. turned \in (1 .. N) \ D
      BY <1>1, <2>1
    <3>2. \A j \in 1 .. N : j # turned => after.fitted[j] = r.fitted[j]
      BY <1>10
    <3>3. r.fitted \in [1 .. N -> Nat] /\ after.fitted \in [1 .. N -> Nat]
      BY <1>3, <1>10
    <3>4. after.fitted[turned] = c
      BY <1>10
    <3> DEFINE f == r.fitted
               g == after.fitted
    <3>5. /\ f \in [1 .. N -> Nat] /\ g \in [1 .. N -> Nat]
          /\ \A j \in 1 .. N : j # turned => g[j] = f[j]
      BY <3>2, <3>3
    <3> HIDE DEF f, g
    <3>6. SumOf(Counted(g, D \cup {turned}, N)) =
            SumOf(Counted(f, D, N)) + g[turned]
      BY <3>1, <3>5, CountedNext
    <3> QED
      BY <3>4, <3>6 DEF f, g
  <2>4. SumOf(Counted(r.fitted, D, N)) \in Int
    BY <1>3, CountedType
  <2> QED
    BY <1>3, <1>4, <1>7, <2>1, <2>2, <2>3, <2>4
<1>13. Balanced(after, turn, N, lens, k)
  <2>1. (N - k) * d <= after.remaining
    BY <1>2, <1>9
  <2> QED
    BY <1>9, <1>10, <1>12, <2>1 DEF Balanced, d
<1>14. \A j \in 1 .. N : turn[j] > k => after.fitted[j] = lens[j]
  <2> TAKE j \in 1 .. N
  <2> HAVE turn[j] > k
  <2>1. turn[j] \in 1 .. N /\ turn[j] > k - 1 /\ j # turned
    BY <1>1
  <2>2. r.fitted[j] = lens[j]
    BY <2>1 DEF Fitted
  <2> QED
    BY <1>10, <2>1, <2>2
<1>15. Fair(after, turn, N, lens, invalid, k)
  <2> SUFFICES ASSUME NEW j \in 1 .. N
               PROVE  \/ after.fitted[j] = lens[j]
                      \/ /\ turn[j] <= k
                         /\ \/ after.fitted[j] = 0 /\ d < MarkerLength
                            \/ /\ after.fitted[j] < lens[j] /\ MarkerLength <= after.fitted[j]
                               /\ d <= after.fitted[j] + invalid[j]
    BY DEF Fair, d
  <2>1. CASE j = turned
    <3>1. /\ turn[j] <= k /\ after.fitted[j] = c /\ lens[j] = lens[turned]
          /\ invalid[j] = invalid[turned]
      BY <1>1, <1>10, <2>1
    <3>2. \/ c = lens[turned]
          \/ c = 0 /\ d < MarkerLength
          \/ c < lens[turned] /\ MarkerLength <= c /\ d <= c + invalid[turned]
      <4> HIDE DEF share, c
      <4> QED
        BY <1>5, <1>6, <1>7, <1>8, <1>9, AdviceAssumption
    <3> QED
      BY <3>1, <3>2
  <2>2. CASE j # turned
    <3>1. after.fitted[j] = r.fitted[j]
      BY <1>10, <2>2
    <3>2. turn[j] \in 1 .. N /\ (turn[j] <= k - 1 => turn[j] <= k)
      BY <1>1
    <3> QED
      BY <3>1, <3>2 DEF Fitted, Fair, d
  <2> QED
    BY <2>1, <2>2
<1>16. Spent(after, turn, N, lens, invalid, k)
  <2>1. CASE c = 0 /\ c # lens[turned]
    BY <1>1, <1>10, <2>1 DEF Spent
  <2>2. CASE \E j \in 1 .. N : turn[j] <= k - 1 /\ r.fitted[j] = 0
    <3>1. PICK j \in 1 .. N : turn[j] <= k - 1 /\ r.fitted[j] = 0
      BY <2>2
    <3>2. turn[j] \in 1 .. N /\ j # turned
      BY <1>1, <3>1
    <3>3. turn[j] <= k
      BY <3>1, <3>2
    <3>4. after.fitted[j] = 0
      BY <1>10, <3>1, <3>2
    <3> QED
      BY <3>3, <3>4 DEF Spent
  <2>3. CASE c # 0 /\ c # lens[turned]
    <3>1. share < lens[turned] /\ share <= c + invalid[turned] /\ c < lens[turned]
      BY <1>7, <2>3
    <3>2. r.remaining - c <= (m - 1) * lens[turned] + invalid[turned]
      BY <1>2, <1>3, <1>5, <1>7, <3>1, AfterCut
    <3>3. after.remaining <= (N - k) * lens[turned] + invalid[turned]
      BY <1>2, <1>4, <3>2
    <3>4. turn[turned] <= k /\ after.fitted[turned] < lens[turned]
      BY <1>1, <1>10, <3>1
    <3> QED
      BY <1>1, <3>3, <3>4 DEF Spent
  <2>4. CASE c = lens[turned] /\ \A j \in 1 .. N : r.fitted[j] = lens[j]
    <3>1. \A j \in 1 .. N : after.fitted[j] = lens[j]
      BY <1>10, <2>4
    <3> QED
      BY <3>1 DEF Spent
  <2>5. CASE /\ c = lens[turned]
             /\ \E j \in 1 .. N :
                  /\ turn[j] <= k - 1 /\ r.fitted[j] < lens[j]
                  /\ r.remaining <= (N - (k - 1)) * lens[j] + invalid[j]
    <3>1. PICK j \in 1 .. N :
                  /\ turn[j] <= k - 1 /\ r.fitted[j] < lens[j]
                  /\ r.remaining <= (N - (k - 1)) * lens[j] + invalid[j]
      BY <2>5
    <3>2. turn[j] \in 1 .. N /\ turn[j] <= k /\ j # turned
      BY <1>1, <3>1
    <3>3. after.fitted[j] < lens[j]
      BY <1>10, <3>1, <3>2
    <3>4. lens[j] \in Nat /\ invalid[j] \in Nat
      BY DEF Given
    <3>5. lens[j] <= c
      <4>1. turn[j] <= turn[turned] /\ BudgetOrder(lens)[turn[j]] = j
        BY <1>1, <3>2 DEF Turns
      <4>2. lens[BudgetOrder(lens)[turn[j]]] <= lens[turned]
        BY <1>1, <3>2, <4>1 DEF Turns
      <4> QED
        BY <2>5, <4>1, <4>2
    <3>6. r.remaining <= m * lens[j] + invalid[j]
      BY <1>2, <3>1
    <3>7. r.remaining - c <= (m - 1) * lens[j] + invalid[j]
      BY <1>2, <1>3, <1>7, <3>4, <3>5, <3>6, AfterWhole
    <3>8. after.remaining <= (N - k) * lens[j] + invalid[j]
      BY <1>2, <1>4, <3>7
    <3> QED
      BY <3>2, <3>3, <3>8 DEF Spent
  <2>6. Spent(r, turn, N, lens, invalid, k - 1)
    BY DEF Fitted
  <2> HIDE DEF after, turned, share, c
  <2> QED
    BY <2>1, <2>2, <2>3, <2>4, <2>5, <2>6 DEF Spent
<1> QED
  BY <1>13, <1>14, <1>15, <1>16 DEF Fitted, after

(***************************************************************************)
(* fitBudget, for any texts, budget and marker.                            *)
(***************************************************************************)
Shared(lens, fit, invalid, N) ==
    LET fair == Budget \div N
        dropped == {i \in 1 .. N : fit[i] = 0}
    IN /\ fit \in [1 .. N -> Nat]
       /\ SumOf(fit) <= Budget
       /\ \A i \in 1 .. N :
            \/ fit[i] = lens[i]
            \/ i \in dropped /\ fair < MarkerLength
            \/ fit[i] < lens[i] /\ fit[i] >= MarkerLength /\ fit[i] + invalid[i] >= fair
       /\ dropped = {} /\ fit # lens =>
            \E i \in 1 .. N : fit[i] < lens[i] /\ SumOf(fit) + invalid[i] >= Budget

LEMMA BudgetFits ==
    ASSUME NEW N \in Nat, NEW lens \in [1 .. N -> Nat], NEW invalid \in [1 .. N -> Nat]
    PROVE  Shared(lens, FitBudget(lens, invalid), invalid, N)
<1>1. CASE SumOf(lens) <= Budget
  <2>1. FitBudget(lens, invalid) = lens
    BY <1>1 DEF FitBudget
  <2> QED
    BY <1>1, <2>1 DEF Shared
<1>2. CASE ~(SumOf(lens) <= Budget)
  <2>1. N # 0
    <3> SUFFICES ASSUME N = 0 PROVE FALSE
      OBVIOUS
    <3>1. 1 .. N = {}
      OBVIOUS
    <3>2. lens \in [1 .. N -> {0}]
      BY <3>1
    <3>3. SumOf(lens) = 0
      BY <3>2, SumZero
    <3> QED
      BY <1>2, <3>3, AdviceAssumption
  <2>2. PICK R : Rounds(R, N, lens, invalid) /\ FitBudget(lens, invalid) = R[N].fitted
    BY <1>2, BudgetUnfolds
  <2>3. PICK turn : Turns(turn, N, lens)
    BY OrderTurns
  <2> DEFINE Good == {k \in Nat : k <= N => Fitted(R[k], turn, N, lens, invalid, k)}
  <2>4. 0 \in Good
    <3>1. R[0] = [remaining |-> Budget, fitted |-> lens]
      BY <2>2 DEF Rounds
    <3>2. Fitted(R[0], turn, N, lens, invalid, 0)
      BY <2>1, <2>3, <3>1, FittedFirst
    <3> QED
      BY <3>2
  <2>5. ASSUME NEW k \in Good PROVE k + 1 \in Good
    <3> SUFFICES ASSUME k + 1 <= N
                 PROVE  Fitted(R[k + 1], turn, N, lens, invalid, k + 1)
      OBVIOUS
    <3> DEFINE n == k + 1
    <3>1. n \in 1 .. N /\ n - 1 = k /\ k \in 0 .. N /\ Fitted(R[k], turn, N, lens, invalid, k)
      OBVIOUS
    <3>2. R[n] = FitText(lens, invalid, R[k], n) /\ R[k] \in Fits(N)
      BY <2>2, <3>1 DEF Rounds
    <3> HIDE DEF n
    <3>3. Fitted(R[k], turn, N, lens, invalid, n - 1)
      BY <3>1
    <3>4. Fitted(FitText(lens, invalid, R[k], n), turn, N, lens, invalid, n)
      BY <2>1, <2>3, <3>1, <3>2, <3>3, FittedNext DEF Given
    <3>5. Fitted(R[n], turn, N, lens, invalid, n)
      BY <3>2, <3>4
    <3> QED
      BY <3>5 DEF n
  <2>6. Good \in SUBSET Nat
    OBVIOUS
  <2>7. Good = Nat
    <3> HIDE DEF Good
    <3> QED
      BY <2>4, <2>5, <2>6, NumberInduction
  <2>8. Fitted(R[N], turn, N, lens, invalid, N)
    BY <2>7
  <2> DEFINE fit == R[N].fitted
             left == R[N].remaining
  <2>9. fit \in [1 .. N -> Nat] /\ left \in Nat /\ SumOf(fit) + left = Budget
    <3>1. /\ fit \in [1 .. N -> Nat] /\ left \in Nat
          /\ SumOf(Counted(R[N].fitted, Done(turn, N, N), N)) + left = Budget
      BY <2>8 DEF Fitted, Balanced
    <3>2. \A i \in 1 .. N : turn[i] <= N
      BY <2>3 DEF Turns
    <3>3. Counted(R[N].fitted, Done(turn, N, N), N) = fit
      BY <3>1, <3>2 DEF Counted, Done
    <3> QED
      BY <3>1, <3>3
  <2>10. SumOf(fit) \in Int
    BY <2>9, SumType
  <2>11. Fair(R[N], turn, N, lens, invalid, N) /\ Spent(R[N], turn, N, lens, invalid, N)
    BY <2>8 DEF Fitted
  <2>12. \A i \in 1 .. N :
           \/ fit[i] = lens[i]
           \/ fit[i] = 0 /\ Budget \div N < MarkerLength
           \/ /\ fit[i] < lens[i] /\ MarkerLength <= fit[i]
              /\ Budget \div N <= fit[i] + invalid[i]
    BY <2>11 DEF Fair
  <2>13. (\A i \in 1 .. N : fit[i] # 0) /\ fit # lens =>
           \E i \in 1 .. N : fit[i] < lens[i] /\ left <= invalid[i]
    <3> HAVE (\A i \in 1 .. N : fit[i] # 0) /\ fit # lens
    <3>1. ~ \A i \in 1 .. N : fit[i] = lens[i]
      BY <2>9
    <3>2. PICK i \in 1 .. N : fit[i] < lens[i] /\ left <= (N - N) * lens[i] + invalid[i]
      BY <2>11, <3>1 DEF Spent
    <3>3. (N - N) * lens[i] = 0 /\ invalid[i] \in Nat
      OBVIOUS
    <3> QED
      BY <3>2, <3>3
  <2> HIDE DEF fit, left
  <2>14. Shared(lens, fit, invalid, N)
    <3>1. Budget \div N \in Nat
      BY <2>1, AdviceAssumption, ShareFacts
    <3>2. SumOf(fit) <= Budget
      BY <2>9, <2>10
    <3> DEFINE fair == Budget \div N
    <3>3. fair \in Nat
      BY <3>1
    <3>4. \A i \in 1 .. N :
            \/ fit[i] = lens[i]
            \/ fit[i] = 0 /\ fair < MarkerLength
            \/ fit[i] < lens[i] /\ fit[i] >= MarkerLength /\ fit[i] + invalid[i] >= fair
      <4>1. \A i \in 1 .. N :
              \/ fit[i] = lens[i]
              \/ fit[i] = 0 /\ fair < MarkerLength
              \/ /\ fit[i] < lens[i] /\ MarkerLength <= fit[i]
                 /\ fair <= fit[i] + invalid[i]
        BY <2>12
      <4> HIDE DEF fair
      <4> QED
        BY <2>9, <3>3, <4>1, AdviceAssumption
    <3>5. (\A i \in 1 .. N : fit[i] # 0) /\ fit # lens =>
            \E i \in 1 .. N : fit[i] < lens[i] /\ SumOf(fit) + invalid[i] >= Budget
      <4> HAVE (\A i \in 1 .. N : fit[i] # 0) /\ fit # lens
      <4>1. PICK i \in 1 .. N : fit[i] < lens[i] /\ left <= invalid[i]
        BY <2>13
      <4>2. SumOf(fit) + invalid[i] >= Budget
        BY <2>9, <2>10, <4>1
      <4> QED
        BY <4>1, <4>2
    <3> QED
      BY <2>9, <3>2, <3>4, <3>5 DEF Shared
  <2> QED
    BY <2>2, <2>14 DEF fit
<1> QED
  BY <1>1, <1>2


-----------------------------------------------------------------------------
(* The budget *)

(***************************************************************************)
(* The files that Render takes are numbered; and the budget is shared.     *)
(***************************************************************************)
BudgetInv ==
    /\ Collecting => SourceInv
    /\ at = "recorded" => \E n \in Nat : DOMAIN input.files = 1 .. n
    /\ BudgetIsShared

LEMMA RecordInputBudget ==
    ASSUME BudgetInv, RecordInput
    PROVE  (at = "recorded" => \E n \in Nat : DOMAIN input.files = 1 .. n)'
<1>1. SourceInv
  BY DEF BudgetInv, RecordInput, Collecting
<1>2. input \in [files : Seq(Nat \X Nat), head : Nat, incomplete : BOOLEAN]
  BY <1>1 DEF SourceInv, SourceTyped
<1>3. PICK n \in Nat : DOMAIN input.files = 1 .. n
  <2>1. input.files \in Seq(Nat \X Nat)
    BY <1>2
  <2>2. Len(input.files) \in Nat /\ DOMAIN input.files = 1 .. Len(input.files)
    BY <2>1
  <2> QED
    BY <2>2
<1>4. DOMAIN input'.files = DOMAIN input.files
  <2>1. input' = [input EXCEPT !.head = 1,
                               !.files = [k \in DOMAIN input.files |-> <<k, 1>>]]
    BY DEF RecordInput
  <2>2. input'.files = [k \in DOMAIN input.files |-> <<k, 1>>]
    BY <1>2, <2>1
  <2> QED
    BY <2>2
<1> QED
  BY <1>3, <1>4

LEMMA RenderBudget ==
    ASSUME BudgetInv, Render
    PROVE  BudgetIsShared'
<1>1. PICK n \in Nat : DOMAIN input.files = 1 .. n
  BY DEF BudgetInv, Render
<1>2. texts' \in [1 .. n -> TextLengths]
  BY <1>1 DEF Render
<1>3. texts' \in [1 .. n -> Nat]
  BY <1>2, AdviceAssumption
<1>4. lost' \in [1 .. n -> Nat] /\ sent' = FitBudget(texts', lost')
  BY <1>1, AdviceAssumption DEF Render
<1>5. Shared(texts', sent', lost', n)
  BY <1>3, <1>4, BudgetFits
<1>6. sent' \in [1 .. n -> Nat]
  BY <1>5 DEF Shared
<1>7. DOMAIN texts' = 1 .. n /\ Len(texts') = n /\ DOMAIN sent' = 1 .. n /\ Len(sent') = n
  BY <1>3, <1>6
<1>8. complete' => sent' = texts' /\ NoPatch \notin {texts'[i] : i \in DOMAIN texts'}
  <2> HAVE complete'
  <2>1. SumOf(texts') <= Budget /\ \A i \in DOMAIN texts' : texts'[i] # NoPatch
    BY DEF Render
  <2> QED
    BY <1>4, <2>1 DEF FitBudget
<1> QED
  BY <1>5, <1>7, <1>8 DEF BudgetIsShared, Shared

LEMMA BudgetStep ==
    ASSUME BudgetInv, [AdviceNext]_<<sourceVars, adviceVars>>
    PROVE  BudgetInv'
<1>1. (Collecting => SourceInv)'
  BY SourceStep DEF BudgetInv
<1>2. CASE SourceNext
  <2>1. at' \notin {"recorded", "rendered"}
    BY <1>2 DEF SourceNext, ReadHead, ReadPage, ReadCompare, ReadTree, ReadDiff,
       ReadOthers, CallFails, ChangeMoves, Reading
  <2> QED
    BY <1>1, <2>1 DEF BudgetInv, BudgetIsShared
<1>3. CASE BadCompare \/ SourceFailed \/ NoKey \/ Ask \/ Advise
  <2>1. at' \notin {"recorded", "rendered"}
    BY <1>3 DEF BadCompare, SourceFailed, NoKey, Ask, Advise, End
  <2> QED
    BY <1>1, <2>1 DEF BudgetInv, BudgetIsShared
<1>4. CASE RecordInput
  <2>1. at' # "rendered"
    BY <1>4 DEF RecordInput
  <2> QED
    BY <1>1, <1>4, <2>1, RecordInputBudget DEF BudgetInv, BudgetIsShared
<1>5. CASE Render
  <2>1. at' # "recorded"
    BY <1>5 DEF Render
  <2> QED
    BY <1>1, <1>5, <2>1, RenderBudget DEF BudgetInv
<1>6. CASE UNCHANGED <<sourceVars, adviceVars>>
  BY <1>1, <1>6 DEF sourceVars, adviceVars, BudgetInv, BudgetIsShared
<1> QED
  BY <1>2, <1>3, <1>4, <1>5, <1>6 DEF AdviceNext

(***************************************************************************)
(* "so one huge file cannot hide the others": what is sent fits the        *)
(* budget, every text keeps an equal share of it or all it has, less its   *)
(* own invalid bytes, none is dropped unless the marker does not fit a     *)
(* share, and no more is wasted than one text lost, for any number of      *)
(* texts, any lengths, any invalid bytes and any budget.                   *)
(***************************************************************************)
THEOREM BudgetShared == AdviceSpec => []BudgetIsShared
<1>1. SourceInit /\ AdviceInit => BudgetInv
  <2> SUFFICES ASSUME SourceInit, AdviceInit PROVE BudgetInv
    OBVIOUS
  <2>1. at \notin {"recorded", "rendered"}
    BY DEF SourceInit
  <2> QED
    BY <2>1, SourceInitInv DEF BudgetInv, BudgetIsShared
<1>2. BudgetInv /\ [AdviceNext]_<<sourceVars, adviceVars>> => BudgetInv'
  BY BudgetStep
<1>3. BudgetInv => BudgetIsShared
  BY DEF BudgetInv
<1> QED
  BY <1>1, <1>2, <1>3, PTL DEF AdviceSpec

-----------------------------------------------------------------------------
(* Induction over a sequence *)

\* What the empty sequence has and Append keeps, every sequence has.
LEMMA SeqInduction ==
    ASSUME NEW S, NEW T \in SUBSET Seq(S), <<>> \in T,
           \A s \in T : \A e \in S : Append(s, e) \in T
    PROVE  T = Seq(S)
<1> DEFINE Good == {n \in Nat : \A s \in Seq(S) : Len(s) = n => s \in T}
<1>1. 0 \in Good
  <2>1. \A s \in Seq(S) : Len(s) = 0 => s = <<>>
    BY EmptySeq
  <2> QED
    BY <2>1
<1>2. ASSUME NEW n \in Good PROVE n + 1 \in Good
  <2> SUFFICES ASSUME NEW s \in Seq(S), Len(s) = n + 1 PROVE s \in T
    OBVIOUS
  <2>1. s # <<>>
    BY EmptySeq
  <2>2. PICK t \in Seq(S), e \in S : s = Append(t, e)
    BY <2>1, SequenceEmptyOrAppend
  <2>3. Len(t) = n
    <3>1. Len(s) = Len(t) + 1 /\ Len(t) \in Nat
      BY <2>2, AppendProperties, LenProperties
    <3> QED
      BY <3>1
  <2> QED
    BY <2>2, <2>3
<1>3. Good \in SUBSET Nat
  OBVIOUS
<1>4. Good = Nat
  <2> HIDE DEF Good
  <2> QED
    BY <1>1, <1>2, <1>3, NumberInduction
<1>5. \A s \in Seq(S) : Len(s) \in Nat
  BY LenProperties
<1> QED
  BY <1>4, <1>5

-----------------------------------------------------------------------------
(* Flattening, one part at a time *)

\* The first 0, 1 .. N parts of s, joined.
Concats(P, N, V, s) ==
    /\ P \in [0 .. N -> Seq(V)]
    /\ P[0] = <<>>
    /\ \A k \in 1 .. N : P[k] = P[k - 1] \o s[k]

LEMMA ConcatsExist ==
    ASSUME NEW N \in Nat, NEW V, NEW s \in [1 .. N -> Seq(V)]
    PROVE  \E P : Concats(P, N, V, s)
<1> DEFINE W == Seq(V)
           base == <<>>
           step == [x \in W \X (1 .. N) |-> x[1] \o s[x[2]]]
<1>1. base \in W /\ \A v \in W, k \in 1 .. N : v \o s[k] \in W
  BY EmptySeq, ConcatProperties
<1>2. step \in [W \X (1 .. N) -> W]
  <2> HIDE DEF W
  <2> QED
    BY <1>1
<1>3. \A v \in W, k \in 1 .. N : step[<<v, k>>] = v \o s[k]
  <2> HIDE DEF W
  <2> QED
    OBVIOUS
<1> HIDE DEF W, base, step
<1>4. PICK g : FoldsOver(g, N, W, base, step)
  BY <1>1, <1>2, FoldExists
<1> DEFINE P == [k \in 0 .. N |-> g[1 .. k]]
<1>5. FoldsAlong(P, N, W, base, step)
  <2>1. /\ g[{}] = base
        /\ \A T \in SUBSET (1 .. N) : T # {} /\ g[T \ {Max(T)}] \in W
              => g[T] = step[<<g[T \ {Max(T)}], Max(T)>>]
    BY <1>4 DEF FoldsOver
  <2> QED
    BY <1>1, <1>2, <2>1, FoldPrefix
<1> HIDE DEF P
<1>6. Concats(P, N, V, s)
  <2>1. \A k \in 1 .. N : P[k] = P[k - 1] \o s[k]
    <3> TAKE k \in 1 .. N
    <3>1. k - 1 \in 0 .. N
      OBVIOUS
    <3>2. P[k - 1] \in W /\ P[k] = step[<<P[k - 1], k>>]
      BY <1>5, <3>1 DEF FoldsAlong
    <3> QED
      BY <1>3, <3>2
  <2> QED
    BY <1>5, <2>1 DEF FoldsAlong, Concats, W, base
<1> QED
  BY <1>6

LEMMA ConcatsAgree ==
    ASSUME NEW N \in Nat, NEW M \in N .. N + 1, NEW V,
           NEW s, NEW t, \A k \in 1 .. N : s[k] = t[k],
           NEW P, Concats(P, N, V, s), NEW Q, Concats(Q, M, V, t)
    PROVE  P[N] = Q[N]
<1> DEFINE Good == {k \in Nat : k <= N => P[k] = Q[k]}
<1>1. 0 \in Good
  BY DEF Concats
<1>2. ASSUME NEW k \in Good PROVE k + 1 \in Good
  <2> SUFFICES ASSUME k + 1 <= N PROVE P[k + 1] = Q[k + 1]
    OBVIOUS
  <2>1. k + 1 \in 1 .. N /\ k + 1 \in 1 .. M /\ (k + 1) - 1 = k /\ P[k] = Q[k]
    OBVIOUS
  <2>2. P[k + 1] = P[k] \o s[k + 1] /\ Q[k + 1] = Q[k] \o t[k + 1]
    BY <2>1 DEF Concats
  <2> QED
    BY <2>1, <2>2
<1>3. Good \in SUBSET Nat
  OBVIOUS
<1>4. Good = Nat
  <2> HIDE DEF Good
  <2> QED
    BY <1>1, <1>2, <1>3, NumberInduction
<1> QED
  BY <1>4

LEMMA FlattenUnfolds ==
    ASSUME NEW V, NEW s \in Seq(Seq(V)), NEW P, Concats(P, Len(s), V, s)
    PROVE  FlattenSeq(s) = P[Len(s)]
<1> DEFINE N == Len(s)
<1>1. N \in Nat /\ s \in [1 .. N -> Seq(V)]
  BY LenProperties
<1>2. CASE N = 0
  <2>1. s = <<>>
    BY <1>2, EmptySeq
  <2> QED
    BY <1>2, <2>1 DEF FlattenSeq, Concats
<1>3. CASE N # 0
  <2> DEFINE Rec(f) == [i \in 1 .. N |-> IF i = 1 THEN s[i] ELSE f[i - 1] \o s[i]]
             f == CHOOSE h : h = Rec(h)
  <2>1. FlattenSeq(s) = f[N]
    BY <1>3 DEF FlattenSeq
  <2> HIDE DEF N
  <2>2. \E h : h = Rec(h)
    <3> DEFINE h == [k \in 1 .. N |-> P[k]]
    <3>1. ASSUME NEW i \in 1 .. N
          PROVE  h[i] = IF i = 1 THEN s[i] ELSE h[i - 1] \o s[i]
      <4>1. P[i] = P[i - 1] \o s[i]
        BY DEF Concats, N
      <4>2. CASE i = 1
        <5>1. P[0] = <<>> /\ i - 1 = 0 /\ s[i] \in Seq(V)
          BY <1>1, <4>2 DEF Concats
        <5> QED
          BY <4>1, <4>2, <5>1, ConcatEmptySeq
      <4>3. CASE i # 1
        <5>1. i - 1 \in 1 .. N
          BY <1>1, <4>3
        <5> QED
          BY <4>1, <4>3, <5>1
      <4> QED
        BY <4>2, <4>3
    <3>2. h = Rec(h)
      BY <3>1
    <3> QED
      BY <3>2
  <2>3. f = Rec(f)
    BY <2>2
  <2> HIDE DEF f
  <2> DEFINE Good == {k \in Nat : k + 1 <= N => f[k + 1] = P[k + 1]}
  <2>4. 0 \in Good
    <3> SUFFICES ASSUME 0 + 1 <= N PROVE f[1] = P[1]
      OBVIOUS
    <3>1. 1 \in 1 .. N /\ 1 - 1 = 0
      BY <1>1
    <3>2. P[1] = <<>> \o s[1] /\ s[1] \in Seq(V) /\ f[1] = s[1]
      BY <1>1, <2>3, <3>1 DEF Concats, N
    <3> QED
      BY <3>2, ConcatEmptySeq
  <2>5. ASSUME NEW k \in Good PROVE k + 1 \in Good
    <3> SUFFICES ASSUME (k + 1) + 1 <= N PROVE f[(k + 1) + 1] = P[(k + 1) + 1]
      OBVIOUS
    <3> DEFINE j == (k + 1) + 1
    <3>1. j \in 1 .. N /\ j # 1 /\ j - 1 = k + 1 /\ f[k + 1] = P[k + 1]
      BY <1>1
    <3> HIDE DEF j
    <3>2. f[j] = f[j - 1] \o s[j] /\ P[j] = P[j - 1] \o s[j]
      BY <2>3, <3>1 DEF Concats, N
    <3>3. f[j] = P[j]
      BY <3>1, <3>2
    <3> QED
      BY <3>3 DEF j
  <2>6. Good \in SUBSET Nat
    OBVIOUS
  <2>7. Good = Nat
    <3> HIDE DEF Good
    <3> QED
      BY <2>4, <2>5, <2>6, NumberInduction
  <2>8. N - 1 \in Nat /\ (N - 1) + 1 = N /\ N <= N
    BY <1>1, <1>3
  <2>9. f[N] = P[N]
    BY <2>7, <2>8
  <2> QED
    BY <2>1, <2>9 DEF N
<1> QED
  BY <1>2, <1>3

LEMMA FlattenEmpty == FlattenSeq(<<>>) = <<>>
  BY DEF FlattenSeq

\* FlattenSeq of a sequence with one more part.
LEMMA FlattenAppend ==
    ASSUME NEW V, NEW s \in Seq(Seq(V)), NEW e \in Seq(V)
    PROVE  /\ FlattenSeq(s) \in Seq(V)
           /\ FlattenSeq(Append(s, e)) = FlattenSeq(s) \o e
<1> DEFINE N == Len(s)
           W == Seq(V)
           t == Append(s, e)
<1>1. N \in Nat /\ s \in [1 .. N -> W]
  BY LenProperties
<1>2. /\ t \in Seq(W) /\ Len(t) = N + 1 /\ t[N + 1] = e
      /\ \A k \in 1 .. N : s[k] = t[k]
  <2> HIDE DEF W
  <2> QED
    BY AppendProperties DEF W
<1>3. t \in [1 .. N + 1 -> W]
  BY <1>2, LenProperties
<1> HIDE DEF t, N
<1>4. PICK P : Concats(P, N, V, s)
  BY <1>1, ConcatsExist
<1>5. N + 1 \in Nat
  BY <1>1
<1>6. PICK Q : Concats(Q, N + 1, V, t)
  BY <1>3, <1>5, ConcatsExist
<1>7. P[N] = Q[N]
  <2>1. N + 1 \in N .. N + 1
    BY <1>1
  <2> DEFINE M == N + 1
  <2>2. M \in N .. N + 1 /\ Concats(Q, M, V, t)
    BY <1>6, <2>1
  <2> HIDE DEF M
  <2> QED
    BY <1>1, <1>2, <1>4, <2>2, ConcatsAgree
<1>8. FlattenSeq(s) = P[N]
  BY <1>4, FlattenUnfolds DEF N
<1>9. FlattenSeq(t) = Q[N + 1]
  BY <1>2, <1>6, FlattenUnfolds
<1>10. Q[N + 1] = Q[N] \o t[N + 1]
  <2>1. N + 1 \in 1 .. N + 1 /\ (N + 1) - 1 = N
    BY <1>1
  <2> QED
    BY <1>6, <2>1 DEF Concats
<1>11. P[N] \in Seq(V)
  BY <1>1, <1>4 DEF Concats
<1> QED
  BY <1>2, <1>7, <1>8, <1>9, <1>10, <1>11 DEF t

-----------------------------------------------------------------------------
(* The sides of a script *)

LEMMA SideEmpty == ASSUME NEW gone PROVE SideOf(<<>>, gone) = <<>>
<1> DEFINE f == [i \in {} |-> IF <<>>[i].sign = gone THEN <<>> ELSE << <<>>[i] >>]
<1>1. SideOf(<<>>, gone) = FlattenSeq(f)
  <2>1. DOMAIN <<>> = {}
    OBVIOUS
  <2> QED
    BY <2>1 DEF SideOf
<1>2. f = <<>>
  OBVIOUS
<1> HIDE DEF f
<1> QED
  BY <1>1, <1>2, FlattenEmpty

\* A side takes a line unless it is gone there.
LEMMA SideAppend ==
    ASSUME NEW L, NEW s \in Seq(L), NEW e \in L, NEW gone
    PROVE  /\ SideOf(s, gone) \in Seq(L)
           /\ SideOf(Append(s, e), gone)
                = IF e.sign = gone THEN SideOf(s, gone) ELSE Append(SideOf(s, gone), e)
<1> DEFINE W == Seq(L)
           Part(l) == IF l.sign = gone THEN <<>> ELSE <<l>>
           t == Append(s, e)
           S == [i \in DOMAIN s |-> Part(s[i])]
           T == [i \in DOMAIN t |-> Part(t[i])]
<1>1. \A l \in L : Part(l) \in W
  BY EmptySeq
<1>2. /\ t \in Seq(L) /\ Len(t) = Len(s) + 1 /\ t[Len(s) + 1] = e
      /\ \A i \in 1 .. Len(s) : t[i] = s[i]
  BY AppendProperties
<1>3. Len(s) \in Nat /\ DOMAIN s = 1 .. Len(s) /\ DOMAIN t = 1 .. Len(s) + 1
  BY <1>2, LenProperties
<1>4. \A i \in 1 .. Len(s) : s[i] \in L
  BY ElementOfSeq
<1> HIDE DEF W, t
<1>5. S \in Seq(W) /\ Len(S) = Len(s)
  <2>1. \A i \in 1 .. Len(s) : Part(s[i]) \in W
    BY <1>1, <1>4
  <2> HIDE DEF Part
  <2> QED
    BY <1>3, <2>1
<1>6. T = Append(S, Part(e))
  <2>1. \A i \in 1 .. Len(s) : T[i] = S[i]
    BY <1>2, <1>3
  <2>2. T[Len(s) + 1] = Part(e)
    BY <1>2, <1>3
  <2>3. T \in Seq(W) /\ Len(T) = Len(s) + 1
    <3>1. \A i \in 1 .. Len(s) + 1 : Part(t[i]) \in W
      <4>1. \A i \in 1 .. Len(s) + 1 : t[i] \in L
        BY <1>2, ElementOfSeq
      <4> QED
        BY <1>1, <4>1
    <3> HIDE DEF Part
    <3> QED
      BY <1>3, <3>1
  <2>4. Part(e) \in W
    BY <1>1
  <2> HIDE DEF S, T, Part
  <2>5. /\ Append(S, Part(e)) \in Seq(W) /\ Len(Append(S, Part(e))) = Len(s) + 1
        /\ \A i \in 1 .. Len(s) : Append(S, Part(e))[i] = S[i]
        /\ Append(S, Part(e))[Len(s) + 1] = Part(e)
    BY <1>5, <2>4, AppendProperties
  <2>6. \A i \in 1 .. Len(s) + 1 : T[i] = Append(S, Part(e))[i]
    BY <1>3, <2>1, <2>2, <2>5
  <2> QED
    BY <2>3, <2>5, <2>6, SeqEqual
<1>7. SideOf(s, gone) = FlattenSeq(S) /\ SideOf(t, gone) = FlattenSeq(T)
  BY DEF SideOf
<1>8. Part(e) \in W
  BY <1>1
<1> HIDE DEF S, T
<1>9. FlattenSeq(S) \in Seq(L) /\ FlattenSeq(T) = FlattenSeq(S) \o Part(e)
  BY <1>5, <1>6, <1>8, FlattenAppend DEF W
<1>10. CASE e.sign = gone
  BY <1>7, <1>9, <1>10, ConcatEmptySeq DEF t
<1>11. CASE e.sign # gone
  BY <1>7, <1>9, <1>11, AppendIsConcat DEF t
<1> QED
  BY <1>7, <1>9, <1>10, <1>11

LEMMA SideType ==
    ASSUME NEW L, NEW s \in Seq(L), NEW gone
    PROVE  SideOf(s, gone) \in Seq(L)
<1>1. CASE s = <<>>
  BY <1>1, SideEmpty, EmptySeq
<1>2. CASE s # <<>>
  <2>1. PICK t \in Seq(L), e \in L : s = Append(t, e)
    BY <1>2, SequenceEmptyOrAppend
  <2>2. SideOf(t, gone) \in Seq(L)
    BY <2>1, SideAppend
  <2>3. Append(SideOf(t, gone), e) \in Seq(L)
    BY <2>2, AppendProperties
  <2> QED
    BY <2>1, <2>2, <2>3, SideAppend
<1> QED
  BY <1>1, <1>2

LEMMA SideConcat ==
    ASSUME NEW L, NEW s \in Seq(L), NEW t \in Seq(L), NEW gone
    PROVE  SideOf(s \o t, gone) = SideOf(s, gone) \o SideOf(t, gone)
<1> DEFINE T == {u \in Seq(L) : SideOf(s \o u, gone) = SideOf(s, gone) \o SideOf(u, gone)}
<1>1. <<>> \in T
  <2>1. s \o <<>> = s /\ SideOf(s, gone) \o <<>> = SideOf(s, gone)
    BY SideType, ConcatEmptySeq
  <2> QED
    BY <2>1, SideEmpty, EmptySeq
<1>2. ASSUME NEW u \in T, NEW e \in L PROVE Append(u, e) \in T
  <2> DEFINE a == SideOf(s, gone)
             b == SideOf(u, gone)
  <2>1. u \in Seq(L) /\ SideOf(s \o u, gone) = a \o b
    OBVIOUS
  <2>2. a \in Seq(L) /\ b \in Seq(L) /\ s \o u \in Seq(L) /\ Append(u, e) \in Seq(L)
    BY <2>1, SideType, ConcatProperties, AppendProperties
  <2>3. s \o Append(u, e) = Append(s \o u, e)
    <3>1. /\ Append(u, e) = u \o <<e>> /\ Append(s \o u, e) = (s \o u) \o <<e>>
          /\ <<e>> \in Seq(L)
      BY <2>1, <2>2, AppendIsConcat
    <3> QED
      BY <2>1, <3>1, ConcatAssociative
  <2>4. SideOf(Append(s \o u, e), gone) = IF e.sign = gone THEN a \o b ELSE Append(a \o b, e)
    <3> DEFINE w == s \o u
    <3>1. w \in Seq(L) /\ SideOf(w, gone) = a \o b
      BY <2>1, <2>2
    <3> HIDE DEF w, a, b
    <3>2. w \in Seq(L)
      BY <3>1
    <3>3. SideOf(Append(w, e), gone)
            = IF e.sign = gone THEN SideOf(w, gone) ELSE Append(SideOf(w, gone), e)
      BY <3>2, SideAppend
    <3> QED
      BY <3>1, <3>3 DEF w
  <2>5. SideOf(Append(u, e), gone) = IF e.sign = gone THEN b ELSE Append(b, e)
    BY <2>1, SideAppend
  <2>6. a \o Append(b, e) = Append(a \o b, e)
    <3> HIDE DEF a, b
    <3>1. /\ Append(b, e) = b \o <<e>> /\ Append(a \o b, e) = (a \o b) \o <<e>>
          /\ <<e>> \in Seq(L)
      BY <2>2, AppendIsConcat, ConcatProperties
    <3> QED
      BY <2>2, <3>1, ConcatAssociative
  <2> QED
    BY <2>2, <2>3, <2>4, <2>5, <2>6
<1>3. T \in SUBSET Seq(L)
  OBVIOUS
<1> HIDE DEF T
<1>4. T = Seq(L)
  BY <1>1, <1>2, <1>3, SeqInduction
<1> QED
  BY <1>4 DEF T

\* The lines of a version of a file, of a script, and what a line has of both.
Texts == [text : CodeTexts \cup TestTexts, nl : BOOLEAN]
Lines == [sign : {" ", "-", "+"}, text : CodeTexts \cup TestTexts, nl : BOOLEAN]
TextOf(l) == [text |-> l.text, nl |-> l.nl]

LEMMA VersionType ==
    ASSUME NEW s \in Seq(Lines)
    PROVE  /\ Version(s) \in Seq(Texts) /\ Len(Version(s)) = Len(s)
           /\ \A i \in 1 .. Len(s) : Version(s)[i] = TextOf(s[i])
<1>1. Len(s) \in Nat /\ DOMAIN s = 1 .. Len(s)
  BY LenProperties
<1>2. \A i \in 1 .. Len(s) : TextOf(s[i]) \in Texts
  <2>1. \A l \in Lines : TextOf(l) \in Texts
    BY DEF Lines, Texts, TextOf
  <2> QED
    BY <2>1, ElementOfSeq
<1>3. Version(s) = [i \in 1 .. Len(s) |-> TextOf(s[i])]
  BY <1>1 DEF Version, TextOf
<1> QED
  BY <1>1, <1>2, <1>3

LEMMA VersionConcat ==
    ASSUME NEW s \in Seq(Lines), NEW t \in Seq(Lines)
    PROVE  Version(s \o t) = Version(s) \o Version(t)
<1> DEFINE u == s \o t
           v == Version(s) \o Version(t)
<1>1. /\ u \in Seq(Lines) /\ Len(u) = Len(s) + Len(t)
      /\ \A i \in 1 .. Len(s) + Len(t) :
           u[i] = IF i <= Len(s) THEN s[i] ELSE t[i - Len(s)]
  BY ConcatProperties
<1>2. /\ Version(u) \in Seq(Texts) /\ Len(Version(u)) = Len(s) + Len(t)
      /\ \A i \in 1 .. Len(s) + Len(t) : Version(u)[i] = TextOf(u[i])
  BY <1>1, VersionType
<1>3. /\ Version(s) \in Seq(Texts) /\ Len(Version(s)) = Len(s)
      /\ \A i \in 1 .. Len(s) : Version(s)[i] = TextOf(s[i])
      /\ Version(t) \in Seq(Texts) /\ Len(Version(t)) = Len(t)
      /\ \A i \in 1 .. Len(t) : Version(t)[i] = TextOf(t[i])
  BY VersionType
<1>4. /\ v \in Seq(Texts) /\ Len(v) = Len(s) + Len(t)
      /\ \A i \in 1 .. Len(s) + Len(t) :
           v[i] = IF i <= Len(s) THEN Version(s)[i] ELSE Version(t)[i - Len(s)]
  <2> DEFINE a == Version(s)
             b == Version(t)
  <2>1. a \in Seq(Texts) /\ b \in Seq(Texts) /\ Len(a) = Len(s) /\ Len(b) = Len(t)
    BY <1>3
  <2> HIDE DEF a, b
  <2>2. /\ a \o b \in Seq(Texts) /\ Len(a \o b) = Len(a) + Len(b)
        /\ \A i \in 1 .. Len(a) + Len(b) :
             (a \o b)[i] = IF i <= Len(a) THEN a[i] ELSE b[i - Len(a)]
    BY <2>1, ConcatProperties
  <2> QED
    BY <2>1, <2>2 DEF a, b
<1>5. Len(s) \in Nat /\ Len(t) \in Nat
  BY LenProperties
<1> HIDE DEF u, v
<1>6. \A i \in 1 .. Len(s) + Len(t) : Version(u)[i] = v[i]
  <2> TAKE i \in 1 .. Len(s) + Len(t)
  <2>1. CASE i <= Len(s)
    BY <1>1, <1>2, <1>3, <1>4, <1>5, <2>1
  <2>2. CASE ~(i <= Len(s))
    <3>1. i - Len(s) \in 1 .. Len(t)
      BY <1>5, <2>2
    <3> QED
      BY <1>1, <1>2, <1>3, <1>4, <2>2, <3>1
  <2> QED
    BY <2>1, <2>2
<1>7. Version(u) = v
  BY <1>2, <1>4, <1>6, SeqEqual
<1> QED
  BY <1>7 DEF u, v

-----------------------------------------------------------------------------
(* Taking a hunk back, and what is printed of it *)

LEMMA VersionAppend ==
    ASSUME NEW s \in Seq(Lines), NEW e \in Lines
    PROVE  Version(Append(s, e)) = Append(Version(s), TextOf(e))
<1> DEFINE t == Append(s, e)
           v == Version(s)
           w == Append(v, TextOf(e))
<1>1. /\ t \in Seq(Lines) /\ Len(t) = Len(s) + 1 /\ t[Len(s) + 1] = e
      /\ \A i \in 1 .. Len(s) : t[i] = s[i]
  BY AppendProperties
<1>2. /\ Version(t) \in Seq(Texts) /\ Len(Version(t)) = Len(s) + 1
      /\ \A i \in 1 .. Len(s) + 1 : Version(t)[i] = TextOf(t[i])
  BY <1>1, VersionType
<1>3. /\ v \in Seq(Texts) /\ Len(v) = Len(s)
      /\ \A i \in 1 .. Len(s) : v[i] = TextOf(s[i])
  BY VersionType
<1>4. TextOf(e) \in Texts
  BY DEF TextOf, Lines, Texts
<1> HIDE DEF t, v
<1>5. /\ w \in Seq(Texts) /\ Len(w) = Len(s) + 1 /\ w[Len(s) + 1] = TextOf(e)
      /\ \A i \in 1 .. Len(s) : w[i] = v[i]
  BY <1>3, <1>4, AppendProperties
<1>6. Len(s) \in Nat
  BY LenProperties
<1> HIDE DEF w
<1>7. \A i \in 1 .. Len(s) + 1 : Version(t)[i] = w[i]
  BY <1>1, <1>2, <1>3, <1>5, <1>6
<1>8. Version(t) = w
  BY <1>2, <1>5, <1>7, SeqEqual
<1> QED
  BY <1>8 DEF t, v, w

\* Taking back: what came goes, and all else stays.
ChangedLines == {l \in Lines : l.sign # " "}
Back(l) == [l EXCEPT !.sign = IF @ = "+" THEN "-" ELSE " "]
BackLines(s) == [i \in DOMAIN s |-> Back(s[i])]

LEMMA BackLine ==
    ASSUME NEW l \in Lines
    PROVE  /\ Back(l) \in Lines /\ TextOf(Back(l)) = TextOf(l)
           /\ Back(l).sign = IF l.sign = "+" THEN "-" ELSE " "
  BY DEF Back, Lines, TextOf

LEMMA BackType ==
    ASSUME NEW s \in Seq(Lines)
    PROVE  BackLines(s) \in Seq(Lines) /\ Len(BackLines(s)) = Len(s)
<1>1. \A i \in 1 .. Len(s) : Back(s[i]) \in Lines
  BY BackLine, ElementOfSeq
<1>2. Len(s) \in Nat /\ DOMAIN s = 1 .. Len(s)
  BY LenProperties
<1> QED
  BY <1>1, <1>2 DEF BackLines

LEMMA BackAppend ==
    ASSUME NEW s \in Seq(Lines), NEW e \in Lines
    PROVE  BackLines(Append(s, e)) = Append(BackLines(s), Back(e))
<1> DEFINE t == Append(s, e)
           a == BackLines(s)
           b == BackLines(t)
           c == Append(a, Back(e))
<1>1. /\ t \in Seq(Lines) /\ Len(t) = Len(s) + 1 /\ t[Len(s) + 1] = e
      /\ \A i \in 1 .. Len(s) : t[i] = s[i]
  BY AppendProperties
<1>2. /\ Len(s) \in Nat /\ DOMAIN s = 1 .. Len(s) /\ DOMAIN t = 1 .. Len(s) + 1
  BY <1>1, LenProperties
<1>3. a \in Seq(Lines) /\ Len(a) = Len(s) /\ \A i \in 1 .. Len(s) : a[i] = Back(s[i])
  BY <1>2, BackType DEF BackLines
<1> HIDE DEF t
<1>4. b \in Seq(Lines) /\ Len(b) = Len(s) + 1 /\ \A i \in 1 .. Len(s) + 1 : b[i] = Back(t[i])
  BY <1>1, <1>2, BackType DEF BackLines
<1>5. Back(e) \in Lines
  BY BackLine
<1> HIDE DEF a, b
<1>6. /\ c \in Seq(Lines) /\ Len(c) = Len(s) + 1 /\ c[Len(s) + 1] = Back(e)
      /\ \A i \in 1 .. Len(s) : c[i] = a[i]
  BY <1>3, <1>5, AppendProperties
<1> HIDE DEF c
<1>7. \A i \in 1 .. Len(s) + 1 : b[i] = c[i]
  BY <1>1, <1>2, <1>3, <1>4, <1>6
<1>8. b = c
  BY <1>4, <1>6, <1>7, SeqEqual
<1> QED
  BY <1>8 DEF a, b, c, t

\* Changed lines taken back are what they were before.
LEMMA BackSide ==
    ASSUME NEW s \in Seq(ChangedLines)
    PROVE  Version(SideOf(BackLines(s), "-")) = Version(SideOf(s, "+"))
<1> DEFINE T == {u \in Seq(ChangedLines) :
                   Version(SideOf(BackLines(u), "-")) = Version(SideOf(u, "+"))}
<1>0. ChangedLines \subseteq Lines /\ \A u \in Seq(ChangedLines) : u \in Seq(Lines)
  BY SeqMonotonic DEF ChangedLines
<1>1. <<>> \in T
  <2>1. BackLines(<<>>) = <<>>
    <3>1. Len(BackLines(<<>>)) = 0 /\ BackLines(<<>>) \in Seq(Lines)
      BY BackType, EmptySeq
    <3> QED
      BY <3>1, EmptySeq
  <2> QED
    BY <2>1, SideEmpty, EmptySeq
<1>2. ASSUME NEW u \in T, NEW e \in ChangedLines PROVE Append(u, e) \in T
  <2> DEFINE b == BackLines(u)
             x == SideOf(b, "-")
             y == SideOf(u, "+")
  <2>1. u \in Seq(ChangedLines) /\ u \in Seq(Lines) /\ e \in Lines /\ Version(x) = Version(y)
    BY <1>0
  <2>2. b \in Seq(Lines) /\ x \in Seq(Lines) /\ y \in Seq(Lines)
    BY <2>1, BackType, SideType
  <2>3. /\ Back(e) \in Lines /\ TextOf(Back(e)) = TextOf(e)
        /\ Back(e).sign = IF e.sign = "+" THEN "-" ELSE " "
    BY <2>1, BackLine
  <2>4. BackLines(Append(u, e)) = Append(b, Back(e))
    BY <2>1, BackAppend
  <2> HIDE DEF b
  <2>5. SideOf(Append(b, Back(e)), "-") = IF Back(e).sign = "-" THEN x ELSE Append(x, Back(e))
    <3> DEFINE f == Back(e)
    <3>1. f \in Lines
      BY <2>3
    <3> HIDE DEF f
    <3>2. SideOf(Append(b, f), "-")
            = IF f.sign = "-" THEN SideOf(b, "-") ELSE Append(SideOf(b, "-"), f)
      BY <2>2, <3>1, SideAppend
    <3> QED
      BY <3>2 DEF f
  <2>6. SideOf(Append(u, e), "+") = IF e.sign = "+" THEN y ELSE Append(y, e)
    BY <2>1, SideAppend
  <2> HIDE DEF x, y
  <2>7. Version(Append(x, Back(e))) = Append(Version(x), TextOf(e))
    BY <2>2, <2>3, VersionAppend
  <2>8. Version(Append(y, e)) = Append(Version(y), TextOf(e))
    BY <2>1, <2>2, VersionAppend
  <2>9. Version(SideOf(BackLines(Append(u, e)), "-")) = Version(SideOf(Append(u, e), "+"))
    BY <2>1, <2>3, <2>4, <2>5, <2>6, <2>7, <2>8
  <2>10. Append(u, e) \in Seq(ChangedLines)
    BY <2>1, AppendProperties
  <2> QED
    BY <2>9, <2>10
<1>3. T \in SUBSET Seq(ChangedLines)
  OBVIOUS
<1> HIDE DEF T
<1>4. T = Seq(ChangedLines)
  BY <1>1, <1>2, <1>3, SeqInduction
<1> QED
  BY <1>4 DEF T

\* What is printed of one line.
DiffLines == Lines \cup {NoNewline}
PrintedLine(l) == IF l.nl THEN <<l>> ELSE <<l, NoNewline>>

LEMMA PrintedAppend ==
    ASSUME NEW s \in Seq(Lines), NEW e \in Lines
    PROVE  /\ Printed(s) \in Seq(DiffLines)
           /\ Printed(Append(s, e)) = Printed(s) \o PrintedLine(e)
<1> DEFINE W == Seq(DiffLines)
           t == Append(s, e)
           S == [i \in DOMAIN s |-> PrintedLine(s[i])]
           T == [i \in DOMAIN t |-> PrintedLine(t[i])]
           U == Append(S, PrintedLine(e))
<1>1. \A l \in Lines : PrintedLine(l) \in W
  <2>1. \A l \in Lines : l \in DiffLines /\ NoNewline \in DiffLines
    BY DEF DiffLines
  <2> QED
    BY <2>1 DEF PrintedLine
<1>2. /\ t \in Seq(Lines) /\ Len(t) = Len(s) + 1 /\ t[Len(s) + 1] = e
      /\ \A i \in 1 .. Len(s) : t[i] = s[i]
  BY AppendProperties
<1>3. Len(s) \in Nat /\ DOMAIN s = 1 .. Len(s) /\ DOMAIN t = 1 .. Len(s) + 1
  BY <1>2, LenProperties
<1> HIDE DEF W, t
<1>4. S \in Seq(W) /\ Len(S) = Len(s) /\ \A i \in 1 .. Len(s) : S[i] = PrintedLine(s[i])
  <2>1. \A i \in 1 .. Len(s) : PrintedLine(s[i]) \in W
    BY <1>1, ElementOfSeq
  <2> QED
    BY <1>3, <2>1
<1>5. T \in Seq(W) /\ Len(T) = Len(s) + 1 /\ \A i \in 1 .. Len(s) + 1 : T[i] = PrintedLine(t[i])
  <2>1. \A i \in 1 .. Len(s) + 1 : PrintedLine(t[i]) \in W
    BY <1>1, <1>2, ElementOfSeq
  <2> QED
    BY <1>3, <2>1
<1>6. PrintedLine(e) \in W
  BY <1>1
<1>7. Printed(s) = FlattenSeq(S) /\ Printed(t) = FlattenSeq(T)
  BY DEF Printed, PrintedLine
<1> HIDE DEF S, T
<1>8. /\ U \in Seq(W) /\ Len(U) = Len(s) + 1 /\ U[Len(s) + 1] = PrintedLine(e)
      /\ \A i \in 1 .. Len(s) : U[i] = S[i]
  BY <1>4, <1>6, AppendProperties
<1> HIDE DEF U
<1>9. T = U
  <2>1. \A i \in 1 .. Len(s) + 1 : T[i] = U[i]
    BY <1>2, <1>3, <1>4, <1>5, <1>8
  <2> QED
    BY <1>5, <1>8, <2>1, SeqEqual
<1>10. FlattenSeq(S) \in Seq(DiffLines) /\ FlattenSeq(U) = FlattenSeq(S) \o PrintedLine(e)
  BY <1>4, <1>6, FlattenAppend DEF W, U
<1> QED
  BY <1>7, <1>9, <1>10 DEF t

\* What the piece splitter keeps of one printed line.
OldPart(body, i) ==
    IF body[i].sign # "-" THEN <<>>
    ELSE <<[text |-> body[i].text, nl |-> ~Marked(body, i)]>>
OldParts(body) == [i \in DOMAIN body |-> OldPart(body, i)]

LEMMA NotALine == NoNewline \in DiffLines /\ NoNewline.sign = "\\" /\ Lines \subseteq DiffLines
                  /\ \A l \in Lines : l.sign # "\\"
<1>1. \A l \in Lines : l.sign \in {" ", "-", "+"}
  BY DEF Lines
<1>2. "\\" \notin {" ", "-", "+"}
  OBVIOUS
<1> QED
  BY <1>1, <1>2 DEF DiffLines, NoNewline

LEMMA OldPartsType ==
    ASSUME NEW b \in Seq(DiffLines)
    PROVE  /\ OldParts(b) \in Seq(Seq(Texts)) /\ Len(OldParts(b)) = Len(b)
           /\ \A i \in 1 .. Len(b) : OldParts(b)[i] = OldPart(b, i)
<1> DEFINE W == Seq(Texts)
<1>1. Len(b) \in Nat /\ DOMAIN b = 1 .. Len(b)
  BY LenProperties
<1>2. ASSUME NEW i \in 1 .. Len(b) PROVE OldPart(b, i) \in W
  <2>1. CASE b[i].sign # "-"
    BY <2>1, EmptySeq DEF OldPart
  <2>2. CASE b[i].sign = "-"
    <3>1. b[i] \in Lines
      <4>1. b[i] \in DiffLines
        BY ElementOfSeq
      <4>2. b[i] # NoNewline
        BY <2>2 DEF NoNewline
      <4> QED
        BY <4>1, <4>2 DEF DiffLines
    <3>2. Marked(b, i) \in BOOLEAN
      BY DEF Marked
    <3> DEFINE x == [text |-> b[i].text, nl |-> ~Marked(b, i)]
    <3>3. x \in Texts
      <4>1. b[i].text \in CodeTexts \cup TestTexts
        BY <3>1 DEF Lines
      <4> QED
        BY <3>2, <4>1 DEF Texts
    <3> HIDE DEF x
    <3>4. <<x>> \in Seq(Texts)
      BY <3>3
    <3> QED
      BY <2>2, <3>4 DEF OldPart, x
  <2> QED
    BY <2>1, <2>2
<1> HIDE DEF W
<1>3. OldParts(b) = [i \in 1 .. Len(b) |-> OldPart(b, i)]
  BY <1>1 DEF OldParts
<1>4. OldParts(b) \in Seq(W)
  BY <1>1, <1>2, <1>3
<1> QED
  BY <1>1, <1>3, <1>4 DEF W

LEMMA OldConcat ==
    ASSUME NEW b \in Seq(DiffLines), NEW d \in Seq(DiffLines), d # <<>>, d[1].sign # "\\"
    PROVE  OldParts(b \o d) = OldParts(b) \o OldParts(d)
<1> DEFINE c == b \o d
           n == Len(b)
           m == Len(d)
           P == OldParts(b)
           Q == OldParts(c)
           R == OldParts(d)
           S == P \o R
<1>1. n \in Nat /\ m \in Nat /\ m > 0
  BY LenProperties, EmptySeq
<1>2. /\ c \in Seq(DiffLines) /\ Len(c) = n + m
      /\ \A i \in 1 .. n + m : c[i] = IF i <= n THEN b[i] ELSE d[i - n]
  BY ConcatProperties
<1>3. /\ P \in Seq(Seq(Texts)) /\ Len(P) = n /\ \A i \in 1 .. n : P[i] = OldPart(b, i)
      /\ R \in Seq(Seq(Texts)) /\ Len(R) = m /\ \A i \in 1 .. m : R[i] = OldPart(d, i)
  BY OldPartsType
<1> HIDE DEF c
<1>4. Q \in Seq(Seq(Texts)) /\ Len(Q) = n + m /\ \A i \in 1 .. n + m : Q[i] = OldPart(c, i)
  BY <1>2, OldPartsType
<1>5. ASSUME NEW i \in 1 .. n PROVE OldPart(c, i) = OldPart(b, i)
  <2>0. i \in 1 .. n + m /\ i <= n
    BY <1>1
  <2>1. Marked(c, i) = Marked(b, i)
    <3>1. CASE i < n
      <4>1. i + 1 \in 1 .. n + m /\ i + 1 <= n /\ i < n + m
        BY <1>1, <3>1
      <4>2. i < Len(c) /\ i < Len(b) /\ c[i + 1] = b[i + 1]
        BY <1>2, <3>1, <4>1
      <4> QED
        BY <4>2 DEF Marked
    <3>2. CASE i = n
      <4>1. i + 1 \in 1 .. n + m /\ ~(i + 1 <= n) /\ (i + 1) - n = 1
        BY <1>1, <3>2
      <4>2. c[i + 1] = d[1]
        BY <1>2, <4>1
      <4>3. ~(i < Len(b))
        BY <1>1, <3>2
      <4> QED
        BY <4>2, <4>3 DEF Marked
    <3> QED
      BY <1>1, <3>1, <3>2
  <2>2. c[i] = b[i]
    BY <1>2, <2>0
  <2> QED
    BY <2>1, <2>2 DEF OldPart
<1>6. ASSUME NEW i \in 1 .. n + m, ~(i <= n) PROVE OldPart(c, i) = OldPart(d, i - n)
  <2>1. Marked(c, i) = Marked(d, i - n)
    <3>1. CASE i < n + m
      <4>1. /\ i + 1 \in 1 .. n + m /\ ~(i + 1 <= n) /\ (i + 1) - n = (i - n) + 1
            /\ i - n < m
        BY <1>1, <1>6, <3>1
      <4>2. i < Len(c) /\ i - n < Len(d) /\ c[i + 1] = d[(i - n) + 1]
        BY <1>2, <3>1, <4>1
      <4> QED
        BY <4>2 DEF Marked
    <3>2. CASE ~(i < n + m)
      <4>1. ~(i < Len(c)) /\ ~(i - n < Len(d))
        BY <1>1, <1>2, <3>2
      <4> QED
        BY <4>1 DEF Marked
    <3> QED
      BY <3>1, <3>2
  <2>2. c[i] = d[i - n]
    BY <1>2, <1>6
  <2> QED
    BY <2>1, <2>2 DEF OldPart
<1> HIDE DEF P, Q, R
<1>7. /\ S \in Seq(Seq(Texts)) /\ Len(S) = n + m
      /\ \A i \in 1 .. n + m : S[i] = IF i <= n THEN P[i] ELSE R[i - n]
  <2> DEFINE W == Seq(Texts)
  <2>1. P \in Seq(W) /\ R \in Seq(W)
    BY <1>3
  <2> HIDE DEF W, n, m
  <2>2. /\ S \in Seq(W) /\ Len(S) = Len(P) + Len(R)
        /\ \A i \in 1 .. Len(P) + Len(R) : S[i] = IF i <= Len(P) THEN P[i] ELSE R[i - Len(P)]
    BY <2>1, ConcatProperties
  <2> QED
    BY <1>3, <2>2 DEF W
<1> HIDE DEF S, n, m
<1>8. \A i \in 1 .. n + m : Q[i] = S[i]
  <2> TAKE i \in 1 .. n + m
  <2>1. CASE i <= n
    <3>1. i \in 1 .. n
      BY <1>1, <2>1
    <3> QED
      BY <1>3, <1>4, <1>5, <1>7, <2>1, <3>1
  <2>2. CASE ~(i <= n)
    <3>1. i - n \in 1 .. m
      BY <1>1, <2>2
    <3> QED
      BY <1>3, <1>4, <1>6, <1>7, <2>2, <3>1
  <2> QED
    BY <2>1, <2>2
<1>9. Q = S
  BY <1>4, <1>7, <1>8, SeqEqual
<1> QED
  BY <1>9 DEF P, Q, R, S, c

LEMMA FlattenType ==
    ASSUME NEW V, NEW s \in Seq(Seq(V))
    PROVE  FlattenSeq(s) \in Seq(V)
<1>1. <<>> \in Seq(V)
  BY EmptySeq
<1> QED
  BY <1>1, FlattenAppend

LEMMA FlattenConcat ==
    ASSUME NEW V, NEW s \in Seq(Seq(V)), NEW t \in Seq(Seq(V))
    PROVE  FlattenSeq(s \o t) = FlattenSeq(s) \o FlattenSeq(t)
<1> DEFINE W == Seq(V)
           T == {u \in Seq(W) : FlattenSeq(s \o u) = FlattenSeq(s) \o FlattenSeq(u)}
<1>1. <<>> \in T
  <2> HIDE DEF W
  <2>1. s \in Seq(W) /\ FlattenSeq(s) \in Seq(V)
    BY FlattenType DEF W
  <2>2. s \o <<>> = s /\ FlattenSeq(s) \o <<>> = FlattenSeq(s) /\ <<>> \in Seq(W)
    BY <2>1, ConcatEmptySeq, EmptySeq
  <2> QED
    BY <2>2, FlattenEmpty
<1>2. ASSUME NEW u \in T, NEW e \in W PROVE Append(u, e) \in T
  <2> DEFINE a == FlattenSeq(s)
             b == FlattenSeq(u)
             w == s \o u
  <2>1. u \in Seq(W) /\ FlattenSeq(w) = a \o b
    OBVIOUS
  <2>2. a \in Seq(V) /\ b \in Seq(V) /\ e \in Seq(V)
    BY <2>1, FlattenType
  <2>3. /\ w \in Seq(W) /\ Append(u, e) \in Seq(W)
        /\ s \o Append(u, e) = Append(w, e)
    <3> HIDE DEF W
    <3>1. s \in Seq(W) /\ u \in Seq(W) /\ e \in W
      BY <2>1 DEF W
    <3>2. w \in Seq(W) /\ Append(u, e) \in Seq(W) /\ <<e>> \in Seq(W)
      BY <3>1, ConcatProperties, AppendProperties
    <3>3. Append(u, e) = u \o <<e>>
      BY <3>1, AppendIsConcat
    <3>4. s \o (u \o <<e>>) = w \o <<e>>
      BY <3>1, <3>2, ConcatAssociative
    <3> HIDE DEF w
    <3>5. Append(w, e) = w \o <<e>>
      BY <3>1, <3>2, AppendIsConcat
    <3> QED
      BY <3>2, <3>3, <3>4, <3>5
  <2>4. FlattenSeq(Append(u, e)) = b \o e
    BY <2>1, <2>2, FlattenAppend
  <2> HIDE DEF w
  <2>5. FlattenSeq(Append(w, e)) = FlattenSeq(w) \o e
    BY <2>2, <2>3, FlattenAppend
  <2> HIDE DEF a, b
  <2>6. (a \o b) \o e = a \o (b \o e)
    <3> HIDE DEF T, W
    <3> QED
      BY <2>2, ConcatAssociative
  <2> QED
    BY <2>1, <2>3, <2>4, <2>5, <2>6 DEF a, b
<1>3. T \in SUBSET Seq(W)
  OBVIOUS
<1> HIDE DEF T, W
<1>4. T = Seq(W)
  BY <1>1, <1>2, <1>3, SeqInduction
<1>5. t \in T
  BY <1>4 DEF W
<1> QED
  BY <1>5 DEF T

LEMMA FlattenOne ==
    ASSUME NEW V, NEW e \in Seq(V)
    PROVE  FlattenSeq(<<e>>) = e /\ FlattenSeq(<<e, <<>> >>) = e
<1> DEFINE W == Seq(V)
<1>1. <<>> \in W /\ <<>> \in Seq(W) /\ <<e>> \in Seq(W)
  BY EmptySeq
<1>2. <<e>> = Append(<<>>, e) /\ <<e, <<>> >> = Append(<<e>>, <<>>)
  OBVIOUS
<1>3. FlattenSeq(Append(<<>>, e)) = <<>> \o e
  BY <1>1, FlattenAppend, FlattenEmpty
<1>4. FlattenSeq(Append(<<e>>, <<>>)) = FlattenSeq(<<e>>) \o <<>>
  BY <1>1, FlattenAppend
<1> QED
  BY <1>2, <1>3, <1>4, ConcatEmptySeq

LEMMA OldOfLine ==
    ASSUME NEW e \in Lines
    PROVE  /\ PrintedLine(e) \in Seq(DiffLines) /\ PrintedLine(e) # <<>>
           /\ PrintedLine(e)[1].sign # "\\"
           /\ OldLines(PrintedLine(e)) = IF e.sign = "-" THEN <<TextOf(e)>> ELSE <<>>
<1> DEFINE c == PrintedLine(e)
           p == IF e.sign = "-" THEN <<TextOf(e)>> ELSE <<>>
<1>1. /\ e \in DiffLines /\ NoNewline \in DiffLines /\ e.sign # "\\"
      /\ NoNewline.sign = "\\"
  BY NotALine
<1>2. TextOf(e) \in Texts /\ e.nl \in BOOLEAN
  BY DEF TextOf, Lines, Texts
<1>3. p \in Seq(Texts)
  BY <1>2, EmptySeq
<1>4. CASE e.nl
  <2>1. c = <<e>>
    BY <1>4 DEF PrintedLine
  <2>2. OldParts(<<e>>) = <<p>>
    <3>1. ~Marked(<<e>>, 1)
      BY DEF Marked
    <3>2. OldPart(<<e>>, 1) = p
      BY <1>4, <3>1 DEF OldPart, TextOf
    <3> HIDE DEF p
    <3> QED
      BY <3>2 DEF OldParts
  <2>3. OldLines(c) = FlattenSeq(<<p>>)
    BY <2>1, <2>2 DEF OldLines, OldParts, OldPart
  <2> HIDE DEF p
  <2>4. OldLines(c) = p
    BY <1>3, <2>3, FlattenOne
  <2> QED
    BY <1>1, <2>1, <2>4 DEF p
<1>5. CASE ~e.nl
  <2>1. c = <<e, NoNewline>>
    BY <1>5 DEF PrintedLine
  <2>2. OldParts(<<e, NoNewline>>) = <<p, <<>> >>
    <3> DEFINE d == <<e, NoNewline>>
    <3>0. Len(d) = 2 /\ d[1] = e /\ d[2] = NoNewline /\ DOMAIN d = 1 .. 2
      OBVIOUS
    <3>1. Marked(d, 1)
      BY <1>1, <3>0 DEF Marked
    <3>2. OldPart(d, 1) = p
      BY <1>2, <1>5, <3>0, <3>1 DEF OldPart, TextOf
    <3>3. OldPart(d, 2) = <<>>
      BY <1>1, <3>0 DEF OldPart
    <3> HIDE DEF p, d
    <3>4. OldParts(d) = [i \in 1 .. 2 |-> OldPart(d, i)]
      BY <3>0 DEF OldParts
    <3>5. OldParts(d) = <<p, <<>> >>
      BY <3>2, <3>3, <3>4
    <3> QED
      BY <3>5 DEF d
  <2>3. OldLines(c) = FlattenSeq(<<p, <<>> >>)
    BY <2>1, <2>2 DEF OldLines, OldParts, OldPart
  <2> HIDE DEF p
  <2>4. OldLines(c) = p
    BY <1>3, <2>3, FlattenOne
  <2> QED
    BY <1>1, <2>1, <2>4 DEF p
<1> QED
  BY <1>2, <1>4, <1>5

(***************************************************************************)
(* What the piece splitter reads back of a printed hunk is its old side.   *)
(***************************************************************************)
LEMMA OldPrinted ==
    ASSUME NEW s \in Seq(ChangedLines)
    PROVE  OldLines(Printed(s)) = Version(SideOf(s, "+"))
<1> DEFINE T == {u \in Seq(ChangedLines) : OldLines(Printed(u)) = Version(SideOf(u, "+"))}
<1>0. ChangedLines \subseteq Lines /\ \A u \in Seq(ChangedLines) : u \in Seq(Lines)
  BY SeqMonotonic DEF ChangedLines
<1>1. <<>> \in T
  <2>1. Printed(<<>>) = <<>>
    <3> DEFINE f == [i \in {} |-> PrintedLine(<<>>[i])]
    <3>1. Printed(<<>>) = FlattenSeq(f)
      <4>1. DOMAIN <<>> = {}
        OBVIOUS
      <4> QED
        BY <4>1 DEF Printed, PrintedLine
    <3>2. f = <<>>
      OBVIOUS
    <3> HIDE DEF f
    <3> QED
      BY <3>1, <3>2, FlattenEmpty
  <2>2. OldLines(<<>>) = <<>>
    <3>1. <<>> \in Seq(DiffLines)
      BY EmptySeq
    <3>2. OldParts(<<>>) = <<>>
      BY <3>1, OldPartsType, EmptySeq
    <3>3. OldLines(<<>>) = FlattenSeq(OldParts(<<>>))
      BY DEF OldLines, OldParts, OldPart
    <3> QED
      BY <3>2, <3>3, FlattenEmpty
  <2>3. Version(<<>>) = <<>>
    <3>1. <<>> \in Seq(Lines)
      BY EmptySeq
    <3> QED
      BY <3>1, VersionType, EmptySeq
  <2> QED
    BY <2>1, <2>2, <2>3, SideEmpty, EmptySeq
<1>2. ASSUME NEW u \in T, NEW e \in ChangedLines PROVE Append(u, e) \in T
  <2> DEFINE b == Printed(u)
             d == PrintedLine(e)
             y == SideOf(u, "+")
  <2>1. u \in Seq(ChangedLines) /\ u \in Seq(Lines) /\ e \in Lines
        /\ OldLines(b) = Version(y)
    BY <1>0
  <2>2. b \in Seq(DiffLines) /\ Printed(Append(u, e)) = b \o d
    BY <2>1, PrintedAppend
  <2>3. /\ d \in Seq(DiffLines) /\ d # <<>> /\ d[1].sign # "\\"
        /\ OldLines(d) = IF e.sign = "-" THEN <<TextOf(e)>> ELSE <<>>
    BY <2>1, OldOfLine
  <2> HIDE DEF b, d
  <2>4. OldParts(b \o d) = OldParts(b) \o OldParts(d)
    BY <2>2, <2>3, OldConcat
  <2>5. OldParts(b) \in Seq(Seq(Texts)) /\ OldParts(d) \in Seq(Seq(Texts))
    BY <2>2, <2>3, OldPartsType
  <2>6. FlattenSeq(OldParts(b) \o OldParts(d))
          = FlattenSeq(OldParts(b)) \o FlattenSeq(OldParts(d))
    BY <2>5, FlattenConcat
  <2>7. \A x : OldLines(x) = FlattenSeq(OldParts(x))
    BY DEF OldLines, OldParts, OldPart
  <2>8. OldLines(b \o d) = Version(y) \o OldLines(d)
    BY <2>1, <2>4, <2>6, <2>7
  <2>9. SideOf(Append(u, e), "+") = IF e.sign = "+" THEN y ELSE Append(y, e)
    BY <2>1, SideAppend
  <2>10. y \in Seq(Lines)
    BY <2>1, SideType
  <2> HIDE DEF y
  <2>11. Version(Append(y, e)) = Append(Version(y), TextOf(e))
    BY <2>1, <2>10, VersionAppend
  <2>12. Version(y) \in Seq(Texts) /\ TextOf(e) \in Texts
    BY <2>1, <2>10, VersionType DEF Lines, Texts, TextOf
  <2>13. e.sign \in {"+", "-"}
    BY DEF ChangedLines, Lines
  <2>14. OldLines(b \o d) = Version(SideOf(Append(u, e), "+"))
    <3> DEFINE v == Version(y)
               x == TextOf(e)
    <3>1. v \o <<x>> = Append(v, x) /\ v \o <<>> = v
      <4> HIDE DEF v, x
      <4>1. v \in Seq(Texts) /\ x \in Texts
        BY <2>12 DEF v, x
      <4> QED
        BY <4>1, AppendIsConcat, ConcatEmptySeq
    <3> HIDE DEF v, x
    <3>2. CASE e.sign = "-"
      BY <2>3, <2>8, <2>9, <2>11, <3>1, <3>2 DEF v, x
    <3>3. CASE e.sign = "+"
      BY <2>3, <2>8, <2>9, <3>1, <3>3 DEF v, x
    <3> QED
      BY <2>13, <3>2, <3>3
  <2>15. Append(u, e) \in Seq(ChangedLines)
    BY <2>1, AppendProperties
  <2> QED
    BY <2>2, <2>14, <2>15
<1>3. T \in SUBSET Seq(ChangedLines)
  OBVIOUS
<1> HIDE DEF T
<1>4. T = Seq(ChangedLines)
  BY <1>1, <1>2, <1>3, SeqInduction
<1> QED
  BY <1>4 DEF T

-----------------------------------------------------------------------------
(* Where hunks lie *)

LEMMA OfTwo ==
    ASSUME NEW a \in Int, NEW b \in Int
    PROVE  /\ Max({a, b}) = IF a <= b THEN b ELSE a
           /\ Min({a, b}) = IF a <= b THEN a ELSE b
<1>1. CASE a <= b
  <2>1. Max({a, b}) = b
    <3>1. b \in {a, b} /\ \A y \in {a, b} : b >= y
      BY <1>1
    <3>2. \A x \in {a, b} : (\A y \in {a, b} : x >= y) => x = b
      BY <1>1
    <3> QED
      BY <3>1, <3>2 DEF Max
  <2>2. Min({a, b}) = a
    <3>1. a \in {a, b} /\ \A y \in {a, b} : a <= y
      BY <1>1
    <3>2. \A x \in {a, b} : (\A y \in {a, b} : x <= y) => x = a
      BY <1>1
    <3> QED
      BY <3>1, <3>2 DEF Min
  <2> QED
    BY <1>1, <2>1, <2>2
<1>2. CASE ~(a <= b)
  <2>1. Max({a, b}) = a
    <3>1. a \in {a, b} /\ \A y \in {a, b} : a >= y
      BY <1>2
    <3>2. \A x \in {a, b} : (\A y \in {a, b} : x >= y) => x = a
      BY <1>2
    <3> QED
      BY <3>1, <3>2 DEF Max
  <2>2. Min({a, b}) = b
    <3>1. b \in {a, b} /\ \A y \in {a, b} : b <= y
      BY <1>2
    <3>2. \A x \in {a, b} : (\A y \in {a, b} : x <= y) => x = b
      BY <1>2
    <3> QED
      BY <3>1, <3>2 DEF Min
  <2> QED
    BY <1>2, <2>1, <2>2
<1> QED
  BY <1>1, <1>2

LEMMA NearestFacts ==
    ASSUME NEW N \in Nat, NEW S \in SUBSET (1 .. N), NEW i \in Int, NEW a, a = Nearest(i, S)
    PROVE  /\ a \in 0 .. N /\ \A j \in S : j < i => j <= a
           /\ a = 0 \/ (a \in S /\ a < i)
<1> DEFINE T == {0} \cup {j \in S : j < i}
<1>1. T \in SUBSET (0 .. N) /\ T # {}
  <2>1. \A x \in T : x \in 0 .. N
    OBVIOUS
  <2>2. 0 \in T
    OBVIOUS
  <2> QED
    BY <2>1, <2>2
<1>2. a = Max(T)
  BY DEF Nearest
<1>3. a \in T /\ \A x \in T : x <= a
  BY <1>1, <1>2, GreatestOf
<1> QED
  BY <1>3

\* The nearest of a set of lines is the one that none is nearer than.
LEMMA NearestIs ==
    ASSUME NEW N \in Nat, NEW S \in SUBSET (1 .. N), NEW i \in Int,
           NEW a \in S, a < i, \A j \in S : j < i => j <= a
    PROVE  Nearest(i, S) = a
<1> DEFINE b == Nearest(i, S)
<1>1. b \in 0 .. N /\ (\A j \in S : j < i => j <= b) /\ (b = 0 \/ (b \in S /\ b < i))
  BY NearestFacts
<1> HIDE DEF b
<1>2. a <= b /\ a \in 1 .. N
  BY <1>1
<1>3. b <= a
  BY <1>1, <1>2
<1>4. a = b
  BY <1>1, <1>2, <1>3
<1> QED
  BY <1>4 DEF b

\* The number of lines.
Size == Len(script)

LEMMA ScriptPlaces ==
    ASSUME script \in Seq(Lines)
    PROVE  /\ Size \in Nat /\ DOMAIN script = 1 .. Size
           /\ \A i \in 1 .. Size : script[i] \in Lines
           /\ Changes = {i \in 1 .. Size : script[i].sign # " "}
           /\ Changes \in SUBSET (1 .. Size)
           /\ \A c : HunkStarts(c) \in SUBSET Changes
<1>1. Size \in Nat /\ DOMAIN script = 1 .. Size
  BY LenProperties DEF Size
<1>2. \A i \in 1 .. Size : script[i] \in Lines
  BY ElementOfSeq DEF Size
<1>3. Changes = {i \in 1 .. Size : script[i].sign # " "}
  BY <1>1 DEF Changes
<1>4. Changes \in SUBSET (1 .. Size)
  BY <1>3
<1>5. \A c : HunkStarts(c) \in SUBSET Changes
  BY DEF HunkStarts
<1> QED
  BY <1>1, <1>2, <1>3, <1>4, <1>5

\* Where a hunk begins and ends, and which changes it takes in.
LEMMA HunkBounds ==
    ASSUME script \in Seq(Lines), NEW c \in Nat, NEW i \in HunkStarts(c)
    PROVE  /\ HunkAt(c, i).from \in 1 .. i /\ HunkAt(c, i).to \in i .. Size
           /\ i \in 1 .. Size
           /\ \A x \in Changes : x >= i /\ (\A k \in HunkStarts(c) : k > i => x < k)
                => x <= HunkAt(c, i).to
           /\ c = 0 => /\ HunkAt(c, i).from = i
                       /\ HunkAt(c, i).to \in Changes
                       /\ \A k \in HunkStarts(c) : k > i => HunkAt(c, i).to < k
<1> DEFINE n == Size
           h == HunkAt(c, i)
           S == HunkStarts(c)
           Ends == {j \in Changes : \A k \in S : k > i => j < k}
           end == Max(Ends)
<1>1. S \subseteq Changes /\ Changes \subseteq 1 .. n /\ n \in Nat
  BY ScriptPlaces
<1>2. h = [from |-> Max({1, i - c}), to |-> Min({n, end + c})]
  BY DEF HunkAt, Size
<1> HIDE DEF n, h, S
<1>3. i \in S
  BY DEF S
<1>4. i \in Ends
  <2>1. i \in Changes
    BY <1>1, <1>3
  <2> QED
    BY <2>1
<1>5. Ends \in SUBSET (0 .. n) /\ Ends # {}
  <2>1. \A x \in Ends : x \in 0 .. n
    BY <1>1
  <2> QED
    BY <1>4, <2>1
<1>6. end \in Ends /\ \A x \in Ends : x <= end
  BY <1>1, <1>5, GreatestOf
<1> HIDE DEF end
<1>7. i \in 1 .. n /\ end \in 1 .. n /\ i <= end
  BY <1>1, <1>3, <1>4, <1>6
<1>8. h.from = (IF 1 <= i - c THEN i - c ELSE 1) /\ h.to = (IF n <= end + c THEN n ELSE end + c)
  <2> DEFINE p == i - c
             q == end + c
  <2>1. p \in Int /\ q \in Int /\ n \in Int
    BY <1>1, <1>7
  <2>2. h.from = Max({1, p}) /\ h.to = Min({n, q})
    BY <1>2
  <2> HIDE DEF p, q
  <2>3. Max({1, p}) = IF 1 <= p THEN p ELSE 1
    BY <2>1, OfTwo
  <2>4. Min({n, q}) = IF n <= q THEN n ELSE q
    BY <2>1, OfTwo
  <2> QED
    BY <2>2, <2>3, <2>4 DEF p, q
<1>9. h.from \in 1 .. i /\ (c = 0 => h.from = i)
  BY <1>7, <1>8
<1>10. h.to \in i .. n /\ end <= h.to /\ (c = 0 => h.to = end)
  BY <1>1, <1>7, <1>8
<1>11. ASSUME NEW x \in Changes, \A k \in S : k > i => x < k PROVE x <= h.to
  <2>1. x <= end /\ x \in 1 .. n
    BY <1>1, <1>6, <1>11
  <2> QED
    BY <1>7, <1>10, <2>1
<1>12. ASSUME c = 0 PROVE h.to \in Changes /\ \A k \in S : k > i => h.to < k
  BY <1>6, <1>10, <1>12
<1> QED
  BY <1>7, <1>9, <1>10, <1>11, <1>12 DEF n, h, S

LEMMA FirstChange ==
    ASSUME script \in Seq(Lines), NEW c \in Nat, NEW i \in Changes
    PROVE  \E s \in HunkStarts(c) : s <= i
<1>1. Changes \in SUBSET Nat /\ Changes # {}
  <2>1. Size \in Nat /\ Changes \in SUBSET (1 .. Size)
    BY ScriptPlaces
  <2>2. \A x \in Changes : x \in Nat
    BY <2>1
  <2> QED
    BY <2>2
<1>2. PICK m \in Changes : \A k \in Changes : m <= k
  BY <1>1, LeastNumber
<1>3. m \in HunkStarts(c)
  <2>1. \A j \in Changes : ~(j < m)
    BY <1>1, <1>2
  <2> QED
    BY <2>1 DEF HunkStarts
<1> QED
  BY <1>2, <1>3

(***************************************************************************)
(* Every change is in a hunk, whatever the context.                        *)
(***************************************************************************)
LEMMA HunksCover ==
    ASSUME script \in Seq(Lines), NEW c \in Nat, NEW i \in Changes
    PROVE  \E h \in Hunks(c) : i \in h.from .. h.to
<1> DEFINE S == {s \in HunkStarts(c) : s <= i}
           s == Max(S)
           h == HunkAt(c, s)
<1>1. Size \in Nat /\ i \in 1 .. Size /\ HunkStarts(c) \subseteq 1 .. Size
  BY ScriptPlaces
<1>2. S \in SUBSET (0 .. Size) /\ S # {}
  <2>1. S # {}
    BY FirstChange
  <2>2. \A x \in S : x \in 0 .. Size
    BY <1>1
  <2> QED
    BY <2>1, <2>2
<1>3. s \in S /\ \A x \in S : x <= s
  BY <1>1, <1>2, GreatestOf
<1> HIDE DEF s
<1>4. s \in HunkStarts(c) /\ s <= i /\ s \in 1 .. Size
  BY <1>1, <1>3
<1>5. \A k \in HunkStarts(c) : k > s => i < k
  <2> TAKE k \in HunkStarts(c)
  <2>1. k \in 1 .. Size
    BY <1>1
  <2>2. k \in S => k <= s
    BY <1>3
  <2> QED
    BY <1>1, <1>4, <2>1, <2>2
<1> HIDE DEF S
<1>6. h.from \in 1 .. s /\ h.to \in s .. Size /\ i <= h.to
  BY <1>1, <1>4, <1>5, HunkBounds
<1>7. h \in Hunks(c)
  BY <1>4 DEF Hunks
<1> HIDE DEF h
<1>8. i \in h.from .. h.to
  BY <1>1, <1>4, <1>6
<1> QED
  BY <1>7, <1>8

LEMMA HunkRange ==
    ASSUME script \in Seq(Lines), NEW c \in Nat, NEW h \in Hunks(c)
    PROVE  h.from \in 1 .. Size /\ h.to \in h.from .. Size
<1>1. PICK i \in HunkStarts(c) : h = HunkAt(c, i)
  BY DEF Hunks
<1>2. i \in 1 .. Size /\ h.from \in 1 .. i /\ h.to \in i .. Size
  BY <1>1, HunkBounds
<1>3. Size \in Nat
  BY ScriptPlaces
<1> QED
  BY <1>2, <1>3

(***************************************************************************)
(* Without context lines a hunk is nothing but changes: one that follows   *)
(* a line that stays begins a hunk.                                        *)
(***************************************************************************)
LEMMA HunkIsSolid ==
    ASSUME script \in Seq(Lines), NEW h \in Hunks(0), NEW j \in h.from .. h.to
    PROVE  j \in Changes
<1> DEFINE c == 0
<1>0. c \in Nat /\ c = 0 /\ h \in Hunks(c)
  OBVIOUS
<1>1. /\ HunkStarts(c) = {i \in Changes : \A k \in Changes : k < i => i - k > 1}
      /\ Changes \in SUBSET (1 .. Size) /\ Size \in Nat
  <2>1. 2 * c + 1 = 1
    OBVIOUS
  <2> HIDE DEF c
  <2>2. HunkStarts(c) = {i \in Changes : \A k \in Changes : k < i => i - k > 1}
    BY <2>1 DEF HunkStarts
  <2> QED
    BY <2>2, ScriptPlaces
<1> HIDE DEF c
<1>2. PICK i \in HunkStarts(c) : h = HunkAt(c, i)
  BY <1>0 DEF Hunks
<1>3. /\ h.from = i /\ h.to \in i .. Size /\ i \in 1 .. Size /\ h.to \in Changes
      /\ \A k \in HunkStarts(c) : k > i => h.to < k
  BY <1>0, <1>2, HunkBounds
<1>4. j \in i .. h.to /\ i \in Changes
  BY <1>1, <1>3
<1> SUFFICES ASSUME j \notin Changes PROVE FALSE
  OBVIOUS
<1> DEFINE Later == {k \in Changes : k > j}
<1>5. Later \in SUBSET Nat /\ h.to \in Later
  <2>1. h.to # j
    BY <1>3
  <2>2. h.to > j
    BY <1>3, <1>4, <2>1
  <2>3. \A x \in Later : x \in Nat
    BY <1>1
  <2>4. h.to \in Later
    BY <1>3, <2>2
  <2> QED
    BY <2>3, <2>4
<1>6. PICK m \in Later : \A k \in Later : m <= k
  <2> HIDE DEF Later
  <2> QED
    BY <1>5, LeastNumber
<1>7. m \in Changes /\ m \in 1 .. Size /\ m > j /\ m <= h.to
  BY <1>1, <1>5, <1>6
<1>8. \A k \in Changes : k < m => m - k > 1
  <2> TAKE k \in Changes
  <2>1. k \in 1 .. Size /\ k # j /\ (k > j => m <= k)
    BY <1>1, <1>6
  <2> QED
    BY <1>3, <1>4, <1>7, <2>1
<1>9. m \in HunkStarts(c)
  BY <1>1, <1>7, <1>8
<1> QED
  BY <1>3, <1>4, <1>7, <1>9

-----------------------------------------------------------------------------
(* A sequence in three parts *)

\* A sequence is what is before, in and after a range of it.
LEMMA Parts ==
    ASSUME NEW L, NEW s \in Seq(L), NEW f \in 1 .. Len(s), NEW t \in f .. Len(s)
    PROVE  /\ SubSeq(s, 1, f - 1) \in Seq(L) /\ SubSeq(s, f, t) \in Seq(L)
           /\ SubSeq(s, t + 1, Len(s)) \in Seq(L)
           /\ s = (SubSeq(s, 1, f - 1) \o SubSeq(s, f, t)) \o SubSeq(s, t + 1, Len(s))
<1> DEFINE n == Len(s)
           e == f - 1
           g == t + 1
<1>1. n \in Nat /\ \A i \in 1 .. n : s[i] \in L
  BY LenProperties, ElementOfSeq
<1>2. /\ e \in 0 .. n /\ e + 1 = f /\ e \in Int /\ f \in Int /\ t \in e .. n /\ t \in Int
      /\ g \in Int /\ 1 \in 1 .. n + 1 /\ n \in Int /\ t \in 0 .. n /\ e \in 0 .. n
  BY <1>1
<1>3. (\A i \in 1 .. e : s[i] \in L) /\ (\A i \in f .. t : s[i] \in L)
      /\ \A i \in g .. n : s[i] \in L
  BY <1>1
<1>4. SubSeq(s, 1, n) = s
  BY SubSeqFull
<1> HIDE DEF n
<1>5. SubSeq(s, 1, t) \o SubSeq(s, t + 1, n) = SubSeq(s, 1, n)
  <2> DEFINE one == 1
  <2>1. one \in 1 .. Len(s) + 1 /\ t \in one - 1 .. Len(s) /\ n \in t .. Len(s)
    BY <1>1, <1>2 DEF n
  <2> HIDE DEF one, e, g
  <2>2. SubSeq(s, one, t) \o SubSeq(s, t + 1, n) = SubSeq(s, one, n)
    BY <2>1, ConcatAdjacentSubSeq
  <2> QED
    BY <2>2 DEF one
<1> HIDE DEF e
<1>6. SubSeq(s, 1, e) \o SubSeq(s, e + 1, t) = SubSeq(s, 1, t)
  <2> DEFINE one == 1
  <2>1. one \in 1 .. Len(s) + 1 /\ e \in one - 1 .. Len(s) /\ t \in e .. Len(s)
    BY <1>1, <1>2 DEF n
  <2> HIDE DEF one, g
  <2>2. SubSeq(s, one, e) \o SubSeq(s, e + 1, t) = SubSeq(s, one, t)
    BY <2>1, ConcatAdjacentSubSeq
  <2> QED
    BY <2>2 DEF one
<1> HIDE DEF g
<1>7. /\ SubSeq(s, 1, e) \in Seq(L) /\ SubSeq(s, f, t) \in Seq(L)
      /\ SubSeq(s, g, n) \in Seq(L)
  BY <1>2, <1>3, SubSeqProperties
<1>8. s = (SubSeq(s, 1, e) \o SubSeq(s, f, t)) \o SubSeq(s, t + 1, n)
  BY <1>2, <1>4, <1>5, <1>6
<1> QED
  BY <1>7, <1>8 DEF e, g, n

\* And the other way: three sequences joined have them as their parts.
LEMMA PartOfConcat ==
    ASSUME NEW L, NEW a \in Seq(L), NEW b \in Seq(L), NEW c \in Seq(L)
    PROVE  /\ SubSeq((a \o b) \o c, 1, Len(a)) = a
           /\ SubSeq((a \o b) \o c, Len(a) + 1, Len(a) + Len(b)) = b
           /\ SubSeq((a \o b) \o c, Len(a) + Len(b) + 1, Len((a \o b) \o c)) = c
           /\ Len((a \o b) \o c) = Len(a) + Len(b) + Len(c)
<1> DEFINE ab == a \o b
           s == ab \o c
           x == Len(a)
           y == Len(b)
           z == Len(c)
<1>1. x \in Nat /\ y \in Nat /\ z \in Nat
  BY LenProperties
<1>2. ab \in Seq(L) /\ Len(ab) = x + y
      /\ \A i \in 1 .. x + y : ab[i] = IF i <= x THEN a[i] ELSE b[i - x]
  BY ConcatProperties
<1> HIDE DEF ab
<1>3. /\ s \in Seq(L) /\ Len(s) = x + y + z
      /\ \A i \in 1 .. x + y + z : s[i] = IF i <= x + y THEN ab[i] ELSE c[i - (x + y)]
  <2>1. /\ ab \o c \in Seq(L) /\ Len(ab \o c) = Len(ab) + Len(c)
        /\ \A i \in 1 .. Len(ab) + Len(c) :
             (ab \o c)[i] = IF i <= Len(ab) THEN ab[i] ELSE c[i - Len(ab)]
    <3>1. ab \in Seq(L)
      BY <1>2
    <3> HIDE DEF s, x, y, z
    <3> QED
      BY <3>1, ConcatProperties
  <2> HIDE DEF s, x, y, z
  <2> QED
    BY <1>2, <2>1 DEF s, z
<1>4. a \in [1 .. x -> L] /\ b \in [1 .. y -> L] /\ c \in [1 .. z -> L]
  BY LenProperties
<1> HIDE DEF s, x, y, z
<1>5. \A i \in 1 .. x : s[i] = a[i]
  <2> TAKE i \in 1 .. x
  <2>1. i \in 1 .. x + y + z /\ i <= x + y /\ i \in 1 .. x + y /\ i <= x
    BY <1>1
  <2> QED
    BY <1>2, <1>3, <2>1
<1>6. \A i \in 1 .. y : s[x + i] = b[i]
  <2> TAKE i \in 1 .. y
  <2> DEFINE j == x + i
  <2>1. j \in 1 .. x + y + z /\ j <= x + y /\ j \in 1 .. x + y /\ ~(j <= x) /\ j - x = i
    BY <1>1
  <2> HIDE DEF j
  <2>2. s[j] = b[i]
    BY <1>2, <1>3, <2>1
  <2> QED
    BY <2>2 DEF j
<1>7. \A i \in 1 .. z : s[x + y + i] = c[i]
  <2> TAKE i \in 1 .. z
  <2> DEFINE j == x + y + i
  <2>1. j \in 1 .. x + y + z /\ ~(j <= x + y) /\ j - (x + y) = i
    BY <1>1
  <2> HIDE DEF j
  <2>2. s[j] = c[i]
    BY <1>3, <2>1
  <2> QED
    BY <2>2 DEF j
<1>8. SubSeq(s, 1, x) = a
  <2>1. SubSeq(s, 1, x) = [i \in 1 .. x |-> s[i]]
    BY <1>1
  <2> QED
    BY <1>4, <1>5, <2>1
<1>9. SubSeq(s, x + 1, x + y) = b
  <2>1. SubSeq(s, x + 1, x + y) = [i \in 1 .. y |-> s[x + i]]
    BY <1>1
  <2> QED
    BY <1>4, <1>6, <2>1
<1>10. SubSeq(s, x + y + 1, x + y + z) = c
  <2>1. SubSeq(s, x + y + 1, x + y + z) = [i \in 1 .. z |-> s[x + y + i]]
    BY <1>1
  <2> QED
    BY <1>4, <1>7, <2>1
<1> QED
  BY <1>3, <1>8, <1>9, <1>10 DEF s, x, y, z, ab

\* A side of three parts is the sides of the parts.
LEMMA ThreeSides ==
    ASSUME NEW a \in Seq(Lines), NEW m \in Seq(Lines), NEW b \in Seq(Lines)
    PROVE  Version(SideOf((a \o m) \o b, "-"))
             = (Version(SideOf(a, "-")) \o Version(SideOf(m, "-"))) \o Version(SideOf(b, "-"))
<1> DEFINE gone == "-"
<1>1. a \o m \in Seq(Lines)
  BY ConcatProperties
<1> HIDE DEF gone
<1>2. SideOf((a \o m) \o b, gone) = SideOf(a \o m, gone) \o SideOf(b, gone)
  <2> DEFINE am == a \o m
  <2>1. am \in Seq(Lines)
    BY <1>1
  <2> HIDE DEF am
  <2>2. SideOf(am \o b, gone) = SideOf(am, gone) \o SideOf(b, gone)
    BY <2>1, SideConcat
  <2> QED
    BY <2>2 DEF am
<1>3. SideOf(a \o m, gone) = SideOf(a, gone) \o SideOf(m, gone)
  BY SideConcat
<1> DEFINE x == SideOf(a, gone)
           y == SideOf(m, gone)
           z == SideOf(b, gone)
<1>4. x \in Seq(Lines) /\ y \in Seq(Lines) /\ z \in Seq(Lines)
  BY SideType
<1> HIDE DEF x, y, z
<1>5. Version(x \o y) = Version(x) \o Version(y) /\ x \o y \in Seq(Lines)
  BY <1>4, VersionConcat, ConcatProperties
<1> DEFINE xy == x \o y
<1>6. xy \in Seq(Lines)
  BY <1>5
<1> HIDE DEF xy
<1>7. Version(xy \o z) = Version(xy) \o Version(z)
  BY <1>4, <1>6, VersionConcat
<1> QED
  BY <1>2, <1>3, <1>5, <1>7 DEF x, y, z, xy, gone

LEMMA SamePart ==
    ASSUME NEW s, NEW t, NEW i \in Int, NEW j \in Int, \A k \in i .. j : s[k] = t[k]
    PROVE  SubSeq(s, i, j) = SubSeq(t, i, j)
<1> DEFINE n == j - i + 1
<1>1. \A k \in 1 .. n : i + k - 1 \in i .. j
  OBVIOUS
<1>2. SubSeq(s, i, j) = [k \in 1 .. n |-> s[i + k - 1]]
      /\ SubSeq(t, i, j) = [k \in 1 .. n |-> t[i + k - 1]]
  OBVIOUS
<1> HIDE DEF n
<1>3. \A k \in 1 .. n : s[i + k - 1] = t[i + k - 1]
  BY <1>1
<1> QED
  BY <1>2, <1>3

\* The script with a hunk taken back.
HunkBack(h) ==
    [i \in DOMAIN script |->
       IF i \in h.from .. h.to
       THEN [script[i] EXCEPT !.sign = IF @ = "+" THEN "-" ELSE " "]
       ELSE script[i]]

LEMMA HunkBackParts ==
    ASSUME script \in Seq(Lines), NEW h,
           h.from \in 1 .. Size, h.to \in h.from .. Size
    PROVE  HunkBack(h) = (SubSeq(script, 1, h.from - 1) \o BackLines(HunkLines(h)))
                           \o SubSeq(script, h.to + 1, Size)
<1> DEFINE M == HunkBack(h)
           f == h.from
           t == h.to
           e == f - 1
           g == t + 1
<1>1. Size \in Nat /\ DOMAIN script = 1 .. Size /\ \A i \in 1 .. Size : script[i] \in Lines
  BY ScriptPlaces
<1>2. /\ e \in Int /\ g \in Int /\ f \in Int /\ t \in Int
      /\ f \in 1 .. Size /\ t \in f .. Size /\ e < f /\ t < g
  BY <1>1
<1>3. \A i \in 1 .. Size : M[i] = IF i \in f .. t THEN Back(script[i]) ELSE script[i]
  BY <1>1 DEF HunkBack, Back
<1>4. M \in Seq(Lines) /\ Len(M) = Size
  <2>1. \A i \in 1 .. Size : (IF i \in f .. t THEN Back(script[i]) ELSE script[i]) \in Lines
    BY <1>1, BackLine
  <2>2. M = [i \in 1 .. Size |-> IF i \in f .. t THEN Back(script[i]) ELSE script[i]]
    BY <1>1 DEF HunkBack, Back
  <2> HIDE DEF M
  <2> QED
    BY <1>1, <2>1, <2>2
<1> HIDE DEF M
<1>5. M = (SubSeq(M, 1, f - 1) \o SubSeq(M, f, t)) \o SubSeq(M, t + 1, Size)
  <2> HIDE DEF f, t
  <2>1. f \in 1 .. Len(M) /\ t \in f .. Len(M)
    BY <1>2, <1>4
  <2> QED
    <3>1. M = (SubSeq(M, 1, f - 1) \o SubSeq(M, f, t)) \o SubSeq(M, t + 1, Len(M))
      <4>1. M \in Seq(Lines)
        BY <1>4
      <4> QED
        BY <2>1, <4>1, Parts
    <3> QED
      BY <1>4, <3>1
<1>6. SubSeq(M, 1, e) = SubSeq(script, 1, e)
  <2> DEFINE one == 1
  <2>1. one \in Int /\ \A k \in one .. e : M[k] = script[k]
    BY <1>1, <1>2, <1>3
  <2> HIDE DEF one, e
  <2>2. SubSeq(M, one, e) = SubSeq(script, one, e)
    BY <1>2, <2>1, SamePart
  <2> QED
    BY <2>2 DEF one
<1>7. SubSeq(M, g, Size) = SubSeq(script, g, Size)
  <2>1. Size \in Int /\ \A k \in g .. Size : M[k] = script[k]
    BY <1>1, <1>2, <1>3
  <2> HIDE DEF g
  <2> QED
    BY <1>2, <2>1, SamePart
<1>8. SubSeq(M, f, t) = BackLines(SubSeq(script, f, t))
  <2> DEFINE n == t - f + 1
             H == SubSeq(script, f, t)
  <2>1. n \in Nat /\ \A k \in 1 .. n : f + k - 1 \in f .. t /\ f + k - 1 \in 1 .. Size
    BY <1>1, <1>2
  <2>2. /\ SubSeq(M, f, t) = [k \in 1 .. n |-> M[f + k - 1]]
        /\ H = [k \in 1 .. n |-> script[f + k - 1]]
    <3>1. f \in Int /\ t \in Int
      BY <1>2
    <3> HIDE DEF f, t
    <3> QED
      BY <3>1
  <2>3. DOMAIN H = 1 .. n
    BY <2>2
  <2> HIDE DEF n, H
  <2>4. BackLines(H) = [k \in 1 .. n |-> Back(script[f + k - 1])]
    BY <2>2, <2>3 DEF BackLines
  <2>5. \A k \in 1 .. n : M[f + k - 1] = Back(script[f + k - 1])
    BY <1>3, <2>1
  <2>6. SubSeq(M, f, t) = BackLines(H)
    BY <2>2, <2>4, <2>5
  <2> QED
    BY <2>6 DEF H
<1> QED
  BY <1>5, <1>6, <1>7, <1>8 DEF M, HunkLines

(***************************************************************************)
(* What a piece writes is the new file with its hunk taken back.           *)
(***************************************************************************)
LEMMA RevertUndoes ==
    ASSUME script \in Seq(Lines), NEW h \in Hunks(0)
    PROVE  /\ Revert(h) = Undone(h)
           /\ NewCount(h) > 0 => SubSeq(NewVersion, NewStart(h), NewStart(h) + NewCount(h) - 1)
                                   = Version(SideOf(HunkLines(h), "-"))
<1> DEFINE A == SubSeq(script, 1, h.from - 1)
           H == HunkLines(h)
           B == SubSeq(script, h.to + 1, Size)
           a == Version(SideOf(A, "-"))
           m == Version(SideOf(H, "-"))
           o == Version(SideOf(H, "+"))
           b == Version(SideOf(B, "-"))
           N == (a \o m) \o b
<1>1. h.from \in 1 .. Size /\ h.to \in h.from .. Size /\ Size \in Nat
  <2> DEFINE c == 0
  <2>1. c \in Nat /\ h \in Hunks(c)
    OBVIOUS
  <2> HIDE DEF c
  <2> QED
    BY <2>1, HunkRange, ScriptPlaces
<1>2. /\ A \in Seq(Lines) /\ H \in Seq(Lines) /\ B \in Seq(Lines)
      /\ script = (A \o H) \o B
  <2> DEFINE f == h.from
             t == h.to
  <2>1. f \in 1 .. Len(script) /\ t \in f .. Len(script)
    BY <1>1 DEF Size
  <2> HIDE DEF f, t
  <2>2. /\ SubSeq(script, 1, f - 1) \in Seq(Lines) /\ SubSeq(script, f, t) \in Seq(Lines)
        /\ SubSeq(script, t + 1, Len(script)) \in Seq(Lines)
        /\ script = (SubSeq(script, 1, f - 1) \o SubSeq(script, f, t))
                      \o SubSeq(script, t + 1, Len(script))
    BY <2>1, Parts
  <2> QED
    BY <2>2 DEF f, t, HunkLines, Size
<1>3. H \in Seq(ChangedLines)
  <2>1. \A i \in h.from .. h.to : script[i] \in ChangedLines
    <3>1. \A i \in h.from .. h.to : i \in Changes
      BY HunkIsSolid
    <3> QED
      BY <3>1, ScriptPlaces DEF ChangedLines
  <2> DEFINE f == h.from
             t == h.to
  <2>2. f \in Int /\ t \in Int /\ \A i \in f .. t : script[i] \in ChangedLines
    BY <1>1, <2>1
  <2> HIDE DEF f, t
  <2>3. SubSeq(script, f, t) \in Seq(ChangedLines)
    BY <2>2, SubSeqProperties
  <2> QED
    BY <2>3 DEF f, t, HunkLines
<1>4. HunkBack(h) = (A \o BackLines(H)) \o B
  BY <1>1, HunkBackParts
<1> HIDE DEF A, H, B
<1>5. NewVersion = N
  BY <1>2, ThreeSides DEF NewVersion
<1>6. Undone(h) = (a \o o) \o b
  <2>1. BackLines(H) \in Seq(Lines)
    BY <1>2, BackType
  <2> DEFINE K == BackLines(H)
  <2>2. K \in Seq(Lines) /\ HunkBack(h) = (A \o K) \o B
    BY <1>4, <2>1
  <2>3. Version(SideOf(K, "-")) = o
    BY <1>3, BackSide
  <2> HIDE DEF K
  <2>4. Version(SideOf((A \o K) \o B, "-")) = (a \o Version(SideOf(K, "-"))) \o b
    <3>1. A \in Seq(Lines) /\ K \in Seq(Lines) /\ B \in Seq(Lines)
      BY <1>2, <2>2
    <3>2. Version(SideOf((A \o K) \o B, "-"))
            = (Version(SideOf(A, "-")) \o Version(SideOf(K, "-"))) \o Version(SideOf(B, "-"))
      BY <3>1, ThreeSides
    <3> QED
      BY <3>2
  <2>5. Undone(h) = Version(SideOf(HunkBack(h), "-"))
    BY DEF Undone, HunkBack
  <2> QED
    BY <2>2, <2>3, <2>4, <2>5
<1>7. OldLines(Printed(H)) = o
  BY <1>3, OldPrinted
<1>8. /\ a \in Seq(Texts) /\ Len(a) = Len(SideOf(A, "-")) /\ b \in Seq(Texts)
      /\ m \in Seq(Texts) /\ Len(m) = Len(SideOf(H, "-"))
  BY <1>2, SideType, VersionType
<1>9. NewCount(h) = Len(m)
  BY <1>8 DEF NewCount, H
<1>10. NewStart(h) = IF Len(m) = 0 THEN Len(a) ELSE Len(a) + 1
  BY <1>8, <1>9 DEF NewStart, A
<1> HIDE DEF a, m, b, o
<1>11. /\ SubSeq(N, 1, Len(a)) = a /\ SubSeq(N, Len(a) + 1, Len(a) + Len(m)) = m
       /\ SubSeq(N, Len(a) + Len(m) + 1, Len(N)) = b
       /\ Len(N) = Len(a) + Len(m) + Len(b)
  <2>1. a \in Seq(Texts) /\ m \in Seq(Texts) /\ b \in Seq(Texts)
    BY <1>8
  <2> HIDE DEF N
  <2>2. /\ SubSeq((a \o m) \o b, 1, Len(a)) = a
        /\ SubSeq((a \o m) \o b, Len(a) + 1, Len(a) + Len(m)) = m
        /\ SubSeq((a \o m) \o b, Len(a) + Len(m) + 1, Len((a \o m) \o b)) = b
        /\ Len((a \o m) \o b) = Len(a) + Len(m) + Len(b)
    BY <2>1, PartOfConcat
  <2> QED
    BY <2>2 DEF N
<1>12. Len(a) \in Nat /\ Len(m) \in Nat /\ Len(b) \in Nat
  BY <1>8, LenProperties
<1> HIDE DEF N
<1>13. SpliceAt(NewStart(h), NewCount(h)) = Len(a)
  BY <1>9, <1>10, <1>12 DEF SpliceAt
<1>14. Revert(h) = (a \o o) \o b
  <2>1. Revert(h) = IF Len(a) < 0 \/ Len(a) + Len(m) > Len(N) THEN Outside
                    ELSE SubSeq(N, 1, Len(a)) \o o \o SubSeq(N, Len(a) + Len(m) + 1, Len(N))
    BY <1>5, <1>7, <1>9, <1>13 DEF Revert, H
  <2>2. ~(Len(a) < 0 \/ Len(a) + Len(m) > Len(N))
    BY <1>11, <1>12
  <2> QED
    BY <1>11, <2>1, <2>2
<1>15. ASSUME NewCount(h) > 0
       PROVE  SubSeq(NewVersion, NewStart(h), NewStart(h) + NewCount(h) - 1) = m
  <2>1. NewStart(h) = Len(a) + 1 /\ NewStart(h) + NewCount(h) - 1 = Len(a) + Len(m)
    BY <1>9, <1>10, <1>12, <1>15
  <2> QED
    BY <1>5, <1>11, <2>1
<1> QED
  BY <1>6, <1>14, <1>15 DEF m, H

\* Every line of a hunk is printed.
LEMMA PrintedHas ==
    ASSUME NEW s \in Seq(Lines)
    PROVE  \A k \in 1 .. Len(s) : \E j \in DOMAIN Printed(s) : Printed(s)[j] = s[k]
<1> DEFINE T == {u \in Seq(Lines) :
                   \A k \in 1 .. Len(u) : \E j \in 1 .. Len(Printed(u)) : Printed(u)[j] = u[k]}
<1>1. <<>> \in T
  BY EmptySeq
<1>2. ASSUME NEW u \in T, NEW e \in Lines PROVE Append(u, e) \in T
  <2> DEFINE t == Append(u, e)
             b == Printed(u)
             d == PrintedLine(e)
             c == b \o d
  <2>1. u \in Seq(Lines) /\ \A k \in 1 .. Len(u) : \E j \in 1 .. Len(b) : b[j] = u[k]
    OBVIOUS
  <2>2. b \in Seq(DiffLines) /\ Printed(t) = c
    BY <2>1, PrintedAppend
  <2>3. d \in Seq(DiffLines) /\ d # <<>>
    BY OldOfLine
  <2>4. d[1] = e
    BY DEF PrintedLine
  <2>5. /\ t \in Seq(Lines) /\ Len(t) = Len(u) + 1 /\ t[Len(u) + 1] = e
        /\ \A k \in 1 .. Len(u) : t[k] = u[k]
    BY <2>1, AppendProperties
  <2> HIDE DEF t, b, d
  <2>6. /\ Len(c) = Len(b) + Len(d)
        /\ \A i \in 1 .. Len(b) + Len(d) : c[i] = IF i <= Len(b) THEN b[i] ELSE d[i - Len(b)]
    BY <2>2, <2>3, ConcatProperties
  <2>7. Len(b) \in Nat /\ Len(d) \in Nat \ {0} /\ Len(u) \in Nat
    BY <2>1, <2>2, <2>3, LenProperties, EmptySeq
  <2> HIDE DEF c
  <2>8. ASSUME NEW k \in 1 .. Len(t) PROVE \E j \in 1 .. Len(c) : c[j] = t[k]
    <3>1. CASE k \in 1 .. Len(u)
      <4>1. PICK j \in 1 .. Len(b) : b[j] = u[k]
        BY <2>1, <3>1
      <4>2. j \in 1 .. Len(c) /\ c[j] = b[j]
        BY <2>6, <2>7
      <4> QED
        BY <2>5, <3>1, <4>1, <4>2
    <3>2. CASE k = Len(u) + 1
      <4> DEFINE j == Len(b) + 1
      <4>1. j \in 1 .. Len(b) + Len(d) /\ ~(j <= Len(b)) /\ j - Len(b) = 1
        BY <2>7
      <4> HIDE DEF j
      <4>2. j \in 1 .. Len(c) /\ c[j] = d[1]
        BY <2>6, <4>1
      <4> QED
        BY <2>4, <2>5, <3>2, <4>2
    <3> QED
      BY <2>5, <2>7, <3>1, <3>2
  <2> QED
    BY <2>2, <2>5, <2>8 DEF t
<1>3. T \in SUBSET Seq(Lines)
  OBVIOUS
<1> HIDE DEF T
<1>4. T = Seq(Lines)
  BY <1>1, <1>2, <1>3, SeqInduction
<1>5. s \in T
  BY <1>4
<1>6. DOMAIN Printed(s) = 1 .. Len(Printed(s))
  <2>1. NoNewline \in DiffLines
    BY NotALine
  <2>2. Printed(s) \in Seq(DiffLines)
    <3>1. \E e : e \in Lines
      <4> DEFINE e == [sign |-> "+", text |-> "one", nl |-> TRUE]
      <4>1. e \in Lines
        BY DEF Lines, CodeTexts
      <4> QED
        BY <4>1
    <3> QED
      BY <3>1, PrintedAppend
  <2> QED
    BY <2>2, LenProperties
<1> QED
  BY <1>5, <1>6 DEF T

-----------------------------------------------------------------------------

(***************************************************************************)
(* A script is made of lines of the signs its file can have, a test is     *)
(* declared once on a side, and above a method is the class it is in.      *)
(***************************************************************************)
ScriptTyped ==
    /\ file \in CodeFiles \cup TestFiles
    /\ context \in Nat
    /\ script \in Seq(Lines)
    /\ \A i \in 1 .. Size : script[i].sign \in SignsOf(file)

\* No test is declared twice on a side.
DeclaredOnce ==
    \A i, j \in 1 .. Size :
      /\ i # j /\ SameSide(script[i].sign, script[j].sign)
      /\ script[i].text \in Names
      => script[j].text # script[i].text

\* The top level line that a method is under is on its side, and no test.
InClass ==
    \A i \in 1 .. Size : script[i].text \in Methods =>
      \E t \in 1 .. i - 1 :
        /\ script[t].text = "top" /\ script[t].sign \in {" ", script[i].sign}
        /\ \A j \in t + 1 .. i - 1 : script[j].text \notin TopLevel

\* The inductive invariant of a script.
ScriptInv == ScriptTyped /\ DeclaredOnce /\ InClass

LEMMA ScriptInitInv == ScriptInit => ScriptInv
<1> SUFFICES ASSUME ScriptInit PROVE ScriptInv
  OBVIOUS
<1>1. script = <<>> /\ Size = 0
  BY EmptySeq DEF ScriptInit, Size
<1>2. file \in CodeFiles \cup TestFiles /\ context \in Nat
  BY ScriptAssumption DEF ScriptInit
<1>3. script \in Seq(Lines)
  BY <1>1, EmptySeq
<1>4. \A i : i \notin 1 .. Size
  BY <1>1
<1> QED
  BY <1>2, <1>3, <1>4 DEF ScriptInv, ScriptTyped, DeclaredOnce, InClass

LEMMA ScriptStep == ScriptInv /\ [AddLine]_scriptVars => ScriptInv'
<1> SUFFICES ASSUME ScriptInv, [AddLine]_scriptVars PROVE ScriptInv'
  OBVIOUS
<1>1. CASE UNCHANGED scriptVars
  BY <1>1 DEF scriptVars, ScriptInv, ScriptTyped, DeclaredOnce, InClass, Size
<1>2. CASE AddLine
  <2> DEFINE n == Size
  <2>1. /\ script \in Seq(Lines) /\ file \in CodeFiles \cup TestFiles /\ context \in Nat
        /\ \A i \in 1 .. n : script[i].sign \in SignsOf(file)
    BY DEF ScriptInv, ScriptTyped
  <2>2. file' = file /\ context' = context
    BY <1>2 DEF AddLine
  <2>3. PICK l \in Lines : /\ MayFollow(l) /\ script' = Append(script, l)
                           /\ l.sign \in SignsOf(file)
    <3>1. PICK sign \in SignsOf(file) :
            \E l \in IF file \in CodeFiles
                     THEN [sign : {sign}, text : CodeTexts, nl : BOOLEAN]
                     ELSE [sign : {sign}, text : TestTexts, nl : {TRUE}] :
              MayFollow(l) /\ script' = Append(script, l)
      BY <1>2 DEF AddLine
    <3>2. PICK l \in IF file \in CodeFiles
                     THEN [sign : {sign}, text : CodeTexts, nl : BOOLEAN]
                     ELSE [sign : {sign}, text : TestTexts, nl : {TRUE}] :
              MayFollow(l) /\ script' = Append(script, l)
      BY <3>1
    <3>3. sign \in {" ", "-", "+"}
      BY DEF SignsOf
    <3>4. l \in Lines /\ l.sign = sign
      BY <3>3 DEF Lines
    <3> QED
      BY <3>2, <3>4
  <2>4. n \in Nat /\ DOMAIN script = 1 .. n
    BY <2>1, ScriptPlaces
  <2>5. /\ script' \in Seq(Lines) /\ Size' = n + 1 /\ script'[n + 1] = l
        /\ \A i \in 1 .. n : script'[i] = script[i]
    BY <2>1, <2>3, AppendProperties DEF Size
  <2> HIDE DEF n
  <2>6. ScriptTyped'
    <3>1. \A i \in 1 .. n + 1 : script'[i].sign \in SignsOf(file)
      <4> TAKE i \in 1 .. n + 1
      <4>1. i \in 1 .. n \/ i = n + 1
        BY <2>4
      <4> QED
        BY <2>1, <2>3, <2>5, <4>1
    <3> QED
      BY <2>1, <2>2, <2>5, <3>1 DEF ScriptTyped
  <2>7. DeclaredOnce'
    <3>1. ASSUME NEW i \in 1 .. n + 1, NEW j \in 1 .. n + 1, i # j,
                 SameSide(script'[i].sign, script'[j].sign), script'[i].text \in Names
          PROVE  script'[j].text # script'[i].text
      <4>1. \A k \in 1 .. n : SameSide(l.sign, script[k].sign) =>
                (l.text \in Names => script[k].text # l.text)
        BY <2>3, <2>4 DEF MayFollow
      <4>2. CASE i \in 1 .. n /\ j \in 1 .. n
        <5>1. script'[i] = script[i] /\ script'[j] = script[j]
          BY <2>5, <4>2
        <5> QED
          BY <3>1, <4>2, <5>1 DEF ScriptInv, DeclaredOnce, n
      <4>3. CASE i = n + 1 /\ j \in 1 .. n
        BY <2>5, <3>1, <4>1, <4>3
      <4>4. CASE i \in 1 .. n /\ j = n + 1
        <5>1. script'[i] = script[i] /\ script'[j] = l
          BY <2>5, <4>4
        <5>2. SameSide(l.sign, script[i].sign)
          BY <3>1, <5>1 DEF SameSide
        <5> QED
          BY <3>1, <4>1, <4>4, <5>1, <5>2
      <4> QED
        BY <2>4, <3>1, <4>2, <4>3, <4>4
    <3> QED
      BY <2>5, <3>1 DEF DeclaredOnce, SameSide
  <2>8. InClass'
    <3>1. ASSUME NEW i \in 1 .. n + 1, script'[i].text \in Methods
          PROVE  \E t \in 1 .. i - 1 :
                   /\ script'[t].text = "top" /\ script'[t].sign \in {" ", script'[i].sign}
                   /\ \A j \in t + 1 .. i - 1 : script'[j].text \notin TopLevel
      <4>1. CASE i \in 1 .. n
        <5>1. script'[i] = script[i]
          BY <2>5, <4>1
        <5>2. PICK t \in 1 .. i - 1 :
                   /\ script[t].text = "top" /\ script[t].sign \in {" ", script[i].sign}
                   /\ \A j \in t + 1 .. i - 1 : script[j].text \notin TopLevel
          BY <3>1, <4>1, <5>1 DEF ScriptInv, InClass, n
        <5>3. \A j \in 1 .. i - 1 : script'[j] = script[j]
          BY <2>4, <2>5, <4>1
        <5>4. script'[t] = script[t]
          BY <5>2, <5>3
        <5>5. \A j \in t + 1 .. i - 1 : script'[j].text \notin TopLevel
          <6> TAKE j \in t + 1 .. i - 1
          <6>1. j \in 1 .. i - 1
            BY <2>4, <4>1
          <6> QED
            BY <5>2, <5>3, <6>1
        <5> QED
          BY <5>1, <5>2, <5>4, <5>5
      <4>2. CASE i = n + 1
        <5> DEFINE S == {j \in 1 .. n : script[j].text \in TopLevel}
                   t == Nearest(n + 1, S)
        <5>1. l.text \in Methods
          BY <2>5, <3>1, <4>2
        <5>2. t > 0 /\ script[t].text = "top" /\ script[t].sign \in {" ", l.sign}
          BY <2>3, <2>4, <5>1 DEF MayFollow, n, Size
        <5>3. S \in SUBSET (1 .. n) /\ n + 1 \in Int
          BY <2>4
        <5>4. t \in 0 .. n /\ (\A j \in S : j < n + 1 => j <= t) /\ (t = 0 \/ t \in S)
          <6> DEFINE m == n + 1
          <6> HIDE DEF m, S
          <6>1. S \in SUBSET (1 .. n) /\ m \in Int
            BY <5>3 DEF m
          <6>2. /\ Nearest(m, S) \in 0 .. n /\ \A j \in S : j < m => j <= Nearest(m, S)
                /\ Nearest(m, S) = 0 \/ Nearest(m, S) \in S
            BY <2>4, <6>1, NearestFacts
          <6> QED
            BY <6>2 DEF m
        <5> HIDE DEF t
        <5>5. t \in 1 .. n
          <6>1. t > 0 /\ t \in 0 .. n
            BY <5>2, <5>4
          <6> QED
            BY <2>4, <6>1
        <5>6. script'[t] = script[t] /\ t \in 1 .. i - 1
          BY <2>4, <2>5, <4>2, <5>5
        <5>7. ASSUME NEW j \in t + 1 .. i - 1 PROVE script'[j].text \notin TopLevel
          <6>1. j \in 1 .. n /\ j < n + 1 /\ ~(j <= t)
            BY <2>4, <4>2, <5>5
          <6>2. j \notin S
            BY <5>4, <6>1
          <6> QED
            BY <2>5, <6>1, <6>2
        <5> QED
          BY <2>5, <4>2, <5>2, <5>6, <5>7
      <4>3. i \in 1 .. n \/ i = n + 1
        BY <2>4
      <4> QED
        BY <4>1, <4>2, <4>3
    <3> QED
      BY <2>5, <3>1 DEF InClass, TopLevel
  <2> QED
    BY <2>6, <2>7, <2>8 DEF ScriptInv
<1> QED
  BY <1>1, <1>2

LEMMA ScriptHolds == ScriptSpec => []ScriptInv
<1>1. ScriptInit => ScriptInv
  BY ScriptInitInv
<1>2. ScriptInv /\ [AddLine]_scriptVars => ScriptInv'
  BY ScriptStep
<1> QED
  BY <1>1, <1>2, PTL DEF ScriptSpec

(***************************************************************************)
(* UndoesOnePiece: whatever the change, a piece takes back one hunk of it. *)
(***************************************************************************)
THEOREM PiecesUndo == ScriptSpec => []UndoesOnePiece
<1>1. ScriptInv => UndoesOnePiece
  <2> SUFFICES ASSUME ScriptInv PROVE UndoesOnePiece
    OBVIOUS
  <2>1. script \in Seq(Lines)
    BY DEF ScriptInv, ScriptTyped
  <2>2. ASSUME file = "edited", NEW p \in Pieces
        PROVE  \E h \in Hunks(0) :
                 /\ p.revert = Undone(h)
                 /\ p.lines > 0 => SubSeq(NewVersion, p.line, p.line + p.lines - 1)
                                     = Version(SideOf(HunkLines(h), "-"))
    <3>1. p \in FileHunks
      BY <2>2 DEF Pieces
    <3>2. PICK h \in Hunks(0) :
            p = [line |-> NewStart(h), lines |-> NewCount(h), revert |-> Revert(h)]
      BY <3>1 DEF FileHunks
    <3>3. p.line = NewStart(h) /\ p.lines = NewCount(h) /\ p.revert = Revert(h)
      BY <3>2
    <3> QED
      BY <2>1, <3>3, RevertUndoes
  <2>3. ASSUME file \in {"added", "deleted"}
        PROVE  {p.revert : p \in Pieces} = {IF file = "added" THEN Absent ELSE OldVersion}
    <3>1. CASE file = "added"
      <4> DEFINE p == [line |-> 0, revert |-> Absent,
                       lines |-> Cardinality({i \in DOMAIN NewVersion : NewVersion[i].nl})]
      <4>1. p.revert = Absent
        OBVIOUS
      <4>2. Pieces = {p}
        BY <3>1 DEF Pieces
      <4> HIDE DEF p
      <4> QED
        BY <3>1, <4>1, <4>2
    <3>2. CASE file = "deleted"
      <4> DEFINE p == [line |-> 0, lines |-> 0, revert |-> OldVersion]
      <4>1. p.revert = OldVersion
        OBVIOUS
      <4>2. Pieces = {p}
        BY <3>2 DEF Pieces
      <4> HIDE DEF p
      <4> QED
        BY <3>2, <4>1, <4>2
    <3> QED
      BY <2>3, <3>1, <3>2
  <2> QED
    BY <2>2, <2>3 DEF UndoesOnePiece
<1> QED
  BY <1>1, ScriptHolds, PTL

(***************************************************************************)
(* PiecesCoverTheCode: whatever the change, no line of it that does        *)
(* something is left out of the pieces.                                    *)
(***************************************************************************)
THEOREM PiecesCover == ScriptSpec => []PiecesCoverTheCode
<1>1. ScriptInv => PiecesCoverTheCode
  <2> SUFFICES ASSUME ScriptInv, file = "edited",
                      NEW i \in Changes, ~CommentOnly(script[i].text)
               PROVE  \E p \in Pieces, h \in Hunks(0) :
                        i \in h.from .. h.to /\ p.revert = Undone(h)
    BY DEF PiecesCoverTheCode
  <2>1. script \in Seq(Lines)
    BY DEF ScriptInv, ScriptTyped
  <2>2. PICK h \in Hunks(0) : i \in h.from .. h.to
    <3> DEFINE c == 0
    <3>1. c \in Nat
      OBVIOUS
    <3> HIDE DEF c
    <3>2. \E h \in Hunks(c) : i \in h.from .. h.to
      BY <2>1, <3>1, HunksCover
    <3> QED
      BY <3>2 DEF c
  <2>3. h.from \in 1 .. Size /\ h.to \in h.from .. Size /\ Size \in Nat
    <3> DEFINE c == 0
    <3>1. c \in Nat /\ h \in Hunks(c)
      OBVIOUS
    <3> HIDE DEF c
    <3> QED
      BY <2>1, <3>1, HunkRange, ScriptPlaces
  <2> DEFINE s == HunkLines(h)
             k == i - h.from + 1
  <2>4. s \in Seq(Lines) /\ k \in 1 .. Len(s) /\ s[k] = script[i]
    <3> DEFINE f == h.from
               t == h.to
    <3>1. f \in Int /\ t \in Int /\ f <= t /\ i \in f .. t /\ \A j \in f .. t : script[j] \in Lines
      <4>1. f \in Int /\ t \in Int /\ f <= t /\ i \in f .. t
        BY <2>2, <2>3
      <4>2. \A j \in f .. t : j \in 1 .. Size
        BY <2>3
      <4>3. \A j \in 1 .. Size : script[j] \in Lines
        BY <2>1, ScriptPlaces
      <4> QED
        BY <4>1, <4>2, <4>3
    <3> HIDE DEF f, t
    <3>2. /\ SubSeq(script, f, t) \in Seq(Lines) /\ Len(SubSeq(script, f, t)) = t - f + 1
          /\ \A j \in 1 .. t - f + 1 : SubSeq(script, f, t)[j] = script[f + j - 1]
      BY <3>1, SubSeqProperties
    <3>3. i - f + 1 \in 1 .. t - f + 1 /\ f + (i - f + 1) - 1 = i
      BY <3>1
    <3>4. SubSeq(script, f, t)[i - f + 1] = script[i]
      BY <3>2, <3>3
    <3> QED
      BY <3>2, <3>3, <3>4 DEF f, t, HunkLines
  <2> HIDE DEF s, k
  <2>5. PICK j \in DOMAIN Printed(s) : Printed(s)[j] = script[i]
    BY <2>4, PrintedHas
  <2>6. script[i].sign # "\\"
    BY <2>1, NotALine, ScriptPlaces
  <2>7. Behavioral(Printed(s))
    BY <2>5, <2>6 DEF Behavioral
  <2> DEFINE p == [line |-> NewStart(h), lines |-> NewCount(h), revert |-> Revert(h)]
  <2>8. p \in Pieces
    BY <2>7 DEF Pieces, FileHunks, s
  <2>9. p.revert = Undone(h)
    BY <2>1, RevertUndoes
  <2> QED
    BY <2>2, <2>8, <2>9
<1> QED
  BY <1>1, ScriptHolds, PTL

-----------------------------------------------------------------------------
(* The lines of a side, and the tests it declares *)

\* A text is in a sequence of lines, and on the side of it without `gone'.
HasText(s, x) == \E i \in 1 .. Len(s) : s[i].text = x
HasTextOn(s, gone, x) == \E i \in 1 .. Len(s) : s[i].sign # gone /\ s[i].text = x

LEMMA SideTexts ==
    ASSUME NEW s \in Seq(Lines), NEW gone, NEW x
    PROVE  HasText(SideOf(s, gone), x) <=> HasTextOn(s, gone, x)
<1> DEFINE T == {u \in Seq(Lines) :
                   (\E i \in 1 .. Len(SideOf(u, gone)) : SideOf(u, gone)[i].text = x)
                     <=> (\E i \in 1 .. Len(u) : u[i].sign # gone /\ u[i].text = x)}
<1>1. <<>> \in T
  <2> DEFINE e == <<>>
  <2>1. e \in Seq(Lines) /\ 1 .. Len(e) = {}
    BY EmptySeq
  <2> HIDE DEF e
  <2>2. e \in T
    <3>1. SideOf(e, gone) = e
      BY SideEmpty DEF e
    <3> QED
      BY <2>1, <3>1
  <2> QED
    BY <2>2 DEF e
<1>2. ASSUME NEW u \in T, NEW e \in Lines PROVE Append(u, e) \in T
  <2> DEFINE a == SideOf(u, gone)
             t == Append(u, e)
             b == SideOf(t, gone)
             c == Append(a, e)
  <2>1. /\ u \in Seq(Lines)
        /\ (\E i \in 1 .. Len(a) : a[i].text = x)
             <=> (\E i \in 1 .. Len(u) : u[i].sign # gone /\ u[i].text = x)
    OBVIOUS
  <2>2. a \in Seq(Lines) /\ b = IF e.sign = gone THEN a ELSE c
    BY <2>1, SideAppend
  <2>3. /\ t \in Seq(Lines) /\ Len(t) = Len(u) + 1 /\ t[Len(u) + 1] = e
        /\ \A i \in 1 .. Len(u) : t[i] = u[i]
    BY <2>1, AppendProperties
  <2> HIDE DEF a, b, t
  <2>4. /\ Len(c) = Len(a) + 1 /\ c[Len(a) + 1] = e
        /\ \A i \in 1 .. Len(a) : c[i] = a[i]
    BY <2>2, AppendProperties
  <2>5. Len(a) \in Nat /\ Len(u) \in Nat
    BY <2>1, <2>2, LenProperties
  <2> HIDE DEF c
  <2>6. (\E i \in 1 .. Len(t) : t[i].sign # gone /\ t[i].text = x)
          <=> \/ \E i \in 1 .. Len(u) : u[i].sign # gone /\ u[i].text = x
              \/ e.sign # gone /\ e.text = x
    <3>1. \A i : i \in 1 .. Len(t) <=> i \in 1 .. Len(u) \/ i = Len(u) + 1
      BY <2>3, <2>5
    <3> QED
      BY <2>3, <3>1
  <2>7. (\E i \in 1 .. Len(c) : c[i].text = x)
          <=> (\E i \in 1 .. Len(a) : a[i].text = x) \/ e.text = x
    <3>1. \A i : i \in 1 .. Len(c) <=> i \in 1 .. Len(a) \/ i = Len(a) + 1
      BY <2>4, <2>5
    <3> QED
      BY <2>4, <3>1
  <2>8. (\E i \in 1 .. Len(b) : b[i].text = x)
          <=> (\E i \in 1 .. Len(t) : t[i].sign # gone /\ t[i].text = x)
    <3>1. CASE e.sign = gone
      BY <2>1, <2>2, <2>6, <3>1
    <3>2. CASE e.sign # gone
      BY <2>1, <2>2, <2>6, <2>7, <3>2
    <3> QED
      BY <3>1, <3>2
  <2> QED
    BY <2>3, <2>8 DEF b, t
<1>3. T \in SUBSET Seq(Lines)
  OBVIOUS
<1> HIDE DEF T
<1>4. T = Seq(Lines)
  BY <1>1, <1>2, <1>3, SeqInduction
<1>5. s \in T
  BY <1>4
<1> QED
  BY <1>5 DEF T, HasText, HasTextOn

\* A test is declared in a version if a line of that side declares it.
LEMMA DeclaredOn ==
    ASSUME script \in Seq(Lines), NEW gone, NEW x
    PROVE  x \in Declared(Version(SideOf(script, gone)))
             <=> x \in Names /\ \E i \in 1 .. Size : script[i].sign # gone /\ script[i].text = x
<1> DEFINE a == SideOf(script, gone)
           v == Version(a)
<1>1. a \in Seq(Lines)
  BY SideType
<1>2. HasText(a, x) <=> HasTextOn(script, gone, x)
  BY SideTexts
<1> HIDE DEF a
<1>3. v \in Seq(Texts) /\ Len(v) = Len(a) /\ \A i \in 1 .. Len(a) : v[i] = TextOf(a[i])
  BY <1>1, VersionType
<1> HIDE DEF v
<1>4. DOMAIN v = 1 .. Len(a)
  BY <1>3, LenProperties
<1>5. \A i \in 1 .. Len(a) : v[i].text = a[i].text
  <2> TAKE i \in 1 .. Len(a)
  <2>1. TextOf(a[i]).text = a[i].text
    BY DEF TextOf
  <2>2. v[i] = TextOf(a[i])
    BY <1>3
  <2> QED
    BY <2>1, <2>2
<1>6. x \in {v[i].text : i \in DOMAIN v} <=> HasText(a, x)
  BY <1>4, <1>5 DEF HasText
<1> QED
  BY <1>2, <1>6 DEF HasTextOn, Size, Declared, v, a

-----------------------------------------------------------------------------
(* How a hunk is read *)

\* What the reader of a hunk keeps.
Readings == [current : Names \cup {NoTest}, names : SUBSET (Names \cup {NoTest})]

(***************************************************************************)
(* The test that a line leaves the reader in, and the names it adds.       *)
(***************************************************************************)
Takes(current, l) ==
    IF l.text \in Names THEN IF l.sign = "-" THEN NoTest ELSE l.text ELSE current
Adds(current, l) ==
    {name \in {current, l.text} :
       \/ name = l.text /\ l.text \in Names /\ l.sign = "+"
       \/ name = current /\ l.text \notin Names /\ l.sign # " " /\ l.text # "blank"}

\* A line changes the test the reader is in, and adds to the names.
LEMMA ReadLineIs ==
    ASSUME NEW r \in Readings, NEW l \in Lines
    PROVE  /\ ReadLine(r, l) \in Readings
           /\ ReadLine(r, l).current = Takes(r.current, l)
           /\ ReadLine(r, l).names = r.names \cup Adds(r.current, l)
<1> DEFINE q == ReadLine(r, l)
           c == r.current
           N == r.names
           D == Names \cup {NoTest}
<1>1. c \in D /\ N \in SUBSET D /\ l.sign \in {" ", "-", "+"} /\ r = [current |-> c, names |-> N]
  BY DEF Readings, Lines
<1>2. \A x \in D, M \in SUBSET D : [current |-> x, names |-> M] \in Readings
  BY DEF Readings
<1>3. CASE l.text \in Names /\ l.sign = "+"
  <2>1. q = [current |-> l.text, names |-> N \cup {l.text}]
    BY <1>3 DEF ReadLine
  <2>2. l.text \in D /\ N \cup {l.text} \in SUBSET D
    BY <1>1, <1>3
  <2>3. Takes(c, l) = l.text /\ Adds(c, l) = {l.text}
    BY <1>3 DEF Takes, Adds
  <2> HIDE DEF D, N, c
  <2> QED
    BY <1>2, <2>1, <2>2, <2>3 DEF N, c
<1>4. CASE l.text \in Names /\ l.sign = "-"
  <2>1. q = [current |-> NoTest, names |-> N]
    <3>1. q = [r EXCEPT !.current = NoTest]
      BY <1>4 DEF ReadLine
    <3> QED
      BY <1>1, <3>1
  <2>2. NoTest \in D /\ N \in SUBSET D
    BY <1>1
  <2>3. Takes(c, l) = NoTest /\ Adds(c, l) = {}
    BY <1>4 DEF Takes, Adds
  <2> HIDE DEF D, N, c
  <2> QED
    BY <1>2, <2>1, <2>2, <2>3 DEF N, c
<1>5. CASE l.text \in Names /\ l.sign = " "
  <2>1. q = [current |-> l.text, names |-> N]
    <3>1. q = [r EXCEPT !.current = l.text]
      BY <1>5 DEF ReadLine
    <3> QED
      BY <1>1, <3>1
  <2>2. l.text \in D /\ N \in SUBSET D
    BY <1>1, <1>5
  <2>3. Takes(c, l) = l.text /\ Adds(c, l) = {}
    BY <1>5 DEF Takes, Adds
  <2> HIDE DEF D, N, c
  <2> QED
    BY <1>2, <2>1, <2>2, <2>3 DEF N, c
<1>6. CASE l.text \notin Names /\ l.sign # " " /\ l.text # "blank"
  <2>1. q = [current |-> c, names |-> N \cup {c}]
    <3>1. q = [r EXCEPT !.names = @ \cup {r.current}]
      BY <1>6 DEF ReadLine
    <3> QED
      BY <1>1, <3>1
  <2>2. c \in D /\ N \cup {c} \in SUBSET D
    BY <1>1
  <2>3. Takes(c, l) = c /\ Adds(c, l) = {c}
    BY <1>6 DEF Takes, Adds
  <2> HIDE DEF D, N, c
  <2> QED
    BY <1>2, <2>1, <2>2, <2>3 DEF N, c
<1>7. CASE l.text \notin Names /\ ~(l.sign # " " /\ l.text # "blank")
  <2>1. q = r
    BY <1>7 DEF ReadLine
  <2>2. Takes(c, l) = c /\ Adds(c, l) = {}
    BY <1>7 DEF Takes, Adds
  <2> HIDE DEF q
  <2> QED
    BY <2>1, <2>2 DEF q
<1> QED
  BY <1>1, <1>3, <1>4, <1>5, <1>6, <1>7

\* What the reader has after 0, 1 .. N lines.
Reads(P, N, base, s) ==
    /\ P \in [0 .. N -> Readings]
    /\ P[0] = base
    /\ \A k \in 1 .. N : P[k] = ReadLine(P[k - 1], s[k])

LEMMA ReadUnfolds ==
    ASSUME NEW s \in Seq(Lines), NEW base \in Readings
    PROVE  \E P : Reads(P, Len(s), base, s) /\ FoldLeft(ReadLine, base, s) = P[Len(s)]
<1> DEFINE N == Len(s)
           step == [x \in Readings \X (1 .. N) |-> ReadLine(x[1], s[x[2]])]
           Rec(g) == [T \in SUBSET (1 .. N) |->
                        IF T = {} THEN base ELSE ReadLine(g[T \ {Max(T)}], s[Max(T)])]
           g == CHOOSE h : h = Rec(h)
<1>1. N \in Nat /\ DOMAIN s = 1 .. N /\ \A k \in 1 .. N : s[k] \in Lines
  BY LenProperties, ElementOfSeq
<1> HIDE DEF N
<1>2. FoldLeft(ReadLine, base, s) = g[1 .. N]
  <2>1. FoldLeft(ReadLine, base, s) = (CHOOSE h : h = [T \in SUBSET DOMAIN s |->
                      IF T = {} THEN base ELSE ReadLine(h[T \ {Max(T)}], s[Max(T)])])[DOMAIN s]
    BY DEF FoldLeft, MapThenFoldSet
  <2> QED
    BY <1>1, <2>1
<1>3. \A v \in Readings, k \in 1 .. N : step[<<v, k>>] = ReadLine(v, s[k])
  OBVIOUS
<1>4. step \in [Readings \X (1 .. N) -> Readings]
  <2>1. \A x \in Readings \X (1 .. N) : ReadLine(x[1], s[x[2]]) \in Readings
    <3> TAKE x \in Readings \X (1 .. N)
    <3>1. x[1] \in Readings /\ s[x[2]] \in Lines
      BY <1>1
    <3> QED
      BY <3>1, ReadLineIs
  <2> QED
    BY <2>1
<1>5. \A T \in SUBSET (1 .. N) : T # {} => Max(T) \in 1 .. N
  BY <1>1, LastIsIn
<1> HIDE DEF step
<1>6. \E h : h = Rec(h)
  <2>1. PICK h : FoldsOver(h, N, Readings, base, step)
    BY <1>1, <1>4, FoldExists
  <2>2. ASSUME NEW T \in SUBSET (1 .. N)
        PROVE  h[T] = IF T = {} THEN base ELSE ReadLine(h[T \ {Max(T)}], s[Max(T)])
    <3>1. CASE T = {}
      BY <2>1, <3>1 DEF FoldsOver
    <3>2. CASE T # {}
      <4>1. h[T] = step[<<h[T \ {Max(T)}], Max(T)>>]
        BY <2>1, <3>2 DEF FoldsOver
      <4>2. h[T \ {Max(T)}] \in Readings
        BY <2>1 DEF FoldsOver
      <4> QED
        BY <1>3, <1>5, <3>2, <4>1, <4>2
    <3> QED
      BY <3>1, <3>2
  <2>3. h = [T \in SUBSET (1 .. N) |-> h[T]]
    BY <2>1 DEF FoldsOver
  <2> QED
    BY <2>2, <2>3
<1>7. g = Rec(g)
  BY <1>6
<1> HIDE DEF g
<1>8. g[{}] = base
  BY <1>7
<1>9. ASSUME NEW T \in SUBSET (1 .. N), T # {}, g[T \ {Max(T)}] \in Readings
      PROVE  g[T] = step[<<g[T \ {Max(T)}], Max(T)>>]
  <2>1. g[T] = ReadLine(g[T \ {Max(T)}], s[Max(T)])
    BY <1>7, <1>9
  <2> QED
    BY <1>3, <1>5, <1>9, <2>1
<1> DEFINE P == [k \in 0 .. N |-> g[1 .. k]]
<1>10. FoldsAlong(P, N, Readings, base, step)
  <2>1. \A T \in SUBSET (1 .. N) : T # {} /\ g[T \ {Max(T)}] \in Readings
           => g[T] = step[<<g[T \ {Max(T)}], Max(T)>>]
    BY <1>9
  <2> QED
    BY <1>1, <1>4, <1>8, <2>1, FoldPrefix
<1>11. P[N] = g[1 .. N]
  BY <1>1
<1> HIDE DEF P
<1>12. Reads(P, N, base, s)
  <2>1. \A k \in 1 .. N : P[k] = ReadLine(P[k - 1], s[k])
    <3> TAKE k \in 1 .. N
    <3>1. P[k - 1] \in Readings /\ P[k] = step[<<P[k - 1], k>>]
      BY <1>1, <1>10 DEF FoldsAlong
    <3> QED
      BY <1>3, <3>1
  <2> QED
    BY <1>10, <2>1 DEF FoldsAlong, Reads
<1> QED
  BY <1>2, <1>11, <1>12 DEF N

LEMMA NearestNext ==
    ASSUME NEW N \in Nat, NEW S \in SUBSET (1 .. N), NEW i \in Nat, NEW k \in Nat, k = i + 1
    PROVE  Nearest(k, S) = IF i \in S THEN i ELSE Nearest(i, S)
<1>1. CASE i \in S
  <2>1. i < k /\ \A j \in S : j < k => j <= i
    BY <1>1
  <2>2. k \in Int
    OBVIOUS
  <2> QED
    BY <1>1, <2>1, <2>2, NearestIs
<1>2. CASE i \notin S
  <2>1. {j \in S : j < k} = {j \in S : j < i}
    <3>1. ASSUME NEW j \in S PROVE j < k <=> j < i
      <4>1. j \in 1 .. N /\ j # i
        BY <1>2
      <4> QED
        BY <4>1
    <3> QED
      BY <3>1
  <2> QED
    BY <1>2, <2>1 DEF Nearest
<1> QED
  BY <1>1, <1>2

(***************************************************************************)
(* The test that the reader of a hunk is in when it comes to line i: what  *)
(* the nearest declaration of the hunk above i leaves, or the header's.    *)
(***************************************************************************)
DeclaredIn(h) == {j \in 1 .. Size : j >= h.from /\ script[j].text \in Names}
HeldIn(h, i) ==
    LET near == Nearest(i, DeclaredIn(h))
    IN IF near = 0 THEN Decl(Label(h)) ELSE Takes(NoTest, script[near])

LEMMA HeldFirst ==
    ASSUME script \in Seq(Lines), NEW h, h.from \in 1 .. Size
    PROVE  HeldIn(h, h.from) = Decl(Label(h))
<1> DEFINE S == DeclaredIn(h)
           f == h.from
           near == Nearest(f, S)
<1>1. Size \in Nat /\ f \in 1 .. Size
  BY ScriptPlaces
<1>2. S \in SUBSET (1 .. Size) /\ \A j \in S : j >= f
  BY DEF DeclaredIn
<1> HIDE DEF S, f
<1>3. f \in Int
  BY <1>1
<1>4. near = 0 \/ (near \in S /\ near < f)
  BY <1>1, <1>2, <1>3, NearestFacts
<1> HIDE DEF near
<1>5. near = 0
  <2>1. near \in S => near \in 1 .. Size /\ near >= f
    BY <1>2
  <2> QED
    BY <1>1, <1>4, <2>1
<1> QED
  BY <1>5 DEF HeldIn, S, f, near

LEMMA HeldNext ==
    ASSUME script \in Seq(Lines), NEW h, h.from \in 1 .. Size,
           NEW i \in h.from .. Size, NEW k, k = i + 1
    PROVE  HeldIn(h, k) = Takes(HeldIn(h, i), script[i])
<1> DEFINE S == DeclaredIn(h)
<1>1. Size \in Nat /\ i \in 1 .. Size /\ i \in Nat /\ k \in Nat /\ i >= h.from
  <2>1. Size \in Nat
    BY ScriptPlaces
  <2> QED
    BY <2>1
<1>2. S \in SUBSET (1 .. Size) /\ (i \in S <=> script[i].text \in Names)
  BY <1>1 DEF DeclaredIn
<1> HIDE DEF S
<1>3. Nearest(k, S) = IF i \in S THEN i ELSE Nearest(i, S)
  BY <1>1, <1>2, NearestNext
<1>4. CASE i \in S
  <2>1. HeldIn(h, k) = Takes(NoTest, script[i])
    BY <1>1, <1>3, <1>4 DEF HeldIn, S
  <2> QED
    BY <1>2, <1>4, <2>1 DEF Takes
<1>5. CASE i \notin S
  <2>1. HeldIn(h, k) = HeldIn(h, i)
    BY <1>3, <1>5 DEF HeldIn, S
  <2> QED
    BY <1>2, <1>5, <2>1 DEF Takes
<1> QED
  BY <1>4, <1>5

(***************************************************************************)
(* What a hunk gives: what its lines add to the test they are read in.     *)
(***************************************************************************)
LEMMA HunkGives ==
    ASSUME script \in Seq(Lines), NEW h, h.from \in 1 .. Size, h.to \in h.from .. Size,
           NEW name
    PROVE  name \in ReadHunk(h)
             <=> \E i \in h.from .. h.to : name \in Adds(HeldIn(h, i), script[i])
<1> DEFINE f == h.from
           t == h.to
           n == t - f + 1
           s == SubSeq(script, f, t)
           base == [current |-> Decl(Label(h)), names |-> {}]
<1>1. /\ Size \in Nat /\ f \in 1 .. Size /\ t \in f .. Size /\ f \in Int /\ t \in Int
      /\ n \in Nat /\ n >= 1 /\ f + n - 1 = t
  <2>1. Size \in Nat /\ f \in 1 .. Size /\ t \in f .. Size
    BY ScriptPlaces
  <2> HIDE DEF f, t
  <2> QED
    BY <2>1
<1>2. s \in Seq(Lines) /\ Len(s) = n /\ \A k \in 1 .. n : s[k] = script[f + k - 1]
  <2>1. \A j \in f .. t : script[j] \in Lines
    <3>1. \A j \in f .. t : j \in 1 .. Size
      BY <1>1
    <3> QED
      BY <3>1, ScriptPlaces
  <2> HIDE DEF f, t
  <2>2. /\ SubSeq(script, f, t) \in Seq(Lines) /\ Len(SubSeq(script, f, t)) = t - f + 1
        /\ \A k \in 1 .. t - f + 1 : SubSeq(script, f, t)[k] = script[f + k - 1]
    BY <1>1, <2>1, SubSeqProperties
  <2> QED
    BY <1>1, <2>2
<1>3. base \in Readings
  BY DEF Readings, Decl
<1>4. ReadHunk(h) = FoldLeft(ReadLine, base, s).names
  BY DEF ReadHunk, HunkLines
<1>5. base.current = HeldIn(h, f) /\ base.names = {}
  BY HeldFirst
<1> HIDE DEF s, base
<1>6. PICK P : Reads(P, Len(s), base, s) /\ FoldLeft(ReadLine, base, s) = P[Len(s)]
  BY <1>2, <1>3, ReadUnfolds
<1>7. /\ P \in [0 .. n -> Readings] /\ P[0] = base
      /\ \A k \in 1 .. n : P[k] = ReadLine(P[k - 1], s[k])
  BY <1>2, <1>6 DEF Reads
<1>8. \A i \in f .. t : i \in h.from .. Size /\ i \in 1 .. Size
  BY <1>1
<1> DEFINE Gives(k) == \E i \in f .. f + k - 1 : name \in Adds(HeldIn(h, i), script[i])
           Kept(k) == /\ P[k].current = HeldIn(h, f + k)
                      /\ name \in P[k].names <=> Gives(k)
           Good == {k \in Nat : k <= n => Kept(k)}
<1> HIDE DEF f, t, n
<1>9. 0 \in Good
  <2>1. f + 0 = f /\ f .. f + 0 - 1 = {}
    BY <1>1
  <2> QED
    BY <1>5, <1>7, <2>1
<1>10. ASSUME NEW k \in Good PROVE k + 1 \in Good
  <2> DEFINE m == k + 1
             i == f + k
             l == script[i]
  <2> SUFFICES ASSUME m <= n
               PROVE  /\ P[m].current = HeldIn(h, f + m)
                      /\ name \in P[m].names <=> Gives(m)
    OBVIOUS
  <2>1. k \in Nat /\ k \in 0 .. n /\ m \in 1 .. n /\ m - 1 = k /\ i \in f .. t
        /\ f + m - 1 = i /\ f + m = i + 1
    <3>1. k \in Nat
      OBVIOUS
    <3> HIDE DEF Good, Gives, Kept, l
    <3> QED
      BY <1>1, <3>1
  <2>2. P[k].current = HeldIn(h, i) /\ (name \in P[k].names <=> Gives(k)) /\ P[k] \in Readings
    BY <1>7, <2>1
  <2>3. l \in Lines /\ s[m] = l
    <3>1. i \in 1 .. Size
      BY <1>8, <2>1
    <3> QED
      BY <1>2, <2>1, <3>1, ScriptPlaces
  <2>4. P[m] = ReadLine(P[k], l)
    BY <1>7, <2>1, <2>3
  <2> HIDE DEF l
  <2>5. /\ P[m].current = Takes(P[k].current, l)
        /\ P[m].names = P[k].names \cup Adds(P[k].current, l)
    BY <2>2, <2>3, <2>4, ReadLineIs
  <2>6. HeldIn(h, f + m) = Takes(HeldIn(h, i), l)
    <3>1. i \in h.from .. Size /\ f + m = i + 1 /\ h.from \in 1 .. Size
      BY <1>8, <2>1
    <3> HIDE DEF i, m
    <3> QED
      BY <3>1, HeldNext DEF l
  <2>7. Gives(m) <=> Gives(k) \/ name \in Adds(HeldIn(h, i), l)
    <3>1. \A j : j \in f .. f + m - 1 <=> j \in f .. f + k - 1 \/ j = i
      BY <1>1, <2>1
    <3> HIDE DEF i, m
    <3> QED
      BY <3>1 DEF l
  <2> HIDE DEF Gives, m, i
  <2> QED
    BY <2>2, <2>5, <2>6, <2>7
<1>11. Good \in SUBSET Nat
  OBVIOUS
<1>12. Good = Nat
  <2> HIDE DEF Good
  <2> QED
    BY <1>9, <1>10, <1>11, NumberInduction
<1>13. name \in P[n].names <=> Gives(n)
  <2>1. n \in Nat /\ n <= n
    BY <1>1
  <2>2. n \in Good
    <3> HIDE DEF Good
    <3> QED
      BY <1>12, <2>1
  <2>3. Kept(n)
    <3> HIDE DEF Kept
    <3> QED
      BY <2>1, <2>2
  <2> HIDE DEF Gives
  <2> QED
    BY <2>3
<1>14. f .. f + n - 1 = h.from .. h.to
  BY <1>1 DEF f, t
<1> QED
  BY <1>2, <1>4, <1>6, <1>13, <1>14

-----------------------------------------------------------------------------
(* Whose lines these are *)

\* Nothing of the set is between its nearest line and the place.
LEMMA NearestBetween ==
    ASSUME NEW N \in Nat, NEW S \in SUBSET (1 .. N), NEW i \in Int
    PROVE  /\ \A a \in S : a < i /\ (\A j \in a + 1 .. i - 1 : j \notin S)
                => Nearest(i, S) = a
           /\ (\A j \in 1 .. i - 1 : j \notin S) => Nearest(i, S) = 0
           /\ Nearest(i, S) # 0 =>
                /\ Nearest(i, S) \in S /\ Nearest(i, S) < i
                /\ \A j \in Nearest(i, S) + 1 .. i - 1 : j \notin S
           /\ Nearest(i, S) = 0 => \A j \in 1 .. i - 1 : j \notin S
<1> DEFINE b == Nearest(i, S)
<1>1. b \in 0 .. N /\ (\A j \in S : j < i => j <= b) /\ (b = 0 \/ (b \in S /\ b < i))
  BY NearestFacts
<1> HIDE DEF b
<1>2. ASSUME NEW a \in S, a < i, \A j \in a + 1 .. i - 1 : j \notin S PROVE b = a
  <2>1. \A j \in S : j < i => j <= a
    <3> SUFFICES ASSUME NEW j \in S, j < i, ~(j <= a) PROVE FALSE
      OBVIOUS
    <3>1. j \in 1 .. N /\ a \in 1 .. N
      OBVIOUS
    <3>2. j \in a + 1 .. i - 1
      BY <3>1
    <3> QED
      BY <1>2, <3>2
  <2> QED
    BY <1>2, <2>1, NearestIs DEF b
<1>3. ASSUME \A j \in 1 .. i - 1 : j \notin S PROVE b = 0
  <2> SUFFICES ASSUME b # 0 PROVE FALSE
    OBVIOUS
  <2>1. b \in S /\ b < i /\ b \in 1 .. N
    BY <1>1
  <2>2. b \in 1 .. i - 1
    BY <2>1
  <2> QED
    BY <1>3, <2>1, <2>2
<1>4. ASSUME b # 0 PROVE b \in S /\ b < i /\ \A j \in b + 1 .. i - 1 : j \notin S
  <2>1. b \in S /\ b < i /\ b \in 1 .. N
    BY <1>1, <1>4
  <2>2. ASSUME NEW j \in b + 1 .. i - 1 PROVE j \notin S
    <3>1. j < i /\ ~(j <= b)
      BY <2>1
    <3> QED
      BY <1>1, <3>1
  <2> QED
    BY <2>1, <2>2
<1>5. ASSUME b = 0 PROVE \A j \in 1 .. i - 1 : j \notin S
  <2> TAKE j \in 1 .. i - 1
  <2>1. j < i /\ ~(j <= b)
    BY <1>5
  <2> QED
    BY <1>1, <2>1
<1> QED
  BY <1>2, <1>3, <1>4, <1>5 DEF b

(***************************************************************************)
(* Whose line i is, on the side without `gone'.                            *)
(***************************************************************************)
OwnersOn(gone, Ends) ==
    {j \in DOMAIN script : script[j].sign # gone /\ script[j].text \in Names \cup Ends}

LEMMA OwnersFacts ==
    ASSUME script \in Seq(Lines), NEW gone, NEW Ends
    PROVE  /\ Size \in Nat /\ OwnersOn(gone, Ends) \in SUBSET (1 .. Size)
           /\ \A j \in 1 .. Size : j \in OwnersOn(gone, Ends)
                <=> script[j].sign # gone /\ script[j].text \in Names \cup Ends
<1>1. Size \in Nat /\ DOMAIN script = 1 .. Size
  BY ScriptPlaces
<1> QED
  BY <1>1 DEF OwnersOn

LEMMA OwnerIs ==
    ASSUME script \in Seq(Lines), NEW gone, NEW i \in 1 .. Size, NEW a \in 1 .. i,
           script[a].sign # gone, script[a].text \in Names,
           \A j \in a + 1 .. i : script[j].sign # gone => script[j].text \notin Names
    PROVE  Owner(i, gone, {}) = script[a].text
<1> DEFINE S == OwnersOn(gone, {})
           k == i + 1
<1>1. /\ Size \in Nat /\ S \in SUBSET (1 .. Size)
      /\ \A j \in 1 .. Size : j \in S <=> script[j].sign # gone /\ script[j].text \in Names
  BY OwnersFacts
<1>2. a \in 1 .. Size /\ a < k /\ k \in Int /\ k - 1 = i
      /\ \A j \in a + 1 .. i : j \in 1 .. Size
  <2>1. Size \in Nat
    BY <1>1
  <2> QED
    BY <2>1
<1>3. Owner(i, gone, {}) = LET near == Nearest(k, S)
                           IN IF near = 0 THEN NoTest ELSE Decl(script[near].text)
  BY DEF Owner, OwnersOn
<1> HIDE DEF S, k
<1>4. a \in S /\ \A j \in a + 1 .. k - 1 : j \notin S
  BY <1>1, <1>2
<1>5. Nearest(k, S) = a
  BY <1>1, <1>2, <1>4, NearestBetween
<1>6. a # 0
  OBVIOUS
<1> QED
  BY <1>3, <1>5, <1>6 DEF Decl

LEMMA OwnerHas ==
    ASSUME script \in Seq(Lines), NEW gone, NEW Ends, NEW i \in 1 .. Size,
           Owner(i, gone, Ends) \in Names
    PROVE  \E a \in 1 .. i :
             /\ script[a].sign # gone /\ script[a].text = Owner(i, gone, Ends)
             /\ \A j \in a + 1 .. i : script[j].sign # gone
                                        => script[j].text \notin Names \cup Ends
<1> DEFINE S == OwnersOn(gone, Ends)
           k == i + 1
           a == Nearest(k, S)
<1>1. /\ Size \in Nat /\ S \in SUBSET (1 .. Size)
      /\ \A j \in 1 .. Size : j \in S
           <=> script[j].sign # gone /\ script[j].text \in Names \cup Ends
  BY OwnersFacts
<1>2. k \in Int /\ k - 1 = i /\ i \in 1 .. Size
  BY <1>1
<1>3. Owner(i, gone, Ends) = IF a = 0 THEN NoTest ELSE Decl(script[a].text)
  BY DEF Owner, OwnersOn
<1> HIDE DEF S, k, a
<1>4. a # 0 /\ Decl(script[a].text) = script[a].text /\ Owner(i, gone, Ends) = script[a].text
  BY <1>3, ScriptAssumption DEF Decl
<1>5. a \in S /\ a < k /\ \A j \in a + 1 .. k - 1 : j \notin S
  BY <1>1, <1>2, <1>4, NearestBetween DEF a
<1>6. a \in 1 .. Size /\ a \in 1 .. i
  <2>1. a \in 1 .. Size
    BY <1>1, <1>5
  <2> QED
    BY <1>2, <1>5, <2>1 DEF k
<1>7. \A j \in a + 1 .. i : j \in 1 .. Size /\ j \in a + 1 .. k - 1
  BY <1>1, <1>2, <1>6
<1>8. script[a].sign # gone /\ \A j \in a + 1 .. i : script[j].sign # gone
                                        => script[j].text \notin Names \cup Ends
  BY <1>1, <1>5, <1>6, <1>7
<1> QED
  BY <1>4, <1>6, <1>8

(***************************************************************************)
(* What the header of a hunk shows.                                        *)
(***************************************************************************)
LEMMA LabelIs ==
    ASSUME script \in Seq(Lines), NEW h, h.from \in 1 .. Size,
           NEW b \in 1 .. h.from - 1, script[b].sign # "+",
           script[b].text \in Names, script[b].text \in TopLevel,
           \A j \in b + 1 .. h.from - 1 : script[j].sign # "+" => script[j].text \notin TopLevel
    PROVE  Decl(Label(h)) = script[b].text
<1> DEFINE S == {j \in DOMAIN script : script[j].sign # "+" /\ script[j].text \in TopLevel}
           f == h.from
<1>1. Size \in Nat /\ DOMAIN script = 1 .. Size
  BY ScriptPlaces
<1>2. /\ S \in SUBSET (1 .. Size)
      /\ \A j \in 1 .. Size : j \in S <=> script[j].sign # "+" /\ script[j].text \in TopLevel
  BY <1>1
<1>3. Label(h) = LET near == Nearest(f, S) IN IF near = 0 THEN NoTest ELSE script[near].text
  BY DEF Label
<1> HIDE DEF S
<1>4. b \in 1 .. Size /\ b < f /\ f \in Int /\ b # 0 /\ \A j \in b + 1 .. f - 1 : j \in 1 .. Size
  <2>1. f \in 1 .. Size /\ b \in 1 .. f - 1
    OBVIOUS
  <2> HIDE DEF f
  <2> QED
    BY <1>1, <2>1
<1>5. b \in S /\ \A j \in b + 1 .. f - 1 : j \notin S
  BY <1>2, <1>4
<1> HIDE DEF f
<1>6. Nearest(f, S) = b
  BY <1>1, <1>2, <1>4, <1>5, NearestBetween
<1> QED
  BY <1>3, <1>4, <1>6 DEF Decl

LEMMA LabelHas ==
    ASSUME script \in Seq(Lines), NEW h, h.from \in 1 .. Size, Decl(Label(h)) \in Names
    PROVE  \E b \in 1 .. h.from - 1 :
             /\ script[b].sign # "+" /\ script[b].text = Decl(Label(h))
             /\ script[b].text \in TopLevel
             /\ \A j \in b + 1 .. h.from - 1 :
                  script[j].sign # "+" => script[j].text \notin TopLevel
<1> DEFINE S == {j \in DOMAIN script : script[j].sign # "+" /\ script[j].text \in TopLevel}
           f == h.from
           b == Nearest(f, S)
<1>1. Size \in Nat /\ DOMAIN script = 1 .. Size
  BY ScriptPlaces
<1>2. /\ S \in SUBSET (1 .. Size)
      /\ \A j \in 1 .. Size : j \in S <=> script[j].sign # "+" /\ script[j].text \in TopLevel
  BY <1>1
<1>3. Label(h) = IF b = 0 THEN NoTest ELSE script[b].text
  BY DEF Label
<1>4. f \in 1 .. Size /\ f \in Int
  BY <1>1
<1> HIDE DEF S, f, b
<1>5. b # 0 /\ Decl(Label(h)) = script[b].text
  BY <1>3, ScriptAssumption DEF Decl
<1>6. b \in S /\ b < f /\ \A j \in b + 1 .. f - 1 : j \notin S
  BY <1>1, <1>2, <1>4, <1>5, NearestBetween DEF b
<1>7. b \in 1 .. Size /\ b \in 1 .. f - 1
  <2>1. b \in 1 .. Size
    BY <1>2, <1>6
  <2> QED
    BY <1>4, <1>6, <2>1
<1>8. \A j \in b + 1 .. f - 1 : j \in 1 .. Size
  BY <1>1, <1>4, <1>7
<1>9. /\ script[b].sign # "+" /\ script[b].text \in TopLevel
      /\ \A j \in b + 1 .. f - 1 : script[j].sign # "+" => script[j].text \notin TopLevel
  BY <1>2, <1>6, <1>7, <1>8
<1> QED
  BY <1>5, <1>7, <1>9 DEF f

(***************************************************************************)
(* Which test a hunk is in.                                                *)
(***************************************************************************)
LEMMA HeldFacts ==
    ASSUME script \in Seq(Lines), NEW h, h.from \in 1 .. Size, NEW i \in h.from .. Size
    PROVE  /\ \A a \in h.from .. i - 1 :
                /\ script[a].text \in Names /\ script[a].sign # "-"
                /\ \A j \in a + 1 .. i - 1 : script[j].text \notin Names
                => HeldIn(h, i) = script[a].text
           /\ (\A j \in h.from .. i - 1 : script[j].text \notin Names)
                => HeldIn(h, i) = Decl(Label(h))
           /\ HeldIn(h, i) \in Names =>
                \/ \E a \in h.from .. i - 1 :
                     /\ script[a].text = HeldIn(h, i) /\ script[a].sign # "-"
                     /\ \A j \in a + 1 .. i - 1 : script[j].text \notin Names
                \/ /\ HeldIn(h, i) = Decl(Label(h))
                   /\ \A j \in h.from .. i - 1 : script[j].text \notin Names
<1> DEFINE S == DeclaredIn(h)
           f == h.from
           near == Nearest(i, S)
<1>1. Size \in Nat /\ f \in 1 .. Size /\ i \in f .. Size
  BY ScriptPlaces
<1>2. S \in SUBSET (1 .. Size)
      /\ \A j \in 1 .. Size : j \in S <=> j >= f /\ script[j].text \in Names
  BY DEF DeclaredIn
<1>3. HeldIn(h, i) = IF near = 0 THEN Decl(Label(h)) ELSE Takes(NoTest, script[near])
  BY DEF HeldIn
<1> HIDE DEF S, f
<1>4. i \in Int /\ f \in Int /\ i \in 1 .. Size
  BY <1>1
<1>5. \A j \in f .. i - 1 : j \in 1 .. Size /\ j < i /\ j >= f /\ j # 0
  BY <1>1
<1>6. /\ \A a \in S : a < i /\ (\A j \in a + 1 .. i - 1 : j \notin S) => near = a
      /\ (\A j \in 1 .. i - 1 : j \notin S) => near = 0
      /\ near # 0 => near \in S /\ near < i /\ \A j \in near + 1 .. i - 1 : j \notin S
      /\ near = 0 => \A j \in 1 .. i - 1 : j \notin S
  BY <1>1, <1>2, <1>4, NearestBetween
<1> HIDE DEF near
<1>7. ASSUME NEW a \in f .. i - 1, script[a].text \in Names, script[a].sign # "-",
             \A j \in a + 1 .. i - 1 : script[j].text \notin Names
      PROVE  HeldIn(h, i) = script[a].text
  <2>1. a \in S /\ a < i /\ a # 0
    BY <1>2, <1>5, <1>7
  <2>2. \A j \in a + 1 .. i - 1 : j \notin S
    <3>1. \A j \in a + 1 .. i - 1 : j \in f .. i - 1
      BY <1>4
    <3> QED
      BY <1>2, <1>5, <1>7, <3>1
  <2>3. near = a
    BY <1>6, <2>1, <2>2
  <2> QED
    BY <1>3, <1>7, <2>1, <2>3 DEF Takes
<1>8. ASSUME \A j \in f .. i - 1 : script[j].text \notin Names
      PROVE  HeldIn(h, i) = Decl(Label(h))
  <2>1. \A j \in 1 .. i - 1 : j \notin S
    <3> TAKE j \in 1 .. i - 1
    <3>1. j \in 1 .. Size /\ (j >= f => j \in f .. i - 1)
      BY <1>1, <1>4
    <3> QED
      BY <1>2, <1>8, <3>1
  <2> QED
    BY <1>3, <1>6, <2>1
<1>9. ASSUME HeldIn(h, i) \in Names, near # 0
      PROVE  \E a \in f .. i - 1 :
               /\ script[a].text = HeldIn(h, i) /\ script[a].sign # "-"
               /\ \A j \in a + 1 .. i - 1 : script[j].text \notin Names
  <2>1. HeldIn(h, i) = Takes(NoTest, script[near])
    BY <1>3, <1>9
  <2>2. near \in S /\ near < i /\ \A j \in near + 1 .. i - 1 : j \notin S
    BY <1>6, <1>9
  <2>3. near \in 1 .. Size /\ near >= f /\ script[near].text \in Names
    BY <1>2, <2>2
  <2>4. near \in f .. i - 1
    BY <1>4, <2>2, <2>3
  <2>5. script[near].text = HeldIn(h, i) /\ script[near].sign # "-"
    BY <1>9, <2>1, <2>3, ScriptAssumption DEF Takes
  <2>6. \A j \in near + 1 .. i - 1 : script[j].text \notin Names
    <3> TAKE j \in near + 1 .. i - 1
    <3>1. j \in 1 .. Size /\ j >= f
      BY <1>1, <1>4, <2>4
    <3> QED
      BY <1>2, <2>2, <3>1
  <2> QED
    BY <2>4, <2>5, <2>6
<1>10. ASSUME near = 0
       PROVE  /\ HeldIn(h, i) = Decl(Label(h))
              /\ \A j \in f .. i - 1 : script[j].text \notin Names
  <2>1. \A j \in 1 .. i - 1 : j \notin S
    BY <1>6, <1>10
  <2>2. \A j \in f .. i - 1 : j \in 1 .. i - 1
    BY <1>1, <1>4
  <2> QED
    BY <1>2, <1>3, <1>5, <1>10, <2>1, <2>2
<1> QED
  BY <1>7, <1>8, <1>9, <1>10 DEF f

-----------------------------------------------------------------------------
(* What the listed tests have to do with the change *)

(***************************************************************************)
(* The hunks of a script that the tests are read from.                     *)
(***************************************************************************)
LEMMA HunkPlace ==
    ASSUME ScriptInv, NEW h \in Hunks(context)
    PROVE  /\ h.from \in 1 .. Size /\ h.to \in h.from .. Size
           /\ \A i \in h.from .. h.to : i \in 1 .. Size /\ i \in h.from .. Size
<1> DEFINE c == context
<1>1. script \in Seq(Lines) /\ c \in Nat /\ h \in Hunks(c)
  BY DEF ScriptInv, ScriptTyped
<1> HIDE DEF c
<1>2. h.from \in 1 .. Size /\ h.to \in h.from .. Size /\ Size \in Nat
  BY <1>1, HunkRange, ScriptPlaces
<1> DEFINE f == h.from
           t == h.to
<1> HIDE DEF f, t
<1>3. f \in 1 .. Size /\ t \in f .. Size /\ Size \in Nat
  BY <1>2 DEF f, t
<1>4. \A i \in f .. t : i \in 1 .. Size /\ i \in f .. Size
  BY <1>3
<1> QED
  BY <1>2, <1>4 DEF f, t

LEMMA HunkOf ==
    ASSUME ScriptInv, NEW i \in Changes
    PROVE  \E h \in Hunks(context) : i \in h.from .. h.to
<1> DEFINE c == context
<1>1. script \in Seq(Lines) /\ c \in Nat
  BY DEF ScriptInv, ScriptTyped
<1> HIDE DEF c
<1>2. \E h \in Hunks(c) : i \in h.from .. h.to
  BY <1>1, HunksCover
<1> QED
  BY <1>2 DEF c

(***************************************************************************)
(* A line of a hunk that adds a name to the list.                          *)
(***************************************************************************)
LEMMA IsListed ==
    ASSUME ScriptInv, file # "untracked", NEW h \in Hunks(context), NEW i \in h.from .. h.to,
           NEW name \in Declared(NewVersion), name \in Adds(HeldIn(h, i), script[i])
    PROVE  name \in ChangedTestNames
<1>1. h.from \in 1 .. Size /\ h.to \in h.from .. Size /\ script \in Seq(Lines)
  BY HunkPlace DEF ScriptInv, ScriptTyped
<1>2. name \in ReadHunk(h)
  BY <1>1, HunkGives
<1> QED
  BY <1>2 DEF ChangedTestNames

LEMMA TouchedPlaces ==
    ASSUME ScriptInv, NEW i \in Touched
    PROVE  /\ i \in Changes /\ i \in 1 .. Size /\ script[i].text # "blank"
           /\ script[i].sign \in {"-", "+"}
<1>1. script \in Seq(Lines)
  BY DEF ScriptInv, ScriptTyped
<1>2. i \in Changes /\ i \in 1 .. Size /\ script[i] \in Lines /\ script[i].text # "blank"
      /\ script[i].sign # " "
  BY <1>1, ScriptPlaces DEF Touched
<1> QED
  BY <1>2 DEF Lines

LEMMA NewIsTouched ==
    ASSUME ScriptInv, NEW i \in 1 .. Size, script[i].sign = "+", script[i].text \in Names
    PROVE  i \in Touched /\ i \in Changes /\ Owner(i, "-", {}) = script[i].text
<1>1. script \in Seq(Lines) /\ Size \in Nat
  BY ScriptPlaces DEF ScriptInv, ScriptTyped
<1>2. i \in Changes /\ i \in Touched
  <2>1. i \in Changes
    BY <1>1, ScriptPlaces
  <2> QED
    BY <2>1, ScriptAssumption DEF Touched
<1>3. Owner(i, "-", {}) = script[i].text
  <2> DEFINE gone == "-"
  <2>1. i \in 1 .. i /\ script[i].sign # gone /\ \A j : j \notin i + 1 .. i
    BY <1>1
  <2> HIDE DEF gone
  <2>2. Owner(i, gone, {}) = script[i].text
    BY <1>1, <2>1, OwnerIs
  <2> QED
    BY <2>2 DEF gone
<1> QED
  BY <1>2, <1>3

LEMMA ReadIsTouched ==
    ASSUME ScriptInv, NEW h \in Hunks(context), NEW name \in ReadHunk(h), name \in Names
    PROVE  \E i \in Touched : name \in {Owner(i, "-", {}), Owner(i, "+", {})}
<1>1. script \in Seq(Lines) /\ Size \in Nat
  BY ScriptPlaces DEF ScriptInv, ScriptTyped
<1>2. h.from \in 1 .. Size /\ h.to \in h.from .. Size
  BY HunkPlace
<1>3. PICK i \in h.from .. h.to : name \in Adds(HeldIn(h, i), script[i])
  BY <1>1, <1>2, HunkGives
<1>4. i \in 1 .. Size /\ i \in h.from .. Size
  BY HunkPlace
<1>5. CASE script[i].text \in Names
  <2>1. name = script[i].text /\ script[i].sign = "+"
    BY <1>3, <1>5 DEF Adds
  <2>2. i \in Touched /\ Owner(i, "-", {}) = name
    BY <1>4, <1>5, <2>1, NewIsTouched
  <2> QED
    BY <2>2
<1>6. CASE script[i].text \notin Names
  <2>1. name = HeldIn(h, i) /\ script[i].sign # " " /\ script[i].text # "blank"
    BY <1>3, <1>6 DEF Adds
  <2>2. i \in Touched
    BY <1>1, <1>4, <2>1, ScriptPlaces DEF Touched
  <2> DEFINE f == h.from
  <2>3. f \in 1 .. Size /\ i \in f .. Size
    BY <1>2, <1>4
  <2>4. \/ \E a \in f .. i - 1 :
             /\ script[a].text = name /\ script[a].sign # "-"
             /\ \A j \in a + 1 .. i - 1 : script[j].text \notin Names
        \/ /\ name = Decl(Label(h))
           /\ \A j \in f .. i - 1 : script[j].text \notin Names
    BY <1>1, <1>2, <1>4, <2>1, HeldFacts
  <2>5. CASE \E a \in f .. i - 1 :
               /\ script[a].text = name /\ script[a].sign # "-"
               /\ \A j \in a + 1 .. i - 1 : script[j].text \notin Names
    <3> HIDE DEF f
    <3>1. PICK a \in f .. i - 1 :
               /\ script[a].text = name /\ script[a].sign # "-"
               /\ \A j \in a + 1 .. i - 1 : script[j].text \notin Names
      BY <2>5
    <3>2. a \in 1 .. i
      BY <1>1, <2>3
    <3>3. \A j \in a + 1 .. i : j = i \/ j \in a + 1 .. i - 1
      BY <1>1, <2>3
    <3>4. \A j \in a + 1 .. i : script[j].text \notin Names
      BY <1>6, <3>1, <3>3
    <3> DEFINE gone == "-"
    <3>5. script[a].sign # gone
      BY <3>1
    <3> HIDE DEF gone
    <3>6. Owner(i, gone, {}) = script[a].text
      BY <1>1, <1>4, <3>1, <3>2, <3>4, <3>5, OwnerIs
    <3> QED
      BY <2>2, <3>1, <3>6 DEF gone
  <2>6. CASE name = Decl(Label(h)) /\ \A j \in f .. i - 1 : script[j].text \notin Names
    <3>1. PICK b \in 1 .. f - 1 :
             /\ script[b].sign # "+" /\ script[b].text = name
             /\ script[b].text \in TopLevel
             /\ \A j \in b + 1 .. f - 1 :
                  script[j].sign # "+" => script[j].text \notin TopLevel
      BY <1>1, <1>2, <2>6, LabelHas
    <3> HIDE DEF f
    <3>2. b \in 1 .. i /\ b \in 1 .. Size
      BY <1>1, <2>3
    <3>3. script[b].text # "top"
      BY <3>1, ScriptAssumption
    <3>4. ASSUME NEW j \in b + 1 .. f - 1, script[j].sign # "+", script[j].text \in Names
          PROVE  FALSE
      <4>1. j \in 1 .. Size
        BY <1>1, <2>3
      <4>2. script[j].text \in Methods
        BY <3>1, <3>4 DEF TopLevel
      <4>3. PICK t \in 1 .. j - 1 :
              /\ script[t].text = "top" /\ script[t].sign \in {" ", script[j].sign}
              /\ \A k \in t + 1 .. j - 1 : script[k].text \notin TopLevel
        BY <4>1, <4>2 DEF ScriptInv, InClass
      <4>4. script[t].sign # "+" /\ script[t].text \in TopLevel
        BY <3>4, <4>3 DEF TopLevel
      <4>5. t \notin b + 1 .. f - 1
        BY <3>1, <4>4
      <4>6. t # b
        BY <3>3, <4>3
      <4>7. b \in t + 1 .. j - 1
        <5>1. f \in 1 .. Size /\ b \in 1 .. f - 1 /\ j \in b + 1 .. f - 1 /\ t \in 1 .. j - 1
              /\ Size \in Nat
          BY <1>1, <2>3
        <5>2. ~(t >= b + 1 /\ t <= f - 1)
          BY <4>5, <5>1
        <5>3. t < b
          BY <4>6, <5>1, <5>2
        <5> QED
          BY <5>1, <5>3
      <4> QED
        BY <3>1, <4>3, <4>7
    <3>5. \A j \in b + 1 .. i : j = i \/ j \in f .. i - 1 \/ j \in b + 1 .. f - 1
      BY <1>1, <2>3
    <3>6. \A j \in b + 1 .. i : script[j].sign # "+" => script[j].text \notin Names
      BY <1>6, <2>6, <3>4, <3>5
    <3> DEFINE gone == "+"
    <3>7. script[b].sign # gone /\ script[b].text \in Names
          /\ \A j \in b + 1 .. i : script[j].sign # gone => script[j].text \notin Names
      BY <3>1, <3>6
    <3> HIDE DEF gone
    <3>8. Owner(i, gone, {}) = script[b].text
      BY <1>1, <1>4, <3>2, <3>7, OwnerIs
    <3> QED
      BY <2>2, <3>1, <3>8 DEF gone
  <2> QED
    BY <2>4, <2>5, <2>6
<1> QED
  BY <1>5, <1>6

LEMMA DeclaredNew ==
    ASSUME script \in Seq(Lines), NEW x
    PROVE  /\ x \in Declared(NewVersion)
                <=> x \in Names /\ \E i \in 1 .. Size : script[i].sign # "-" /\ script[i].text = x
           /\ x \in Declared(OldVersion)
                <=> x \in Names /\ \E i \in 1 .. Size : script[i].sign # "+" /\ script[i].text = x
<1>1. x \in Declared(NewVersion)
        <=> x \in Names /\ \E i \in 1 .. Size : script[i].sign # "-" /\ script[i].text = x
  <2> DEFINE gone == "-"
  <2> HIDE DEF gone
  <2>1. x \in Declared(Version(SideOf(script, gone)))
          <=> x \in Names /\ \E i \in 1 .. Size : script[i].sign # gone /\ script[i].text = x
    BY DeclaredOn
  <2> QED
    BY <2>1 DEF gone, NewVersion
<1>2. x \in Declared(OldVersion)
        <=> x \in Names /\ \E i \in 1 .. Size : script[i].sign # "+" /\ script[i].text = x
  <2> DEFINE gone == "+"
  <2> HIDE DEF gone
  <2>1. x \in Declared(Version(SideOf(script, gone)))
          <=> x \in Names /\ \E i \in 1 .. Size : script[i].sign # gone /\ script[i].text = x
    BY DeclaredOn
  <2> QED
    BY <2>1 DEF gone, OldVersion
<1> QED
  BY <1>1, <1>2

(***************************************************************************)
(* NamesAreTouched: whatever the change to a test file, a test that is     *)
(* listed is in the new file, and has a line of the change below its       *)
(* declaration.                                                            *)
(***************************************************************************)
THEOREM NamesTouched == ScriptSpec => []NamesAreTouched
<1>1. ScriptInv => NamesAreTouched
  <2> SUFFICES ASSUME ScriptInv, NEW name \in ChangedTestNames
               PROVE  /\ name \in Declared(NewVersion)
                      /\ \E i \in Touched : name \in {Owner(i, "-", {}), Owner(i, "+", {})}
    BY DEF NamesAreTouched
  <2>1. script \in Seq(Lines)
    BY DEF ScriptInv, ScriptTyped
  <2>2. name \in Declared(NewVersion)
    BY DEF ChangedTestNames
  <2>3. CASE file = "untracked"
    <3>1. PICK i \in 1 .. Size : script[i].sign # "-" /\ script[i].text = name
      BY <2>1, <2>2, DeclaredNew
    <3>2. script[i].sign = "+"
      BY <2>3 DEF ScriptInv, ScriptTyped, SignsOf
    <3>3. name \in Names
      BY <2>1, <2>2, DeclaredNew
    <3>4. i \in Touched /\ Owner(i, "-", {}) = name
      BY <3>1, <3>2, <3>3, NewIsTouched
    <3> QED
      BY <2>2, <3>4
  <2>4. CASE file # "untracked"
    <3>1. PICK h \in Hunks(context) : name \in ReadHunk(h)
      BY <2>4 DEF ChangedTestNames
    <3>2. name \in Names
      BY <2>1, <2>2, DeclaredNew
    <3> QED
      BY <2>2, <3>1, <3>2, ReadIsTouched
  <2> QED
    BY <2>3, <2>4
<1> QED
  BY <1>1, ScriptHolds, PTL

(***************************************************************************)
(* A new declaration is listed.                                            *)
(***************************************************************************)
LEMMA NewIsListed ==
    ASSUME ScriptInv, NEW i \in 1 .. Size, script[i].sign = "+", script[i].text \in Names
    PROVE  script[i].text \in ChangedTestNames
<1> DEFINE name == script[i].text
<1>1. script \in Seq(Lines)
  BY DEF ScriptInv, ScriptTyped
<1>2. name \in Declared(NewVersion)
  BY <1>1, DeclaredNew
<1>3. CASE file = "untracked"
  BY <1>2, <1>3 DEF ChangedTestNames
<1>4. CASE file # "untracked"
  <2>1. i \in Changes
    BY NewIsTouched
  <2>2. PICK h \in Hunks(context) : i \in h.from .. h.to
    BY <2>1, HunkOf
  <2>3. name \in Adds(HeldIn(h, i), script[i])
    BY DEF Adds
  <2> HIDE DEF name
  <2> QED
    BY <1>2, <1>4, <2>2, <2>3, IsListed DEF name
<1> QED
  BY <1>3, <1>4

LEMMA Between ==
    ASSUME NEW N \in Nat, NEW i \in 1 .. N, NEW a \in 1 .. i - 1, NEW f \in 1 .. N, i \in f .. N
    PROVE  /\ a \in 1 .. N /\ i \in a + 1 .. i /\ \A j \in a + 1 .. i - 1 : j \in a + 1 .. i
           /\ a >= f => a \in f .. i - 1
           /\ ~(a >= f) => /\ a \in 1 .. f - 1
                           /\ \A j \in f .. i - 1 : j \in a + 1 .. i
                           /\ \A j \in a + 1 .. f - 1 : j \in a + 1 .. i
  OBVIOUS

(***************************************************************************)
(* A test that stays, and has a changed line that no other line parts      *)
(* from it, is listed: the hunk of that line shows it, as a line of its    *)
(* own or in its header.                                                   *)
(***************************************************************************)
LEMMA StaysIsListed ==
    ASSUME ScriptInv, file # "untracked", NEW i \in Touched, NEW a \in 1 .. i - 1,
           script[a].sign = " ", script[a].text \in Names,
           \A j \in a + 1 .. i : script[j].text \notin Names \cup {"top"},
           NEW h \in Hunks(context), i \in h.from .. h.to,
           script[a].text \in Methods => a >= h.from
    PROVE  script[a].text \in ChangedTestNames
<1> DEFINE name == script[a].text
           f == h.from
<1>1. script \in Seq(Lines) /\ Size \in Nat
  BY ScriptPlaces DEF ScriptInv, ScriptTyped
<1>2. i \in 1 .. Size /\ script[i].text # "blank" /\ script[i].sign # " "
  BY TouchedPlaces
<1>3. f \in 1 .. Size /\ i \in f .. Size
  BY HunkPlace
<1>4. /\ a \in 1 .. Size /\ i \in a + 1 .. i /\ \A j \in a + 1 .. i - 1 : j \in a + 1 .. i
      /\ a >= f => a \in f .. i - 1
      /\ ~(a >= f) => /\ a \in 1 .. f - 1
                      /\ \A j \in f .. i - 1 : j \in a + 1 .. i
                      /\ \A j \in a + 1 .. f - 1 : j \in a + 1 .. i
  <2> HIDE DEF f
  <2> QED
    BY <1>1, <1>2, <1>3, Between
<1>5. name \in Declared(NewVersion)
  BY <1>1, <1>4, DeclaredNew
<1>6. HeldIn(h, i) = name
  <2>1. CASE a >= f
    <3>1. a \in f .. i - 1
      BY <1>4, <2>1
    <3>2. \A j \in a + 1 .. i - 1 : script[j].text \notin Names
      BY <1>4
    <3> QED
      BY <1>1, <1>3, <3>1, <3>2, HeldFacts
  <2>2. CASE ~(a >= f)
    <3>1. /\ a \in 1 .. f - 1
          /\ \A j \in f .. i - 1 : j \in a + 1 .. i
          /\ \A j \in a + 1 .. f - 1 : j \in a + 1 .. i
      BY <1>4, <2>2
    <3>2. name \in TopLevel
      BY <2>2 DEF TopLevel
    <3>3. \A j \in a + 1 .. f - 1 : script[j].text \notin TopLevel
      BY <3>1 DEF TopLevel
    <3>4. script[a].sign # "+"
      OBVIOUS
    <3>5. Decl(Label(h)) = name
      BY <1>1, <1>3, <3>1, <3>2, <3>3, <3>4, LabelIs
    <3>6. \A j \in f .. i - 1 : script[j].text \notin Names
      BY <3>1
    <3>7. HeldIn(h, i) = Decl(Label(h))
      BY <1>1, <1>3, <3>6, HeldFacts
    <3> QED
      BY <3>5, <3>7
  <2> QED
    BY <2>1, <2>2
<1>7. script[i].text \notin Names
  BY <1>4
<1>8. name \in Adds(HeldIn(h, i), script[i])
  BY <1>2, <1>6, <1>7 DEF Adds
<1> HIDE DEF name
<1> QED
  BY <1>5, <1>8, IsListed DEF name

LEMMA EditedIsListed ==
    ASSUME ScriptInv, NEW i \in Touched, NEW name \in Names,
           name = Owner(i, "-", {"top"}), name = Owner(i, "+", {"top"}),
           \/ name \notin Methods
           \/ \E h \in Hunks(context) :
                i \in h.from .. h.to /\ \E j \in h.from .. i :
                  script[j].text = name /\ script[j].sign # "-"
    PROVE  name \in ChangedTestNames
<1>1. script \in Seq(Lines) /\ Size \in Nat /\ \A j \in 1 .. Size : script[j] \in Lines
  BY ScriptPlaces DEF ScriptInv, ScriptTyped
<1>2. i \in Changes /\ i \in 1 .. Size /\ script[i].text # "blank" /\ script[i].sign \in {"-", "+"}
  BY TouchedPlaces
<1>3. PICK a \in 1 .. i :
        /\ script[a].sign # "-" /\ script[a].text = name
        /\ \A j \in a + 1 .. i : script[j].sign # "-" => script[j].text \notin Names \cup {"top"}
  <2> DEFINE gone == "-"
             Ends == {"top"}
  <2>1. Owner(i, gone, Ends) = name
    OBVIOUS
  <2> HIDE DEF gone, Ends
  <2>2. \E a \in 1 .. i :
             /\ script[a].sign # gone /\ script[a].text = Owner(i, gone, Ends)
             /\ \A j \in a + 1 .. i : script[j].sign # gone
                                        => script[j].text \notin Names \cup Ends
    BY <1>1, <1>2, <2>1, OwnerHas
  <2> QED
    BY <2>1, <2>2 DEF gone, Ends
<1>4. PICK b \in 1 .. i :
        /\ script[b].sign # "+" /\ script[b].text = name
        /\ \A j \in b + 1 .. i : script[j].sign # "+" => script[j].text \notin Names \cup {"top"}
  <2> DEFINE gone == "+"
             Ends == {"top"}
  <2>1. Owner(i, gone, Ends) = name
    OBVIOUS
  <2> HIDE DEF gone, Ends
  <2>2. \E b \in 1 .. i :
             /\ script[b].sign # gone /\ script[b].text = Owner(i, gone, Ends)
             /\ \A j \in b + 1 .. i : script[j].sign # gone
                                        => script[j].text \notin Names \cup Ends
    BY <1>1, <1>2, <2>1, OwnerHas
  <2> QED
    BY <2>1, <2>2 DEF gone, Ends
<1>5. a \in 1 .. Size /\ b \in 1 .. Size
  BY <1>1, <1>2
<1>6. script[a].sign \in {" ", "-", "+"} /\ script[b].sign \in {" ", "-", "+"}
  <2>1. script[a] \in Lines /\ script[b] \in Lines
    BY <1>1, <1>5
  <2> QED
    BY <2>1 DEF Lines
<1>7. CASE script[a].sign = "+"
  BY <1>3, <1>5, <1>7, NewIsListed
<1>8. CASE script[a].sign = " "
  <2>1. \A j \in 1 .. Size : script[j].text = name => j = a
    <3> SUFFICES ASSUME NEW j \in 1 .. Size, script[j].text = name, j # a PROVE FALSE
      OBVIOUS
    <3>1. SameSide(script[a].sign, script[j].sign)
      BY <1>8 DEF SameSide
    <3> QED
      BY <1>3, <1>5, <3>1 DEF ScriptInv, DeclaredOnce
  <2>2. b = a
    BY <1>4, <1>5, <2>1
  <2>3. a \in 1 .. i - 1
    <3>1. a # i
      BY <1>2, <1>8
    <3> QED
      BY <1>2, <1>5, <3>1
  <2>4. \A j \in a + 1 .. i : script[j].text \notin Names \cup {"top"}
    BY <1>3, <1>4, <2>2
  <2>5. CASE file = "untracked"
    <3>1. name \in Declared(NewVersion)
      BY <1>1, <1>3, <1>5, DeclaredNew
    <3> QED
      BY <2>5, <3>1 DEF ChangedTestNames
  <2>6. CASE file # "untracked"
    <3>1. CASE name \notin Methods
      <4>1. PICK h \in Hunks(context) : i \in h.from .. h.to
        BY <1>2, HunkOf
      <4> QED
        BY <1>3, <1>8, <2>3, <2>4, <2>6, <3>1, <4>1, StaysIsListed
    <3>2. CASE name \in Methods
      <4>1. PICK h \in Hunks(context) :
              i \in h.from .. h.to /\ \E j \in h.from .. i :
                script[j].text = name /\ script[j].sign # "-"
        BY <3>2
      <4>2. PICK j \in h.from .. i : script[j].text = name
        BY <4>1
      <4> DEFINE f == h.from
      <4>3. f \in 1 .. Size
        BY HunkPlace
      <4>4. j \in 1 .. Size /\ j >= f
        <5>1. j \in f .. i
          BY <4>2
        <5> HIDE DEF f
        <5> QED
          BY <1>1, <1>2, <4>3, <5>1
      <4>5. a >= h.from
        BY <2>1, <4>2, <4>4
      <4> QED
        BY <1>3, <1>8, <2>3, <2>4, <2>6, <4>1, <4>5, StaysIsListed
    <3> QED
      BY <3>1, <3>2
  <2> QED
    BY <2>5, <2>6
<1> QED
  BY <1>3, <1>6, <1>7, <1>8

(***************************************************************************)
(* EditedTestsAreListed: whatever the change to a test file, a new test,   *)
(* and one whose lines changed between declarations, is listed.            *)
(***************************************************************************)
THEOREM EditedListed == ScriptSpec => []EditedTestsAreListed
<1>1. ScriptInv => EditedTestsAreListed
  <2> SUFFICES ASSUME ScriptInv PROVE EditedTestsAreListed
    OBVIOUS
  <2>1. script \in Seq(Lines) /\ \A j \in 1 .. Size : script[j] \in Lines
    BY ScriptPlaces DEF ScriptInv, ScriptTyped
  <2>2. ASSUME NEW name \in Declared(NewVersion), name \notin Declared(OldVersion)
        PROVE  name \in ChangedTestNames
    <3>1. PICK i \in 1 .. Size : script[i].sign # "-" /\ script[i].text = name
      BY <2>1, DeclaredNew
    <3>2. name \in Names /\ ~(script[i].sign # "+")
      BY <2>1, <2>2, <3>1, DeclaredNew
    <3> QED
      BY <3>1, <3>2, NewIsListed
  <2>3. ASSUME NEW i \in Touched, NEW name,
               name = Owner(i, "-", {"top"}), name = Owner(i, "+", {"top"}), name \in Names,
               \/ name \notin Methods
               \/ \E h \in Hunks(context) :
                    i \in h.from .. h.to /\ \E j \in h.from .. i :
                      script[j].text = name /\ script[j].sign # "-"
        PROVE  name \in ChangedTestNames
    BY <2>3, EditedIsListed
  <2>4. Declared(NewVersion) \ Declared(OldVersion) \subseteq ChangedTestNames
    BY <2>2
  <2> HIDE DEF ScriptInv
  <2> QED
    BY <2>3, <2>4 DEF EditedTestsAreListed
<1> QED
  BY <1>1, ScriptHolds, PTL
=============================================================================
