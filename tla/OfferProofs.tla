------------------------------ MODULE OfferProofs ------------------------------
(***************************************************************************)
(* What an investor is offered, and what is then agreed.                   *)
(*                                                                         *)
(* The catalogue, for any rows, forms and page size: the minimum a card    *)
(* shows is the one by which it was filtered and sorted, its yield never   *)
(* belies them although it is rounded, a page has cards whenever any       *)
(* match, and a shortlist keeps to the answers.  All rest on the types     *)
(* (CatalogueTypeOK: a row recommends one of at most three options,        *)
(* whatever was typed into its form), on one lemma about sorting           *)
(* (InOrderSorts) and one about rounding (Rounding).                       *)
(*                                                                         *)
(* The agreement, for any callbacks, files and number of concurrent        *)
(* requests: it is in force exactly when both have signed it (with the     *)
(* sealing of signatures once it is), a signer is left as the latest       *)
(* callback says, and a published copy stays in storage.                   *)
(*                                                                         *)
(* SignedIsEffective needs that an investor who has signed got the         *)
(* contract out of review (SignedLeavesReview).  PublishedFileExists needs *)
(* that uploads in flight own their files (UploadsOwnFiles): one request's *)
(* clean-up cannot reach the file of another.                              *)
(***************************************************************************)
EXTENDS Contracts, Catalogue, FiniteSetTheorems, SequenceTheorems, TLAPS

-----------------------------------------------------------------------------
(* The catalogue *)

\* The order in which cards are listed is strict and total: what comes before
\* "a" comes before whatever "a" comes before.
LEMMA BeforeChain ==
    ASSUME NEW S \in SUBSET Nat, NEW key, \A x \in S : key[x] \in Int,
           NEW a \in S, NEW b \in S, a \in Before(S, key, b)
    PROVE  /\ Before(S, key, a) \subseteq Before(S, key, b)
           /\ a \notin Before(S, key, a)
<1>1. ASSUME NEW x \in Before(S, key, a) PROVE x \in Before(S, key, b)
  <2>1. /\ x \in S /\ x \in Nat /\ key[x] \in Int
        /\ key[x] < key[a] \/ (key[x] = key[a] /\ x < a)
    BY <1>1 DEF Before
  <2>2. /\ a \in Nat /\ b \in Nat /\ key[a] \in Int /\ key[b] \in Int
        /\ key[a] < key[b] \/ (key[a] = key[b] /\ a < b)
    BY DEF Before
  <2>3. key[x] < key[b] \/ (key[x] = key[b] /\ x < b)
    BY <2>1, <2>2
  <2> QED BY <2>1, <2>3 DEF Before
<1>2. a \notin Before(S, key, a)
  <2>1. ~(key[a] < key[a]) /\ ~(a < a)
    OBVIOUS
  <2> QED BY <2>1 DEF Before
<1> QED BY <1>1, <1>2

\* A list in order holds every element once, by key and then by name: the
\* number of elements before one is its position.
LEMMA InOrderSorts ==
    ASSUME NEW S \in SUBSET Nat, IsFiniteSet(S), NEW key, \A a \in S : key[a] \in Int
    PROVE  /\ InOrder(S, key) \in Seq(S)
           /\ Len(InOrder(S, key)) = Cardinality(S)
           /\ \A a \in S : \E i \in 1..Cardinality(S) : InOrder(S, key)[i] = a
           /\ \A i, j \in 1..Cardinality(S) :
                i < j => InOrder(S, key)[i] \in Before(S, key, InOrder(S, key)[j])
<1> DEFINE n == Cardinality(S)
           At(a) == Cardinality(Before(S, key, a))
           place == [a \in S |-> At(a)]
<1>1. n \in Nat
  BY FS_CardinalityType
<1>2. \A a \in S : IsFiniteSet(Before(S, key, a)) /\ At(a) \in 0..n-1
  <2> TAKE a \in S
  <2>1. Before(S, key, a) \subseteq S /\ a \notin Before(S, key, a)
    BY DEF Before
  <2>2. IsFiniteSet(Before(S, key, a)) /\ At(a) <= n /\ (n = At(a) => S = Before(S, key, a))
    BY <2>1, FS_Subset
  <2>3. At(a) \in Nat
    BY <2>2, FS_CardinalityType
  <2> QED BY <1>1, <2>1, <2>2, <2>3
<1>3. \A a, b \in S : a \in Before(S, key, b) => At(a) < At(b)
  <2> SUFFICES ASSUME NEW a \in S, NEW b \in S, a \in Before(S, key, b)
               PROVE  At(a) < At(b)
    OBVIOUS
  <2>1. Before(S, key, a) \cup {a} \subseteq Before(S, key, b)
    BY BeforeChain
  <2>2. Cardinality(Before(S, key, a) \cup {a}) = At(a) + 1
    BY <1>2, BeforeChain, FS_AddElement
  <2>3. Cardinality(Before(S, key, a) \cup {a}) <= At(b)
    BY <1>2, <2>1, FS_Subset
  <2> QED BY <1>2, <2>2, <2>3
<1>4. \A a, b \in S : a = b \/ a \in Before(S, key, b) \/ b \in Before(S, key, a)
  BY DEF Before
<1>5. \A a, b \in S : At(a) = At(b) => a = b
  BY <1>2, <1>3, <1>4
<1>6. \A k \in 0..n-1 : \E a \in S : At(a) = k
  <2>1. place \in Injection(S, 0..n-1)
    <3>1. place \in [S -> 0..n-1]
      BY <1>2
    <3>2. \A a, b \in S : place[a] = place[b] => a = b
      BY <1>5
    <3>3. DOMAIN place = S
      OBVIOUS
    <3> HIDE DEF At, place
    <3> QED BY <3>1, <3>2, <3>3 DEF Injection, IsInjective
  <2>2. IsFiniteSet(0..n-1) /\ Cardinality(0..n-1) = n
    <3>1. n - 1 \in Int /\ 0 \in Int
      BY <1>1
    <3>2. IsFiniteSet(0..n-1) /\ Cardinality(0..n-1) = IF 0 > n-1 THEN 0 ELSE n-1-0+1
      <4> HIDE DEF n
      <4> QED BY <3>1, FS_Interval
    <3> QED BY <1>1, <3>2
  <2>3. place \in Surjection(S, 0..n-1)
    <3> HIDE DEF place
    <3> QED BY <2>1, <2>2, FS_Injection
  <2> HIDE DEF At
  <2> QED BY <2>3 DEF Surjection
<1> DEFINE list == InOrder(S, key)
<1>7. \A i \in 1..n : list[i] \in S /\ At(list[i]) = i - 1
  <2> TAKE i \in 1..n
  <2>1. list[i] = CHOOSE a \in S : At(a) = i - 1
    BY DEF InOrder
  <2>2. i - 1 \in 0..n-1
    BY <1>1
  <2>3. \E a \in S : At(a) = i - 1
    BY <1>6, <2>2
  <2> HIDE DEF At, list
  <2> QED BY <2>1, <2>3
<1>8. list \in [1..n -> S]
  <2>1. list = [i \in 1..n |-> list[i]]
    BY DEF InOrder
  <2> HIDE DEF list
  <2> QED BY <1>7, <2>1
<1>9. list \in Seq(S) /\ Len(list) = n
  <2> HIDE DEF list
  <2>1. list \in Seq(S)
    BY <1>1, <1>8, IsASeq
  <2> QED BY <1>1, <1>8, <2>1, LenProperties
<1>10. \A a \in S : \E i \in 1..n : list[i] = a
  <2> TAKE a \in S
  <2>1. At(a) + 1 \in 1..n
    BY <1>1, <1>2
  <2>2. At(list[At(a) + 1]) = At(a) /\ list[At(a) + 1] \in S
    BY <1>2, <1>7, <2>1
  <2> HIDE DEF At, list
  <2> QED BY <1>5, <2>1, <2>2
<1>11. \A i, j \in 1..n : i < j => list[i] \in Before(S, key, list[j])
  <2> SUFFICES ASSUME NEW i \in 1..n, NEW j \in 1..n, i < j
               PROVE  list[i] \in Before(S, key, list[j])
    OBVIOUS
  <2>1. /\ list[i] \in S /\ At(list[i]) = i - 1
        /\ list[j] \in S /\ At(list[j]) = j - 1
    <3> HIDE DEF At, list
    <3> QED BY <1>7
  <2>2. ~(list[j] \in Before(S, key, list[i]))
    <3>1. ~(j - 1 < i - 1)
      BY <1>1
    <3> HIDE DEF list, At
    <3> QED BY <1>3, <2>1, <3>1
  <2>3. list[i] # list[j]
    <3>1. i - 1 # j - 1
      BY <1>1
    <3> HIDE DEF list, At
    <3> QED BY <2>1, <3>1
  <2> HIDE DEF At, list
  <2> QED BY <1>4, <2>1, <2>2, <2>3
<1> QED BY <1>9, <1>10, <1>11

-----------------------------------------------------------------------------
\* At most three targets have a highest one.
LEMMA HighestOfThree ==
    ASSUME NEW T, T # {}, NEW x \in Int, NEW y \in Int, NEW z \in Int,
           T \subseteq {x, y, z}
    PROVE  Max(T) \in T
<1>1. \E m \in T : \A k \in T : m >= k
  <2>1. \A k \in T : k = x \/ k = y \/ k = z
    OBVIOUS
  <2>2. PICK m \in {x, y, z} : m \in T /\ \A k \in {x, y, z} : k \in T => m >= k
    <3>1. CASE x \in T /\ (y \in T => x >= y) /\ (z \in T => x >= z)
      BY <3>1
    <3>2. CASE y \in T /\ (x \in T => y >= x) /\ (z \in T => y >= z)
      BY <3>2
    <3>3. CASE z \in T /\ (x \in T => z >= x) /\ (y \in T => z >= y)
      BY <3>3
    <3>4. x \in T \/ y \in T \/ z \in T
      BY <2>1
    <3>5. \/ x \in T /\ (y \in T => x >= y) /\ (z \in T => x >= z)
          \/ y \in T /\ (x \in T => y >= x) /\ (z \in T => y >= z)
          \/ z \in T /\ (x \in T => z >= x) /\ (y \in T => z >= y)
      BY <3>4
    <3> QED BY <3>1, <3>2, <3>3, <3>5
  <2> QED BY <2>1, <2>2
<1> QED BY <1>1 DEF Max

\* A yield rounded to tenths keeps the order of yields, and is on its side of
\* the ends of the bands or at the end itself.
LEMMA Rounding ==
    ASSUME NEW y \in Int
    PROVE  /\ ToTenths(y) \in Int
           /\ \A z \in Int : y <= z => ToTenths(y) <= ToTenths(z)
           /\ \A band : MatchesYieldBand(y, band) => NearYieldBand(ToTenths(y), band)
<1>1. \A z \in Int : ToTenths(z) = (z + 5) \div 10 \/ ToTenths(z) = (z + 4) \div 10
  BY DEF ToTenths
<1>2. ToTenths(y) \in Int
  BY <1>1
<1>3. ASSUME NEW z \in Int, y <= z PROVE ToTenths(y) <= ToTenths(z)
  <2>1. CASE y = z
    BY <1>2, <2>1
  <2>2. CASE y < z
    <3>1. /\ (y + 5) \div 10 <= (z + 5) \div 10 /\ (y + 5) \div 10 <= (z + 4) \div 10
          /\ (y + 4) \div 10 <= (z + 5) \div 10 /\ (y + 4) \div 10 <= (z + 4) \div 10
      BY <2>2
    <3> QED BY <1>1, <3>1
  <2> QED BY <1>3, <2>1, <2>2
<1>4. /\ y < 800 => ToTenths(y) <= 80
      /\ y \in 800..900 => ToTenths(y) \in 80..90
      /\ y > 900 => ToTenths(y) >= 90
  BY <1>1
<1>5. ASSUME NEW band, MatchesYieldBand(y, band) PROVE NearYieldBand(ToTenths(y), band)
  BY <1>4, <1>5 DEF MatchesYieldBand, NearYieldBand
<1> QED BY <1>2, <1>3, <1>5

\* A card shows the figures by which it is filtered and sorted, the yield to the
\* nearest tenth.
LEMMA CardFigures ==
    ASSUME NEW c, IsRow(c.row)
    PROVE  /\ MinTicketDisplay(c) \in Int
           /\ CatalogueMinBasis(c) = MinTicketDisplay(c)
           /\ CatalogueYieldBasis(c) \in Int
           /\ YieldDisplay(c) = ToTenths(CatalogueYieldBasis(c))
<1> DEFINE options == c.row.options
<1>1. /\ DOMAIN options \subseteq OptionIds
      /\ \A id \in DOMAIN options : options[id].min \in Int /\ options[id].yield \in Int
      /\ "standard" \in DOMAIN options
      /\ \E id \in DOMAIN options : options[id].recommended
  BY DEF IsRow, IsOptions, Terms
<1>2. Recommended(c) \in DOMAIN options
  BY <1>1 DEF Recommended
<1>3. /\ MinTicketDisplay(c) \in Int
      /\ CatalogueMinBasis(c) = MinTicketDisplay(c)
  BY <1>1, <1>2 DEF MinTicketDisplay, CatalogueMinBasis
<1>4. Max(Yields(c)) \in Int
  <2> DEFINE of(id) == IF id \in DOMAIN options THEN options[id].yield ELSE 0
  <2>1. Yields(c) = {options[id].yield : id \in DOMAIN options}
    BY DEF Yields
  <2>2. Yields(c) # {} /\ Yields(c) \subseteq Int
    BY <1>1, <2>1
  <2>3. Yields(c) \subseteq {of("standard"), of("premium"), of("green")}
    BY <1>1, <2>1 DEF OptionIds
  <2>4. of("standard") \in Int /\ of("premium") \in Int /\ of("green") \in Int
    BY <1>1
  <2> HIDE DEF of
  <2>5. Max(Yields(c)) \in Yields(c)
    BY <2>2, <2>3, <2>4, HighestOfThree
  <2> QED BY <2>2, <2>5
<1>5. /\ CatalogueYieldBasis(c) \in Int
      /\ YieldDisplay(c) = ToTenths(CatalogueYieldBasis(c))
  BY <1>4 DEF CatalogueYieldBasis, YieldDisplay
<1> QED BY <1>3, <1>5

-----------------------------------------------------------------------------
LEMMA MaxOfTwo ==
    ASSUME NEW x \in Int, NEW y \in Int
    PROVE  /\ Max({x, y}) \in {x, y} /\ Max({x, y}) >= x /\ Max({x, y}) >= y
           /\ Min({x, y}) \in {x, y} /\ Min({x, y}) <= x /\ Min({x, y}) <= y
<1>1. \E m \in {x, y} : \A k \in {x, y} : m >= k
  <2>1. x >= y \/ y >= x
    OBVIOUS
  <2> QED BY <2>1
<1>2. \E m \in {x, y} : \A k \in {x, y} : m <= k
  <2>1. x <= y \/ y <= x
    OBVIOUS
  <2> QED BY <2>1
<1>3. Max({x, y}) \in {x, y} /\ \A k \in {x, y} : Max({x, y}) >= k
  BY <1>1 DEF Max
<1>4. Min({x, y}) \in {x, y} /\ \A k \in {x, y} : Min({x, y}) <= k
  BY <1>2 DEF Min
<1> QED BY <1>3, <1>4

\* The last page has a card on it, and there is one page at least.
LEMMA LastPage ==
    ASSUME NEW n \in Nat
    PROVE  /\ TotalPages(n) \in Nat \ {0}
           /\ n > 0 => (TotalPages(n) - 1) * PageSize < n
<1>1. PageSize \in Nat /\ PageSize > 0
  BY CatalogueAssumption
<1> DEFINE q == (n + PageSize - 1) \div PageSize
<1>2. q \in Nat /\ q * PageSize <= n + PageSize - 1
  <2>1. n + PageSize - 1 \in Nat
    BY <1>1
  <2> QED BY <1>1, <2>1
<1>3. TotalPages(n) = Max({1, q})
  BY DEF TotalPages
<1> HIDE DEF q
<1>4. TotalPages(n) \in {1, q} /\ TotalPages(n) >= 1
  <2>1. 1 \in Int /\ q \in Int
    BY <1>2
  <2>2. Max({1, q}) \in {1, q} /\ Max({1, q}) >= 1
    BY <2>1, MaxOfTwo
  <2> QED BY <1>3, <2>2
<1>5. (q - 1) * PageSize = q * PageSize - PageSize
  BY <1>1, <1>2
<1>6. q * PageSize \in Int
  BY <1>1, <1>2
<1>7. n > 0 => (TotalPages(n) - 1) * PageSize < n
  <2>1. CASE TotalPages(n) = 1
    BY <1>1, <2>1
  <2>2. CASE TotalPages(n) = q
    BY <1>1, <1>2, <1>5, <1>6, <2>2
  <2> QED BY <1>4, <2>1, <2>2
<1> QED BY <1>2, <1>4, <1>7

\* A page of a list that is not empty has a card on it.
LEMMA PageHasCards ==
    ASSUME NEW n \in Nat, n > 0, NEW page \in Nat \ {0}
    PROVE  LET p == Min({page, TotalPages(n)}) IN
           /\ p \in Nat \ {0}
           /\ (p - 1) * PageSize + 1 \in 1..n
<1>1. PageSize \in Nat /\ PageSize > 0
  BY CatalogueAssumption
<1> DEFINE last == TotalPages(n)
           p == Min({page, last})
<1>2. last \in Nat \ {0} /\ (last - 1) * PageSize < n
  BY LastPage
<1>3. p \in {page, last} /\ p <= last
  <2> HIDE DEF last
  <2>1. page \in Int /\ last \in Int
    BY <1>2
  <2> QED BY <2>1, MaxOfTwo
<1> HIDE DEF p, last
<1>4. p \in Nat /\ p >= 1
  BY <1>2, <1>3
<1>5. (p - 1) * PageSize <= (last - 1) * PageSize
  <2>1. PICK d \in Nat : last - 1 = (p - 1) + d
    BY <1>2, <1>3, <1>4
  <2>2. (last - 1) * PageSize = (p - 1) * PageSize + d * PageSize
    BY <1>1, <1>4, <2>1
  <2>3. d * PageSize \in Nat /\ (p - 1) * PageSize \in Nat
    BY <1>1, <1>4
  <2> QED BY <2>2, <2>3
<1>6. (p - 1) * PageSize \in Nat /\ (last - 1) * PageSize \in Int
  BY <1>1, <1>2, <1>4
<1> QED BY <1>2, <1>4, <1>5, <1>6 DEF p, last

-----------------------------------------------------------------------------
\* A form that passes is written as a row: it has terms for the standard
\* option, which it recommends.
LEMMA FormWritesRow ==
    ASSUME NEW f, IsForm(f), ValidForm(f)
    PROVE  IsRow(FormValues(f))
<1> DEFINE row == FormValues(f)
           options == FormOptions(f)
           ids == {"standard"} \cup {i \in {"premium", "green"} : f[i] # None}
<1>1. \A id \in ids : f[id].min \in Int /\ f[id].yield \in Int
  <2>1. f.standard \in FormOption /\ f.premium \in {None} \cup FormOption
        /\ f.green \in {None} \cup FormOption
    BY DEF IsForm
  <2> QED BY <2>1 DEF FormOption
<1>2. IsOptions(options)
  <2>1. options = [id \in ids |-> [min |-> f[id].min, yield |-> f[id].yield,
                                   recommended |-> id = "standard"]]
    BY DEF FormOptions
  <2>2. ids \subseteq OptionIds /\ "standard" \in ids
    BY DEF OptionIds
  <2>3. options \in [ids -> Terms] /\ DOMAIN options = ids
    <3> HIDE DEF ids, options
    <3> QED BY <1>1, <2>1 DEF Terms
  <2>4. options["standard"].recommended
    <3> HIDE DEF ids, options
    <3> QED BY <2>1, <2>2
  <2> HIDE DEF ids, options
  <2> QED BY <2>2, <2>3, <2>4 DEF IsOptions
<1>3. /\ row.status = "draft" /\ row.place = f.place /\ row.spaces = f.spaces
      /\ row.visitors = f.visitors /\ row.revenue = f.revenue /\ row.mix = f.mix
      /\ row.options = options /\ row.capacity = ParseCapacity(f.capacity)
  BY DEF FormValues
<1>4. row = [k \in Fields({"status", "options"}) |-> row[k]]
  BY DEF FormValues, Fields
<1>5. /\ f.place \in {None} \cup SiteTypes /\ f.spaces \in Int /\ IsMix(f.mix)
      /\ {f.visitors, f.revenue} \subseteq Provenance
      /\ ParseCapacity(f.capacity) \in {None} \cup Nat
  <2>1. {f.visitors, f.revenue} \subseteq Provenance
    BY DEF ValidForm
  <2> QED BY <2>1 DEF IsForm, ParseCapacity
<1> HIDE DEF row, options
<1> QED BY <1>2, <1>3, <1>4, <1>5 DEF IsRow, Statuses, row

LEMMA RowChanges ==
    ASSUME NEW row, IsRow(row)
    PROVE  /\ \A s \in Statuses : IsRow([row EXCEPT !.status = s])
           /\ \A c \in {None} \cup Nat : IsRow([row EXCEPT !.capacity = c])
<1>1. DOMAIN row = Fields({"status", "options"})
  BY DEF IsRow
<1>2. ASSUME NEW s \in Statuses PROVE IsRow([row EXCEPT !.status = s])
  <2> DEFINE new == [row EXCEPT !.status = s]
  <2>1. new = [k \in Fields({"status", "options"}) |-> new[k]]
    BY <1>1
  <2>2. /\ new.status = s /\ new.place = row.place /\ new.spaces = row.spaces
        /\ new.visitors = row.visitors /\ new.revenue = row.revenue /\ new.mix = row.mix
        /\ new.options = row.options /\ new.capacity = row.capacity
    BY <1>1 DEF Fields
  <2> HIDE DEF new
  <2> QED BY <2>1, <2>2 DEF IsRow, new
<1>3. ASSUME NEW c \in {None} \cup Nat PROVE IsRow([row EXCEPT !.capacity = c])
  <2> DEFINE new == [row EXCEPT !.capacity = c]
  <2>1. new = [k \in Fields({"status", "options"}) |-> new[k]]
    BY <1>1
  <2>2. /\ new.status = row.status /\ new.place = row.place /\ new.spaces = row.spaces
        /\ new.visitors = row.visitors /\ new.revenue = row.revenue /\ new.mix = row.mix
        /\ new.options = row.options /\ new.capacity = c
    BY <1>1 DEF Fields
  <2> HIDE DEF new
  <2> QED BY <2>1, <2>2 DEF IsRow, new
<1> QED BY <1>2, <1>3

\* The form of a draft holds what its row holds.
LEMMA RowFillsForm ==
    ASSUME NEW row, IsRow(row)
    PROVE  IsForm(AssetToFormInput(row))
<1> DEFINE f == AssetToFormInput(row)
           options == row.options
           terms(id) == IF id \in DOMAIN options
                          THEN [min |-> options[id].min, yield |-> options[id].yield]
                          ELSE None
<1>1. /\ f.standard = terms("standard") /\ f.premium = terms("premium")
      /\ f.green = terms("green") /\ f.place = row.place /\ f.spaces = row.spaces
      /\ f.visitors = row.visitors /\ f.revenue = row.revenue /\ f.mix = row.mix
      /\ f.capacity = IF row.capacity = None THEN 0 ELSE row.capacity
  BY DEF AssetToFormInput
<1>2. \A id \in DOMAIN options : options[id].min \in Int /\ options[id].yield \in Int
  BY DEF IsRow, IsOptions, Terms
<1>3. /\ \A id \in OptionIds : terms(id) \in {None} \cup FormOption
      /\ terms("standard") \in FormOption
  BY <1>2 DEF FormOption, IsRow, IsOptions
<1>4. f = [k \in Fields({"standard", "premium", "green"}) |-> f[k]]
  BY DEF AssetToFormInput, Fields
<1>5. (IF row.capacity = None THEN 0 ELSE row.capacity) \in Nat
  BY DEF IsRow
<1>6. /\ f.place \in {None} \cup SiteTypes /\ f.spaces \in Int /\ f.capacity \in Nat
      /\ {f.visitors, f.revenue} \subseteq Provenance /\ IsMix(f.mix)
  BY <1>1, <1>5 DEF IsRow
<1>7. f.standard \in FormOption /\ {f.premium, f.green} \subseteq {None} \cup FormOption
  <2> HIDE DEF f, terms
  <2> QED BY <1>1, <1>3 DEF OptionIds
<1> HIDE DEF f
<1> QED BY <1>4, <1>6, <1>7 DEF IsForm, f

\* What is sent of a form is a form, and so is what is typed into an open one.
LEMMA SentIsForm ==
    ASSUME NEW f, IsForm(f)
    PROVE  /\ IsForm(InputFromForm(f))
           /\ \A fields : form # None /\ IsForm(form.input) => IsForm(Typed(f, fields))
<1>1. DOMAIN f = Fields({"standard", "premium", "green"})
  BY DEF IsForm
<1>2. IsForm(InputFromForm(f))
  <2> DEFINE new == InputFromForm(f)
  <2>1. new = [k \in Fields({"standard", "premium", "green"}) |-> new[k]]
    BY <1>1 DEF InputFromForm
  <2>2. /\ new.place = f.place /\ new.spaces = f.spaces /\ new.capacity = f.capacity
        /\ new.visitors = f.visitors /\ new.revenue = f.revenue /\ new.mix = f.mix
        /\ new.standard = f.standard /\ new.premium = f.premium
        /\ new.green \in {None, f.green}
    BY <1>1 DEF InputFromForm, Fields
  <2> HIDE DEF new
  <2> QED BY <2>1, <2>2 DEF IsForm, new
<1>3. ASSUME NEW fields, form # None, IsForm(form.input) PROVE IsForm(Typed(f, fields))
  <2> DEFINE new == Typed(f, fields)
             old == form.input
  <2>1. new = [k \in Fields({"standard", "premium", "green"}) |-> new[k]]
    BY <1>1 DEF Typed
  <2>2. /\ new.place \in {f.place, old.place} /\ new.spaces \in {f.spaces, old.spaces}
        /\ new.capacity \in {f.capacity, old.capacity} /\ new.mix \in {f.mix, old.mix}
        /\ new.visitors \in {f.visitors, old.visitors} /\ new.revenue \in {f.revenue, old.revenue}
        /\ new.standard \in {f.standard, old.standard}
        /\ new.premium \in {f.premium, old.premium} /\ new.green \in {f.green, old.green}
    BY <1>1 DEF Typed, Fields
  <2> HIDE DEF new
  <2> QED BY <1>3, <2>1, <2>2 DEF IsForm, new
<1> QED BY <1>2, <1>3

\* The cards the server sends are published rows.
LEMMA SentCards ==
    ASSUME CatalogueTypeOK
    PROVE  /\ DOMAIN ListPublishedAssets \subseteq Assets
           /\ \A a \in DOMAIN ListPublishedAssets :
                /\ IsRow(ListPublishedAssets[a].row)
                /\ ListPublishedAssets[a].row.status = "published"
                /\ ListPublishedAssets[a].funded \in BOOLEAN
<1> DEFINE open == {b \in Rows : asset[b].status = "published"}
<1>1. open \subseteq Rows /\ open \subseteq Assets /\ \A a \in open : asset[a].status = "published"
  BY DEF Rows
<1>2. \A a \in open : IsRow(asset[a])
  BY <1>1 DEF CatalogueTypeOK
<1>3. ListPublishedAssets = [a \in open |-> [row |-> asset[a], funded |-> ~FundingOpen(a)]]
  BY DEF ListPublishedAssets
<1> HIDE DEF open
<1>4. DOMAIN ListPublishedAssets = open
  BY <1>3
<1>5. ASSUME NEW a \in open
      PROVE  /\ ListPublishedAssets[a].row = asset[a]
             /\ ListPublishedAssets[a].funded \in BOOLEAN
  <2>1. (~FundingOpen(a)) \in BOOLEAN
    OBVIOUS
  <2> QED BY <1>3, <2>1
<1> QED BY <1>1, <1>2, <1>4, <1>5

\* The server sends the page on at most to an address of the list.
LEMMA ClampsToUrl ==
    ASSUME NEW u \in Url, NEW cs, DOMAIN cs \subseteq Assets, Clamp(u, cs)
    PROVE  next' \in {None} \cup Url
<1> DEFINE n == Cardinality({a \in DOMAIN cs : Matches(cs[a], u)})
<1>1. n \in Nat
  <2>1. {a \in DOMAIN cs : Matches(cs[a], u)} \subseteq Assets
    OBVIOUS
  <2> QED BY <2>1, CatalogueAssumption, FS_Subset, FS_CardinalityType
<1>2. next' = None \/ next' = [u EXCEPT !.page = TotalPages(n)]
  BY DEF Clamp
<1> HIDE DEF n
<1>3. TotalPages(n) \in Nat \ {0}
  BY <1>1, LastPage
<1> QED BY <1>2, <1>3 DEF Url

\* The types are kept by what staff do to the catalogue.
LEMMA AuthorKeepsTypes ==
    ASSUME CatalogueTypeOK, Author
    PROVE  CatalogueTypeOK'
<1> USE DEF VisitorWaits, chooser, Change
<1> DEFINE Kept ==
             /\ DOMAIN asset' = Assets /\ \A a \in Rows' : IsRow(asset'[a])
             /\ committed' \in [Assets -> Nat] /\ changes' \in 0..MaxChanges
             /\ form' = None \/ (form'.asset \in Assets /\ IsForm(form'.input))
             /\ UNCHANGED <<view, cards, url, next, step, answers, done>>
<1> SUFFICES Kept
  BY DEF CatalogueTypeOK
<1>1. changes < MaxChanges => changes + 1 \in 0..MaxChanges
  BY CatalogueAssumption DEF CatalogueTypeOK
<1>2. ASSUME NEW a \in Assets, NEW row, IsRow(row), asset' = [asset EXCEPT ![a] = row]
      PROVE  DOMAIN asset' = Assets /\ \A b \in Rows' : IsRow(asset'[b])
  BY <1>2 DEF CatalogueTypeOK, Rows
<1>3. ASSUME NEW a \in Assets, NEW f \in Forms, CreateAsset(a, f) PROVE  Kept
  <2>1. IsRow(FormValues(InputFromForm(f)))
    BY <1>3, CatalogueAssumption, SentIsForm, FormWritesRow DEF CreateAsset
  <2>2. asset' = [asset EXCEPT ![a] = FormValues(InputFromForm(f))]
    BY <1>3 DEF CreateAsset
  <2> QED BY <1>1, <1>2, <1>3, <2>1, <2>2 DEF CreateAsset, CatalogueTypeOK
<1>4. ASSUME NEW a \in Assets, OpenEdit(a) PROVE  Kept
  <2>1. form' = [asset |-> a, input |-> AssetToFormInput(asset[a])] /\ a \in Rows
        /\ UNCHANGED <<asset, committed, changes, view, cards, url, next, step, answers, done>>
    BY <1>4 DEF OpenEdit
  <2>2. IsForm(AssetToFormInput(asset[a]))
    BY <2>1, RowFillsForm DEF CatalogueTypeOK
  <2>3. form'.asset = a /\ form'.input = AssetToFormInput(asset[a])
    BY <2>1
  <2> QED BY <2>1, <2>2, <2>3 DEF CatalogueTypeOK, Rows
<1>5. ASSUME NEW f \in Forms, NEW fields \in Edits, UpdateDraftAsset(f, fields) PROVE  Kept
  <2> DEFINE sent == InputFromForm(Typed(f, fields))
  <2>1. /\ form # None /\ ValidForm(sent) /\ form' = None /\ changes < MaxChanges
        /\ changes' = changes + 1
        /\ asset' = [asset EXCEPT ![form.asset] = FormValues(sent)]
        /\ UNCHANGED <<committed, view, cards, url, next, step, answers, done>>
    BY <1>5 DEF UpdateDraftAsset
  <2>2. form.asset \in Assets /\ IsForm(form.input)
    BY <2>1 DEF CatalogueTypeOK
  <2>3. IsForm(Typed(f, fields))
    BY <2>1, <2>2, CatalogueAssumption, SentIsForm
  <2>4. IsForm(sent)
    BY <2>3, SentIsForm
  <2> HIDE DEF sent
  <2>5. IsRow(FormValues(sent))
    BY <2>1, <2>4, FormWritesRow
  <2> QED BY <1>1, <1>2, <2>1, <2>2, <2>5 DEF CatalogueTypeOK
<1>6. ASSUME LeaveForm PROVE  Kept
  BY <1>6 DEF LeaveForm, CatalogueTypeOK, Rows
<1>7. ASSUME NEW a \in Assets, NEW s \in Statuses, SetAssetStatus(a, s) PROVE  Kept
  <2>1. /\ a \in Rows /\ asset' = [asset EXCEPT ![a] = [asset[a] EXCEPT !.status = s]]
        /\ changes < MaxChanges /\ changes' = changes + 1
        /\ UNCHANGED <<committed, form, view, cards, url, next, step, answers, done>>
    BY <1>7 DEF SetAssetStatus
  <2>2. IsRow([asset[a] EXCEPT !.status = s])
    BY <2>1, RowChanges DEF CatalogueTypeOK
  <2> QED BY <1>1, <1>2, <2>1, <2>2 DEF CatalogueTypeOK
<1>8. ASSUME NEW a \in Assets, NEW c \in Capacities, UpdateAssetCapacity(a, c) PROVE  Kept
  <2>1. /\ a \in Rows
        /\ asset' = [asset EXCEPT ![a] = [asset[a] EXCEPT !.capacity = ParseCapacity(c)]]
        /\ changes < MaxChanges /\ changes' = changes + 1
        /\ UNCHANGED <<committed, form, view, cards, url, next, step, answers, done>>
    BY <1>8 DEF UpdateAssetCapacity
  <2>2. ParseCapacity(c) \in {None} \cup Nat
    BY CatalogueAssumption DEF ParseCapacity
  <2>3. IsRow([asset[a] EXCEPT !.capacity = ParseCapacity(c)])
    BY <2>1, <2>2, RowChanges DEF CatalogueTypeOK
  <2> QED BY <1>1, <1>2, <2>1, <2>3 DEF CatalogueTypeOK
<1>9. ASSUME NEW a \in Assets, NEW t \in Tickets, Invest(a, t) PROVE  Kept
  <2>1. t \in Nat
    BY CatalogueAssumption
  <2> QED BY <1>1, <1>9, <2>1 DEF Invest, CatalogueTypeOK, Rows
<1> QED BY <1>3, <1>4, <1>5, <1>6, <1>7, <1>8, <1>9 DEF Author

\* What is changed of an address leaves an address.
LEMMA UrlChanges ==
    ASSUME NEW u \in Url
    PROVE  /\ \A new \in [Filters -> Values] : [u EXCEPT !.filters = new, !.page = 1] \in Url
           /\ \A sort \in Sorts : [u EXCEPT !.sort = sort, !.page = 1] \in Url
           /\ \A page \in Nat \ {0} : [u EXCEPT !.page = page] \in Url
<1>1. \A v \in Url, page \in Nat \ {0} : [v EXCEPT !.page = page] \in Url
  BY DEF Url
<1>2. ASSUME NEW new \in [Filters -> Values]
      PROVE  [u EXCEPT !.filters = new, !.page = 1] \in Url
  <2> DEFINE v == [u EXCEPT !.filters = new]
  <2>1. v \in Url
    BY DEF Url
  <2>2. [u EXCEPT !.filters = new, !.page = 1] = [v EXCEPT !.page = 1]
    OBVIOUS
  <2>3. 1 \in Nat \ {0}
    OBVIOUS
  <2> HIDE DEF v
  <2> QED BY <1>1, <2>1, <2>2, <2>3
<1>3. ASSUME NEW sort \in Sorts
      PROVE  [u EXCEPT !.sort = sort, !.page = 1] \in Url
  <2> DEFINE v == [u EXCEPT !.sort = sort]
  <2>1. v \in Url
    BY DEF Url
  <2>2. [u EXCEPT !.sort = sort, !.page = 1] = [v EXCEPT !.page = 1]
    OBVIOUS
  <2>3. 1 \in Nat \ {0}
    OBVIOUS
  <2> HIDE DEF v
  <2> QED BY <1>1, <2>1, <2>2, <2>3
<1> QED BY <1>1, <1>2, <1>3

\* The types are kept by what a visitor does in the catalogue.
LEMMA BrowseKeepsTypes ==
    ASSUME CatalogueTypeOK, Browse
    PROVE  CatalogueTypeOK'
<1> USE DEF CatalogueStays, admin, chooser
<1> DEFINE Kept ==
             /\ view' = "list" /\ url' \in Url /\ next' \in {None} \cup Url
             /\ cards' = cards \/ cards' = ListPublishedAssets
             /\ UNCHANGED <<asset, committed, form, changes, step, answers, done>>
<1> SUFFICES Kept
  <2>1. DOMAIN cards' \subseteq Assets
        /\ \A a \in DOMAIN cards' : /\ IsRow(cards'[a].row) /\ cards'[a].row.status = "published"
                                    /\ cards'[a].funded \in BOOLEAN
    <3>1. CASE cards' = cards
      BY <3>1 DEF CatalogueTypeOK
    <3>2. CASE cards' = ListPublishedAssets
      BY <3>2, SentCards
    <3> QED BY <3>1, <3>2
  <2> QED BY <2>1 DEF CatalogueTypeOK, Rows
<1>1. view = "list" => url \in Url /\ next \in {None} \cup Url
  BY DEF CatalogueTypeOK
<1>2. DOMAIN ListPublishedAssets \subseteq Assets
  BY SentCards
<1>3. \A page \in Nat \ {0} : url \in Url => [url EXCEPT !.page = page] \in Url
  BY UrlChanges
<1>4. ASSUME NEW patch, \A f \in DOMAIN patch : patch[f] \in Values, SetParams(patch), url \in Url
      PROVE  next' \in Url
  <2> DEFINE new == [f \in Filters |-> IF f \in DOMAIN patch THEN patch[f] ELSE url.filters[f]]
  <2>1. next' = [url EXCEPT !.filters = new, !.page = 1]
    BY <1>4 DEF SetParams, Url
  <2>2. new \in [Filters -> Values]
    BY <1>4 DEF Url
  <2> HIDE DEF new
  <2> QED BY <1>4, <2>1, <2>2, UrlChanges
<1>5. ASSUME NEW page \in 1..Cardinality(Assets), OpenCatalogue(page) PROVE  Kept
  <2> DEFINE u == [filters |-> NoFilters, sort |-> "min_asc", page |-> page]
  <2>1. u \in Url
    <3>1. NoFilters \in [Filters -> Values]
      BY DEF Values, NoFilters
    <3>2. page \in Nat \ {0}
      BY CatalogueAssumption, FS_CardinalityType
    <3> QED BY <3>1, <3>2 DEF Url, Sorts
  <2>2. url' = u /\ Clamp(u, ListPublishedAssets) /\ view' = "list" /\ cards' = ListPublishedAssets
    BY <1>5 DEF OpenCatalogue
  <2>3. UNCHANGED <<asset, committed, form, changes, step, answers, done>>
    BY <1>5 DEF OpenCatalogue
  <2> HIDE DEF u
  <2>4. next' \in {None} \cup Url
    BY <1>2, <2>1, <2>2, ClampsToUrl
  <2> QED BY <2>1, <2>2, <2>3, <2>4
<1>6. ASSUME NEW f \in Filters, NEW value \in Offered[f], ChooseFilter(f, value) PROVE  Kept
  <2>1. value \in Values
    BY DEF Values
  <2>2. next' \in Url
    <3> DEFINE patch == [x \in {f} |-> value]
    <3>1. \A x \in DOMAIN patch : patch[x] \in Values
      BY <2>1
    <3>2. SetParams(patch) /\ url \in Url
      BY <1>1, <1>6 DEF ChooseFilter
    <3> HIDE DEF patch
    <3> QED BY <1>4, <3>1, <3>2
  <2> QED BY <1>1, <1>6, <2>2 DEF ChooseFilter
<1>7. ASSUME NEW sort \in Sorts, ChooseSort(sort) PROVE  Kept
  <2>1. next' \in Url
    BY <1>1, <1>7, UrlChanges DEF ChooseSort
  <2> QED BY <1>1, <1>7, <2>1 DEF ChooseSort
<1>8. ASSUME NEW f \in Filters, ClearChip(f) PROVE  Kept
  <2>1. next' \in Url
    <3> DEFINE patch == [x \in {f} |-> "all"]
    <3>1. \A x \in DOMAIN patch : patch[x] \in Values
      BY DEF Values
    <3>2. SetParams(patch) /\ url \in Url
      BY <1>1, <1>8 DEF ClearChip
    <3> HIDE DEF patch
    <3> QED BY <1>4, <3>1, <3>2
  <2> QED BY <1>1, <1>8, <2>1 DEF ClearChip
<1>9. ASSUME ClearFilters PROVE  Kept
  <2>1. next' \in Url
    <3> DEFINE patch == [f \in Filters |-> "all"]
    <3>1. \A x \in DOMAIN patch : patch[x] \in Values
      BY DEF Values
    <3>2. SetParams(patch) /\ url \in Url
      BY <1>1, <1>9 DEF ClearFilters
    <3> HIDE DEF patch
    <3> QED BY <1>4, <3>1, <3>2
  <2> QED BY <1>1, <1>9, <2>1 DEF ClearFilters
<1>10. ASSUME NEW page \in 1..Cardinality(Assets), ChangePage(page) PROVE  Kept
  <2>1. page \in Nat \ {0}
    BY CatalogueAssumption, FS_CardinalityType
  <2>2. next' \in Url
    BY <1>1, <1>3, <1>10, <2>1 DEF ChangePage
  <2> QED BY <1>1, <1>10, <2>2 DEF ChangePage
<1>11. ASSUME Navigate PROVE  Kept
  <2>1. /\ view = "list" /\ view' = "list" /\ next \in Url /\ url' = next
        /\ cards' = ListPublishedAssets /\ Clamp(next, ListPublishedAssets)
        /\ UNCHANGED <<asset, committed, form, changes, step, answers, done>>
    BY <1>1, <1>11 DEF Navigate
  <2>2. next' \in {None} \cup Url
    BY <1>2, <2>1, ClampsToUrl
  <2> QED BY <2>1, <2>2
<1> QED BY <1>5, <1>6, <1>7, <1>8, <1>9, <1>10, <1>11 DEF Browse

\* The types are kept by the four questions.
LEMMA ChooseKeepsTypes ==
    ASSUME CatalogueTypeOK, Choose \/ Leave
    PROVE  CatalogueTypeOK'
<1> USE DEF ChooserStays, admin, chooser
<1>1. Len(Questions) = 4 /\ \A i \in 1..4 : Questions[i] \in DOMAIN Answers
  BY DEF Questions, Answers
<1>2. DOMAIN NoAnswers = DOMAIN Answers /\ \A q \in DOMAIN Answers : NoAnswers[q] = None
  BY DEF NoAnswers
<1>3. CASE OpenChooser
  BY <1>3, SentCards DEF OpenChooser, CatalogueTypeOK, Rows
<1>4. CASE Leave
  <2>1. DOMAIN << >> = {}
    OBVIOUS
  <2>2. /\ view' = "none" /\ DOMAIN cards' = {} /\ url' = None /\ next' = None
        /\ step' = 1 /\ done' = FALSE /\ answers' = NoAnswers
        /\ UNCHANGED <<asset, committed, form, changes>>
    BY <1>4, <2>1 DEF Leave
  <2>3. done' \in BOOLEAN /\ step' \in 1..Len(Questions)
    <3>1. done' \in BOOLEAN
      BY <2>2
    <3>2. step' \in 1..Len(Questions)
      BY <1>1, <2>2
    <3> QED BY <3>1, <3>2
  <2>4. DOMAIN answers' = DOMAIN Answers /\ \A q \in DOMAIN answers' : answers'[q] \in Answers[q] \cup {None}
    BY <1>2, <2>2
  <2>5. view' \in {"none", "list", "chooser"} /\ view' # "list"
    BY <2>2
  <2> QED BY <2>2, <2>3, <2>4, <2>5 DEF CatalogueTypeOK, Rows
<1>5. CASE \/ \E value \in UNION {Answers[q] : q \in DOMAIN Answers} :
                view = "chooser" /\ value \in Answers[Question] /\ SetAnswer(value)
           \/ Skip \/ ContinueStep \/ GoBack \/ ChangeAnswers
  <2>1. view = "chooser" /\ UNCHANGED <<asset, committed, form, changes, view, cards, url, next>>
    BY <1>5 DEF SetAnswer, Skip, ContinueStep, GoBack, ChangeAnswers
  <2>2. step' \in 1..4 /\ done' \in BOOLEAN
    <3>1. step \in 1..4 /\ done \in BOOLEAN
      BY <1>1 DEF CatalogueTypeOK
    <3>2. \/ UNCHANGED <<step, done>> \/ GoNext
          \/ step > 1 /\ step' = step - 1 /\ UNCHANGED done
          \/ done' = FALSE /\ step' = 1
      BY <1>5 DEF SetAnswer, Skip, ContinueStep, GoBack, ChangeAnswers
    <3>3. GoNext => (IF step = 4 THEN done' = TRUE /\ step' = step
                                   ELSE step' = step + 1 /\ done' = done)
      BY <1>1 DEF GoNext
    <3>4. step' \in 1..4
      BY <3>1, <3>2, <3>3
    <3>5. done' = done \/ done' = TRUE \/ done' = FALSE
      BY <3>2, <3>3
    <3>6. done' \in BOOLEAN
      BY <3>1, <3>5
    <3> QED BY <3>4, <3>6
  <2>3. DOMAIN answers' = DOMAIN Answers
        /\ \A q \in DOMAIN Answers : answers'[q] \in Answers[q] \cup {None}
    <3>1. \/ answers' = answers
          \/ answers' = [answers EXCEPT ![Question] = None]
          \/ \E value \in Answers[Question] : answers' = [answers EXCEPT ![Question] = value]
      BY <1>5 DEF SetAnswer, Skip, ContinueStep, GoBack, ChangeAnswers
    <3>2. DOMAIN answers = DOMAIN Answers
          /\ \A q \in DOMAIN Answers : answers[q] \in Answers[q] \cup {None}
      BY DEF CatalogueTypeOK
    <3> QED BY <3>1, <3>2
  <2> QED BY <1>1, <2>1, <2>2, <2>3 DEF CatalogueTypeOK, Rows
<1> QED BY <1>3, <1>4, <1>5 DEF Choose

\* The rows of the catalogue, the cards a visitor has and the address of her
\* page are what the pages take them to be: every row has the standard option
\* and recommends one, and every card is a published row.
THEOREM CatalogueTyped == CatalogueSpec => []CatalogueTypeOK
<1>1. CatalogueInit => CatalogueTypeOK
  <2> SUFFICES ASSUME CatalogueInit PROVE CatalogueTypeOK
    OBVIOUS
  <2>1. DOMAIN << >> = {}
    OBVIOUS
  <2>2. Len(Questions) = 4 /\ DOMAIN NoAnswers = DOMAIN Answers
        /\ \A q \in DOMAIN Answers : NoAnswers[q] = None
    BY DEF Questions, NoAnswers
  <2>3. 0 \in 0..MaxChanges
    BY CatalogueAssumption
  <2>4. /\ view = "none" /\ DOMAIN cards = {} /\ url = None /\ next = None
        /\ step = 1 /\ done = FALSE /\ answers = NoAnswers /\ form = None /\ changes = 0
    BY <2>1 DEF CatalogueInit
  <2>5. /\ DOMAIN asset = Assets /\ \A a \in Rows : IsRow(asset[a])
        /\ committed \in [Assets -> Nat]
    BY CatalogueAssumption DEF CatalogueInit, Rows
  <2>6. done \in BOOLEAN /\ step \in 1..Len(Questions)
    <3>1. done \in BOOLEAN
      BY <2>4
    <3>2. step \in 1..Len(Questions)
      BY <2>2, <2>4
    <3> QED BY <3>1, <3>2
  <2>7. DOMAIN answers = DOMAIN Answers /\ \A q \in DOMAIN answers : answers[q] \in Answers[q] \cup {None}
    BY <2>2, <2>4
  <2>8. view \in {"none", "list", "chooser"} /\ view # "list"
    BY <2>4
  <2> QED BY <2>3, <2>4, <2>5, <2>6, <2>7, <2>8 DEF CatalogueTypeOK
<1>2. CatalogueTypeOK /\ [CatalogueNext]_catalogueVars => CatalogueTypeOK'
  <2> SUFFICES ASSUME CatalogueTypeOK, [CatalogueNext]_catalogueVars PROVE CatalogueTypeOK'
    OBVIOUS
  <2>1. CASE UNCHANGED catalogueVars
    BY <2>1 DEF catalogueVars, CatalogueTypeOK, Rows
  <2> QED BY <2>1, AuthorKeepsTypes, BrowseKeepsTypes, ChooseKeepsTypes DEF CatalogueNext
<1> QED BY <1>1, <1>2, PTL DEF CatalogueSpec

-----------------------------------------------------------------------------
\* The list is sorted by what its cards show, before it is rounded and after.
LEMMA ListFollowsCards ==
    ASSUME CatalogueTypeOK, view = "list"
    PROVE  CardsFollowFilters
<1> DEFINE S == Filtered(url)
           key == [a \in S |-> CASE url.sort = "min_asc"    -> CatalogueMinBasis(cards[a])
                                 [] url.sort = "yield_desc" -> -CatalogueYieldBasis(cards[a])
                                 [] url.sort = "name_asc"   -> 0]
           n == Cardinality(S)
           sorted == SortCatalogueAssets(S, url.sort)
           minOf(i) == MinTicketDisplay(cards[sorted[i]])
           upTo(i) == YieldDisplay(cards[sorted[i]])
<1>1. url \in Url /\ url.page \in Nat \ {0} /\ url.sort \in Sorts
  BY DEF CatalogueTypeOK, Url
<1>2. /\ S \subseteq DOMAIN cards /\ DOMAIN cards \subseteq Assets
      /\ \A a \in S : IsRow(cards[a].row) /\ Matches(cards[a], url)
  BY DEF Filtered, CatalogueTypeOK
<1>3. S \in SUBSET Nat /\ IsFiniteSet(S) /\ n \in Nat
  BY <1>2, CatalogueAssumption, FS_Subset, FS_CardinalityType
<1>4. \A a \in S : /\ MinTicketDisplay(cards[a]) \in Int
                   /\ CatalogueMinBasis(cards[a]) = MinTicketDisplay(cards[a])
                   /\ CatalogueYieldBasis(cards[a]) \in Int
                   /\ YieldDisplay(cards[a]) = ToTenths(CatalogueYieldBasis(cards[a]))
  BY <1>2, CardFigures
<1>5. /\ url.sort = "min_asc" => \A a \in S : key[a] = MinTicketDisplay(cards[a])
      /\ url.sort = "yield_desc" => \A a \in S : key[a] = -CatalogueYieldBasis(cards[a])
      /\ url.sort = "name_asc" => \A a \in S : key[a] = 0
  <2> HIDE DEF S
  <2> QED BY <1>4
<1>6. \A a \in S : key[a] \in Int
  <2> HIDE DEF S, key
  <2> QED BY <1>1, <1>4, <1>5 DEF Sorts
<1>7. sorted = InOrder(S, key)
  BY DEF SortCatalogueAssets
<1>8. /\ sorted \in Seq(S) /\ Len(sorted) = n
      /\ \A i, j \in 1..n : i < j => sorted[i] \in Before(S, key, sorted[j])
  <2> HIDE DEF S, key, sorted
  <2> QED BY <1>3, <1>6, <1>7, InOrderSorts
<1>9. DOMAIN sorted = 1..n /\ \A i \in 1..n : sorted[i] \in S
  <2> HIDE DEF S, sorted
  <2> QED BY <1>3, <1>8
<1>10. sorted # << >> => PageSlice(url) # << >>
  <2> SUFFICES ASSUME n > 0 PROVE PageSlice(url) # << >>
    <3> HIDE DEF S, sorted
    <3> QED BY <1>3, <1>8
  <2> DEFINE p == Min({url.page, TotalPages(n)})
             first == (p - 1) * PageSize + 1
             last == Min({first + PageSize - 1, Len(sorted)})
  <2>1. PageSlice(url) = SubSeq(sorted, first, last)
    BY DEF PageSlice, SafePage
  <2>2. first \in 1..n
    <3> HIDE DEF n
    <3> QED BY <1>1, <1>3, PageHasCards
  <2>3. last \in {first + PageSize - 1, n} /\ last <= n
    <3> HIDE DEF S, first, sorted
    <3>1. first + PageSize - 1 \in Int /\ n \in Int
      BY <1>3, <2>2, CatalogueAssumption
    <3> QED BY <1>8, <3>1, MaxOfTwo
  <2>4. last \in first..n
    <3> HIDE DEF S, first, last
    <3> QED BY <1>3, <2>2, <2>3, CatalogueAssumption
  <2>5. \A i \in first..last : sorted[i] \in S
    <3> HIDE DEF S, first, last, sorted
    <3> QED BY <1>3, <1>9, <2>2, <2>4
  <2>6. Len(SubSeq(sorted, first, last)) = last - first + 1
    <3> HIDE DEF S, n, first, last, sorted
    <3> QED BY <1>3, <2>2, <2>4, <2>5, SubSeqProperties
  <2>7. last - first + 1 # 0
    <3> HIDE DEF n, first, last
    <3> QED BY <1>3, <2>2, <2>4
  <2>8. Len(<< >>) = 0
    OBVIOUS
  <2> HIDE DEF S, n, first, last, sorted
  <2> QED BY <2>1, <2>6, <2>7, <2>8
<1>11. \A i \in 1..n : /\ MatchesMinBand(minOf(i), url.filters["min"])
                       /\ NearYieldBand(upTo(i), url.filters["yield"])
  <2> TAKE i \in 1..n
  <2>1. sorted[i] \in S
    BY <1>9
  <2> HIDE DEF S, sorted
  <2>2. MatchesMinBand(minOf(i), url.filters["min"])
    BY <1>2, <1>4, <2>1 DEF Matches
  <2>3. MatchesYieldBand(CatalogueYieldBasis(cards[sorted[i]]), url.filters["yield"])
    BY <1>2, <2>1 DEF Matches
  <2>4. NearYieldBand(upTo(i), url.filters["yield"])
    BY <1>4, <2>1, <2>3, Rounding
  <2> QED BY <2>2, <2>4
<1>12. \A i, j \in 1..n : i < j =>
         CASE url.sort = "min_asc"    -> minOf(i) <= minOf(j)
           [] url.sort = "yield_desc" -> upTo(i) >= upTo(j)
           [] url.sort = "name_asc"   -> sorted[i] < sorted[j]
  <2> SUFFICES ASSUME NEW i \in 1..n, NEW j \in 1..n, i < j
               PROVE  CASE url.sort = "min_asc"    -> minOf(i) <= minOf(j)
                        [] url.sort = "yield_desc" -> upTo(i) >= upTo(j)
                        [] url.sort = "name_asc"   -> sorted[i] < sorted[j]
    OBVIOUS
  <2> DEFINE a == sorted[i]
             b == sorted[j]
  <2>1. a \in S /\ b \in S
    BY <1>9
  <2>2. a \in Before(S, key, b)
    BY <1>8
  <2>3. key[a] < key[b] \/ (key[a] = key[b] /\ a < b)
    <3> HIDE DEF S, key, a, b
    <3> QED BY <2>2 DEF Before
  <2>4. /\ MinTicketDisplay(cards[a]) \in Int /\ MinTicketDisplay(cards[b]) \in Int
        /\ CatalogueYieldBasis(cards[a]) \in Int /\ CatalogueYieldBasis(cards[b]) \in Int
    <3> HIDE DEF S, a, b
    <3> QED BY <1>4, <2>1
  <2>5. CASE url.sort = "min_asc"
    <3>1. key[a] = MinTicketDisplay(cards[a]) /\ key[b] = MinTicketDisplay(cards[b])
      <4> HIDE DEF S, key, a, b
      <4> QED BY <1>5, <2>1, <2>5
    <3>2. minOf(i) <= minOf(j)
      <4> HIDE DEF key
      <4> QED BY <2>3, <2>4, <3>1
    <3> HIDE DEF minOf, sorted
    <3> QED BY <2>5, <3>2
  <2>6. CASE url.sort = "yield_desc"
    <3>1. key[a] = -CatalogueYieldBasis(cards[a]) /\ key[b] = -CatalogueYieldBasis(cards[b])
      <4> HIDE DEF S, key, a, b
      <4> QED BY <1>5, <2>1, <2>6
    <3>2. CatalogueYieldBasis(cards[b]) <= CatalogueYieldBasis(cards[a])
      <4> HIDE DEF key
      <4> QED BY <2>3, <2>4, <3>1
    <3>3. ToTenths(CatalogueYieldBasis(cards[b])) <= ToTenths(CatalogueYieldBasis(cards[a]))
      BY <2>4, <3>2, Rounding
    <3>4. ToTenths(CatalogueYieldBasis(cards[a])) \in Int /\ ToTenths(CatalogueYieldBasis(cards[b])) \in Int
      BY <2>4, Rounding
    <3>5. upTo(i) = ToTenths(CatalogueYieldBasis(cards[a])) /\ upTo(j) = ToTenths(CatalogueYieldBasis(cards[b]))
      <4> HIDE DEF S
      <4> QED BY <1>4, <2>1
    <3>6. upTo(i) >= upTo(j)
      <4> HIDE DEF upTo, a, b
      <4> QED BY <3>3, <3>4, <3>5
    <3> HIDE DEF upTo, sorted
    <3> QED BY <2>6, <3>6
  <2>7. CASE url.sort = "name_asc"
    <3>1. key[a] = 0 /\ key[b] = 0
      <4> HIDE DEF S, key, a, b
      <4> QED BY <1>5, <2>1, <2>7
    <3>2. sorted[i] < sorted[j]
      <4> HIDE DEF key
      <4> QED BY <2>3, <3>1
    <3> HIDE DEF sorted
    <3> QED BY <2>7, <3>2
  <2> HIDE DEF minOf, upTo, sorted
  <2> QED BY <1>1, <2>5, <2>6, <2>7 DEF Sorts
<1> HIDE DEF n, S, key
<1> QED BY <1>9, <1>10, <1>11, <1>12 DEF CardsFollowFilters, S

\* The minimum on a card is the one by which it was filtered and sorted, its
\* yield is in the band chosen or at its end and in the order chosen, and a page
\* shows cards whenever any match, for any options and any page size.
THEOREM CardsFollow == CatalogueSpec => []CardsFollowFilters
<1>1. CatalogueTypeOK => CardsFollowFilters
  BY ListFollowsCards DEF CardsFollowFilters
<1> QED BY <1>1, CatalogueTyped, PTL

-----------------------------------------------------------------------------
LEMMA ScoreIsInt ==
    ASSUME NEW row, NEW ans
    PROVE  SoftScore(row, ans) \in Int
<1>1. TermScore(row, ans.term) \in Int
  <2> DEFINE band == ClassifyTermYears(LeaseYears(row))
  <2> HIDE DEF band
  <2>1. TermScore(row, ans.term) \in {0, 1, 2}
    BY DEF TermScore, band
  <2> QED BY <2>1
<1>2. FiguresScore(row, ans.figures) \in Int
  BY DEF FiguresScore
<1> QED BY <1>1, <1>2 DEF SoftScore

\* "place" stands under a card only because of an answer about the place.
LEMMA PlaceIsAnswered ==
    ASSUME NEW row, NEW ans, ans.figures \in {None, "simpler", "mixed"}, "place" \in Reasons(row, ans)
    PROVE  ans.place # None
<1> DEFINE because(q, why) == IF ans[q] = None THEN {} ELSE {why}
           figures == CASE ans.figures = "simpler" -> IF ParkingLed(row) THEN "parking" ELSE "clearer"
                        [] ans.figures = "mixed"   ->
                             CASE IsMultiIncome(row.mix) -> "mixed"
                               [] ~IsMultiIncome(row.mix) /\ Modelled(row) -> "modelled"
                               [] OTHER -> "open to mixed"
                        [] OTHER -> None
           said == because("budget", "budget") \cup because("place", "place")
                     \cup (IF LeaseYears(row) = None THEN {} ELSE because("term", "years"))
                     \cup because("figures", figures)
<1>1. Reasons(row, ans) = IF said = {} THEN {"starter"} ELSE said
  BY DEF Reasons
<1>2. ans.figures # None => figures # "place"
  OBVIOUS
<1> HIDE DEF figures
<1>3. "place" \in said
  <2> HIDE DEF said
  <2> QED BY <1>1
<1> QED BY <1>2, <1>3

ListedIn(results) == {results[i].asset : i \in DOMAIN results}

\* The best of a set are the first of it in order: as many as there are places,
\* and nobody left out scores higher.
LEMMA RankTakesBest ==
    ASSUME CatalogueTypeOK, NEW P \in SUBSET DOMAIN cards, NEW ans,
           NEW results, results = RankAndTake(P, ans)
    PROVE  /\ ListedIn(results) \subseteq P
           /\ Cardinality(ListedIn(results)) = Min({Shown, Cardinality(P)})
           /\ \A i \in DOMAIN results :
                /\ results[i].reasons = Reasons(cards[results[i].asset].row, ans)
                /\ \A a \in P \ ListedIn(results) :
                     SoftScore(cards[results[i].asset].row, ans) >= SoftScore(cards[a].row, ans)
<1> DEFINE score(a) == SoftScore(cards[a].row, ans)
           key == [a \in P |-> -score(a)]
           n == Cardinality(P)
           m == Min({Shown, n})
           ranked == InOrder(P, key)
           best == SubSeq(ranked, 1, Min({Shown, Len(ranked)}))
           listed == ListedIn(results)
<1>1. P \in SUBSET Nat /\ IsFiniteSet(P) /\ n \in Nat
  BY CatalogueAssumption, FS_Subset, FS_CardinalityType DEF CatalogueTypeOK
<1>2. \A a \in P : score(a) \in Int /\ key[a] = -score(a) /\ key[a] \in Int
  BY ScoreIsInt
<1>3. /\ ranked \in Seq(P) /\ Len(ranked) = n
      /\ \A a \in P : \E i \in 1..n : ranked[i] = a
      /\ \A i, j \in 1..n : i < j => ranked[i] \in Before(P, key, ranked[j])
  <2>1. \A a \in P : key[a] \in Int
    BY <1>2
  <2> HIDE DEF key
  <2> QED BY <1>1, <2>1, InOrderSorts
<1> HIDE DEF ranked
<1>4. \A i \in 1..n : ranked[i] \in P
  <2> HIDE DEF n
  <2> QED BY <1>1, <1>3
<1>5. m \in 0..n
  <2>1. Shown \in Int /\ Shown > 0
    BY CatalogueAssumption
  <2>2. m \in {Shown, n} /\ m <= n
    <3>1. n \in Int
      BY <1>1
    <3> HIDE DEF n
    <3> QED BY <2>1, <3>1, MaxOfTwo
  <2> HIDE DEF n, m
  <2> QED BY <1>1, <2>1, <2>2
<1>6. best = SubSeq(ranked, 1, m)
  BY <1>3
<1>7. Len(best) = m /\ \A i \in 1..m : best[i] = ranked[i]
  <2>1. \A i \in 1..m : ranked[i] \in P
    <3> HIDE DEF n, m
    <3> QED BY <1>1, <1>4, <1>5
  <2>2. /\ Len(SubSeq(ranked, 1, m)) = IF 1 <= m THEN m - 1 + 1 ELSE 0
        /\ \A i \in 1..m - 1 + 1 : SubSeq(ranked, 1, m)[i] = ranked[1 + i - 1]
    <3>1. 1 \in Int /\ m \in Int
      <4> HIDE DEF n, m
      <4> QED BY <1>1, <1>5
    <3> HIDE DEF m
    <3> QED BY <2>1, <3>1, SubSeqProperties
  <2>3. m \in Nat
    <3> HIDE DEF n, m
    <3> QED BY <1>1, <1>5
  <2> HIDE DEF m, best
  <2>4. \A i \in 1..m : i \in 1..m - 1 + 1 /\ 1 + i - 1 = i
    BY <2>3
  <2> QED BY <1>6, <2>2, <2>3, <2>4
<1>8. results = [i \in 1..m |-> [asset |-> ranked[i], reasons |-> Reasons(cards[ranked[i]].row, ans)]]
  <2>1. results = [i \in 1..Len(best) |->
                     [asset |-> best[i], reasons |-> Reasons(cards[best[i]].row, ans)]]
    BY DEF RankAndTake, ranked
  <2> HIDE DEF best, m
  <2> QED BY <1>7, <2>1
<1>9. DOMAIN results = 1..m
      /\ \A i \in 1..m : /\ results[i].asset = ranked[i]
                         /\ results[i].reasons = Reasons(cards[ranked[i]].row, ans)
  <2> HIDE DEF m
  <2> QED BY <1>8
<1>10. listed = {ranked[i] : i \in 1..m}
  <2> HIDE DEF m
  <2> QED BY <1>9 DEF ListedIn
<1> HIDE DEF best
<1>11. \A i \in 1..m : i \in 1..n
  <2> HIDE DEF m, n
  <2> QED BY <1>1, <1>5
<1>12. listed \subseteq P
  <2> HIDE DEF m, n, listed
  <2> QED BY <1>4, <1>10, <1>11
<1>13. Cardinality(listed) = m
  <2> DEFINE f == [i \in 1..m |-> ranked[i]]
  <2>1. \A i, j \in 1..m : f[i] = f[j] => i = j
    <3> SUFFICES ASSUME NEW i \in 1..m, NEW j \in 1..m, i < j PROVE ranked[i] # ranked[j]
      <4>1. 1..m \subseteq Int
        OBVIOUS
      <4> HIDE DEF m
      <4> QED BY <4>1
    <3>1. ranked[i] \in Before(P, key, ranked[j]) /\ ranked[j] \in P
      <4> HIDE DEF m, n, key
      <4> QED BY <1>3, <1>4, <1>11
    <3>2. ranked[j] \notin Before(P, key, ranked[j])
      <4>1. ~(key[ranked[j]] < key[ranked[j]]) /\ ~(ranked[j] < ranked[j])
        <5>1. key[ranked[j]] \in Int /\ ranked[j] \in Int
          <6> HIDE DEF key
          <6> QED BY <1>1, <1>2, <3>1
        <5> HIDE DEF key
        <5> QED BY <5>1
      <4> HIDE DEF key
      <4> QED BY <4>1 DEF Before
    <3> HIDE DEF m, key
    <3> QED BY <3>1, <3>2
  <2>2. f \in Injection(1..m, listed)
    <3>1. f \in [1..m -> listed] /\ DOMAIN f = 1..m
      <4> HIDE DEF m, listed
      <4> QED BY <1>10
    <3> HIDE DEF f, m, listed
    <3> QED BY <2>1, <3>1 DEF Injection, IsInjective
  <2>3. f \in Surjection(1..m, listed)
    <3>1. f \in [1..m -> listed] /\ \A a \in listed : \E i \in 1..m : f[i] = a
      <4> HIDE DEF m, listed
      <4> QED BY <1>10
    <3> HIDE DEF f, m, listed
    <3> QED BY <3>1 DEF Surjection
  <2>4. ExistsBijection(1..m, listed)
    <3> HIDE DEF f, m, listed
    <3> QED BY <2>2, <2>3 DEF ExistsBijection, Bijection
  <2>5. m \in Nat
    <3> HIDE DEF m, n
    <3> QED BY <1>1, <1>5
  <2> HIDE DEF f, m, listed
  <2> QED BY <2>4, <2>5, FS_CountingElements
<1>14. \A i \in 1..m : \A a \in P \ listed : score(ranked[i]) >= score(a)
  <2> SUFFICES ASSUME NEW i \in 1..m, NEW a \in P \ listed PROVE score(ranked[i]) >= score(a)
    OBVIOUS
  <2>1. PICK j \in 1..n : ranked[j] = a
    <3> HIDE DEF n, listed, m
    <3> QED BY <1>3
  <2>2. j \notin 1..m
    <3> HIDE DEF n, listed, m
    <3> QED BY <1>10, <2>1
  <2>3. i < j
    <3> HIDE DEF n, listed, m
    <3> QED BY <1>1, <1>5, <2>1, <2>2
  <2>4. ranked[i] \in Before(P, key, a) /\ ranked[i] \in P
    <3> HIDE DEF n, listed, m, key
    <3> QED BY <1>3, <1>4, <1>11, <2>1, <2>3
  <2>5. key[ranked[i]] < key[a] \/ key[ranked[i]] = key[a]
    <3> HIDE DEF n, listed, m, key
    <3> QED BY <2>4 DEF Before
  <2>6. /\ score(ranked[i]) \in Int /\ key[ranked[i]] = -score(ranked[i])
        /\ score(a) \in Int /\ key[a] = -score(a)
    <3> HIDE DEF n, listed, m, key, score
    <3> QED BY <1>2, <2>4
  <2> HIDE DEF n, listed, m, key, score
  <2> QED BY <2>5, <2>6
<1>15. \A i \in DOMAIN results :
         /\ results[i].reasons = Reasons(cards[results[i].asset].row, ans)
         /\ \A a \in P \ listed : score(results[i].asset) >= score(a)
  <2> HIDE DEF n, listed, m, key, score
  <2> QED BY <1>9, <1>14
<1> QED BY <1>12, <1>13, <1>15

\* A shortlist keeps to the answers it was asked for.
LEMMA ShortlistFollowsAnswers ==
    ASSUME CatalogueTypeOK, view = "chooser", done
    PROVE  ShortlistKeepsAnswers
<1> DEFINE match == MatchHelpMeChoose(answers)
           fits(a) == /\ OpportunityStatus(cards[a]) = "open"
                      /\ answers.budget # None =>
                           MatchesMinBand(MinTicketDisplay(cards[a]), answers.budget)
           there(a) == answers.place = None \/ cards[a].row.place = answers.place
           listed == {match.results[i].asset : i \in DOMAIN match.results}
           all == {a \in DOMAIN cards : fits(a)}
           near == {a \in all : there(a)}
           eligible == IF near = {} THEN all ELSE near
           found == FilterHard(OpenPool, answers.budget, answers.place)
           relaxed == answers.place # None /\ found = {}
           used == IF relaxed THEN [answers EXCEPT !.place = None] ELSE answers
           P == FilterHard(OpenPool, used.budget, used.place)
<1>1. /\ DOMAIN answers = {"budget", "place", "term", "figures"}
      /\ answers.figures \in {None, "simpler", "mixed"}
  BY DEF CatalogueTypeOK, Answers
<1>2. \A a \in DOMAIN cards : CatalogueMinBasis(cards[a]) = MinTicketDisplay(cards[a])
  BY CardFigures DEF CatalogueTypeOK
<1>3. match = [results |-> RankAndTake(P, used), relaxedPlace |-> relaxed]
  BY DEF MatchHelpMeChoose
<1> HIDE DEF match
<1>4. match.results = RankAndTake(P, used) /\ (match.relaxedPlace <=> relaxed)
  <2> HIDE DEF P, used, relaxed
  <2> QED BY <1>3
<1>5. /\ used.budget = answers.budget /\ used.term = answers.term
      /\ used.figures = answers.figures
      /\ used.place = IF relaxed THEN None ELSE answers.place
  <2> HIDE DEF relaxed
  <2> QED BY <1>1
<1> HIDE DEF used
<1>6. \A place : FilterHard(OpenPool, answers.budget, place)
                   = {a \in all : place # None => cards[a].row.place = place}
  BY <1>2 DEF FilterHard, OpenPool
<1>7. found = near
  <2>1. \A a \in all : there(a) <=> (answers.place # None => cards[a].row.place = answers.place)
    OBVIOUS
  <2> HIDE DEF all
  <2> QED BY <1>6, <2>1
<1>8. P = eligible
  <2>1. P = {a \in all : used.place # None => cards[a].row.place = used.place}
    <3> HIDE DEF all
    <3> QED BY <1>5, <1>6
  <2>2. CASE relaxed
    <3>1. near = {} /\ used.place = None
      <4> HIDE DEF near
      <4> QED BY <1>5, <1>7, <2>2
    <3> HIDE DEF near, all, P
    <3> QED BY <2>1, <3>1
  <2>3. CASE ~relaxed
    <3>1. P = found
      <4> HIDE DEF all, relaxed
      <4> QED BY <1>5, <2>3
    <3>2. answers.place = None => near = all
      <4> HIDE DEF all
      <4> QED OBVIOUS
    <3>3. near = {} => answers.place = None
      <4> HIDE DEF near, found
      <4> QED BY <1>7, <2>3
    <3> HIDE DEF near, found, all, P
    <3> QED BY <1>7, <3>1, <3>2, <3>3
  <2> HIDE DEF relaxed, P, eligible
  <2> QED BY <2>2, <2>3
<1>9. match.relaxedPlace <=> answers.place # None /\ \A a \in DOMAIN cards : ~(fits(a) /\ there(a))
  <2>1. near = {} <=> \A a \in DOMAIN cards : ~(fits(a) /\ there(a))
    <3> HIDE DEF fits, there
    <3> QED OBVIOUS
  <2> HIDE DEF near, found, fits, there
  <2> QED BY <1>4, <1>7, <2>1
<1>10. P \subseteq DOMAIN cards
  BY DEF FilterHard, OpenPool
<1> HIDE DEF P, eligible
<1>11. /\ listed \subseteq P
       /\ Cardinality(listed) = Min({Shown, Cardinality(P)})
       /\ \A i \in DOMAIN match.results :
            /\ match.results[i].reasons = Reasons(cards[match.results[i].asset].row, used)
            /\ \A a \in P \ listed :
                 SoftScore(cards[match.results[i].asset].row, used) >= SoftScore(cards[a].row, used)
  <2> DEFINE results == match.results
  <2>1. results = RankAndTake(P, used) /\ P \in SUBSET DOMAIN cards
    BY <1>4, <1>10
  <2> HIDE DEF results
  <2>2. /\ ListedIn(results) \subseteq P
        /\ Cardinality(ListedIn(results)) = Min({Shown, Cardinality(P)})
        /\ \A i \in DOMAIN results :
             /\ results[i].reasons = Reasons(cards[results[i].asset].row, used)
             /\ \A a \in P \ ListedIn(results) :
                  SoftScore(cards[results[i].asset].row, used) >= SoftScore(cards[a].row, used)
    BY <2>1, RankTakesBest
  <2> QED BY <2>2 DEF results, ListedIn
<1>12. \A row : SoftScore(row, used) = SoftScore(row, answers)
  BY <1>5 DEF SoftScore
<1>13. ASSUME NEW i \in DOMAIN match.results, "place" \in match.results[i].reasons
       PROVE  there(match.results[i].asset)
  <2>1. used.place # None
    BY <1>1, <1>5, <1>11, <1>13, PlaceIsAnswered
  <2>2. ~relaxed
    <3> HIDE DEF relaxed
    <3> QED BY <1>5, <2>1
  <2>3. P = near
    <3>1. P = found
      <4> HIDE DEF relaxed
      <4> QED BY <1>5, <2>2 DEF P
    <3> HIDE DEF found, near
    <3> QED BY <1>7, <3>1
  <2>4. match.results[i].asset \in P
    BY <1>11
  <2> HIDE DEF all, there
  <2> QED BY <2>3, <2>4
<1> HIDE DEF listed, there, fits, all, near
<1>14. listed \subseteq eligible /\ Cardinality(listed) = Min({Shown, Cardinality(eligible)})
  BY <1>8, <1>11
<1>15. \A i \in DOMAIN match.results : \A a \in eligible \ listed :
         SoftScore(cards[match.results[i].asset].row, answers) >= SoftScore(cards[a].row, answers)
  BY <1>8, <1>11, <1>12
<1> QED
  BY <1>9, <1>13, <1>14, <1>15
  DEF ShortlistKeepsAnswers, listed, there, fits, eligible, all, near, match

\* A shortlist holds open opportunities of the budget and, unless there is none,
\* of the place asked for; it says "place" under no other card, and what it
\* leaves out scores no higher (help-me-choose.ts matchHelpMeChoose).
THEOREM ShortlistHolds == CatalogueSpec => []ShortlistKeepsAnswers
<1>1. CatalogueTypeOK => ShortlistKeepsAnswers
  BY ShortlistFollowsAnswers DEF ShortlistKeepsAnswers
<1> QED BY <1>1, CatalogueTyped, PTL

-----------------------------------------------------------------------------
(* The agreement *)

\* An investor's signature is only on record once the review is over, and no
\* transaction stops between the investor's signature and what follows it.
SignedLeavesReview ==
    /\ signature["investor"] = "signed" => state \notin ReviewStates
    /\ state # "investor_signed"

Uploading(r) == req[r].op \in {"checked", "stored"}

\* A stored file is there and is not the published one, and no two uploads
\* have the same.
UploadsOwnFiles ==
    /\ \A r \in Request : Uploading(r) => req[r].file # document
    /\ \A r \in Request : req[r].op = "stored" => req[r].file \in files
    /\ \A r, q \in Request : Uploading(r) /\ Uploading(q) /\ r # q => req[r].file # req[q].file

IInv ==
    /\ TypeOK
    /\ SignedLeavesReview
    /\ EffectiveIsSigned
    /\ SignedIsEffective
    /\ UploadsOwnFiles
    /\ PublishedFileExists

-----------------------------------------------------------------------------
\* What a request in flight remembers.
LEMMA RequestTyped ==
    ASSUME TypeOK, NEW r \in Request
    PROVE  /\ req[r].op \in {"idle", "review", "event", "checked", "stored"}
           /\ req[r].op = "idle" <=> req[r] = Idle
           /\ req[r].op = "event" => req[r].event \in Event /\ req[r].began \in 1..MaxClock
           /\ Uploading(r) => req[r].file \in File
BY DEF TypeOK, RequestState, Idle, Uploading

\* How far a contract gets by a signature: never back into review, and into
\* force exactly if both have signed.
LEMMA AdvanceFacts ==
    ASSUME NEW role \in Role, NEW from \in State \ ClosedStates, from # "investor_signed",
           NEW sig \in [Role -> SignatureStatus]
    PROVE  /\ Advance(role, from, sig) \in State \ {"investor_signed"}
           /\ role = "investor" => Advance(role, from, sig) \notin ReviewStates
           /\ from \notin ReviewStates => Advance(role, from, sig) \notin ReviewStates
           /\ Advance(role, from, sig) \in ClosedStates => RequiredSignersComplete(sig)
           /\ Advance(role, from, sig) \notin ReviewStates /\ RequiredSignersComplete(sig)
                => Advance(role, from, sig) \in ClosedStates
           /\ role # "investor" /\ from \in ReviewStates => Advance(role, from, sig) = from
BY DEF Advance, State, ReviewStates, ClosedStates

\* Every variable keeps its type, and signed_at goes with the status.
LEMMA TypeStep ==
    ASSUME TypeOK, state # "investor_signed", [Next]_vars
    PROVE  TypeOK'
<1> USE ContractsAssumption DEF TypeOK, RequestState, Begin, Finish
<1>1. ASSUME NEW r \in Request, RequestStep(r)
      PROVE  TypeOK'
  <2>1. ASSUME NEW d \in Attached, ReadForReview(r, d)
        PROVE  TypeOK'
    BY <2>1 DEF ReadForReview, signing, publishing
  <2>2. CASE RecordReview(r)
    BY <2>2 DEF RecordReview, signing, publishing, State, ReviewStates
  <2>3. ASSUME NEW e \in Event, BeginEvent(r, e)
        PROVE  TypeOK'
    BY <2>3 DEF BeginEvent, signing, publishing
  <2>4. CASE RecordStaleEvent(r)
    BY <2>4, RequestTyped DEF RecordStaleEvent, InsertEvent, signing, publishing
  <2>5. ASSUME InsertEvent(r), WriteSigner(req[r].event), state' \in State
        PROVE  TypeOK'
    <3>1. PICK e \in Event : e = req[r].event
      BY <2>5, RequestTyped DEF InsertEvent
    <3>2. RoleOf[e] \in Role /\ StatusOf[e] \in SignatureStatus /\ OccurredAt[e] \in Time
      OBVIOUS
    <3>3. OccurredAt[e] # 0
      BY <3>2 DEF Time
    <3>4. /\ signature' = [signature EXCEPT ![RoleOf[e]] = StatusOf[e]]
          /\ signedAt' = [signedAt EXCEPT ![RoleOf[e]] =
                            IF StatusOf[e] = "signed" THEN OccurredAt[e] ELSE 0]
          /\ signedBy' = [signedBy EXCEPT ![RoleOf[e]] = "provider"]
      BY <2>5, <3>1 DEF WriteSigner
    <3>5. /\ signature' \in [Role -> SignatureStatus]
          /\ signedAt' \in [Role -> Time \cup {0}]
          /\ signedBy' \in [Role -> {"nobody", "staff", "provider"}]
          /\ \A role \in Role : signature'[role] = "signed" <=> signedAt'[role] # 0
      BY <3>2, <3>3, <3>4
    <3>. QED
      BY <2>5, <3>1, <3>5, RequestTyped DEF InsertEvent, publishing
  <2>6. CASE RecordUnsigned(r)
    BY <2>5, <2>6 DEF RecordUnsigned
  <2>7. CASE RecordSigned(r)
    <3>1. signature' \in [Role -> SignatureStatus]
      BY <2>7, RequestTyped DEF RecordSigned, WriteSigner, InsertEvent
    <3>2. RoleOf[req[r].event] \in Role
      BY <2>7, RequestTyped DEF RecordSigned, InsertEvent
    <3>3. state \in State \ ClosedStates
      BY <2>7 DEF RecordSigned, Counts
    <3>. QED
      BY <2>5, <2>7, <3>1, <3>2, <3>3, AdvanceFacts DEF RecordSigned
  <2>8. ASSUME NEW f \in File, CheckUpload(r, f)
        PROVE  TypeOK'
    BY <2>8 DEF CheckUpload, signing, publishing
  <2>9. CASE PutObject(r)
    BY <2>9, RequestTyped DEF PutObject, signing, Uploading
  <2>10. CASE Publish(r) \/ PublishUnheard(r)
    BY <2>10, RequestTyped DEF Publish, PublishUnheard, Link, signing, Uploading,
       State, ClosedStates
  <2>11. CASE RequestFails(r)
    BY <2>11 DEF RequestFails, signing
  <2>. QED
    BY <1>1, <2>1, <2>2, <2>3, <2>4, <2>6, <2>7, <2>8, <2>9, <2>10, <2>11 DEF RequestStep
<1>2. ASSUME NEW role \in Role, NEW t \in Time, RecordManualSignature(role, t)
      PROVE  TypeOK'
  <2>1. signature' \in [Role -> SignatureStatus]
    BY <1>2 DEF RecordManualSignature, SignatureStatus
  <2>2. state' \in State
    BY <1>2, <2>1, AdvanceFacts DEF RecordManualSignature
  <2>. QED
    BY <1>2, <2>1, <2>2 DEF RecordManualSignature, publishing, Time
<1>3. CASE RetractDocument
  BY <1>3 DEF RetractDocument, signing
<1>4. CASE UNCHANGED vars
  BY <1>4 DEF vars
<1>. QED
  BY <1>1, <1>2, <1>3, <1>4 DEF Next

-----------------------------------------------------------------------------
(* The state of the contract and its signatures.                           *)

Sealed == SignedLeavesReview /\ EffectiveIsSigned /\ SignedIsEffective

\* Recording role's signature and advancing keeps the two in step.
LEMMA SignatureKeepsSealed ==
    ASSUME TypeOK, Sealed, NEW role \in Role, state \notin ClosedStates,
           signature' = [signature EXCEPT ![role] = "signed"],
           state' = Advance(role, state, signature')
    PROVE  Sealed'
<1>1. signature' \in [Role -> SignatureStatus]
  BY DEF TypeOK, SignatureStatus
<1>2. /\ state \in State \ ClosedStates /\ state # "investor_signed"
      /\ signature["investor"] = "signed" => state \notin ReviewStates
  BY DEF TypeOK, Sealed, SignedLeavesReview
<1>3. state' # "investor_signed"
  BY <1>1, <1>2, AdvanceFacts
<1>4. signature'["investor"] = "signed" => state' \notin ReviewStates
  <2>1. CASE role = "investor"
    BY <1>1, <1>2, <2>1, AdvanceFacts
  <2>2. CASE role # "investor"
    <3>1. signature'["investor"] = signature["investor"]
      BY <2>2 DEF TypeOK, Role
    <3>. QED
      BY <1>1, <1>2, <3>1, AdvanceFacts
  <2>. QED
    BY <2>1, <2>2
<1>5. state' \in ClosedStates => RequiredSignersComplete(signature')
  BY <1>1, <1>2, AdvanceFacts
<1>6. RequiredSignersComplete(signature') => state' \in ClosedStates
  BY <1>1, <1>2, <1>4, AdvanceFacts DEF RequiredSignersComplete, Role
<1>. QED
  BY <1>3, <1>4, <1>5, <1>6 DEF Sealed, SignedLeavesReview, EffectiveIsSigned, SignedIsEffective

LEMMA SealedStep ==
    ASSUME TypeOK, Sealed, [Next]_vars
    PROVE  Sealed'
<1> DEFINE Quiet == UNCHANGED <<state, signature>>
<1>1. ASSUME Quiet
      PROVE  Sealed'
  BY <1>1 DEF Sealed, SignedLeavesReview, EffectiveIsSigned, SignedIsEffective,
     RequiredSignersComplete
<1>2. ASSUME NEW r \in Request, RequestStep(r)
      PROVE  Sealed'
  <2>1. CASE RecordReview(r)
    <3>1. state' \in ReviewStates /\ state \in ReviewStates /\ signature' = signature
      BY <2>1, RequestTyped DEF RecordReview, CanTransition, signing, ReviewStates, TypeOK,
         State, ClosedStates
    <3>. QED
      BY <3>1 DEF Sealed, SignedLeavesReview, EffectiveIsSigned, SignedIsEffective,
         RequiredSignersComplete, Role, ReviewStates, ClosedStates
  <2>2. CASE RecordUnsigned(r)
    <3>1. PICK e \in Event : e = req[r].event
      BY <2>2, RequestTyped DEF RecordUnsigned, InsertEvent
    <3>2. /\ RoleOf[e] \in Role /\ StatusOf[e] # "signed"
          /\ signature' = [signature EXCEPT ![RoleOf[e]] = StatusOf[e]]
          /\ state' = state /\ state \notin ClosedStates
      BY <2>2, <3>1, ContractsAssumption DEF RecordUnsigned, WriteSigner, Counts
    <3>. QED
      BY <3>2 DEF TypeOK, Sealed, SignedLeavesReview, EffectiveIsSigned, SignedIsEffective,
         RequiredSignersComplete, Role
  <2>3. CASE RecordSigned(r)
    <3>1. PICK e \in Event : e = req[r].event
      BY <2>3, RequestTyped DEF RecordSigned, InsertEvent
    <3>2. /\ RoleOf[e] \in Role /\ state \notin ClosedStates
          /\ signature' = [signature EXCEPT ![RoleOf[e]] = "signed"]
          /\ state' = Advance(RoleOf[e], state, signature')
      BY <2>3, <3>1, ContractsAssumption DEF RecordSigned, WriteSigner, Counts
    <3>. QED
      BY <3>2, SignatureKeepsSealed
  <2>4. CASE Publish(r) \/ PublishUnheard(r)
    <3>1. /\ state = "effective" /\ state' = "signed_documents_available"
          /\ signature' = signature
      BY <2>4 DEF Publish, PublishUnheard, Link, signing
    <3>. QED
      BY <3>1 DEF Sealed, SignedLeavesReview, EffectiveIsSigned, SignedIsEffective,
         RequiredSignersComplete, ReviewStates, ClosedStates
  <2>5. CASE RecordStaleEvent(r) \/ PutObject(r) \/ RequestFails(r)
    BY <1>1, <2>5 DEF RecordStaleEvent, PutObject, RequestFails, signing
  <2>6. ASSUME \/ \E d \in Attached : ReadForReview(r, d)
               \/ \E e \in Event : BeginEvent(r, e)
               \/ \E f \in File : CheckUpload(r, f)
        PROVE  Sealed'
    BY <1>1, <2>6 DEF ReadForReview, BeginEvent, CheckUpload, signing
  <2>. QED
    BY <1>2, <2>1, <2>2, <2>3, <2>4, <2>5, <2>6 DEF RequestStep
<1>3. ASSUME NEW role \in Role, NEW t \in Time, RecordManualSignature(role, t)
      PROVE  Sealed'
  BY <1>3, SignatureKeepsSealed DEF RecordManualSignature
<1>4. CASE RetractDocument
  BY <1>1, <1>4 DEF RetractDocument, signing
<1>5. CASE UNCHANGED vars
  BY <1>1, <1>5 DEF vars
<1>. QED
  BY <1>2, <1>3, <1>4, <1>5 DEF Next

-----------------------------------------------------------------------------
(* Uploads and the published copy.                                         *)

Stored == UploadsOwnFiles /\ PublishedFileExists

\* A request that ends leaves the other uploads as they were.
LEMMA StoredStep ==
    ASSUME TypeOK, Stored, [Next]_vars
    PROVE  Stored'
<1> USE DEF Stored, UploadsOwnFiles, PublishedFileExists, Uploading
<1>1. ASSUME UNCHANGED <<document, files, unheard>>,
             \A r \in Request : req'[r] # req[r] => req'[r].op \notin {"checked", "stored"}
      PROVE  Stored'
  BY <1>1
<1>2. ASSUME NEW r \in Request, RequestStep(r)
      PROVE  Stored'
  <2>0. \A q \in Request : q # r => req'[q] = req[q]
    BY <1>2 DEF TypeOK, RequestStep, ReadForReview, RecordReview, BeginEvent, RecordStaleEvent,
       RecordUnsigned, RecordSigned, InsertEvent, CheckUpload, PutObject, Publish, PublishUnheard,
       RequestFails, Begin, Finish
  <2>1. CASE RecordReview(r) \/ RecordStaleEvent(r) \/ RecordUnsigned(r) \/ RecordSigned(r)
    <3>1. req'[r] = Idle /\ UNCHANGED <<document, files, unheard>>
      BY <2>1 DEF RecordReview, RecordStaleEvent, RecordUnsigned, RecordSigned, InsertEvent,
         Finish, publishing, TypeOK
    <3>. QED
      BY <1>1, <2>0, <3>1 DEF Idle
  <2>2. ASSUME \/ \E d \in Attached : ReadForReview(r, d)
               \/ \E e \in Event : BeginEvent(r, e)
        PROVE  Stored'
    <3>1. req'[r].op \in {"review", "event"} /\ UNCHANGED <<document, files, unheard>>
      BY <2>2 DEF ReadForReview, BeginEvent, Begin, publishing, TypeOK
    <3>. QED
      BY <1>1, <2>0, <3>1
  <2>3. ASSUME NEW f \in File, CheckUpload(r, f)
        PROVE  Stored'
    <3>1. /\ req'[r] = [op |-> "checked", file |-> f]
          /\ document = NoFile /\ UNCHANGED <<document, files, unheard>>
          /\ \A q \in Request : req[q].op \in {"checked", "stored"} => req[q].file # f
      BY <2>3 DEF CheckUpload, Begin, publishing, TypeOK
    <3>2. f # NoFile
      BY ContractsAssumption
    <3>. QED
      BY <2>0, <3>1, <3>2
  <2>4. CASE PutObject(r)
    <3>1. /\ req[r].op = "checked" /\ req'[r] = [op |-> "stored", file |-> req[r].file]
          /\ files' = files \cup {req[r].file} /\ UNCHANGED <<document, unheard>>
      BY <2>4 DEF PutObject, TypeOK
    <3>. QED
      BY <2>0, <3>1
  <2>5. CASE Publish(r) \/ PublishUnheard(r)
    <3>1. /\ req[r].op = "stored" /\ req'[r] = Idle /\ document' = req[r].file
          /\ \/ UNCHANGED <<files, unheard>>
             \/ files' = files \ {req[r].file} /\ unheard' = TRUE
      BY <2>5 DEF Publish, PublishUnheard, Link, Finish, TypeOK
    <3>. QED
      BY <2>0, <3>1 DEF Idle
  <2>6. CASE RequestFails(r)
    <3>1. /\ req'[r] = Idle /\ UNCHANGED <<document, unheard>>
          /\ \/ UNCHANGED files
             \/ req[r].op = "stored" /\ files' = files \ {req[r].file}
      BY <2>6 DEF RequestFails, Finish, TypeOK
    <3>. QED
      BY <2>0, <3>1 DEF Idle
  <2>. QED
    BY <1>2, <2>1, <2>2, <2>3, <2>4, <2>5, <2>6 DEF RequestStep
<1>3. ASSUME NEW role \in Role, NEW t \in Time, RecordManualSignature(role, t)
      PROVE  Stored'
  BY <1>1, <1>3 DEF RecordManualSignature, publishing
<1>4. CASE RetractDocument
  BY <1>1, <1>4 DEF RetractDocument
<1>5. CASE UNCHANGED vars
  BY <1>1, <1>5 DEF vars
<1>. QED
  BY <1>2, <1>3, <1>4, <1>5 DEF Next

-----------------------------------------------------------------------------
(* What callbacks leave of a signer.                                       *)

Known(role) == {e \in Event : RoleOf[e] = role /\ received[e] # 0}

\* The role's status is that of an event no known one is later than.
Decided(role) ==
    \E e \in Known(role) :
        /\ \A f \in Known(role) : OccurredAt[f] <= OccurredAt[e]
        /\ signature[role] = StatusOf[e]

\* A stale event is known to be no later than the event that decided.
LEMMA StaleKeepsDecided ==
    ASSUME TypeOK, state \notin ClosedStates, NEW role \in Role, Decided(role),
           NEW r \in Request, InsertEvent(r), ~Counts(req[r].event, req[r].began),
           signature'[role] = signature[role]
    PROVE  Decided(role)'
<1>1. PICK e \in Event : e = req[r].event
  BY RequestTyped DEF InsertEvent
<1>2. req[r].began \in 1..MaxClock
  BY RequestTyped DEF InsertEvent
<1>3. received' = [received EXCEPT ![e] = req[r].began] /\ req[r].began # 0
  BY <1>1, <1>2 DEF InsertEvent
<1>4. PICK f \in Event : RoleOf[f] = RoleOf[e] /\ received[f] # 0 /\ OccurredAt[f] >= OccurredAt[e]
  BY <1>1, ContractsAssumption DEF Counts, IsLatest, Later, Time
<1>5. PICK g \in Known(role) : /\ \A h \in Known(role) : OccurredAt[h] <= OccurredAt[g]
                               /\ signature[role] = StatusOf[g]
  BY DEF Decided
<1>6. g \in Known(role)'
  BY <1>3, <1>5, ContractsAssumption DEF Known, TypeOK
<1>7. ASSUME NEW h \in Known(role)'
      PROVE  OccurredAt[h] <= OccurredAt[g]
  <2>1. CASE h # e
    BY <1>3, <1>5, <1>7, <2>1 DEF Known, TypeOK
  <2>2. CASE h = e
    <3>1. f \in Known(role)
      BY <1>4, <1>7, <2>2 DEF Known
    <3>2. OccurredAt[f] <= OccurredAt[g]
      BY <1>5, <3>1
    <3>. QED
      BY <1>4, <1>5, <2>2, <3>2, ContractsAssumption DEF Time, Known
  <2>. QED
    BY <2>1, <2>2
<1>. QED
  BY <1>5, <1>6, <1>7 DEF Decided

\* An event that counts decides its signer and nobody else's status.
LEMMA CountingDecides ==
    ASSUME TypeOK, NEW r \in Request, InsertEvent(r), NEW e \in Event, e = req[r].event,
           Counts(e, req[r].began), WriteSigner(e)
    PROVE  /\ Decided(RoleOf[e])'
           /\ \A role \in Role : role # RoleOf[e] =>
                Known(role)' = Known(role) /\ signature'[role] = signature[role]
                  /\ signedBy'[role] = signedBy[role]
<1>1. req[r].began \in 1..MaxClock
  BY RequestTyped DEF InsertEvent
<1>2. received' = [received EXCEPT ![e] = req[r].began] /\ req[r].began # 0
  BY <1>1 DEF InsertEvent
<1>3. RoleOf[e] \in Role /\ signature' = [signature EXCEPT ![RoleOf[e]] = StatusOf[e]]
      /\ signedBy' = [signedBy EXCEPT ![RoleOf[e]] = "provider"]
  BY ContractsAssumption DEF WriteSigner
<1>4. e \in Known(RoleOf[e])'
  BY <1>2 DEF Known, TypeOK
<1>5. ASSUME NEW f \in Known(RoleOf[e])'
      PROVE  OccurredAt[f] <= OccurredAt[e]
  <2>1. CASE f = e
    BY <2>1, ContractsAssumption DEF Time
  <2>2. CASE f # e
    <3>1. f \in Event /\ RoleOf[f] = RoleOf[e] /\ received[f] # 0
      BY <1>2, <1>5, <2>2 DEF Known, TypeOK
    <3>2. ~(OccurredAt[f] > OccurredAt[e])
      BY <3>1 DEF Counts, IsLatest, Later
    <3>. QED
      BY <3>1, <3>2, ContractsAssumption DEF Time
  <2>. QED
    BY <2>1, <2>2
<1>6. signature'[RoleOf[e]] = StatusOf[e]
  BY <1>3 DEF TypeOK
<1>7. Decided(RoleOf[e])'
  BY <1>4, <1>5, <1>6 DEF Decided
<1>. QED
  BY <1>2, <1>3, <1>7 DEF Known, TypeOK

LatestDecides ==
    state \notin ClosedStates => \A role \in Role : signedBy[role] = "provider" => Decided(role)

LEMMA LatestStep ==
    ASSUME TypeOK, LatestDecides, [Next]_vars
    PROVE  LatestDecides'
<1> DEFINE Same(role) == /\ Known(role)' = Known(role) /\ signature'[role] = signature[role]
                         /\ signedBy'[role] = signedBy[role]
<1>1. ASSUME NEW role \in Role, Same(role), Decided(role)
      PROVE  Decided(role)'
  BY <1>1 DEF Decided
<1>2. ASSUME UNCHANGED <<signature, signedBy, received>>,
             state' \in ClosedStates \/ state \notin ClosedStates
      PROVE  LatestDecides'
  BY <1>2 DEF LatestDecides, Decided, Known
<1>3. ASSUME NEW r \in Request, RequestStep(r)
      PROVE  LatestDecides'
  <2>1. CASE RecordReview(r)
    <3>1. state \notin ClosedStates
      BY <2>1 DEF RecordReview, CanTransition, ClosedStates
    <3>. QED
      BY <1>2, <2>1, <3>1 DEF RecordReview, signing
  <2>2. CASE RecordStaleEvent(r)
    <3>1. UNCHANGED <<state, signature, signedBy>>
      BY <2>2 DEF RecordStaleEvent, signing
    <3>. QED
      BY <2>2, <3>1, StaleKeepsDecided DEF RecordStaleEvent, LatestDecides
  <2>3. CASE RecordUnsigned(r) \/ RecordSigned(r)
    <3>1. PICK e \in Event : e = req[r].event
      BY <2>3, RequestTyped DEF RecordUnsigned, RecordSigned, InsertEvent
    <3>2. /\ InsertEvent(r) /\ Counts(e, req[r].began) /\ WriteSigner(e)
          /\ state \notin ClosedStates
      BY <2>3, <3>1 DEF RecordUnsigned, RecordSigned, Counts
    <3>3. /\ Decided(RoleOf[e])'
          /\ \A role \in Role : role # RoleOf[e] => Same(role)
      BY <3>1, <3>2, CountingDecides
    <3>4. ASSUME NEW role \in Role, signedBy'[role] = "provider"
          PROVE  Decided(role)'
      BY <1>1, <3>2, <3>3, <3>4 DEF LatestDecides
    <3>. QED
      BY <3>4 DEF LatestDecides
  <2>4. CASE Publish(r) \/ PublishUnheard(r)
    BY <1>2, <2>4 DEF Publish, PublishUnheard, Link, signing, ClosedStates
  <2>5. ASSUME \/ PutObject(r) \/ RequestFails(r)
               \/ \E d \in Attached : ReadForReview(r, d)
               \/ \E e \in Event : BeginEvent(r, e)
               \/ \E f \in File : CheckUpload(r, f)
        PROVE  LatestDecides'
    BY <1>2, <2>5 DEF PutObject, RequestFails, ReadForReview, BeginEvent, CheckUpload, signing
  <2>. QED
    BY <1>3, <2>1, <2>2, <2>3, <2>4, <2>5 DEF RequestStep
<1>4. ASSUME NEW role \in Role, NEW t \in Time, RecordManualSignature(role, t)
      PROVE  LatestDecides'
  <2>1. /\ state \notin ClosedStates /\ received' = received
        /\ signedBy'[role] = "staff"
        /\ \A other \in Role : other # role => Same(other)
    BY <1>4 DEF RecordManualSignature, TypeOK, Known
  <2>2. ASSUME NEW other \in Role, signedBy'[other] = "provider"
        PROVE  Decided(other)'
    BY <1>1, <2>1, <2>2 DEF LatestDecides
  <2>. QED
    BY <2>2 DEF LatestDecides
<1>5. CASE RetractDocument
  BY <1>2, <1>5 DEF RetractDocument, signing
<1>6. CASE UNCHANGED vars
  BY <1>2, <1>6 DEF vars
<1>. QED
  BY <1>3, <1>4, <1>5, <1>6 DEF Next

-----------------------------------------------------------------------------
(* The theorems.                                                           *)

\* The inductive invariant behind the theorems below holds of every execution
\* of createContract and the operations that follow it.
THEOREM InductiveInvariant == Spec => []IInv
<1>1. ASSUME Init
      PROVE  IInv
  <2>1. TypeOK
    <3>1. /\ state \in State
          /\ signature \in [Role -> SignatureStatus]
          /\ signedAt \in [Role -> Time \cup {0}]
          /\ \A role \in Role : signature[role] = "signed" <=> signedAt[role] # 0
          /\ signedBy \in [Role -> {"nobody", "staff", "provider"}]
      BY <1>1 DEF Init, State, ReviewStates, SignatureStatus
    <3>2. received \in [Event -> 0..MaxClock] /\ clock \in 0..MaxClock
      BY <1>1, ContractsAssumption DEF Init
    <3>3. req \in [Request -> RequestState]
      BY <1>1 DEF Init, RequestState
    <3>4. /\ document \in File \cup {NoFile} /\ retracted \in BOOLEAN
          /\ files \in SUBSET File /\ unheard \in BOOLEAN
      BY <1>1 DEF Init
    <3>. QED
      BY <3>1, <3>2, <3>3, <3>4 DEF TypeOK
  <2>2. \A r \in Request : ~Uploading(r)
    BY <1>1 DEF Init, Uploading, Idle
  <2>3. signature["investor"] # "signed" /\ ~RequiredSignersComplete(signature)
    BY <1>1 DEF Init, RequiredSignersComplete, Role
  <2>4. UploadsOwnFiles
    BY <2>2 DEF UploadsOwnFiles, Uploading
  <2>. QED
    BY <1>1, <2>1, <2>3, <2>4 DEF Init, IInv, SignedLeavesReview, EffectiveIsSigned,
       SignedIsEffective, ClosedStates, PublishedFileExists
<1>2. IInv /\ [Next]_vars => IInv'
  BY TypeStep, SealedStep, StoredStep DEF IInv, Sealed, Stored, SignedLeavesReview
<1>. QED
  BY <1>1, <1>2, PTL DEF Spec

\* Every variable keeps its type, and a signer has a signing date exactly when
\* it has signed (contract_signers).
THEOREM TypeCorrect == Spec => []TypeOK
BY InductiveInvariant, PTL DEF IInv

\* An agreement in force carries both signatures (canMarkEffective and the
\* sealing of signatures in SIGNING_CLOSED_STATES).
THEOREM InForceIsSigned == Spec => []EffectiveIsSigned
BY InductiveInvariant, PTL DEF IInv

\* An agreement both have signed is in force, however the signatures came
\* (recordManualSignature, recordVerifiedSignatureEvent).
THEOREM SignedIsInForce == Spec => []SignedIsEffective
BY InductiveInvariant, PTL DEF IInv

\* The published copy stays in storage unless its own request did not hear of
\* the commit (storeAndPublishSignedContractDocument's clean-up).
THEOREM PublishedCopyStays == Spec => []PublishedFileExists
BY InductiveInvariant, PTL DEF IInv

\* A signer is left as the latest callback says, in whatever order callbacks
\* arrived and however often (recordVerifiedSignatureEvent).
THEOREM LatestCallbackDecides == Spec => []LatestEventDecides
<1>1. ASSUME Init
      PROVE  LatestDecides
  BY <1>1 DEF Init, LatestDecides
<1>2. IInv /\ LatestDecides /\ [Next]_vars => LatestDecides'
  BY LatestStep DEF IInv
<1>3. LatestDecides => LatestEventDecides
  BY DEF LatestDecides, LatestEventDecides, Decided, Known
<1>. QED
  BY InductiveInvariant, <1>1, <1>2, <1>3, PTL DEF Spec

=============================================================================
