--------------------------- MODULE VerifierProofs ---------------------------
(***************************************************************************)
(* Theorems about Verifier, for any folders, messages and sizes.  The sums *)
(* over the messages are defined by recursion over sets; the library has   *)
(* induction for an operator only, which no prover here can instantiate,   *)
(* so it is stated below for a set of sets and derived from the order of   *)
(* the numbers.                                                            *)
(***************************************************************************)
EXTENDS Verifier, FiniteSetTheorems, WellFoundedInduction, TLAPS

-----------------------------------------------------------------------------
(* Sums over finite sets *)

\* The element that is added up first.
One(S) == CHOOSE m \in S : TRUE

\* Every set of numbers but the empty one has a least.
LEMMA LeastThereIs ==
  ASSUME NEW S \in SUBSET Nat, S # {}
  PROVE  \E x \in S : \A y \in S : x <= y
<1>1. PICK R : IsWellFoundedOn(R, Nat) /\ \A x, y \in Nat : <<y, x>> \in R <=> y < x
  <2>1. \A x, y \in Nat : <<y, x>> \in OpToRel(<, Nat) <=> y < x
    BY DEF OpToRel
  <2> QED
    BY <2>1, NatLessThanWellFounded, Zenon
<1>2. PICK x \in S : \A y \in S : ~(<<y, x>> \in R)
  BY <1>1, WFMin
<1>3. ASSUME NEW y \in S PROVE x <= y
  <2>1. x \in Nat /\ y \in Nat
    OBVIOUS
  <2>2. ~(y < x)
    BY <1>1, <1>2, <2>1, Zenon
  <2> QED
    BY <2>1, <2>2
<1> QED
  BY <1>2, <1>3

\* Taking an element away leaves a smaller set.
LEMMA OneLess ==
  ASSUME NEW S, IsFiniteSet(S), S # {}
  PROVE  /\ One(S) \in S /\ IsFiniteSet(S \ {One(S)})
         /\ Cardinality(S) \in Nat /\ Cardinality(S \ {One(S)}) \in Nat
         /\ Cardinality(S \ {One(S)}) = Cardinality(S) - 1
<1>1. One(S) \in S
  BY Zenon DEF One
<1> QED
  BY <1>1, FS_RemoveElement, FS_CardinalityType

\* Induction over the subsets of a finite set, in the order in which they are added up.
LEMMA SubsetInduction ==
  ASSUME NEW T, IsFiniteSet(T), NEW G \in SUBSET (SUBSET T), {} \in G,
         \A S \in SUBSET T : S # {} /\ S \ {One(S)} \in G => S \in G
  PROVE  G = SUBSET T
<1> SUFFICES ASSUME (SUBSET T) \ G # {} PROVE FALSE
  OBVIOUS
<1> DEFINE Bad == (SUBSET T) \ G
           Counts == {Cardinality(S) : S \in Bad}
<1>1. \A S \in SUBSET T : IsFiniteSet(S) /\ Cardinality(S) \in Nat
  BY FS_Subset, FS_CardinalityType
<1>2. Counts \in SUBSET Nat /\ Counts # {}
  BY <1>1
<1>3. PICK S \in Bad : \A U \in Bad : Cardinality(S) <= Cardinality(U)
  <2>1. PICK n \in Counts : \A k \in Counts : n <= k
    <3> HIDE DEF Counts
    <3> QED
      BY <1>2, LeastThereIs
  <2> QED
    BY <2>1
<1>4. S # {} /\ IsFiniteSet(S)
  BY <1>1
<1>5. S \ {One(S)} \in SUBSET T /\ Cardinality(S \ {One(S)}) < Cardinality(S)
  <2>1. Cardinality(S \ {One(S)}) = Cardinality(S) - 1 /\ Cardinality(S) \in Nat
    BY <1>4, OneLess
  <2> QED
    BY <2>1
<1>6. S \ {One(S)} \in G
  BY <1>1, <1>3, <1>5
<1> QED
  BY <1>4, <1>6

\* Induction over the numbers.
LEMMA NumberInduction ==
  ASSUME NEW G \in SUBSET Nat, 0 \in G, \A n \in G : n + 1 \in G
  PROVE  G = Nat
<1> SUFFICES ASSUME Nat \ G # {} PROVE FALSE
  OBVIOUS
<1>1. PICK n \in Nat \ G : \A k \in Nat \ G : n <= k
  BY LeastThereIs
<1>2. n - 1 \in Nat /\ n - 1 \in G
  BY <1>1
<1> QED
  BY <1>1, <1>2

\* The sums of a over the subsets of S, as the loop adds them up.
Sums(S, a, sum) ==
  sum = [s \in SUBSET S |-> IF s = {} THEN 0 ELSE a[One(s)] + sum[s \ {One(s)}]]

SumsOf(S, a) == CHOOSE sum : Sums(S, a, sum)

\* SizeOf is the last of them.
LEMMA SizeIsSum == ASSUME NEW a PROVE SizeOf(a) = SumsOf(Msg, a)[Msg]
  BY Zenon DEF SizeOf, MapThenSumSet, MapThenFoldSet, SumsOf, Sums, One

\* They exist.
LEMMA SumsExist ==
  ASSUME NEW T, IsFiniteSet(T), NEW a
  PROVE  Sums(T, a, SumsOf(T, a))
<1> DEFINE Small(n) == {s \in SUBSET T : Cardinality(s) <= n}
           Adds(n, sum) ==
             sum = [s \in Small(n) |-> IF s = {} THEN 0 ELSE a[One(s)] + sum[s \ {One(s)}]]
           G == {n \in Nat : \E sum : Adds(n, sum)}
<1>1. \A S \in SUBSET T : IsFiniteSet(S) /\ Cardinality(S) \in Nat
  BY FS_Subset, FS_CardinalityType
<1>2. 0 \in G
  <2>1. Adds(0, [s \in Small(0) |-> 0])
    <3>1. \A s \in Small(0) : s = {}
      BY <1>1, FS_EmptySet
    <3> QED
      BY <3>1
  <2> QED
    BY <2>1
<1>3. ASSUME NEW n \in G PROVE n + 1 \in G
  <2>1. PICK sum : Adds(n, sum)
    OBVIOUS
  <2> DEFINE more == [s \in Small(n + 1) |-> IF s = {} THEN 0 ELSE a[One(s)] + sum[s \ {One(s)}]]
  <2>2. \A s \in Small(n) : s \in Small(n + 1) /\ more[s] = sum[s]
    <3>1. \A s \in Small(n) : s \in Small(n + 1)
      BY <1>1
    <3> QED
      BY <2>1, <3>1
  <2>3. \A s \in Small(n + 1) : s # {} => s \ {One(s)} \in Small(n)
    BY <1>1, OneLess
  <2>4. Adds(n + 1, more)
    BY <2>2, <2>3
  <2>5. n + 1 \in Nat /\ \E h : Adds(n + 1, h)
    <3> HIDE DEF Adds, more
    <3> QED
      BY <2>4
  <2> QED
    BY <2>5
<1>4. Cardinality(T) \in G
  <2> HIDE DEF G
  <2>1. G \in SUBSET Nat
    BY DEF G
  <2> QED
    BY <1>1, <1>2, <1>3, <2>1, NumberInduction
<1>5. Small(Cardinality(T)) = SUBSET T
  BY <1>1, FS_Subset
<1>6. \E sum : Sums(T, a, sum)
  BY <1>4, <1>5 DEF Sums
<1> QED
  BY <1>6, Zenon DEF SumsOf

\* They are computed one after the other.
LEMMA SumsAdd ==
  ASSUME NEW T, IsFiniteSet(T), NEW a, NEW S \in SUBSET T
  PROVE  SumsOf(T, a)[S] = IF S = {} THEN 0 ELSE a[One(S)] + SumsOf(T, a)[S \ {One(S)}]
<1> DEFINE sum == SumsOf(T, a)
<1>0. Sums(T, a, sum)
  BY SumsExist
<1>1. sum = [s \in SUBSET T |-> IF s = {} THEN 0 ELSE a[One(s)] + sum[s \ {One(s)}]]
  <2> HIDE DEF sum
  <2> QED
    BY <1>0 DEF Sums
<1> HIDE DEF sum
<1>2. sum[S] = IF S = {} THEN 0 ELSE a[One(S)] + sum[S \ {One(S)}]
  BY <1>1
<1> QED
  BY <1>2 DEF sum

\* A sum of numbers is a number.
LEMMA SumIsNumber ==
  ASSUME NEW T, IsFiniteSet(T), NEW a \in [T -> Nat]
  PROVE  SumsOf(T, a)[T] \in Nat
<1> DEFINE sum == SumsOf(T, a)
           G == {S \in SUBSET T : sum[S] \in Nat}
<1>1. \A S \in SUBSET T : sum[S] = IF S = {} THEN 0 ELSE a[One(S)] + sum[S \ {One(S)}]
  BY SumsAdd
<1>2. {} \in G
  BY <1>1
<1>3. ASSUME NEW S \in SUBSET T, S # {}, S \ {One(S)} \in G PROVE S \in G
  <2>1. One(S) \in T
    BY <1>3, FS_Subset, OneLess
  <2> QED
    BY <1>1, <1>3, <2>1
<1>4. G = SUBSET T
  <2>1. G \in SUBSET (SUBSET T)
    OBVIOUS
  <2> HIDE DEF G
  <2> QED
    BY <1>2, <1>3, <2>1, SubsetInduction
<1> QED
  BY <1>4

\* Sums of smaller numbers are smaller, unless no number is.
LEMMA SumsTell ==
  ASSUME NEW T, IsFiniteSet(T), NEW a \in [T -> Nat], NEW b \in [T -> Nat],
         \A m \in T : a[m] <= b[m], SumsOf(T, a)[T] = SumsOf(T, b)[T]
  PROVE  a = b
<1>0. ASSUME NEW c, NEW S \in SUBSET T
      PROVE  SumsOf(T, c)[S] = IF S = {} THEN 0 ELSE c[One(S)] + SumsOf(T, c)[S \ {One(S)}]
  BY SumsAdd
<1> DEFINE suma == SumsOf(T, a)
           sumb == SumsOf(T, b)
           G == {S \in SUBSET T : /\ suma[S] \in Nat /\ sumb[S] \in Nat /\ suma[S] <= sumb[S]
                                  /\ suma[S] = sumb[S] => \A m \in S : a[m] = b[m]}
<1>1. ASSUME NEW S \in SUBSET T
      PROVE  /\ suma[S] = IF S = {} THEN 0 ELSE a[One(S)] + suma[S \ {One(S)}]
             /\ sumb[S] = IF S = {} THEN 0 ELSE b[One(S)] + sumb[S \ {One(S)}]
  <2>1. suma[S] = IF S = {} THEN 0 ELSE a[One(S)] + suma[S \ {One(S)}]
    BY <1>0
  <2>2. sumb[S] = IF S = {} THEN 0 ELSE b[One(S)] + sumb[S \ {One(S)}]
    BY <1>0
  <2> QED
    BY <2>1, <2>2
<1>2. {} \in G
  BY <1>1
<1>3. ASSUME NEW S \in SUBSET T, S # {}, S \ {One(S)} \in G PROVE S \in G
  <2>1. One(S) \in S /\ One(S) \in T
    BY <1>3, FS_Subset, OneLess
  <2>2. /\ suma[S] = a[One(S)] + suma[S \ {One(S)}]
        /\ sumb[S] = b[One(S)] + sumb[S \ {One(S)}]
    BY <1>1, <1>3
  <2>3. suma[S] \in Nat /\ sumb[S] \in Nat /\ suma[S] <= sumb[S]
    BY <1>3, <2>1, <2>2
  <2>4. ASSUME suma[S] = sumb[S], NEW m \in S PROVE a[m] = b[m]
    <3>1. a[One(S)] = b[One(S)] /\ suma[S \ {One(S)}] = sumb[S \ {One(S)}]
      BY <1>3, <2>1, <2>2, <2>4
    <3> QED
      BY <1>3, <3>1
  <2> QED
    BY <2>3, <2>4
<1>4. G = SUBSET T
  <2>1. G \in SUBSET (SUBSET T)
    OBVIOUS
  <2> HIDE DEF G
  <2> QED
    BY <1>2, <1>3, <2>1, SubsetInduction
<1>5. \A m \in T : a[m] = b[m]
  BY <1>4
<1> QED
  BY <1>5

\* Of the messages of a folder, some are counted and all are added up.
LEMMA CountAndSizeAreNumbers ==
  ASSUME NEW sizes \in [Msg -> 0..MaxSize]
  PROVE  CountOf(sizes) \in Nat /\ SizeOf(sizes) \in Nat
<1>1. IsFiniteSet({m \in Msg : sizes[m] # 0})
  BY VerifierAssumption, FS_Subset
<1>2. CountOf(sizes) \in Nat
  BY <1>1, FS_CardinalityType DEF CountOf
<1>3. sizes \in [Msg -> Nat]
  BY VerifierAssumption
<1>4. SizeOf(sizes) \in Nat
  BY <1>3, SizeIsSum, SumIsNumber, VerifierAssumption
<1> QED
  BY <1>2, <1>4

\* Where messages are only lost or cut short, equal counts mean that none is lost, and
\* equal sizes that all are whole.
LEMMA LossesShow ==
  ASSUME NEW before \in [Msg -> 0..MaxSize], NEW after \in [Msg -> 0..MaxSize],
         \A m \in Msg : after[m] <= before[m]
  PROVE  /\ CountOf(before) = CountOf(after) => \A m \in Msg : before[m] # 0 => after[m] # 0
         /\ SizeOf(before) = SizeOf(after) => after = before
<1>1. ASSUME CountOf(before) = CountOf(after) PROVE \A m \in Msg : before[m] # 0 => after[m] # 0
  <2> DEFINE B == {m \in Msg : before[m] # 0}
             A == {m \in Msg : after[m] # 0}
  <2>1. A \in SUBSET B
    BY VerifierAssumption
  <2>2. IsFiniteSet(B) /\ Cardinality(B) = Cardinality(A)
    BY <1>1, VerifierAssumption, FS_Subset DEF CountOf
  <2>3. B = A
    <3> HIDE DEF A, B
    <3> QED
      BY <2>1, <2>2, FS_Subset
  <2> QED
    BY <2>3
<1>2. ASSUME SizeOf(before) = SizeOf(after) PROVE after = before
  <2>1. after \in [Msg -> Nat] /\ before \in [Msg -> Nat]
    BY VerifierAssumption
  <2>2. SumsOf(Msg, after)[Msg] = SumsOf(Msg, before)[Msg]
    BY <1>2, SizeIsSum
  <2> QED
    BY <2>1, <2>2, SumsTell, VerifierAssumption
<1> QED
  BY <1>1, <1>2

-----------------------------------------------------------------------------
(* The invariant *)

\* The types, and what is so in the middle of verifyMailbox.
Shape ==
  /\ TypeOK
  /\ pc \in {"connect", "listSource", "listTarget"} => todo = {}
  /\ pc \notin {"close", "done"} => ~err

\* verifyMailbox has got through without an error.
Through == pc \in {"close", "done"} /\ ~err

IsListed(side) ==
  /\ names[side] = Selectable(side)
  /\ ~uncounted => \A f \in Selectable(side) : count[side][f] = Count(side, f)

Listed ==
  /\ pc \in {"listTarget", "compare", "compareTarget"} \/ Through => IsListed("source")
  /\ pc \in {"compare", "compareTarget"} \/ Through => IsListed("target")

IsSized(side, f) == size[side][f] = Size(side, f)

\* The folders that are compared already, and the side that is of the current one.
Sized ==
  ~unsized =>
    /\ pc \in {"compare", "compareTarget"} =>
         \A f \in Common \ todo : IsSized("source", f) /\ IsSized("target", f)
    /\ pc = "compareTarget" => \A f \in Common : f = Min(todo) => IsSized("source", f)
    /\ Through => \A f \in Common : IsSized("source", f) /\ IsSized("target", f)

VInv == Shape /\ Listed /\ Sized

-----------------------------------------------------------------------------
(* It holds *)

LEMMA VerifierInit == Init => VInv
<1> SUFFICES ASSUME Init PROVE VInv
  OBVIOUS
<1>1. names \in [Side -> SUBSET Folder]
  BY DEF Init
<1>2. Zero \in [Side -> [Folder -> Nat]]
  BY DEF Zero
<1>3. TypeOK
  BY <1>1, <1>2 DEF Init, TypeOK
<1> QED
  BY <1>3 DEF Init, VInv, Shape, Listed, Sized, Through

\* The servers do not change.
LEMMA AtRest ==
  ASSUME [Next]_vars
  PROVE  /\ UNCHANGED servers
         /\ \A side : Selectable(side)' = Selectable(side)
         /\ \A side, f : Count(side, f)' = Count(side, f) /\ Size(side, f)' = Size(side, f)
<1>1. UNCHANGED servers
  BY DEF Next, Connect, ListSource, ListTarget, SourceSize, TargetSize, ReadSize, Compared,
         Close, Done, vars
<1>2. /\ \A side : Selectable(side)' = Selectable(side)
      /\ \A side, f : Count(side, f)' = Count(side, f) /\ Size(side, f)' = Size(side, f)
  BY <1>1 DEF servers, Selectable, Count, Size
<1> QED
  BY <1>1, <1>2

\* What is counted and added up is so for every folder.
LEMMA NumbersOfFolders ==
  ASSUME TypeOK, NEW side \in Side, NEW f \in Folder
  PROVE  Count(side, f) \in Nat /\ Size(side, f) \in Nat
<1>1. box[side][f] \in [Msg -> 0..MaxSize]
  BY DEF TypeOK
<1> QED
  BY <1>1, CountAndSizeAreNumbers DEF Count, Size

\* Either all of a server is listed, or the rest is given up.
LEMMA ListLists ==
  ASSUME Shape, NEW side \in Side, NEW next \in {"listTarget", "compare"}, List(side, next),
         UNCHANGED servers
  PROVE  /\ names' \in [Side -> SUBSET Folder]
         /\ count' \in [Side -> [Folder -> Nat]]
         /\ uncounted' \in BOOLEAN /\ err' \in BOOLEAN /\ pc' \in {next, "close"}
         /\ pc' = "close" => err'
         /\ pc' = next =>
              /\ names'[side] = Selectable(side)
              /\ ~uncounted' => \A f \in Selectable(side) : count'[side][f] = Count(side, f)
              /\ err' = err
         /\ \A other \in Side \ {side} : names'[other] = names[other] /\ count'[other] = count[other]
         /\ uncounted => uncounted'
<1>1. CASE err' = TRUE /\ pc' = "close" /\ UNCHANGED <<names, count, uncounted>>
  BY <1>1 DEF Shape, TypeOK
<1>2. ASSUME names' = [names EXCEPT ![side] = Selectable(side)],
             NEW silent \in SUBSET Selectable(side),
             count' = [count EXCEPT ![side] = [f \in Folder |->
               IF f \in Selectable(side) \ silent THEN Count(side, f) ELSE 0]],
             uncounted' = (uncounted \/ silent # {}),
             pc' = next, err' = err
      PROVE  /\ names' \in [Side -> SUBSET Folder]
             /\ count' \in [Side -> [Folder -> Nat]]
             /\ uncounted' \in BOOLEAN
             /\ names'[side] = Selectable(side)
             /\ ~uncounted' => \A f \in Selectable(side) : count'[side][f] = Count(side, f)
             /\ \A other \in Side \ {side} : names'[other] = names[other] /\ count'[other] = count[other]
             /\ uncounted => uncounted'
  <2>1. Selectable(side) \subseteq Folder
    BY DEF Selectable
  <2>2. [f \in Folder |-> IF f \in Selectable(side) \ silent THEN Count(side, f) ELSE 0]
          \in [Folder -> Nat]
    BY NumbersOfFolders DEF Shape
  <2>3. uncounted' \in BOOLEAN /\ (uncounted => uncounted')
    BY <1>2
  <2>4. ~uncounted' => silent = {}
    BY <1>2
  <2> QED
    BY <1>2, <2>1, <2>2, <2>3, <2>4 DEF Shape, TypeOK
<1> QED
  BY <1>1, <1>2 DEF List, Shape, TypeOK

\* Each step of verifyMailbox keeps the invariant.
LEMMA VerifierNext == ASSUME VInv, [Next]_vars PROVE VInv'
<1> USE DEF VInv, Through
<1>0. /\ kind' \in [Side -> [Folder -> {"container", "folder"}]]
      /\ box' \in [Side -> [Folder -> [Msg -> 0..MaxSize]]]
  BY AtRest DEF servers, Shape, TypeOK
<1>1. CASE Connect
  <2>1. (pc' = "listSource" /\ err' = err) \/ (pc' = "done" /\ err' = TRUE)
    BY <1>1 DEF Connect
  <2>2. pc = "connect" /\ UNCHANGED <<names, count, size, uncounted, unsized>>
    BY <1>1 DEF Connect
  <2>3. /\ names' \in [Side -> SUBSET Folder]
        /\ count' \in [Side -> [Folder -> Nat]] /\ size' \in [Side -> [Folder -> Nat]]
        /\ uncounted' \in BOOLEAN /\ unsized' \in BOOLEAN
    BY <2>2 DEF Shape, TypeOK
  <2>4. err' \in BOOLEAN /\ (pc' \notin {"close", "done"} => ~err')
    <3>1. err \in BOOLEAN /\ ~err
      BY <2>2 DEF Shape, TypeOK
    <3>2. CASE pc' = "listSource" /\ err' = err
      BY <3>1, <3>2
    <3>3. CASE pc' = "done" /\ err' = TRUE
      BY <3>3
    <3> QED
      BY <2>1, <3>2, <3>3
  <2>5. TypeOK'
    BY <1>0, <1>1, <2>1, <2>3, <2>4 DEF Connect, Shape, TypeOK
  <2>6. Shape'
    BY <1>1, <2>1, <2>4, <2>5 DEF Connect, Shape
  <2> QED
    BY <2>1, <2>2, <2>4, <2>6 DEF Listed, Sized
<1>2. CASE ListSource
  <2>1. /\ List("source", "listTarget") /\ pc = "listSource"
        /\ UNCHANGED servers /\ UNCHANGED <<size, todo, unsized>>
    BY <1>2 DEF ListSource
  <2>2. Shape'
    <3>1. TypeOK'
      BY <1>0, <2>1, ListLists DEF Shape, TypeOK, Common, Side
    <3> QED
      BY <2>1, <3>1, ListLists DEF Shape, Side
  <2>3. Listed'
    BY <2>1, AtRest, ListLists DEF Listed, IsListed, Side
  <2> QED
    BY <2>1, <2>2, <2>3, AtRest, ListLists DEF Sized, Side
<1>3. CASE ListTarget
  <2>1. /\ List("target", "compare") /\ pc = "listTarget"
        /\ todo' = IF err' THEN {} ELSE Common'
        /\ UNCHANGED servers /\ UNCHANGED <<size, unsized>>
    BY <1>3 DEF ListTarget
  <2>2. Shape'
    <3>1. TypeOK'
      BY <1>0, <2>1, ListLists DEF Shape, TypeOK, Common, Side
    <3> QED
      BY <2>1, <3>1, ListLists DEF Shape, Side
  <2>3. Listed'
    BY <2>1, AtRest, ListLists DEF Listed, IsListed, Side
  <2>4. pc' = "compare" => todo' = Common'
    BY <2>1, AtRest, ListLists DEF Shape, TypeOK, Side
  <2> QED
    BY <2>1, <2>2, <2>3, <2>4, AtRest, ListLists DEF Sized, Side
<1>4. ASSUME NEW side \in Side, NEW next \in {"compare", "compareTarget"},
             pc \in {"compare", "compareTarget"}, ReadSize(side, Min(todo), next),
             todo' \subseteq todo
      PROVE  /\ Shape' /\ Listed' /\ Common' = Common
             /\ ~unsized' => ~unsized /\ \A f \in Folder : f = Min(todo) => size'[side][f] = Size(side, f)
             /\ \A other \in Side, f \in Folder :
                  other # side \/ f # Min(todo) => size'[other][f] = size[other][f]
  <2> DEFINE sizes == box[side][Min(todo)]
  <2>0. PICK silent \in SUBSET {m \in Msg : sizes[m] # 0} :
             /\ size' = [size EXCEPT ![side][Min(todo)] = SizeOf(Without(silent, sizes))]
             /\ unsized' = (unsized \/ silent # {})
    BY <1>4 DEF ReadSize
  <2> DEFINE n == SizeOf(Without(silent, sizes))
  <2>1. size' = [size EXCEPT ![side][Min(todo)] = n]
    BY <2>0
  <2>2. /\ pc' = next /\ UNCHANGED <<names, count, err, uncounted>>
        /\ unsized' \in BOOLEAN
    BY <1>4, <2>0 DEF ReadSize, Shape, TypeOK
  <2>3. size' \in [Side -> [Folder -> Nat]]
    <3>1. ASSUME Min(todo) \in Folder PROVE n \in Nat
      <4>1. sizes \in [Msg -> 0..MaxSize]
        BY <3>1 DEF Shape, TypeOK
      <4> HIDE DEF sizes
      <4>2. Without(silent, sizes) \in [Msg -> 0..MaxSize]
        BY <4>1, VerifierAssumption DEF Without
      <4> QED
        BY <4>2, CountAndSizeAreNumbers
    <3> HIDE DEF n
    <3> QED
      BY <2>1, <3>1 DEF Shape, TypeOK
  <2> HIDE DEF n
  <2>4. \A f \in Folder : f = Min(todo) => size'[side][f] = n
    BY <2>1 DEF Shape, TypeOK
  <2>5. \A other \in Side, f \in Folder :
          other # side \/ f # Min(todo) => size'[other][f] = size[other][f]
    BY <2>1 DEF Shape, TypeOK
  <2>6. Shape' /\ Listed' /\ Common' = Common
    <3>1. TypeOK'
      BY <1>0, <1>4, <2>2, <2>3 DEF Shape, TypeOK
    <3> QED
      BY <1>4, <2>2, <3>1, AtRest DEF Shape, Listed, IsListed, Common
  <2>7. ASSUME ~unsized', Min(todo) \in Folder PROVE n = Size(side, Min(todo))
    <3>1. silent = {}
      BY <2>0, <2>7
    <3>2. sizes \in [Msg -> 0..MaxSize]
      BY <2>7 DEF Shape, TypeOK
    <3>3. Without(silent, sizes) = sizes
      BY <3>1, <3>2 DEF Without
    <3> QED
      BY <3>3, Zenon DEF n, Size
  <2>8. ~unsized' => ~unsized /\ \A f \in Folder : f = Min(todo) => size'[side][f] = Size(side, f)
    BY <2>0, <2>4, <2>7
  <2> QED
    BY <2>5, <2>6, <2>8
<1>5. Common \subseteq Folder
  BY DEF Common, Shape, TypeOK, Side
<1>6. CASE SourceSize
  <2>1. /\ pc = "compare" /\ pc' = "compareTarget" /\ todo' = todo
        /\ ReadSize("source", Min(todo), "compareTarget")
    BY <1>6 DEF SourceSize, ReadSize
  <2>2. Sized'
    BY <1>4, <1>5, <2>1, AtRest DEF Sized, IsSized, Side
  <2> QED
    BY <1>4, <2>1, <2>2 DEF Side
<1>7. CASE TargetSize
  <2>1. /\ pc = "compareTarget" /\ pc' = "compare" /\ todo' = todo \ {Min(todo)}
        /\ ReadSize("target", Min(todo), "compare")
    BY <1>7 DEF TargetSize, ReadSize
  <2>2. /\ Common' = Common
        /\ ~unsized' => ~unsized /\ \A f \in Folder : f = Min(todo) => size'["target"][f] = Size("target", f)
        /\ \A f \in Folder : /\ size'["source"][f] = size["source"][f]
                             /\ f # Min(todo) => size'["target"][f] = size["target"][f]
    BY <1>4, <2>1 DEF Side
  <2>3. ASSUME ~unsized', NEW f \in Common', f \notin todo'
        PROVE  IsSized("source", f)' /\ IsSized("target", f)'
    <3>1. f \in Common /\ f \in Folder /\ (f \in Common \ todo \/ f = Min(todo))
      BY <1>5, <2>1, <2>2, <2>3
    <3>2. ~unsized /\ IsSized("source", f) /\ (f \in Common \ todo => IsSized("target", f))
      BY <2>1, <2>2, <2>3, <3>1 DEF Sized
    <3>3. size'["source"][f] = Size("source", f) /\ size'["target"][f] = Size("target", f)
      BY <2>2, <2>3, <3>1, <3>2 DEF IsSized
    <3>4. Size("source", f)' = Size("source", f) /\ Size("target", f)' = Size("target", f)
      BY AtRest
    <3> QED
      BY <3>3, <3>4 DEF IsSized
  <2>4. Sized'
    BY <2>1, <2>3 DEF Sized
  <2> QED
    BY <1>4, <2>1, <2>4 DEF Side
<1>8. CASE Compared
  <2>1. Common' = Common
    BY <1>8 DEF Compared, Common
  <2>2. TypeOK'
    BY <1>0, <1>8 DEF Compared, Shape, TypeOK
  <2> QED
    BY <1>8, <2>1, <2>2, AtRest DEF Compared, Shape, Listed, IsListed, Sized, IsSized
<1>9. CASE Close
  <2>1. Common' = Common
    BY <1>9 DEF Close, Common
  <2>2. TypeOK'
    BY <1>0, <1>9 DEF Close, Shape, TypeOK
  <2>3. pc = "close" /\ pc' = "done" /\ UNCHANGED <<names, count, size, todo, uncounted, unsized>>
    BY <1>9 DEF Close
  <2>4. ~err' => ~err
    BY <1>9 DEF Close
  <2>5. Shape'
    BY <2>2, <2>3 DEF Shape
  <2> QED
    BY <2>1, <2>3, <2>4, <2>5, AtRest DEF Listed, IsListed, Sized, IsSized
<1>10. CASE Done \/ UNCHANGED vars
  <2>1. Common' = Common
    BY <1>10 DEF Done, Common, vars
  <2>2. TypeOK'
    BY <1>0, <1>10 DEF Done, vars, Shape, TypeOK
  <2> QED
    BY <1>10, <2>1, <2>2, AtRest DEF Done, vars, Shape, Listed, IsListed, Sized, IsSized
<1> QED
  BY <1>1, <1>2, <1>3, <1>6, <1>7, <1>8, <1>9, <1>10 DEF Next

\* The inductive invariant.
LEMMA VerifierInvariant == Spec => []VInv
<1> QED
  BY VerifierInit, VerifierNext, PTL DEF Spec

-----------------------------------------------------------------------------
(* The theorems *)

\* Counts and sizes are numbers, whatever the messages, and only folders of both servers
\* are compared.
THEOREM TypeCorrect == Spec => []TypeOK
<1>1. VInv => TypeOK
  BY DEF VInv, Shape
<1> QED
  BY <1>1, VerifierInvariant, PTL

\* Whatever could be counted or summed up is equal if the verification passes, and
\* where messages can only have been lost or cut short, equal numbers mean equal folders.
THEOREM PassIsSound == Spec => []PassMeansEqual
<1>1. ASSUME VInv, pc = "done", OK
      PROVE  /\ Selectable("source") \subseteq Selectable("target")
             /\ uncounted \/ SameCounts
             /\ unsized \/ SameSizes
  BY <1>1 DEF VInv, Shape, TypeOK, Listed, IsListed, Sized, IsSized, Through, OK,
              MissingFolders, Common, FolderOK, SameCounts, SameSizes, Side
<1>2. ASSUME VInv, pc = "done", OK, NEW f \in Selectable("source"), OnlyLosses(f)
      PROVE  (uncounted \/ NoneDropped(f)) /\ (unsized \/ Intact(f))
  <2>1. box["source"][f] \in [Msg -> 0..MaxSize] /\ box["target"][f] \in [Msg -> 0..MaxSize]
    BY <1>2 DEF VInv, Shape, TypeOK, Selectable, Side
  <2>2. /\ Count("source", f) = Count("target", f) => NoneDropped(f)
        /\ Size("source", f) = Size("target", f) => Intact(f)
    BY <1>2, <2>1, LossesShow DEF Count, Size, OnlyLosses, NoneDropped, Intact
  <2> QED
    BY <1>1, <1>2, <2>2 DEF SameCounts, SameSizes
<1>3. VInv => PassMeansEqual
  BY <1>1, <1>2 DEF PassMeansEqual
<1> QED
  BY <1>3, VerifierInvariant, PTL

\* A difference is reported only where there is one, unless a server kept an answer back.
THEOREM FailIsSound == Spec => []NoFalseAlarm
<1>1. VInv => NoFalseAlarm
  BY DEF VInv, Shape, TypeOK, Listed, IsListed, Sized, IsSized, Through, NoFalseAlarm, OK,
         MissingFolders, Common, FolderOK, SameCounts, SameSizes, Side
<1> QED
  BY <1>1, VerifierInvariant, PTL

-----------------------------------------------------------------------------
(* The verification comes to an end *)

\* More than the steps that verifyMailbox still has to take, at a place of it with k folders
\* to compare, n in all: two for each of them.
LeftAt(place, k, n) ==
  CASE place = "connect" -> 2 * n + 5
    [] place = "listSource" -> 2 * n + 4
    [] place = "listTarget" -> 2 * n + 3
    [] place = "compare" -> 2 * k + 2
    [] place = "compareTarget" -> 2 * k + 1
    [] place = "close" -> 1
    [] place = "done" -> 0

Left == LeftAt(pc, Cardinality(todo), Cardinality(Folder))

Place == {"connect", "listSource", "listTarget", "compare", "compareTarget", "close", "done"}

\* The steps of verifyMailbox.
Own == Connect \/ ListSource \/ ListTarget \/ SourceSize \/ TargetSize \/ Compared \/ Close

\* It is a number, and never more than at the start.
LEMMA LeftAtIsNumber ==
  ASSUME NEW place \in Place, NEW k \in Nat, NEW n \in Nat, k <= n
  PROVE  LeftAt(place, k, n) \in 0..(2 * n + 5)
<1>1. LeftAt(place, k, n) >= 0 /\ LeftAt(place, k, n) <= 2 * n + 5
  BY DEF LeftAt, Place
<1>2. LeftAt(place, k, n) \in Int
  BY DEF LeftAt, Place
<1> QED
  BY <1>1, <1>2

\* A step from one place to the next makes it less.
LEMMA NextPlace ==
  ASSUME NEW place \in Place, NEW next \in Place,
         NEW k \in Nat, NEW l \in Nat, NEW n \in Nat, k <= n, l <= n,
         \/ place = "connect" /\ next \in {"listSource", "done"}
         \/ place = "listSource" /\ next \in {"listTarget", "close"}
         \/ place = "listTarget" /\ next \in {"compare", "close"}
         \/ place = "compare" /\ next = "compareTarget" /\ l = k
         \/ place = "compareTarget" /\ next = "compare" /\ l = k - 1
         \/ place = "compare" /\ next = "close"
         \/ place = "close" /\ next = "done"
  PROVE  LeftAt(next, l, n) < LeftAt(place, k, n)
  BY DEF LeftAt, Place

\* Between its two sizes a folder is still to come, and it is the first of those.
Between == pc = "compareTarget" => todo # {}

\* From one step to the next.
LEMMA BetweenHolds == Spec => []Between
<1>1. Init => Between
  BY DEF Init, Between
<1>2. Between /\ [Next]_vars => Between'
  BY DEF Between, Next, Connect, ListSource, ListTarget, List, SourceSize, TargetSize, ReadSize,
         Compared, Close, Done, vars
<1> QED
  BY <1>1, <1>2, PTL DEF Spec

\* What is left of some folders.
LEMMA FolderSizes ==
  ASSUME NEW S \in SUBSET Folder
  PROVE  /\ Cardinality(S) \in Nat /\ Cardinality(S) <= Cardinality(Folder)
         /\ Cardinality(Folder) \in Nat
         /\ S # {} => Cardinality(S \ {Min(S)}) = Cardinality(S) - 1
<1>1. IsFiniteSet(Folder) /\ IsFiniteSet(S)
  BY VerifierAssumption, FS_Subset
<1>2. /\ Cardinality(S) \in Nat /\ Cardinality(Folder) \in Nat
      /\ Cardinality(S) <= Cardinality(Folder)
  BY <1>1, FS_Subset, FS_CardinalityType
<1>3. ASSUME S # {} PROVE Cardinality(S \ {Min(S)}) = Cardinality(S) - 1
  <2>1. S \in SUBSET Nat
    BY VerifierAssumption
  <2>2. Min(S) \in S
    BY <1>3, <2>1, LeastThereIs DEF Min
  <2> QED
    BY <1>1, <2>2, FS_RemoveElement
<1> QED
  BY <1>2, <1>3

\* A verification of n folders takes no more than 2 n + 5 steps, whatever answers are kept back
\* (verifier.go, verifyMailbox): each leaves less to do, and none but its own are taken.
THEOREM StepsAreBounded ==
  Spec => [](Left \in 0..(2 * Cardinality(Folder) + 5)) /\ [][Left' < Left]_vars
<1> DEFINE k == Cardinality(todo)
           n == Cardinality(Folder)
<1>1. VInv => /\ k \in Nat /\ n \in Nat /\ k <= n /\ pc \in Place
              /\ todo # {} => Cardinality(todo \ {Min(todo)}) = k - 1
  <2> SUFFICES ASSUME VInv
               PROVE  /\ k \in Nat /\ n \in Nat /\ k <= n /\ pc \in Place
                      /\ todo # {} => Cardinality(todo \ {Min(todo)}) = k - 1
    OBVIOUS
  <2>1. todo \in SUBSET Folder /\ pc \in Place
    BY DEF VInv, Shape, TypeOK, Side, Place
  <2> QED
    BY <2>1, FolderSizes
<1>2. VInv => Left \in 0..(2 * Cardinality(Folder) + 5)
  BY <1>1, LeftAtIsNumber DEF Left
<1>3. ASSUME VInv, VInv', Between, Own PROVE Left' < Left
  <2>1. k' \in Nat /\ k' <= n /\ pc' \in Place
    <3>1. todo' \in SUBSET Folder /\ pc' \in Place
      BY <1>3 DEF VInv, Shape, TypeOK, Side, Place
    <3> QED
      BY <3>1, FolderSizes
  <2>2. \/ pc = "connect" /\ pc' \in {"listSource", "done"}
        \/ pc = "listSource" /\ pc' \in {"listTarget", "close"}
        \/ pc = "listTarget" /\ pc' \in {"compare", "close"}
        \/ pc = "compare" /\ pc' = "compareTarget" /\ k' = k
        \/ pc = "compareTarget" /\ pc' = "compare" /\ k' = k - 1
        \/ pc = "compare" /\ pc' = "close"
        \/ pc = "close" /\ pc' = "done"
    <3>1. CASE Connect \/ ListSource \/ ListTarget
      BY <3>1 DEF Connect, ListSource, ListTarget, List
    <3>2. CASE SourceSize \/ Compared \/ Close
      BY <3>2 DEF SourceSize, ReadSize, Compared, Close
    <3>3. CASE TargetSize
      <4>1. pc = "compareTarget" /\ pc' = "compare" /\ todo' = todo \ {Min(todo)} /\ todo # {}
        BY <1>3, <3>3 DEF TargetSize, ReadSize, Between
      <4> QED
        BY <1>1, <1>3, <4>1
    <3> QED
      BY <1>3, <3>1, <3>2, <3>3 DEF Own
  <2> HIDE DEF k, n
  <2>3. LeftAt(pc', k', n) < LeftAt(pc, k, n)
    BY <1>1, <1>3, <2>1, <2>2, NextPlace
  <2> QED
    BY <2>3 DEF Left, k, n
<1>4. VInv /\ VInv' /\ Between /\ [Next]_vars => [Left' < Left]_vars
  <2>1. Next => Own \/ UNCHANGED vars
    BY DEF Next, Own, Done
  <2> QED
    BY <1>3, <2>1
<1> QED
  BY <1>2, <1>4, VerifierInvariant, BetweenHolds, PTL DEF Spec

=============================================================================
