------------------------- MODULE ModelReleaseProofs -------------------------
(***************************************************************************)
(* For every dataset, every likeness of texts, every order of comparison   *)
(* and every shuffle: duplicates stay on one side of the split, and no     *)
(* score is of a text that was fitted.  For every number of exports, names *)
(* and server processes: one model is active, and a suggestion that can be *)
(* traced names the export that made it.                                   *)
(***************************************************************************)
EXTENDS ModelRelease, FiniteSetTheorems, TLAPS

-----------------------------------------------------------------------------
(* The split                                                               *)

Alike(t, u, at) == t # u /\ LabelOf[t] = LabelOf[u] /\ <<t, u>> \in Near[at]

\* The dataset a run has loaded.
Loaded == corpus \in Seq(Texts) /\ deduplicate \in BOOLEAN

\* Two alike texts of the dataset have been merged or are still to be compared.
MergedOrToDo ==
  deduplicate /\ Compares(threshold) => \A i, j \in Examples :
    Alike(corpus[i], corpus[j], threshold) =>
      find[corpus[i]] = find[corpus[j]] \/ {corpus[i], corpus[j]} \in todo

\* Nothing is shared out before the last pair has been compared.
MergedFirst ==
  /\ phase \in {"start", "merge"} \/ todo # {} => \A i \in Examples : bucket[i] = "none"
  /\ phase = "split" => todo = {}

\* The examples of one group and label are in one split.
GroupsWhole ==
  \A i, j \in Examples : Label(i) = Label(j) /\ Group(i) = Group(j) => bucket[i] = bucket[j]

\* What has been fitted is the training set: by an evaluation, of a split that passed
\* the checks; by an export, of one that was grouped at the default threshold.
FittedPassed ==
  /\ phase = "checked" => Passed
  /\ fitted # {} =>
       /\ phase \in {"trained", "written", "exported"} /\ fitted = TextsIn("train")
       /\ phase # "exported" => Passed
  /\ phase = "exported" => threshold = Default

IInv == Loaded /\ MergedOrToDo /\ MergedFirst /\ GroupsWhole /\ FittedPassed

LEMMA InitIInv == Init => IInv
<1> SUFFICES ASSUME Init PROVE IInv
  OBVIOUS
<1>1. /\ corpus = <<>> /\ Examples = {} /\ bucket = <<>> /\ fitted = {} /\ phase = "start"
  BY DEF Init, Examples
<1>2. Loaded
  BY <1>1 DEF Loaded, Init, Examples
<1>3. MergedOrToDo /\ MergedFirst /\ GroupsWhole
  BY <1>1 DEF Init, MergedOrToDo, MergedFirst, GroupsWhole
<1> QED
  BY <1>1, <1>2, <1>3 DEF IInv, FittedPassed

\* Loading a dataset: every alike pair of its texts is to be compared.
LEMMA LoadKeeps ==
  ASSUME IInv, load_dataset
  PROVE  IInv'
<1> USE SplitAssumptions
<1>1. corpus' \in Seq(Texts) /\ deduplicate' \in BOOLEAN /\ fitted' = fitted /\ find' = find
  BY DEF load_dataset, SplitAssumptions
<1>2. Loaded' /\ \A i \in Examples' : bucket'[i] = "none"
  BY <1>1 DEF load_dataset, IInv, Loaded, Examples
<1>3. MergedOrToDo'
  <2> SUFFICES ASSUME deduplicate', Compares(threshold'), NEW i \in Examples', NEW j \in Examples',
                      Alike(corpus'[i], corpus'[j], threshold')
               PROVE  {corpus'[i], corpus'[j]} \in todo'
    BY DEF MergedOrToDo, Alike, Compares
  <2>1. corpus'[i] \in TextsOf(corpus') /\ corpus'[j] \in TextsOf(corpus')
    BY DEF TextsOf, Examples
  <2>2. {corpus'[i], corpus'[j]} \in AlikeIn(TextsOf(corpus'), threshold')
    BY <2>1, <1>1 DEF AlikeIn, Alike
  <2> QED
    BY <2>2 DEF load_dataset
<1>4. MergedFirst' /\ GroupsWhole'
  BY <1>2 DEF load_dataset, MergedFirst, GroupsWhole
<1>5. FittedPassed'
  BY <1>1 DEF load_dataset, IInv, FittedPassed
<1> QED
  BY <1>2, <1>3, <1>4, <1>5 DEF IInv

\* Merging one pair: what had one representative has one still.
LEMMA MergeKeeps ==
  ASSUME IInv, NEW pair \in todo, Merge(pair)
  PROVE  IInv'
<1>0. PICK t, u \in pair : pair = {t, u} /\ find' = Link(t, u)
  BY DEF Merge
<1>1. /\ phase = "merge" /\ todo' = todo \ {pair}
      /\ UNCHANGED <<phase, corpus, deduplicate, threshold, left, bucket, fitted>>
  BY DEF Merge
<1>2. \A k \in Texts : find'[k] = IF find[k] = find[t] THEN find[u] ELSE find[k]
  BY <1>0 DEF Link
<1>3. MergedOrToDo'
  <2> SUFFICES ASSUME deduplicate, Compares(threshold), NEW i \in Examples, NEW j \in Examples,
                      Alike(corpus[i], corpus[j], threshold)
               PROVE  find'[corpus[i]] = find'[corpus[j]] \/ {corpus[i], corpus[j]} \in todo'
    BY <1>1 DEF MergedOrToDo, Examples, Alike, Compares
  <2>1. corpus[i] \in Texts /\ corpus[j] \in Texts
    BY DEF IInv, Loaded, Examples
  <2>2. CASE find[corpus[i]] = find[corpus[j]]
    BY <2>1, <2>2, <1>2
  <2>3. CASE {corpus[i], corpus[j]} = pair
    <3>1. {corpus[i], corpus[j]} = {t, u}
      BY <2>3, <1>0
    <3>2. (corpus[i] = t /\ corpus[j] = u) \/ (corpus[i] = u /\ corpus[j] = t)
      BY <3>1 DEF Alike
    <3> QED
      BY <3>2, <2>1, <1>2
  <2>4. CASE {corpus[i], corpus[j]} \in todo /\ {corpus[i], corpus[j]} # pair
    BY <2>4, <1>1
  <2> QED
    BY <2>2, <2>3, <2>4 DEF IInv, MergedOrToDo
<1>4. Loaded'
  BY <1>1 DEF IInv, Loaded
<1>5. MergedFirst' /\ GroupsWhole' /\ FittedPassed'
  BY <1>1 DEF IInv, MergedFirst, GroupsWhole, FittedPassed, Examples, Label
<1> QED
  BY <1>3, <1>4, <1>5 DEF IInv

\* Sharing out a label: a group of it goes to one split, the other labels stay.
LEMMA AllocateKeeps ==
  ASSUME IInv, NEW label \in left, Allocate(label)
  PROVE  IInv'
<1>1. /\ phase = "split" /\ UNCHANGED <<phase, corpus, deduplicate, threshold, find, todo, fitted>>
      /\ fitted = {}
  BY DEF Allocate, IInv, FittedPassed
<1>2. PICK test, val :
        bucket' = [i \in Examples |->
                     IF Label(i) # label THEN bucket[i]
                     ELSE IF Group(i) \in test THEN "test"
                     ELSE IF Group(i) \in val THEN "val" ELSE "train"]
  BY DEF Allocate
<1>3. GroupsWhole'
  <2> SUFFICES ASSUME NEW i \in Examples, NEW j \in Examples,
                      Label(i) = Label(j), Group(i) = Group(j)
               PROVE  bucket'[i] = bucket'[j]
    BY <1>1 DEF GroupsWhole, Examples, Label, Group
  <2>1. CASE Label(i) = label
    BY <2>1, <1>2
  <2>2. CASE Label(i) # label
    BY <2>2, <1>2 DEF IInv, GroupsWhole
  <2> QED
    BY <2>1, <2>2
<1>4. Loaded' /\ MergedOrToDo' /\ MergedFirst' /\ FittedPassed'
  BY <1>1 DEF IInv, Loaded, MergedOrToDo, MergedFirst, FittedPassed, Examples, Alike, Compares
<1> QED
  BY <1>3, <1>4 DEF IInv

\* The steps that neither load, merge nor share out leave the split alone.
LEMMA OthersKeep ==
  ASSUME IInv, RefuseSource \/ Grouped \/ Check \/ Train \/ Score \/ UNCHANGED vars
  PROVE  IInv'
<1>1. UNCHANGED <<corpus, deduplicate, threshold, find, todo, bucket>>
  BY DEF RefuseSource, Grouped, Check, Train, Score, vars
<1>2. Loaded' /\ MergedOrToDo' /\ GroupsWhole'
  BY <1>1 DEF IInv, Loaded, MergedOrToDo, GroupsWhole, Examples, Label, Group, Alike, Compares
<1>3. MergedFirst'
  BY <1>1 DEF IInv, MergedFirst, RefuseSource, Grouped, Check, Train, Score, vars, Examples
<1>4. Passed' = Passed /\ TextsIn("train")' = TextsIn("train")
  BY <1>1 DEF Passed, check_split_sizes, check_exact_overlap, check_near_duplicate_overlap,
              check_label_coverage, LabelsIn, TextsIn, In, Label, Examples
<1>5. FittedPassed'
  <2>1. CASE RefuseSource \/ Grouped \/ Score \/ UNCHANGED vars
    BY <2>1, <1>4 DEF IInv, FittedPassed, RefuseSource, Grouped, Score, vars
  <2>2. CASE Check
    BY <2>2, <1>4 DEF IInv, FittedPassed, Check
  <2>3. CASE Train
    BY <2>3, <1>4 DEF IInv, FittedPassed, Train
  <2> QED
    BY <2>1, <2>2, <2>3
<1> QED
  BY <1>2, <1>3, <1>5 DEF IInv

LEMMA StepIInv == IInv /\ [Next]_vars => IInv'
BY LoadKeeps, MergeKeeps, AllocateKeeps, OthersKeep DEF Next

LEMMA AlwaysIInv == Spec => []IInv
BY InitIInv, StepIInv, PTL DEF Spec

\* A merged pair is one group; until it is merged neither text is in a split.
LEMMA WholeGroupsSuffice == IInv => NothingStraddles
<1> SUFFICES ASSUME IInv, deduplicate, NEW i \in Examples, NEW j \in Examples,
                    Duplicates(i, j)
             PROVE  bucket[i] = bucket[j]
  BY DEF NothingStraddles
<1>1. CASE todo # {}
  BY <1>1 DEF IInv, MergedFirst
<1>2. CASE todo = {}
  <2>1. Label(i) = Label(j)
    BY DEF Duplicates, Label
  <2>2. find[corpus[i]] = find[corpus[j]]
    BY <1>2 DEF IInv, MergedOrToDo, Duplicates, Alike, Label
  <2> QED
    BY <2>1, <2>2 DEF IInv, GroupsWhole, Group
<1> QED
  BY <1>1, <1>2

\* Grouping keeps duplicates together: near duplicates of one label, however long the
\* chain, and equal texts are in one split (group_duplicates, stratified_group_split).
THEOREM DuplicatesStayTogether == Spec => []NothingStraddles
BY AlwaysIInv, WholeGroupsSuffice, PTL

\* An evaluation has passed the checks; an export has grouped at the default threshold,
\* at which texts are compared, and no duplicates are on two sides.
LEMMA GuardedIsUnseen == IInv => ScoredUnseen
<1> SUFFICES ASSUME IInv, deduplicate \/ phase # "exported",
                    NEW t \in fitted, NEW u \in TextsIn("test")
             PROVE  t # u /\ (LabelOf[t] = LabelOf[u] => <<u, t>> \notin Near[threshold])
  BY DEF ScoredUnseen, Unseen
<1>1. fitted = TextsIn("train")
  BY DEF IInv, FittedPassed
<1>2. PICK i \in In("test"), j \in In("train") : u = corpus[i] /\ t = corpus[j]
  BY <1>1 DEF TextsIn
<1>3. CASE phase # "exported"
  <2>1. Passed
    BY <1>3 DEF IInv, FittedPassed
  <2>2. TextsIn("train") \cap TextsIn("test") = {}
    BY <2>1 DEF Passed, check_exact_overlap
  <2> QED
    BY <1>1, <1>2, <2>1, <2>2 DEF Passed, check_near_duplicate_overlap, Label
<1>4. CASE phase = "exported" /\ deduplicate
  <2>1. Compares(threshold)
    BY <1>4, SplitAssumptions DEF IInv, FittedPassed, Compares
  <2>2. bucket[i] # bucket[j] /\ i \in Examples /\ j \in Examples
    BY DEF In
  <2>3. ~Duplicates(i, j)
    BY <1>4, <2>2, WholeGroupsSuffice DEF NothingStraddles
  <2> QED
    BY <1>2, <2>1, <2>3 DEF Duplicates, Label
<1> QED
  BY <1>3, <1>4

\* Whether or not the run deduplicates, what is scored was not fitted, nor anything of
\* its label as good as it (assert_no_leakage before baseline.train).
THEOREM NothingSeenIsScored == Spec => []ScoredUnseen
BY AlwaysIInv, GuardedIsUnseen, PTL

-----------------------------------------------------------------------------
(* The split, with exports beside the evaluations                          *)

\* An export prepares its split at the default threshold, and ends before anything is
\* checked, trained or written of an evaluation.
SplitInv ==
  /\ IInv
  /\ export.pc \notin {"none", "preparing"} => phase = "exported"
  /\ export.pc # "none" => threshold = Default /\ phase \notin {"checked", "trained", "written"}

LEMMA InitAnew == Init' => IInv'
BY InitIInv, PTL

LEMMA SplitStep == SplitInv /\ [NextRelease]_<<pipeline, release>> => SplitInv'
<1> SUFFICES ASSUME SplitInv, [NextRelease]_<<pipeline, release>>
             PROVE  SplitInv'
  OBVIOUS
<1>1. ASSUME NEW name \in Names, BeginExport(name)
      PROVE  SplitInv'
  <2>1. Init'
    BY <1>1 DEF BeginExport, Init
  <2>2. phase' = "start" /\ threshold' = Default /\ export'.pc = "preparing"
    BY <1>1 DEF BeginExport
  <2> QED
    BY <2>1, <2>2, InitAnew DEF SplitInv
<1>2. CASE Loads /\ UNCHANGED release
  BY <1>2, LoadKeeps DEF SplitInv, Loads, Preparing, load_dataset, release
<1>3. ASSUME NEW pair \in todo, Merge(pair), UNCHANGED release
      PROVE  SplitInv'
  BY <1>3, MergeKeeps DEF SplitInv, Merge, release
<1>4. ASSUME NEW label \in left, Allocate(label), UNCHANGED release
      PROVE  SplitInv'
  BY <1>4, AllocateKeeps DEF SplitInv, Allocate, release
<1>5. CASE (RefuseSource \/ Grouped \/ (Evaluating /\ Check) \/ Train \/ Score) /\ UNCHANGED release
  BY <1>5, OthersKeep
     DEF SplitInv, RefuseSource, Grouped, Check, Train, Score, Evaluating, release
<1>6. CASE Fit \/ FitFails \/ Quit
  <2>1. /\ UNCHANGED <<corpus, deduplicate, threshold, find, todo, left, bucket>>
        /\ phase' = "exported" /\ export.pc # "none" /\ fitted' \in {fitted, TextsIn("train")}
    BY <1>6 DEF Fit, FitFails, Quit, Preparing
  <2>2. TextsIn("train")' = TextsIn("train") /\ (fitted # {} => fitted = TextsIn("train"))
    BY <2>1 DEF SplitInv, IInv, FittedPassed, TextsIn, In, Examples
  <2>3. FittedPassed'
    BY <2>1, <2>2 DEF SplitInv, FittedPassed
  <2>4. Loaded' /\ MergedOrToDo' /\ MergedFirst' /\ GroupsWhole'
    BY <2>1 DEF SplitInv, IInv, Loaded, MergedOrToDo, MergedFirst, GroupsWhole,
                Examples, Label, Group, Alike, Compares
  <2> QED
    BY <2>1, <2>3, <2>4 DEF SplitInv, IInv
<1>7. ASSUME UNCHANGED pipeline,
             export' = export \/ export'.pc = "none" \/ export.pc \notin {"none", "preparing"}
      PROVE  SplitInv'
  <2>1. IInv'
    BY <1>7, OthersKeep DEF SplitInv, pipeline, vars
  <2> QED
    BY <1>7, <2>1 DEF SplitInv, pipeline
<1>8. CASE BeginWrite \/ save_bundle \/ Register \/ RegisterConflicts
  BY <1>7, <1>8 DEF BeginWrite, save_bundle, Register, RegisterConflicts
<1>9. ASSUME NEW p \in Processes, (\E name \in Names : Start(p, name)) \/ BeginTriage(p) \/ Classify(p)
      PROVE  SplitInv'
  BY <1>7, <1>9 DEF Start, BeginTriage, Classify
<1>10. CASE UNCHANGED <<pipeline, release>>
  BY <1>7, <1>10 DEF release
<1> QED
  BY <1>1, <1>2, <1>3, <1>4, <1>5, <1>6, <1>8, <1>9, <1>10 DEF NextRelease

LEMMA AlwaysSplitInv == SpecRelease => []SplitInv
<1>1. InitRelease => SplitInv
  BY InitIInv DEF InitRelease, SplitInv, NoExport
<1> QED
  BY <1>1, SplitStep, PTL DEF SpecRelease

\* Both hold of the pipeline as it is used, with exports that run it as far as the
\* split and are killed anywhere (export_baseline_model.py).
THEOREM ExportsStraddleNothing == SpecRelease => []NothingStraddles
BY AlwaysSplitInv, WholeGroupsSuffice, PTL DEF SplitInv

\* An export that deduplicates scores nothing it fitted, though nothing checks it: it
\* compares at the default threshold, and what it has merged is assigned as one. Nor does
\* it leave anything fitted to an evaluation (main of export_baseline_model.py, lines 97 to 110).
THEOREM ExportsSpoilNoScore == SpecRelease => []ScoredUnseen
BY AlwaysSplitInv, GuardedIsUnseen, PTL DEF SplitInv

-----------------------------------------------------------------------------
(* The checks after the split                                              *)

\* A label that is scored is trained.
Covered ==
  \A i \in Examples : bucket[i] = "test" =>
    \E j \in Examples : Label(j) = Label(i) /\ bucket[j] = "train"

SizeInv == SplitInv /\ Covered /\ RefusedForSizeOnly

LEMMA RoundIsNear ==
  ASSUME NEW h \in Nat
  PROVE  Round(h) \in Nat /\ 100 * Round(h) <= h + 50
<1>1. (h \div 100) \in Nat /\ (h % 100) \in 0 .. 99 /\ h = 100 * (h \div 100) + (h % 100)
  OBVIOUS
<1>2. PICK whole \in Nat, rest \in 0 .. 99 :
        whole = h \div 100 /\ rest = h % 100 /\ h = 100 * whole + rest
  BY <1>1
<1>3. Round(h) = IF rest > 50 \/ (rest = 50 /\ whole % 2 = 1) THEN whole + 1 ELSE whole
  BY <1>2 DEF Round
<1>4. CASE Round(h) = whole + 1
  BY <1>2, <1>3, <1>4
<1>5. CASE Round(h) = whole
  BY <1>2, <1>5
<1> QED
  BY <1>3, <1>4, <1>5

\* Of two groups or more, a training group is left; of one, none is given away.
LEMMA SharesLeaveOne ==
  ASSUME TestSize + ValSize <= 50, NEW n \in Nat
  PROVE  /\ TestShare(n) \in Nat /\ ValShare(n) \in Nat
         /\ n > 1 => TestShare(n) + ValShare(n) < n
         /\ n <= 1 => TestShare(n) = 0
<1>1. TestSize \in Nat /\ ValSize \in Nat
  BY SplitAssumptions
<1>2. PICK x \in Nat : x = n * TestSize
  BY <1>1
<1>3. PICK y \in Nat : y = n * ValSize
  BY <1>1
<1>4. x + y <= 50 * n
  <2>1. x + y = n * (TestSize + ValSize)
    BY <1>1, <1>2, <1>3
  <2>2. PICK d \in Nat : d = 50 - (TestSize + ValSize)
    BY <1>1
  <2>3. n * (TestSize + ValSize) + n * d = 50 * n /\ n * d \in Nat
    BY <1>1, <2>2
  <2> QED
    BY <1>2, <1>3, <2>1, <2>3
<1>5. PICK a \in Nat : a = Round(n * TestSize) /\ 100 * a <= x + 50
  BY <1>2, RoundIsNear
<1>6. PICK b \in Nat : b = Round(n * ValSize) /\ 100 * b <= y + 50
  BY <1>3, RoundIsNear
<1>7. TestShare(n) = IF n > 2 THEN (IF a < 1 THEN 1 ELSE a) ELSE IF n > 1 THEN 1 ELSE 0
  BY <1>5 DEF TestShare, AtLeastOne
<1>8. ValShare(n) = IF n - TestShare(n) > 2 THEN (IF b < 1 THEN 1 ELSE b) ELSE 0
  BY <1>6 DEF ValShare, AtLeastOne
<1>9. CASE n <= 2
  BY <1>7, <1>8, <1>9
<1>10. CASE n > 2
  <2>1. PICK t \in Nat : t = TestShare(n) /\ t = (IF a < 1 THEN 1 ELSE a)
    BY <1>7, <1>10
  <2>2. PICK v \in Nat : v = ValShare(n) /\ v = (IF n - t > 2 THEN (IF b < 1 THEN 1 ELSE b) ELSE 0)
    BY <1>8, <2>1
  <2>3. CASE n - t > 2
    BY <1>4, <1>5, <1>6, <1>10, <2>1, <2>2, <2>3
  <2>4. CASE ~(n - t > 2)
    BY <1>4, <1>5, <1>10, <2>1, <2>2, <2>4
  <2> QED
    BY <1>10, <2>1, <2>2, <2>3, <2>4
<1> QED
  BY <1>9, <1>10

\* What is taken for a split is at most its share.
LEMMA PicksAtMost ==
  ASSUME NEW groups, IsFiniteSet(groups), NEW share \in Nat, NEW some \in Picks(groups, share)
  PROVE  some \subseteq groups /\ IsFiniteSet(some) /\ Cardinality(some) <= share
<1>1. some \subseteq groups /\ IsFiniteSet(some)
  BY FS_Subset DEF Picks
<1>2. Cardinality(groups) \in Nat /\ Cardinality(some) \in Nat
  BY <1>1, FS_CardinalityType
<1>3. IF share <= Cardinality(groups) THEN Cardinality(some) = share ELSE some = groups
  BY DEF Picks
<1> QED
  BY <1>1, <1>2, <1>3

LEMMA AllocateCovers ==
  ASSUME TestSize + ValSize <= 50, IInv, Covered, NEW label \in left, Allocate(label)
  PROVE  Covered'
<1> DEFINE groups == GroupsOf(label)
           n == Cardinality(groups)
<1>1. corpus \in Seq(Texts) /\ UNCHANGED <<corpus, deduplicate, threshold, find>>
  BY DEF IInv, Loaded, Allocate
<1>2. PICK test \in Picks(groups, TestShare(n)) :
        \E val \in Picks(groups \ test, ValShare(n)) :
          bucket' = [i \in Examples |->
                       IF Label(i) # label THEN bucket[i]
                       ELSE IF Group(i) \in test THEN "test"
                       ELSE IF Group(i) \in val THEN "val" ELSE "train"]
  BY DEF Allocate
<1>3. PICK val \in Picks(groups \ test, ValShare(n)) :
          bucket' = [i \in Examples |->
                       IF Label(i) # label THEN bucket[i]
                       ELSE IF Group(i) \in test THEN "test"
                       ELSE IF Group(i) \in val THEN "val" ELSE "train"]
  BY <1>2
<1>4. IsFiniteSet(groups) /\ n \in Nat
  <2>1. IsFiniteSet(Examples)
    <3>1. Examples = 1 .. Len(corpus) /\ Len(corpus) \in Nat
      BY <1>1 DEF Examples
    <3> QED
      BY <3>1, FS_Interval
  <2>2. IsFiniteSet({j \in Examples : Label(j) = label})
    BY <2>1, FS_Subset
  <2>3. IsFiniteSet(groups)
    <3> DEFINE members == {j \in Examples : Label(j) = label}
               groupOf == [j \in members |-> Group(j)]
    <3>1. groupOf \in Surjection(members, groups)
      BY DEF Surjection, GroupsOf
    <3> HIDE DEF groupOf
    <3> QED
      BY <2>2, <3>1, FS_Surjection
  <2> QED
    BY <2>3, FS_CardinalityType
<1>5. /\ test \subseteq groups /\ IsFiniteSet(test) /\ Cardinality(test) <= TestShare(n)
      /\ val \subseteq groups \ test /\ IsFiniteSet(val) /\ Cardinality(val) <= ValShare(n)
      /\ TestShare(n) \in Nat /\ ValShare(n) \in Nat
  <2>1. TestShare(n) \in Nat /\ ValShare(n) \in Nat
    BY <1>4, SharesLeaveOne
  <2>2. IsFiniteSet(groups \ test)
    BY <1>4, FS_Subset
  <2> HIDE DEF groups, n
  <2> QED
    BY <1>2, <1>3, <1>4, <2>1, <2>2, PicksAtMost
<1>6. Cardinality(test) \in Nat /\ Cardinality(val) \in Nat
  BY <1>5, FS_CardinalityType
<1> SUFFICES ASSUME NEW i \in Examples, bucket'[i] = "test"
             PROVE  \E j \in Examples : Label(j) = Label(i) /\ bucket'[j] = "train"
  BY <1>1 DEF Covered, Examples, Label
<1>7. CASE Label(i) # label
  <2>1. PICK j \in Examples : Label(j) = Label(i) /\ bucket[j] = "train"
    BY <1>3, <1>7 DEF Covered
  <2> QED
    BY <1>3, <1>7, <2>1
<1>8. CASE Label(i) = label
  <2>1. Group(i) \in test
    BY <1>3, <1>8
  <2>2. n > 1
    <3>1. Cardinality(test) # 0
      BY <1>5, <2>1, FS_EmptySet
    <3>2. n <= 1 => TestShare(n) = 0
      BY <1>4, SharesLeaveOne
    <3> HIDE DEF groups, n
    <3> QED
      BY <1>4, <1>5, <1>6, <3>1, <3>2
  <2>3. groups # test \cup val
    <3>1. Cardinality(test \cup val) = Cardinality(test) + Cardinality(val)
      <4>1. test \cap val = {} /\ Cardinality({}) = 0
        BY <1>5, FS_EmptySet
      <4>2. Cardinality(test \cup val)
              = Cardinality(test) + Cardinality(val) - Cardinality(test \cap val)
        BY <1>5, FS_Union
      <4> QED
        BY <1>6, <4>1, <4>2
    <3>2. TestShare(n) + ValShare(n) < n
      BY <1>4, <2>2, SharesLeaveOne
    <3>3. Cardinality(test \cup val) < n
      <4> HIDE DEF groups, n
      <4> QED
        BY <1>4, <1>5, <1>6, <3>1, <3>2
    <3> QED
      BY <1>4, <3>3
  <2>4. PICK j \in Examples : Label(j) = label /\ Group(j) \notin test \cup val
    <3>1. PICK g \in groups : g \notin test \cup val
      BY <1>5, <2>3
    <3> QED
      BY <3>1 DEF GroupsOf
  <2> QED
    BY <1>3, <1>8, <2>4
<1> QED
  BY <1>7, <1>8

\* A split of whole groups that covers its labels passes every check but that of size.
LEMMA OnlySizeFails ==
  ASSUME IInv, Covered, deduplicate, Compares(threshold), check_split_sizes
  PROVE  Passed
<1>1. NothingStraddles
  BY WholeGroupsSuffice
<1>2. check_exact_overlap
  <2> SUFFICES ASSUME NEW s, NEW t, s # t, NEW i \in In(s), NEW j \in In(t), corpus[i] = corpus[j]
               PROVE  FALSE
    BY DEF check_exact_overlap, TextsIn
  <2>1. i \in Examples /\ j \in Examples /\ bucket[i] = s /\ bucket[j] = t
    BY DEF In
  <2> QED
    BY <1>1, <2>1 DEF NothingStraddles, Duplicates
<1>3. check_near_duplicate_overlap
  BY <1>1 DEF check_near_duplicate_overlap, NothingStraddles, Duplicates, In
<1>4. check_label_coverage
  BY DEF check_label_coverage, Covered, LabelsIn, In
<1> QED
  BY <1>2, <1>3, <1>4 DEF Passed

\* Wherever the split stays as it is, what is refused was too small.
LEMMA SplitUntouched ==
  ASSUME SizeInv, UNCHANGED <<corpus, deduplicate, threshold, bucket>>,
         phase' \in {phase, "split", "trained", "written", "exported"} \/ RefuseSource \/ Check
  PROVE  Covered' /\ RefusedForSizeOnly'
<1>1. Covered' /\ check_split_sizes' = check_split_sizes
  BY DEF SizeInv, Covered, Examples, Label, check_split_sizes, In
<1>2. CASE phase' \in {phase, "split", "trained", "written", "exported"}
  BY <1>1, <1>2 DEF SizeInv, RefusedForSizeOnly, Compares
<1>3. CASE RefuseSource
  <2>1. ~check_split_sizes
    BY <1>3 DEF RefuseSource, SizeInv, SplitInv, IInv, MergedFirst, check_split_sizes, In
  <2> QED
    BY <1>1, <2>1 DEF RefusedForSizeOnly, Compares
<1>4. CASE Check
  <2>1. phase' = "refused" /\ deduplicate /\ Compares(threshold) => ~check_split_sizes
    BY <1>4, OnlySizeFails DEF Check, SizeInv, SplitInv, Passed
  <2> QED
    BY <1>1, <2>1 DEF RefusedForSizeOnly, Compares
<1> QED
  BY <1>2, <1>3, <1>4

LEMMA SizeStep ==
  ASSUME TestSize + ValSize <= 50, SizeInv, [NextRelease]_<<pipeline, release>>
  PROVE  SizeInv'
<1>1. SplitInv'
  BY SplitStep DEF SizeInv
<1>2. ASSUME NEW name \in Names, BeginExport(name)
      PROVE  SizeInv'
  BY <1>1, <1>2 DEF SizeInv, BeginExport, Covered, RefusedForSizeOnly, Examples
<1>3. CASE Loads
  <2>1. phase' = "merge" /\ bucket' = [i \in DOMAIN corpus' |-> "none"]
    BY <1>3 DEF Loads, load_dataset
  <2> QED
    BY <1>1, <2>1 DEF SizeInv, Covered, RefusedForSizeOnly, Examples
<1>4. ASSUME NEW pair \in todo, Merge(pair)
      PROVE  SizeInv'
  BY <1>1, <1>4, SplitUntouched DEF SizeInv, Merge
<1>5. ASSUME NEW label \in left, Allocate(label)
      PROVE  SizeInv'
  <2>1. Covered'
    BY <1>5, AllocateCovers DEF SizeInv, SplitInv
  <2> QED
    BY <1>1, <1>5, <2>1 DEF SizeInv, Allocate, RefusedForSizeOnly
<1>6. CASE RefuseSource \/ Grouped \/ Check \/ Train \/ Score
  BY <1>1, <1>6, SplitUntouched
     DEF SizeInv, RefuseSource, Grouped, Check, Train, Score
<1>7. CASE Fit \/ FitFails \/ Quit
  BY <1>1, <1>7, SplitUntouched DEF SizeInv, Fit, FitFails, Quit
<1>8. CASE UNCHANGED pipeline
  BY <1>1, <1>8, SplitUntouched DEF SizeInv, pipeline
<1>9. CASE BeginWrite \/ save_bundle \/ Register \/ RegisterConflicts
  BY <1>8, <1>9 DEF BeginWrite, save_bundle, Register, RegisterConflicts
<1>10. ASSUME NEW p \in Processes,
              (\E name \in Names : Start(p, name)) \/ BeginTriage(p) \/ Classify(p)
       PROVE  SizeInv'
  BY <1>8, <1>10 DEF Start, BeginTriage, Classify
<1> QED
  BY <1>2, <1>3, <1>4, <1>5, <1>6, <1>7, <1>8, <1>9, <1>10 DEF NextRelease

\* Where at most half of the groups are held out, as the configuration's 20 and 10
\* hundredths are, the splitter passes the checks that follow it: a deduplicated run is
\* refused for its size, never for a leak nor for a label that is scored untrained
\* (stratified_group_split, assert_no_leakage).
THEOREM SplitterPassesItsChecks ==
  ASSUME TestSize + ValSize <= 50
  PROVE  SpecRelease => []RefusedForSizeOnly
<1>1. InitRelease => SizeInv
  <2>1. InitRelease => SplitInv
    BY InitIInv DEF InitRelease, SplitInv, NoExport
  <2> QED
    BY <2>1 DEF InitRelease, Init, SizeInv, Covered, RefusedForSizeOnly, Examples
<1>2. SizeInv /\ [NextRelease]_<<pipeline, release>> => SizeInv'
  BY SizeStep
<1>3. SizeInv => RefusedForSizeOnly
  BY DEF SizeInv
<1> QED
  BY <1>1, <1>2, <1>3, PTL DEF SpecRelease

-----------------------------------------------------------------------------
(* From the export to the suggestion                                       *)

ExportTyped ==
  /\ export \in [pc: {"none", "preparing", "fitted", "writing", "saved"},
                 name: Names \cup {NoName}, nth: 0 .. MaxExports]
  /\ export.pc # "none" => export.name \in Names /\ export.nth \in 1 .. MaxExports
  /\ export.pc = "writing" => file[export.name] = Torn
  /\ export.pc = "saved" => file[export.name] = export.nth

FileTyped == file \in [Names -> {Absent, Torn} \cup 1 .. MaxExports]

\* A row describes its file until that is written over.
RowsDescribe ==
  /\ registry \in Seq(ModelVersion)
  /\ \A n \in DOMAIN registry :
       registry[n].name \notin rewritten => file[registry[n].name] = registry[n].made
  /\ registry # <<>> => Active = {Len(registry)}

\* A process holds the contents of its file, until that is written over; what it is
\* about to suggest is ascribed to a row.
ProcessHolds(p) ==
  /\ process[p] \in [path: Names \cup {NoName}, bundle: 0 .. MaxExports, model: Nat,
                     settled: BOOLEAN]
  /\ process[p].bundle # None =>
       /\ process[p].path \in Names
       /\ process[p].path \notin rewritten => file[process[p].path] = process[p].bundle
  /\ process[p].model # None =>
       /\ process[p].model \in DOMAIN registry
       /\ process[p].settled => process[p].bundle = registry[process[p].model].made

SuggestionsTrace ==
  \A s \in suggestions :
    /\ s.model \in DOMAIN registry
    /\ s.settled => s.made = registry[s.model].made

ReleaseInv ==
  /\ ExportTyped /\ FileTyped /\ RowsDescribe
  /\ process = [p \in Processes |-> process[p]]
  /\ \A p \in Processes : ProcessHolds(p)
  /\ SuggestionsTrace

LEMMA ReleaseInitially == InitRelease => ReleaseInv
<1> SUFFICES ASSUME InitRelease
             PROVE  ReleaseInv
  OBVIOUS
<1>1. ExportTyped /\ FileTyped /\ SuggestionsTrace
  BY ReleaseAssumptions DEF InitRelease, ExportTyped, FileTyped, SuggestionsTrace, NoExport, Absent
<1>2. RowsDescribe
  BY DEF InitRelease, RowsDescribe
<1>3. \A p \in Processes : ProcessHolds(p)
  BY ReleaseAssumptions DEF InitRelease, ProcessHolds, Down, None
<1> QED
  BY <1>1, <1>2, <1>3 DEF ReleaseInv, InitRelease

\* The export goes on; file and table stay.
LEMMA ExportMoves ==
  ASSUME ReleaseInv, ExportTyped', UNCHANGED <<file, registry, process, suggestions, rewritten>>
  PROVE  ReleaseInv'
BY DEF ReleaseInv, FileTyped, RowsDescribe, ProcessHolds, SuggestionsTrace, Active

\* A file changes under the name of the export: what is said of the old contents is
\* said of a name that is, or is already, written over.
LEMMA FileChanges ==
  ASSUME ReleaseInv, ExportTyped', NEW c \in {Torn} \cup 1 .. MaxExports,
         export.name \in Names,
         file' = [file EXCEPT ![export.name] = c],
         rewritten \subseteq rewritten',
         file[export.name] \in 1 .. MaxExports => export.name \in rewritten',
         UNCHANGED <<registry, process, suggestions>>
  PROVE  ReleaseInv'
<1>1. FileTyped' /\ \A name \in Names : name # export.name => file'[name] = file[name]
  BY DEF ReleaseInv, FileTyped
<1>2. RowsDescribe'
  <2>1. ASSUME NEW n \in DOMAIN registry, registry[n].name \notin rewritten'
        PROVE  file'[registry[n].name] = registry[n].made
    <3>0. registry[n] \in ModelVersion
      BY DEF ReleaseInv, RowsDescribe
    <3>1. registry[n].name \in Names /\ registry[n].made \in 1 .. MaxExports
      BY <3>0 DEF ModelVersion
    <3>2. file[registry[n].name] = registry[n].made
      BY <2>1 DEF ReleaseInv, RowsDescribe
    <3> QED
      BY <1>1, <2>1, <3>1, <3>2
  <2> QED
    BY <2>1 DEF ReleaseInv, RowsDescribe, Active
<1>3. ASSUME NEW p \in Processes
      PROVE  ProcessHolds(p)'
  <2>1. ProcessHolds(p)
    BY DEF ReleaseInv
  <2>2. ASSUME process[p].bundle # None, process[p].path \notin rewritten'
        PROVE  file'[process[p].path] = process[p].bundle
    <3>1. /\ process[p].path \in Names /\ file[process[p].path] = process[p].bundle
          /\ process[p].bundle \in 1 .. MaxExports
      BY <2>1, <2>2 DEF ProcessHolds, None
    <3> QED
      BY <1>1, <2>2, <3>1
  <2> QED
    BY <2>1, <2>2 DEF ProcessHolds
<1> QED
  BY <1>1, <1>2, <1>3 DEF ReleaseInv, SuggestionsTrace

\* The table after a registration: the same rows, none of them active, and one more.
LEMMA RegisteredRow ==
  ASSUME ReleaseInv, Register
  PROVE  /\ registry' \in Seq(ModelVersion) /\ Len(registry') = Len(registry) + 1
         /\ \A n \in DOMAIN registry :
              /\ n \in DOMAIN registry' /\ ~registry'[n].active
              /\ registry'[n].name = registry[n].name /\ registry'[n].made = registry[n].made
         /\ registry'[Len(registry) + 1] =
              [name |-> export.name, made |-> export.nth, active |-> TRUE]
<1>1. PICK row : row = [name |-> export.name, made |-> export.nth, active |-> TRUE]
  OBVIOUS
<1>2. row \in ModelVersion
  BY <1>1 DEF Register, ReleaseInv, ExportTyped, ModelVersion
<1>3. registry' = Append(Deactivated, row)
  BY <1>1 DEF Register
<1>4. /\ Deactivated \in Seq(ModelVersion) /\ Len(Deactivated) = Len(registry)
      /\ \A n \in DOMAIN registry :
           /\ Deactivated[n].name = registry[n].name /\ Deactivated[n].made = registry[n].made
           /\ ~Deactivated[n].active
  <2>1. registry \in Seq(ModelVersion)
    BY DEF ReleaseInv, RowsDescribe
  <2>2. DOMAIN registry = 1 .. Len(registry) /\ Len(registry) \in Nat
    BY <2>1
  <2>3. \A m \in ModelVersion :
          /\ [m EXCEPT !.active = FALSE] \in ModelVersion
          /\ [m EXCEPT !.active = FALSE].name = m.name
          /\ [m EXCEPT !.active = FALSE].made = m.made
          /\ ~[m EXCEPT !.active = FALSE].active
    BY DEF ModelVersion
  <2>4. \A n \in DOMAIN registry :
          Deactivated[n] = [registry[n] EXCEPT !.active = FALSE] /\ registry[n] \in ModelVersion
    BY <2>1 DEF Deactivated
  <2>5. DOMAIN Deactivated = 1 .. Len(registry)
    BY <2>2 DEF Deactivated
  <2>6. Deactivated \in [1 .. Len(registry) -> ModelVersion]
    BY <2>2, <2>3, <2>4, <2>5 DEF Deactivated
  <2>7. Deactivated \in Seq(ModelVersion) /\ Len(Deactivated) = Len(registry)
    BY <2>2, <2>6
  <2> QED
    BY <2>3, <2>4, <2>7
<1>5. DOMAIN registry = 1 .. Len(registry) /\ Len(registry) \in Nat
  BY DEF ReleaseInv, RowsDescribe
<1> HIDE <1>1 DEF Deactivated
<1>6. /\ registry' \in Seq(ModelVersion) /\ Len(registry') = Len(registry) + 1
      /\ \A n \in 1 .. Len(registry) : registry'[n] = Deactivated[n]
      /\ registry'[Len(registry) + 1] = row
  BY <1>2, <1>3, <1>4, <1>5
<1> QED
  BY <1>1, <1>4, <1>5, <1>6

LEMMA RegisterKeeps ==
  ASSUME ReleaseInv, Register
  PROVE  ReleaseInv'
<1>1. UNCHANGED <<file, process, suggestions, rewritten>> /\ export' = NoExport(export.nth)
  BY DEF Register, Ends
<1>2. DOMAIN registry = 1 .. Len(registry) /\ Len(registry) \in Nat
  BY DEF ReleaseInv, RowsDescribe
<1>3. /\ registry' \in Seq(ModelVersion)
      /\ DOMAIN registry' = (DOMAIN registry) \cup {Len(registry) + 1}
      /\ Len(registry') = Len(registry) + 1 /\ registry' # <<>>
  BY <1>2, RegisteredRow
<1>4. \A n \in DOMAIN registry :
        ~registry'[n].active /\ registry'[n].name = registry[n].name /\ registry'[n].made = registry[n].made
  BY RegisteredRow
<1>5. LET row == registry'[Len(registry) + 1]
      IN row.active /\ row.name = export.name /\ row.made = export.nth
  BY RegisteredRow
<1>6. file[export.name] = export.nth
  BY DEF Register, ReleaseInv, ExportTyped
<1>7. ExportTyped'
  BY <1>1 DEF ReleaseInv, ExportTyped, NoExport
<1>8. Active' = {Len(registry')}
  BY <1>3, <1>4, <1>5 DEF Active
<1>9. \A n \in DOMAIN registry' :
        registry'[n].name \notin rewritten => file[registry'[n].name] = registry'[n].made
  BY <1>3, <1>4, <1>5, <1>6 DEF ReleaseInv, RowsDescribe
<1>10. RowsDescribe'
  BY <1>1, <1>3, <1>8, <1>9 DEF RowsDescribe
<1>11. ASSUME NEW p \in Processes
       PROVE  ProcessHolds(p)'
  <2>1. ProcessHolds(p)
    BY DEF ReleaseInv
  <2> QED
    BY <1>1, <1>3, <1>4, <2>1 DEF ProcessHolds
<1>12. SuggestionsTrace'
  BY <1>1, <1>3, <1>4 DEF ReleaseInv, SuggestionsTrace
<1> QED
  BY <1>1, <1>7, <1>10, <1>11, <1>12 DEF ReleaseInv, FileTyped

\* One process starts or takes up a report.
LEMMA ProcessMoves ==
  ASSUME ReleaseInv, NEW p \in Processes, NEW j, process' = [process EXCEPT ![p] = j],
         UNCHANGED <<export, file, registry, rewritten>>, ProcessHolds(p)', SuggestionsTrace'
  PROVE  ReleaseInv'
<1>1. ASSUME NEW q \in Processes
      PROVE  ProcessHolds(q)'
  <2>1. CASE q = p
    BY <2>1
  <2>2. CASE q # p
    <3>1. process'[q] = process[q] /\ ProcessHolds(q)
      BY <2>2 DEF ReleaseInv
    <3> QED
      BY <3>1 DEF ProcessHolds
  <2> QED
    BY <2>1, <2>2
<1> QED
  BY <1>1 DEF ReleaseInv, ExportTyped, FileTyped, RowsDescribe, Active

LEMMA StartKeeps ==
  ASSUME ReleaseInv, NEW p \in Processes, NEW name \in Names, Start(p, name)
  PROVE  ReleaseInv'
<1>1. PICK j : j = [path |-> name, bundle |-> load_bundle(name), model |-> None, settled |-> FALSE]
  OBVIOUS
<1>2. process' = [process EXCEPT ![p] = j]
  BY <1>1 DEF Start
<1>3. UNCHANGED <<export, file, registry, suggestions, rewritten>>
  BY DEF Start
<1>4. /\ load_bundle(name) \in 0 .. MaxExports
      /\ load_bundle(name) # None => load_bundle(name) = file[name]
  BY ReleaseAssumptions DEF load_bundle, ReleaseInv, FileTyped, None, Absent, Torn
<1>5. process'[p] = j
  BY <1>2 DEF ReleaseInv
<1>6. ProcessHolds(p)'
  BY <1>1, <1>3, <1>4, <1>5 DEF ProcessHolds, None
<1>7. SuggestionsTrace'
  BY <1>3 DEF ReleaseInv, SuggestionsTrace
<1> HIDE <1>1
<1> QED
  BY <1>2, <1>3, <1>6, <1>7, ProcessMoves

LEMMA TriageKeeps ==
  ASSUME ReleaseInv, NEW p \in Processes, BeginTriage(p)
  PROVE  ReleaseInv'
<1>1. PICK n \in Active : process' = [process EXCEPT ![p].model = n, ![p].settled = Settled(p)]
  BY DEF BeginTriage, active_classifier
<1>2. PICK b \in BOOLEAN : b = Settled(p)
  BY DEF Settled
<1>3. PICK i : i = [process[p] EXCEPT !.model = n]
  OBVIOUS
<1>4. PICK j : j = [i EXCEPT !.settled = b]
  OBVIOUS
<1>5. process' = [process EXCEPT ![p] = j]
  BY <1>1, <1>2, <1>3, <1>4 DEF ReleaseInv
<1>6. UNCHANGED <<export, file, registry, suggestions, rewritten>> /\ process[p].bundle # None
  BY DEF BeginTriage
<1>7. ProcessHolds(p) /\ process'[p] = j
  BY <1>5 DEF ReleaseInv
<1>8. n \in DOMAIN registry /\ n \in Nat
  BY DEF Active, ReleaseInv, RowsDescribe
<1>9. /\ i \in [path: Names \cup {NoName}, bundle: 0 .. MaxExports, model: Nat, settled: BOOLEAN]
      /\ i.path = process[p].path /\ i.bundle = process[p].bundle /\ i.model = n
  BY <1>3, <1>7, <1>8 DEF ProcessHolds
<1>10. /\ j \in [path: Names \cup {NoName}, bundle: 0 .. MaxExports, model: Nat, settled: BOOLEAN]
       /\ j.path = process[p].path /\ j.bundle = process[p].bundle /\ j.model = n /\ j.settled = b
  BY <1>4, <1>9
<1>11. b => process[p].bundle = registry[n].made
  <2> SUFFICES ASSUME b
               PROVE  process[p].bundle = registry[n].made
    OBVIOUS
  <2>1. process[p].path \notin rewritten /\ registry[n].name = process[p].path
    BY <1>2 DEF Settled
  <2>2. file[process[p].path] = process[p].bundle
    BY <1>6, <1>7, <2>1 DEF ProcessHolds
  <2>3. file[registry[n].name] = registry[n].made
    BY <1>8, <2>1 DEF ReleaseInv, RowsDescribe
  <2> QED
    BY <2>1, <2>2, <2>3
<1> HIDE <1>1, <1>2, <1>3, <1>4
<1>12. ProcessHolds(p)'
  BY <1>6, <1>7, <1>8, <1>10, <1>11 DEF ProcessHolds
<1>13. SuggestionsTrace'
  BY <1>6 DEF ReleaseInv, SuggestionsTrace
<1> QED
  BY <1>5, <1>6, <1>12, <1>13, ProcessMoves

LEMMA ClassifyKeeps ==
  ASSUME ReleaseInv, NEW p \in Processes, Classify(p)
  PROVE  ReleaseInv'
<1>1. PICK j : j = [process[p] EXCEPT !.model = None]
  OBVIOUS
<1>2. process' = [process EXCEPT ![p] = j] /\ process'[p] = j
  BY <1>1 DEF Classify, ReleaseInv
<1>3. UNCHANGED <<export, file, registry, rewritten>> /\ process[p].model # None
  BY DEF Classify
<1>4. ProcessHolds(p)
  BY DEF ReleaseInv
<1>5. /\ j \in [path: Names \cup {NoName}, bundle: 0 .. MaxExports, model: Nat, settled: BOOLEAN]
      /\ j.path = process[p].path /\ j.bundle = process[p].bundle /\ j.model = None
  BY <1>1, <1>4 DEF ProcessHolds, None
<1> HIDE <1>1
<1>6. ProcessHolds(p)'
  BY <1>2, <1>3, <1>4, <1>5 DEF ProcessHolds
<1>7. SuggestionsTrace'
  <2>1. suggestions' = suggestions \cup {[model |-> process[p].model, made |-> process[p].bundle,
                                          settled |-> process[p].settled]}
    BY DEF Classify
  <2>2. process[p].model \in DOMAIN registry
    BY <1>3, <1>4 DEF ProcessHolds
  <2>3. process[p].settled => process[p].bundle = registry[process[p].model].made
    BY <1>3, <1>4 DEF ProcessHolds
  <2> QED
    BY <1>3, <2>1, <2>2, <2>3 DEF ReleaseInv, SuggestionsTrace
<1> QED
  BY <1>2, <1>3, <1>6, <1>7, ProcessMoves

LEMMA ReleaseStep == ReleaseInv /\ [NextRelease]_<<pipeline, release>> => ReleaseInv'
<1> SUFFICES ASSUME ReleaseInv, [NextRelease]_<<pipeline, release>>
             PROVE  ReleaseInv'
  OBVIOUS
<1>0. ExportTyped
  BY DEF ReleaseInv
<1>1. ASSUME NEW pc \in {"fitted", "writing", "saved"}, Moves(pc), export.pc # "none",
             pc = "writing" => file'[export.name] = Torn,
             pc = "saved" => file'[export.name] = export.nth
      PROVE  ExportTyped'
  <2>1. /\ export' \in [pc: {"none", "preparing", "fitted", "writing", "saved"},
                        name: Names \cup {NoName}, nth: 0 .. MaxExports]
        /\ export'.pc = pc /\ export'.name = export.name /\ export'.nth = export.nth
    BY <1>0, <1>1 DEF Moves, ExportTyped
  <2> QED
    BY <1>0, <1>1, <2>1 DEF ExportTyped
<1>2. ASSUME Ends
      PROVE  ExportTyped'
  BY <1>0, <1>2 DEF Ends, NoExport, ExportTyped
<1>3. ASSUME NEW name \in Names, BeginExport(name)
      PROVE  ReleaseInv'
  <2>1. ExportTyped'
    BY <1>0, <1>3, ReleaseAssumptions DEF BeginExport, Evaluating, ExportTyped
  <2> QED
    BY <1>3, <2>1, ExportMoves DEF BeginExport
<1>4. CASE Fit
  <2>1. Moves("fitted") /\ export.pc # "none"
    BY <1>4 DEF Fit, Preparing
  <2> QED
    BY <1>1, <1>4, <2>1, ExportMoves DEF Fit
<1>5. CASE FitFails \/ Quit \/ RegisterConflicts
  BY <1>2, <1>5, ExportMoves DEF FitFails, Quit, RegisterConflicts, AfterConflict
<1>6. CASE BeginWrite
  <2>1. export.name \in Names /\ export.pc # "none"
    BY <1>0, <1>6 DEF BeginWrite, ExportTyped
  <2>2. /\ file' = [file EXCEPT ![export.name] = Torn] /\ Moves("writing")
        /\ UNCHANGED <<registry, process, suggestions>>
        /\ rewritten \subseteq rewritten'
        /\ file[export.name] \in 1 .. MaxExports => export.name \in rewritten'
    BY <1>6 DEF BeginWrite
  <2>3. file'[export.name] = Torn
    BY <2>1, <2>2 DEF ReleaseInv, FileTyped
  <2>4. ExportTyped'
    BY <1>1, <2>1, <2>2, <2>3
  <2> QED
    BY <2>1, <2>2, <2>4, FileChanges
<1>7. CASE save_bundle
  <2>1. /\ export.name \in Names /\ export.pc # "none" /\ export.nth \in 1 .. MaxExports
        /\ file[export.name] = Torn
    BY <1>0, <1>7 DEF save_bundle, ExportTyped
  <2>2. /\ file' = [file EXCEPT ![export.name] = export.nth] /\ Moves("saved")
        /\ UNCHANGED <<registry, process, suggestions, rewritten>>
    BY <1>7 DEF save_bundle
  <2>3. file'[export.name] = export.nth
    BY <2>1, <2>2 DEF ReleaseInv, FileTyped
  <2>4. ExportTyped'
    BY <1>1, <2>1, <2>2, <2>3
  <2>5. file[export.name] \notin 1 .. MaxExports
    BY <2>1 DEF Torn
  <2> QED
    BY <2>1, <2>2, <2>4, <2>5, FileChanges
<1>8. CASE UNCHANGED release
  <2>1. ExportTyped'
    BY <1>0, <1>8 DEF release, ExportTyped
  <2> QED
    BY <1>8, <2>1, ExportMoves DEF release
<1> QED
  BY <1>3, <1>4, <1>5, <1>6, <1>7, <1>8, RegisterKeeps, StartKeeps, TriageKeeps, ClassifyKeeps
     DEF NextRelease

LEMMA AlwaysReleaseInv == SpecRelease => []ReleaseInv
BY ReleaseInitially, ReleaseStep, PTL DEF SpecRelease

\* Once a model was registered exactly one is active, whatever exports fail, collide on
\* their name or are killed (the UPDATE and the INSERT of _register, one transaction).
THEOREM ExactlyOneActive == SpecRelease => []OneActive
<1>1. ReleaseInv => OneActive
  BY FS_Singleton DEF ReleaseInv, RowsDescribe, OneActive
<1> QED
  BY <1>1, AlwaysReleaseInv, PTL

\* A process started from the file of the active model, which nobody has written over,
\* ascribes its suggestions to the export that made them (TriageService._classify_and_embed).
THEOREM SuggestionsAreTraced == SpecRelease => []SuggestsAsRegistered
<1>1. ReleaseInv => SuggestsAsRegistered
  BY DEF ReleaseInv, SuggestionsTrace, SuggestsAsRegistered
<1> QED
  BY <1>1, AlwaysReleaseInv, PTL
=============================================================================
