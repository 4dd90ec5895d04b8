---------------------------- MODULE TrainingSplit ----------------------------
(***************************************************************************)
(* The offline evaluation pipeline, up to the results it writes: load,     *)
(* group the duplicates, split, check for leakage, train, score.  An       *)
(* example is its place in the corpus, and a text is what                  *)
(* normalise_for_dedup makes of a narrative: two examples with one text    *)
(* differ in formatting only.  The dataset gives one text one label, as    *)
(* the generator does.  An export (ModelRelease) leaves the pipeline at    *)
(* the split, and its phase is "exported".                                 *)
(***************************************************************************)
EXTENDS Integers, Sequences, FiniteSets

CONSTANTS
  Texts, Labels, LabelOf,
  Thresholds,        \* values of near_duplicate_threshold
  Default,           \* 0.95, for a caller that names none
  Whole,             \* those of 1.0 and more
  Near,              \* by threshold, the pairs of texts whose shingles are that alike
  Corpora,           \* the datasets a run may load
  TestSize, ValSize, \* test_size and val_size, in hundredths
  MinTest            \* min_test

ASSUME SplitAssumptions ==
  /\ LabelOf \in [Texts -> Labels]
  /\ Default \in Thresholds \ Whole
  /\ Near \in [Thresholds -> SUBSET (Texts \X Texts)]
  /\ \A h \in Thresholds, t, u \in Texts : <<t, u>> \in Near[h] => <<u, t>> \in Near[h]
  /\ Corpora \subseteq Seq(Texts)
  /\ TestSize \in 1 .. 99 /\ ValSize \in 0 .. 99 /\ TestSize + ValSize < 100
  /\ MinTest \in Nat

VARIABLES
  phase,
  corpus,
  deduplicate,  \* the configuration's switch
  threshold,    \* what its caller has the pipeline take for near
  find,         \* the representative of the cluster a text has been merged into
  todo,         \* the pairs of texts still to be compared
  left,         \* the labels still to be shared out
  bucket,       \* the split an example is in
  fitted        \* the texts the model has been fitted on

vars == <<phase, corpus, deduplicate, threshold, find, todo, left, bucket, fitted>>

Examples == DOMAIN corpus
Label(i) == LabelOf[corpus[i]]

Init ==
  /\ phase = "start" /\ corpus = <<>> /\ deduplicate = TRUE /\ threshold = Default
  /\ find = [t \in Texts |-> t]
  /\ todo = {} /\ left = {} /\ bucket = <<>> /\ fitted = {}

-----------------------------------------------------------------------------
(* group_duplicates: by text first, then by likeness within a label        *)

TextsOf(examples) == {examples[i] : i \in DOMAIN examples}

\* Two different texts of one label that are alike: each pair once, in either order.
AlikeIn(texts, at) ==
  {pair \in SUBSET texts :
     \E t, u \in texts :
       t # u /\ pair = {t, u} /\ LabelOf[t] = LabelOf[u] /\ <<t, u>> \in Near[at]}

\* From 1.0 on group_duplicates returns what the texts alone have grouped.
Compares(at) == at \notin Whole

load_dataset ==
  /\ phase = "start"
  /\ corpus' \in Corpora
  /\ deduplicate' \in BOOLEAN
  /\ threshold' \in Thresholds
  /\ todo' = IF deduplicate' /\ Compares(threshold') THEN AlikeIn(TextsOf(corpus'), threshold')
             ELSE {}
  /\ left' = {LabelOf[t] : t \in TextsOf(corpus')}
  /\ bucket' = [i \in DOMAIN corpus' |-> "none"]
  /\ phase' = "merge"
  /\ UNCHANGED <<find, fitted>>

\* The SafeCity and the manual loader always fail, an unknown source too.
RefuseSource ==
  /\ phase = "start"
  /\ phase' = "refused"
  /\ UNCHANGED <<corpus, deduplicate, threshold, find, todo, left, bucket, fitted>>

\* Mutant: the parent of the text itself is changed, not that of its representative.
LinkOne(t, u) == [find EXCEPT ![t] = find[u]]

\* parent[find(t)] = find(u).
Link(t, u) == [k \in Texts |-> IF find[k] = find[t] THEN find[u] ELSE find[k]]

Merge(pair) ==
  /\ phase = "merge" /\ pair \in todo
  /\ \E t, u \in pair : pair = {t, u} /\ find' = Link(t, u)
  /\ todo' = todo \ {pair}
  /\ UNCHANGED <<phase, corpus, deduplicate, threshold, left, bucket, fitted>>

Grouped ==
  /\ phase = "merge" /\ todo = {}
  /\ phase' = "split"
  /\ UNCHANGED <<corpus, deduplicate, threshold, find, todo, left, bucket, fitted>>

\* Mutant: what the comparison has merged is not what is assigned.
GroupByText(i) == IF deduplicate THEN corpus[i] ELSE i

\* The unit that is assigned: a cluster of texts, or a single example.
Group(i) == IF deduplicate THEN find[corpus[i]] ELSE i

-----------------------------------------------------------------------------
(* stratified_group_split                                                  *)

\* round(n * size): Python rounds a half to the even neighbour.
Round(hundredths) ==
  LET whole == hundredths \div 100
      rest == hundredths % 100
  IN IF rest > 50 \/ (rest = 50 /\ whole % 2 = 1) THEN whole + 1 ELSE whole

AtLeastOne(n) == IF n < 1 THEN 1 ELSE n

\* Mutant: a label with a single group gives it to the test set.
TestOfAny(n) == AtLeastOne(Round(n * TestSize))

TestShare(n) ==
  IF n > 2 THEN AtLeastOne(Round(n * TestSize)) ELSE IF n > 1 THEN 1 ELSE 0

ValShare(n) ==
  IF n - TestShare(n) > 2 THEN AtLeastOne(Round(n * ValSize)) ELSE 0

\* The first so many of a shuffled list of groups.
Picks(groups, share) ==
  {some \in SUBSET groups :
     IF share <= Cardinality(groups) THEN Cardinality(some) = share ELSE some = groups}

GroupsOf(label) == {Group(i) : i \in {j \in Examples : Label(j) = label}}

Allocate(label) ==
  LET n == Cardinality(GroupsOf(label))
  IN /\ phase = "split" /\ label \in left
     /\ \E test \in Picks(GroupsOf(label), TestShare(n)) :
        \E val \in Picks(GroupsOf(label) \ test, ValShare(n)) :
          bucket' = [i \in Examples |->
                       IF Label(i) # label THEN bucket[i]
                       ELSE IF Group(i) \in test THEN "test"
                       ELSE IF Group(i) \in val THEN "val" ELSE "train"]
     /\ left' = left \ {label}
     /\ UNCHANGED <<phase, corpus, deduplicate, threshold, find, todo, fitted>>

-----------------------------------------------------------------------------
(* assert_no_leakage                                                       *)

In(split) == {i \in Examples : bucket[i] = split}
TextsIn(split) == {corpus[i] : i \in In(split)}
LabelsIn(split) == {Label(i) : i \in In(split)}

check_split_sizes == In("train") # {} /\ Cardinality(In("test")) >= MinTest

check_exact_overlap ==
  \A s, t \in {"train", "val", "test"} : s # t => TextsIn(s) \cap TextsIn(t) = {}

check_near_duplicate_overlap ==
  \A i \in In("test"), j \in In("train") :
    Label(i) = Label(j) => <<corpus[i], corpus[j]>> \notin Near[threshold]

check_label_coverage == LabelsIn("test") \subseteq LabelsIn("train")

Passed ==
  /\ check_split_sizes
  /\ check_exact_overlap
  /\ check_near_duplicate_overlap
  /\ check_label_coverage

Check ==
  /\ phase = "split" /\ left = {}
  /\ phase' = IF Passed THEN "checked" ELSE "refused"
  /\ UNCHANGED <<corpus, deduplicate, threshold, find, todo, left, bucket, fitted>>

-----------------------------------------------------------------------------
(* run, from there: nothing is fitted or written before the checks passed  *)

Train ==
  /\ phase = "checked"
  /\ fitted' = TextsIn("train")
  /\ phase' = "trained"
  /\ UNCHANGED <<corpus, deduplicate, threshold, find, todo, left, bucket>>

Score ==
  /\ phase = "trained"
  /\ phase' = "written"
  /\ UNCHANGED <<corpus, deduplicate, threshold, find, todo, left, bucket, fitted>>

Next ==
  \/ load_dataset \/ RefuseSource \/ Grouped \/ Check \/ Train \/ Score
  \/ \E pair \in todo : Merge(pair)
  \/ \E label \in left : Allocate(label)

Spec == Init /\ [][Next]_vars
-----------------------------------------------------------------------------
\* Of these texts a model that has seen one has all but seen the other.
Duplicates(i, j) ==
  corpus[i] = corpus[j]
    \/ /\ Compares(threshold)
       /\ Label(i) = Label(j) /\ <<corpus[i], corpus[j]>> \in Near[threshold]

\* What grouping is for: no two duplicates, however long the chain of near ones that
\* joins them, are ever on two sides of the split (group_duplicates, and
\* stratified_group_split that assigns groups as units).
NothingStraddles ==
  deduplicate => \A i, j \in Examples : Duplicates(i, j) => bucket[i] = bucket[j]

\* No text was fitted that is scored, or is of a label with one and as good as it.
Unseen ==
  \A t \in fitted, u \in TextsIn("test") :
    t # u /\ (LabelOf[t] = LabelOf[u] => <<u, t>> \notin Near[threshold])

\* Nothing is scored that was fitted: whatever an evaluation was configured to do, for
\* the checks stand before its training; and where an export deduplicates, which has the
\* grouping alone between what it fits and what it scores (assert_no_leakage; main of
\* export_baseline_model.py, which calls no check).
ScoredUnseen == deduplicate \/ phase # "exported" => Unseen

\* The splitter passes the checks it is followed by: a deduplicated run is refused for
\* want of test examples or of a training set, never because the split leaks or a
\* label is scored that was never trained.
RefusedForSizeOnly ==
  phase = "refused" /\ deduplicate /\ Compares(threshold) => ~check_split_sizes
=============================================================================
