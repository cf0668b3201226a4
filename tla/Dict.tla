-------------------------------- MODULE Dict --------------------------------
(***************************************************************************)
(* The algorithms of the fixed-key-size dictionary of tvm/cell (Hashmap):  *)
(* a Patricia tree whose nodes carry a label (the key bits shared by every *)
(* key below) written in one of three encodings.                           *)
(*                                                                         *)
(* A node is a record: the encoding of its label, the label (a sequence of *)
(* bits), and either a value (a leaf) or two kids (a fork).  The key bits  *)
(* a subtree still resolves are the length of the key suffix handed to it. *)
(* Cells are compared by content: the pointer comparisons with which the   *)
(* code reuses an unchanged cell only ever return a cell of equal content. *)
(* Special cells, lazy loading, traces and gas are left out.               *)
(***************************************************************************)
EXTENDS Integers, Sequences, FiniteSets, FiniteSetsExt

NoVal == 0
Nil == [form |-> "nil", label |-> <<>>, val |-> NoVal, kids |-> <<>>]

\* A batch, a merge or a filter that returned an error instead of a tree.
Fail == [Nil EXCEPT !.form = "fail"]

Drop(s, n) == SubSeq(s, n + 1, Len(s))
Take(s, n) == SubSeq(s, 1, n)

\* commonSlicePrefix: how many leading bits two bit strings share.
CommonLen(a, b) ==
  LET limit == IF Len(a) < Len(b) THEN Len(a) ELSE Len(b)
  IN CHOOSE i \in 0 .. limit :
       (i = limit \/ a[i + 1] # b[i + 1]) /\ \A j \in 1 .. i : a[j] = b[j]

\* bits.Len: how many bits the length field of a label of at most n bits takes.
LabelSizeBits(n) == CHOOSE i \in 0 .. n : n < 2^i /\ (i = 0 \/ 2^(i - 1) <= n)

SameBits(label) == \A i \in 1 .. Len(label) : label[i] = label[1]

(***************************************************************************)
(* Labels and nodes.                                                       *)
(***************************************************************************)

\* storeDictLabel: the encoding the writer chooses for a label of a node that
\* resolves n key bits: the shortest, ties going to hml_short.
LabelForm(label, n) ==
  LET ln == Len(label)
      longLen == 2 + LabelSizeBits(n) + ln
      shortLen == 2 + 2 * ln
      sameLen == 3 + LabelSizeBits(n)
  IN IF ln = 0 THEN "short"
     ELSE IF sameLen < longLen /\ sameLen < shortLen /\ SameBits(label) THEN "same"
     ELSE IF shortLen <= longLen THEN "short" ELSE "long"

\* storeDictNodeTraced: a node with this label and the payload of another.
Store(label, payload, n) ==
  [payload EXCEPT !.form = LabelForm(label, n), !.label = label]

Leaf(label, v, n) == Store(label, [Nil EXCEPT !.val = v], n)

Fork(label, left, right, n) == Store(label, [Nil EXCEPT !.kids = <<left, right>>], n)

\* A fork with x on the side of the given bit and y on the other.
ForkAt(label, bit, x, y, n) ==
  IF bit = 0 THEN Fork(label, x, y, n) ELSE Fork(label, y, x, n)

IsFork(t) == t.kids # <<>>
Kid(t, bit) == t.kids[bit + 1]

\* Mutated form of HasCanonicalLabel for the checks: a tie between the short and the
\* long encoding goes to the long one.
HasCanonicalLabelTie(t, n) ==
  LET ln == Len(t.label)
      sameOptimal == ln > 1 /\ LabelSizeBits(n) < 2 * ln - 1
  IN IF t.form = "same" THEN sameOptimal
     ELSE /\ (t.form = "long") = (LabelSizeBits(n) <= ln)
          /\ sameOptimal => ~SameBits(t.label)

\* hasCanonicalLabel with its fast path: whether the node uses the encoding
\* storeDictLabel would choose, decided without measuring the encodings.
HasCanonicalLabel(t, n) ==
  LET ln == Len(t.label)
      sameOptimal == ln > 1 /\ LabelSizeBits(n) < 2 * ln - 1
  IN IF t.form = "same" THEN sameOptimal
     ELSE /\ (t.form = "long") = (LabelSizeBits(n) < ln)
          /\ sameOptimal => ~SameBits(t.label)

\* cloneWithRef: the node with one kid replaced, its label as it was.
CloneWithRef(t, bit, kid) == [t EXCEPT !.kids[bit + 1] = kid]

\* A changed ancestor: cloned when its label is canonical, rebuilt otherwise
\* (rebuildNonCanonicalFixedForkWithRef).
Rebuilt(t, bit, kid, n) ==
  IF HasCanonicalLabel(t, n) THEN CloneWithRef(t, bit, kid)
  ELSE ForkAt(t.label, bit, kid, Kid(t, 1 - bit), n)

\* mergedEdgeLabel: the only kid left takes its parent's place.
PullUp(label, bit, survivor, n) == Store(label \o <<bit>> \o survivor.label, survivor, n)

Changed(t) == [root |-> t, changed |-> TRUE]
Same(t) == [root |-> t, changed |-> FALSE]

(***************************************************************************)
(* Single-key updates.                                                     *)
(***************************************************************************)
RECURSIVE SetNode(_, _, _, _)

\* Dictionary.set: mode "replace" touches only keys that are there, "add" only
\* keys that are not.
SetNode(t, key, v, mode) ==
  LET n == Len(key)
      m == CommonLen(t.label, key)
      bit == key[m + 1]
      sub == SetNode(Kid(t, bit), Drop(key, m + 1), v, mode)
      old == Store(Drop(t.label, m + 1), t, n - m - 1)
      new == Leaf(Drop(key, m + 1), v, n - m - 1)
  IN IF t = Nil
     THEN IF mode = "replace" THEN Same(Nil) ELSE Changed(Leaf(key, v, n))
     ELSE IF m = n
     THEN IF mode = "add" THEN Same(t) ELSE Changed(Leaf(t.label, v, n))
     ELSE IF m = Len(t.label)
     THEN IF sub.changed THEN Changed(Rebuilt(t, bit, sub.root, n)) ELSE Same(t)
     ELSE IF mode = "replace" THEN Same(t)
     ELSE Changed(ForkAt(Take(key, m), bit, new, old, n))

RECURSIVE DeleteNode(_, _)

\* Dictionary.lookupDelete: a fork that loses a kid is replaced by the other one.
DeleteNode(t, key) ==
  LET n == Len(key)
      m == CommonLen(t.label, key)
      bit == key[m + 1]
      sub == DeleteNode(Kid(t, bit), Drop(key, m + 1))
  IN IF t = Nil \/ m < Len(t.label) THEN Same(t)
     ELSE IF m = n THEN Changed(Nil)
     ELSE IF ~sub.changed THEN Same(t)
     ELSE IF sub.root = Nil THEN Changed(PullUp(t.label, 1 - bit, Kid(t, 1 - bit), n))
     ELSE Changed(Rebuilt(t, bit, sub.root, n))

(***************************************************************************)
(* Lookups and walks.                                                      *)
(***************************************************************************)
RECURSIVE Find(_, _)

\* findKeySliceInto: the value of a key, NoVal when it is not there.
Find(t, key) ==
  LET m == CommonLen(t.label, key)
  IN IF t = Nil \/ m < Len(t.label) THEN NoVal
     ELSE IF m = Len(key) THEN t.val
     ELSE Find(Kid(t, key[m + 1]), Drop(key, m + 1))

None == <<>>

\* Mutated form of OrderBit for the checks: the sign is taken at every depth.
OrderBitAlways(bit, pos, inv) == IF inv THEN 1 - bit ELSE bit

\* fixedDictOrderBit: with invertFirst the first bit of a key is a sign.
OrderBit(bit, pos, inv) == IF inv /\ pos = 0 THEN 1 - bit ELSE bit

RECURSIVE Boundary(_, _, _, _)

\* fixedDictBoundary (and LoadMinMax): the smallest or largest entry of a subtree
\* reached with the given prefix.
Boundary(t, prefix, max, inv) ==
  LET at == prefix \o t.label
      bit == OrderBit(IF max THEN 1 ELSE 0, Len(at), inv)
  IN IF IsFork(t) THEN Boundary(Kid(t, bit), Append(at, bit), max, inv)
     ELSE <<at, t.val>>

LoadMinMax(t, max, inv) == IF t = Nil THEN None ELSE Boundary(t, <<>>, max, inv)

RECURSIVE Nearest(_, _, _, _, _, _)

\* fixedDictLookupNearestNode: the entry next to target in key order.
Nearest(t, prefix, target, next, eq, inv) ==
  LET at == prefix \o t.label
      pos == Len(prefix) + CommonLen(t.label, Drop(target, Len(prefix)))
      Order(bit) == OrderBit(bit, pos, inv)
      Beyond(x, y) == IF next THEN Order(x) > Order(y) ELSE Order(x) < Order(y)
      bit == target[pos + 1]
      down == Nearest(Kid(t, bit), Append(at, bit), target, next, eq, inv)
  IN IF pos < Len(at)
     THEN IF Beyond(at[pos + 1], bit) THEN Boundary(t, prefix, ~next, inv) ELSE None
     ELSE IF ~IsFork(t) THEN IF eq THEN <<at, t.val>> ELSE None
     ELSE IF down # None THEN down
     ELSE IF Beyond(1 - bit, bit) THEN Boundary(Kid(t, 1 - bit), Append(at, 1 - bit), ~next, inv)
     ELSE None

LookupNearest(t, target, next, eq, inv) ==
  IF t = Nil THEN None ELSE Nearest(t, <<>>, target, next, eq, inv)

\* The kid a walk visits first; the sign bit counts only in an unlabelled root.
FirstKid(t, prefix, rev, inv) ==
  IF prefix = <<>> /\ inv /\ t.label = <<>> THEN IF rev THEN 0 ELSE 1
  ELSE IF rev THEN 1 ELSE 0

RECURSIVE Entries(_, _, _, _)

\* appendFixedDictEntries: every entry of a subtree, in walking order.
Entries(t, prefix, rev, inv) ==
  LET at == prefix \o t.label
      first == FirstKid(t, prefix, rev, inv)
      Below(bit) == Entries(Kid(t, bit), Append(at, bit), rev, inv)
  IN IF t = Nil THEN <<>>
     ELSE IF ~IsFork(t) THEN <<<<at, t.val>>>>
     ELSE Below(first) \o Below(1 - first)

RECURSIVE EntriesFrom(_, _, _, _, _, _)

\* newDictIteratorAt, seekFromTop and the Next calls that follow: the entries at
\* and after target.  A fork passed on the way down leaves its second kid pending
\* when the target lies in the first.
EntriesFrom(t, prefix, target, rev, inv, eq) ==
  LET at == prefix \o t.label
      pos == Len(prefix) + CommonLen(t.label, Drop(target, Len(prefix)))
      bit == target[pos + 1]
      labelOrder == OrderBit(at[pos + 1], pos, inv)
      targetOrder == OrderBit(bit, pos, inv)
      after == IF rev THEN labelOrder < targetOrder ELSE labelOrder > targetOrder
      pending == IF bit = FirstKid(t, prefix, rev, inv)
                 THEN Entries(Kid(t, 1 - bit), Append(at, 1 - bit), rev, inv) ELSE <<>>
  IN IF t = Nil THEN <<>>
     ELSE IF pos < Len(at) THEN IF after THEN Entries(t, prefix, rev, inv) ELSE <<>>
     ELSE IF ~IsFork(t) THEN IF eq THEN <<<<at, t.val>>>> ELSE <<>>
     ELSE EntriesFrom(Kid(t, bit), Append(at, bit), target, rev, inv, eq) \o pending

(***************************************************************************)
(* Bulk construction and batches.  A batch is a function from key suffixes *)
(* to values; NoVal deletes the key.                                       *)
(***************************************************************************)
RECURSIVE Number(_)
Number(key) == IF key = <<>> THEN 0 ELSE 2 * Number(Take(key, Len(key) - 1)) + key[Len(key)]

\* The two ends of a sorted batch.
FirstKey(items) == CHOOSE k \in DOMAIN items : \A j \in DOMAIN items : Number(k) <= Number(j)
LastKey(items) == CHOOSE k \in DOMAIN items : \A j \in DOMAIN items : Number(k) >= Number(j)

\* splitBatchAt: the part of a batch whose keys share m bits that goes to one side.
Side(items, m, bit) ==
  LET at == {k \in DOMAIN items : k[m + 1] = bit}
  IN [s \in {Drop(k, m + 1) : k \in at} |->
        items[CHOOSE k \in at : Drop(k, m + 1) = s]]

RECURSIVE BuildFromSorted(_)

\* buildFromSorted: the tree of a non-empty batch, bottom up; the label of a
\* node is what the first and the last key have in common.
BuildFromSorted(items) ==
  LET first == FirstKey(items)
      n == Len(first)
      m == CommonLen(first, LastKey(items))
  IN IF Cardinality(DOMAIN items) = 1 THEN Leaf(first, items[first], n)
     ELSE Fork(Take(first, m), BuildFromSorted(Side(items, m, 0)),
               BuildFromSorted(Side(items, m, 1)), n)

\* NewDictFromItems.
NewDictFromItems(items) == IF DOMAIN items = {} THEN Nil ELSE BuildFromSorted(items)

\* multisetBuild: deletions that reach no node name a key that is not there.
MultisetBuild(items) ==
  IF \E k \in DOMAIN items : items[k] = NoVal THEN Fail ELSE NewDictFromItems(items)

\* joinMultisetChildren.
JoinMultisetChildren(label, left, right, n) ==
  IF left = Fail \/ right = Fail THEN Fail
  ELSE IF left = Nil /\ right = Nil THEN Nil
  ELSE IF left = Nil THEN PullUp(label, 1, right, n)
  ELSE IF right = Nil THEN PullUp(label, 0, left, n)
  ELSE Fork(label, left, right, n)

RECURSIVE MultisetNode(_, _, _)

\* multisetNode: a batch descends together with the tree.  skip counts the bits
\* of the node's label consumed by forks the batch put above it.
MultisetNode(t, items, skip) ==
  LET first == FirstKey(items)
      n == Len(first)
      label == Drop(t.label, skip)
      batchLen == CommonLen(first, LastKey(items))
      m == CommonLen(label, Take(first, batchLen))
      bit == first[m + 1]
      own == label[m + 1]
      down == MultisetNode(Kid(t, bit), Side(items, m, bit), 0)
      Join(b, x, y) == IF b = 0 THEN JoinMultisetChildren(Take(label, m), x, y, n)
                       ELSE JoinMultisetChildren(Take(label, m), y, x, n)
  IN CASE t = Nil -> MultisetBuild(items)
       [] t # Nil /\ DOMAIN items = {} -> t
       [] t # Nil /\ DOMAIN items # {} /\ m < Len(label) /\ m < batchLen ->
            \* the batch and the node part inside both labels
            Join(bit, MultisetBuild(Side(items, m, bit)),
                 Store(Drop(label, m + 1), t, n - m - 1))
       [] t # Nil /\ DOMAIN items # {} /\ m = Len(label) /\ m < batchLen ->
            \* the whole batch belongs under one kid
            Join(bit, down, Kid(t, 1 - bit))
       [] t # Nil /\ DOMAIN items # {} /\ m < Len(label) /\ m = batchLen ->
            \* the node is pushed down under a new fork
            Join(own, MultisetNode(t, Side(items, m, own), skip + m + 1),
                 MultisetBuild(Side(items, m, 1 - own)))
       [] t # Nil /\ DOMAIN items # {} /\ m = Len(label) /\ m = batchLen ->
            IF m < n
            THEN Join(0, MultisetNode(Kid(t, 0), Side(items, m, 0), 0),
                      MultisetNode(Kid(t, 1), Side(items, m, 1), 0))
            ELSE IF items[first] = NoVal THEN Nil ELSE Leaf(label, items[first], n)

(***************************************************************************)
(* Merging two dictionaries.                                               *)
(***************************************************************************)

\* The callback of CombineWith: what it stores for a key of both dictionaries,
\* or its error.
Combined(a, b, how) == IF how = "larger" THEN Max({a, b}) ELSE NoVal

RECURSIVE CombineViews(_, _, _, _)

\* combineDictRootViews: a node part of whose label is already consumed is the
\* node with the rest of it, every node the merge touches being written anew.
CombineViews(left, right, n, how) ==
  LET m == CommonLen(left.label, right.label)
      Rest(t) == [t EXCEPT !.label = Drop(t.label, m + 1)]
      Suffix(t) == Store(Drop(t.label, m + 1), t, n - m - 1)
      Both(x, y) == CombineViews(x, y, n - m - 1, how)
      Joined(bit, x, y) == IF x = Fail \/ y = Fail THEN Fail
                           ELSE ForkAt(Take(left.label, m), bit, x, y, n)
      value == Combined(left.val, right.val, how)
      lbit == left.label[m + 1]
      rbit == right.label[m + 1]
  IN CASE m < Len(left.label) /\ m < Len(right.label) ->
            Joined(lbit, Suffix(left), Suffix(right))
       [] m = Len(left.label) /\ m = Len(right.label) ->
            IF IsFork(left) THEN Joined(0, Both(Kid(left, 0), Kid(right, 0)),
                                        Both(Kid(left, 1), Kid(right, 1)))
            ELSE IF value = NoVal THEN Fail ELSE Leaf(left.label, value, n)
       [] m = Len(left.label) /\ m < Len(right.label) ->
            Joined(rbit, Both(Kid(left, rbit), Rest(right)), Kid(left, 1 - rbit))
       [] m < Len(left.label) /\ m = Len(right.label) ->
            Joined(lbit, Both(Rest(left), Kid(right, lbit)), Kid(right, 1 - lbit))

\* CombineWith.
CombineWith(t, other, n, how) ==
  IF other = Nil THEN t ELSE IF t = Nil THEN other ELSE CombineViews(t, other, n, how)

(***************************************************************************)
(* Filters and prefixes.                                                   *)
(***************************************************************************)
RECURSIVE FilterNode(_, _, _, _, _)

\* filterFixedDictNode: act[key] says what the callback answers for an entry; an
\* answer about the rest (keepRest, removeRest) ends the questions, and so does an
\* error of the callback or an answer that is none of the four ("fail").  A fork
\* one of whose kids changed keeps the label encoding it had.
FilterNode(t, prefix, act, rest, n) ==
  LET at == prefix \o t.label
      sub == n - Len(t.label) - 1
      l == FilterNode(Kid(t, 0), Append(at, 0), act, rest, sub)
      r == FilterNode(Kid(t, 1), Append(at, 1), act, l.rest, sub)
      Result(root, changed, after) == [root |-> root, changed |-> changed, rest |-> after]
      gone == act[at] \in {"remove", "removeRest"}
  IN IF rest = "keepRest" THEN Result(t, FALSE, rest)
     ELSE IF rest = "removeRest" THEN Result(Nil, TRUE, rest)
     ELSE IF ~IsFork(t) /\ act[at] = "fail" THEN Result(Fail, FALSE, rest)
     ELSE IF ~IsFork(t)
     THEN Result(IF gone THEN Nil ELSE t, gone,
                 IF act[at] \in {"keepRest", "removeRest"} THEN act[at] ELSE rest)
     ELSE IF l.root = Fail THEN l
     ELSE IF r.root = Fail THEN r
     ELSE Result(
       IF ~l.changed /\ ~r.changed THEN t
       ELSE IF l.root = Nil /\ r.root = Nil THEN Nil
       ELSE IF l.root = Nil THEN PullUp(t.label, 1, r.root, n)
       ELSE IF r.root = Nil THEN PullUp(t.label, 0, l.root, n)
       ELSE IF l.changed /\ r.changed THEN Fork(t.label, l.root, r.root, n)
       ELSE IF l.changed THEN CloneWithRef(t, 0, l.root)
       ELSE CloneWithRef(t, 1, r.root),
       l.changed \/ r.changed, r.rest)

Filter(t, act, n) == IF t = Nil THEN Nil ELSE FilterNode(t, <<>>, act, "none", n).root

RECURSIVE ExtractAt(_, _, _, _, _)

\* extractPrefixSubdictRootSlice: the subtree of the keys with a prefix; above
\* holds the bits consumed on the way down, n the size of a whole key.
ExtractAt(t, above, prefix, remove, n) ==
  LET at == above \o t.label
      m == CommonLen(at, prefix)
  IN IF m < Min({Len(at), Len(prefix)}) THEN Nil
     ELSE IF Len(at) < Len(prefix)
     THEN ExtractAt(Kid(t, prefix[m + 1]), Append(at, prefix[m + 1]), prefix, remove, n)
     ELSE IF remove THEN Store(Drop(at, Len(prefix)), t, n - Len(prefix))
     ELSE IF above = <<>> THEN t ELSE Store(at, t, n)

ExtractPrefix(t, prefix, remove, n) ==
  IF t = Nil \/ prefix = <<>> THEN t
  ELSE IF Len(prefix) > n THEN Nil
  ELSE ExtractAt(t, <<>>, prefix, remove, n)

(***************************************************************************)
(* ScanDiff.  The walk w keeps one key buffer for all levels (bits below   *)
(* the current depth are whatever was last written there), the changes     *)
(* reported so far and whether it is still going.                          *)
(***************************************************************************)

\* Mutated form of SetKeyBit for the checks: a set bit is never cleared.
SetKeyBitOr(w, pos, bit) == [w EXCEPT !.key[pos + 1] = IF bit = 1 THEN 1 ELSE @]

SetKeyBit(w, pos, bit) == [w EXCEPT !.key[pos + 1] = bit]

StoreLabel(w, label, start) ==
  [w EXCEPT !.key = [i \in 1 .. Len(w.key) |->
     IF i - start \in 1 .. Len(label) THEN label[i - start] ELSE w.key[i]]]

Emit(w, old, new) == [w EXCEPT !.out = Append(@, <<w.key, old, new>>)]

Stopped(w) == [w EXCEPT !.ok = FALSE]

RECURSIVE OneSide(_, _, _, _)

\* oneSide: every leaf of a subtree that only one dictionary has.
OneSide(t, n, isOld, w) ==
  LET depth == Len(w.key) - n
      at == StoreLabel(w, t.label, depth)
      ln == Len(t.label)
      left == OneSide(Kid(t, 0), n - ln - 1, isOld, SetKeyBit(at, depth + ln, 0))
  IN IF ~w.ok THEN w
     ELSE IF w.strict /\ ~isOld /\ ~HasCanonicalLabel(t, n) THEN Stopped(w)
     ELSE IF ~IsFork(t) THEN IF isOld THEN Emit(at, t.val, NoVal) ELSE Emit(at, NoVal, t.val)
     ELSE OneSide(Kid(t, 1), n - ln - 1, isOld, SetKeyBit(left, depth + ln, 1))

RECURSIVE DiffNode(_, _, _, _, _, _)

\* dictDiffWalk.node: skipOld and skipNew are the bits of each label consumed above.
DiffNode(old, new, n, skipOld, skipNew, w) ==
  LET depth == Len(w.key) - n
      oldLabel == Drop(old.label, skipOld)
      newLabel == Drop(new.label, skipNew)
      m == CommonLen(oldLabel, newLabel)
      Skipped(label, skip) == \A i \in 1 .. skip : w.key[depth - skip + i] = label[i]
      atOld == StoreLabel(w, old.label, depth - skipOld)
      atBoth == StoreLabel(atOld, new.label, depth - skipNew)
      OldOnly(x) == OneSide(old, n + skipOld, TRUE, x)
      NewOnly(x) == OneSide(new, n + skipNew, FALSE, x)
      sub == n - m - 1
      Down(x, y, so, sn, from, bit) ==
        DiffNode(x, y, sub, so, sn, SetKeyBit(from, depth + m, bit))
  IN IF ~w.ok \/ (skipOld = skipNew /\ old = new) THEN w
     ELSE IF old = Nil THEN NewOnly(w)
     ELSE IF new = Nil THEN OldOnly(w)
     ELSE IF \/ w.strict /\ ~HasCanonicalLabel(new, n + skipNew)
             \/ ~Skipped(old.label, skipOld) \/ ~Skipped(new.label, skipNew)
     THEN Stopped(w)
     ELSE CASE m < Len(oldLabel) /\ m < Len(newLabel) ->
                 IF oldLabel[m + 1] = 0 THEN NewOnly(OldOnly(atBoth)) ELSE OldOnly(NewOnly(atBoth))
            [] m = Len(oldLabel) /\ m = Len(newLabel) ->
                 IF m = n THEN IF old.val = new.val THEN atOld ELSE Emit(atOld, old.val, new.val)
                 ELSE Down(Kid(old, 1), Kid(new, 1), 0, 0,
                           Down(Kid(old, 0), Kid(new, 0), 0, 0, atOld, 0), 1)
            [] m = Len(oldLabel) /\ m < Len(newLabel) ->
                 LET s == skipNew + m + 1
                 IN IF newLabel[m + 1] = 0
                    THEN Down(Kid(old, 1), Nil, 0, 0, Down(Kid(old, 0), new, 0, s, atBoth, 0), 1)
                    ELSE Down(Kid(old, 1), new, 0, s, Down(Kid(old, 0), Nil, 0, 0, atBoth, 0), 1)
            [] m < Len(oldLabel) /\ m = Len(newLabel) ->
                 LET s == skipOld + m + 1
                 IN IF oldLabel[m + 1] = 0
                    THEN Down(Nil, Kid(new, 1), 0, 0, Down(old, Kid(new, 0), s, 0, atOld, 0), 1)
                    ELSE Down(old, Kid(new, 1), s, 0, Down(Nil, Kid(new, 0), 0, 0, atOld, 0), 1)

\* ScanDiff: the changes between two dictionaries, in the order of the callbacks;
\* strict is DictDiffCheckNewCanonicalLabels.
ScanDiff(old, new, n, strict) ==
  DiffNode(old, new, n, 0, 0,
           [key |-> [i \in 1 .. n |-> 0], out |-> <<>>, ok |-> TRUE, strict |-> strict])

=============================================================================
