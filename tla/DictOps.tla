------------------------------- MODULE DictOps -------------------------------
(***************************************************************************)
(* A dictionary of tvm/cell as its users drive it: one Dictionary value    *)
(* under any sequence of its mutating calls, beside the map it stands for. *)
(*                                                                         *)
(* The dictionary starts empty (NewDict) or from a cell somebody else      *)
(* serialized (AsDict), whose labels may use any valid encoding.           *)
(***************************************************************************)
EXTENDS Dict

CONSTANTS
  KeyBits,    \* the key size of the dictionary
  Values,     \* the values stored, positive integers
  MaxItems,   \* bound on the number of entries
  Batches,    \* the largest batch, and the largest dictionary merged in
  BatchValues,\* the values batches and merged dictionaries carry
  Loaded      \* the maps of the dictionaries that are loaded

VARIABLES
  root,       \* Dictionary.root
  keySz,      \* Dictionary.keySz
  items,      \* what the dictionary should hold: a function from keys to values
  grown       \* every node was written by this code

vars == <<root, keySz, items, grown>>

Keys(n) == [1 .. n -> {0, 1}]

\* The maps over at most k keys of n bits.
Maps(n, vals, k) == UNION {[D -> vals] : D \in UNION {kSubset(i, Keys(n)) : i \in 0 .. k}}

BatchMaps == [n \in 0 .. KeyBits |-> Maps(n, BatchValues \cup {NoVal}, Batches)]
OtherMaps == [n \in 0 .. KeyBits |-> Maps(n, BatchValues, Batches)]

Forms(label) == IF SameBits(label) THEN {"short", "long", "same"} ELSE {"short", "long"}

RECURSIVE Written(_)

\* A tree with each label in any encoding a reader accepts.
Written(t) ==
  IF ~IsFork(t) THEN {[t EXCEPT !.form = f] : f \in Forms(t.label)}
  ELSE {[t EXCEPT !.form = f, !.kids = <<l, r>>] :
          f \in Forms(t.label), l \in Written(Kid(t, 0)), r \in Written(Kid(t, 1))}

Init ==
  /\ keySz = KeyBits
  /\ \/ root = Nil /\ items = [k \in {} |-> NoVal] /\ grown = TRUE
     \/ \E m \in Loaded : items = m /\ root \in Written(NewDictFromItems(m)) /\ grown = FALSE

Without(m, ks) == [k \in DOMAIN m \ ks |-> m[k]]
With(m, k, v) == [j \in DOMAIN m \cup {k} |-> IF j = k THEN v ELSE m[j]]

(***************************************************************************)
(* The mutating calls.                                                     *)
(***************************************************************************)

\* SetWithMode and the calls that end in it.
Set(key, v, mode) ==
  LET there == key \in DOMAIN items
  IN /\ root' = SetNode(root, key, v, mode).root
     /\ items' = IF (mode = "add" /\ there) \/ (mode = "replace" /\ ~there) THEN items
                 ELSE With(items, key, v)
     /\ UNCHANGED <<keySz, grown>>

\* Delete and LoadValueAndDelete: an absent key changes nothing.
Delete(key) ==
  /\ root' = DeleteNode(root, key).root
  /\ items' = Without(items, {key})
  /\ UNCHANGED <<keySz, grown>>

\* LoadMinMaxAndDelete: the boundary is looked up, then deleted in a second walk.
DeleteMinMax(max, inv) ==
  LET found == LoadMinMax(root, max, inv)
  IN /\ root # Nil
     /\ root' = DeleteNode(root, found[1]).root
     /\ items' = Without(items, {found[1]})
     /\ UNCHANGED <<keySz, grown>>

\* Multiset: the whole batch or, when it deletes an absent key, none of it.
Multiset(batch) ==
  LET new == IF DOMAIN batch = {} THEN root ELSE MultisetNode(root, batch, 0)
      deleted == {k \in DOMAIN batch : batch[k] = NoVal}
  IN /\ root' = IF new = Fail THEN root ELSE new
     /\ items' = IF deleted \subseteq DOMAIN items
                 THEN [k \in (DOMAIN items \cup DOMAIN batch) \ deleted |->
                         IF k \in DOMAIN batch THEN batch[k] ELSE items[k]]
                 ELSE items
     /\ UNCHANGED <<keySz, grown>>

\* CombineWith: the receiver changes only when every callback succeeded.
Combine(other, how) ==
  LET new == CombineWith(root, NewDictFromItems(other), keySz, how)
      both == DOMAIN items \cap DOMAIN other
  IN /\ root' = IF new = Fail THEN root ELSE new
     /\ items' = IF how = "error" /\ both # {} THEN items
                 ELSE [k \in DOMAIN items \cup DOMAIN other |->
                         IF k \in both THEN Combined(items[k], other[k], how)
                         ELSE IF k \in DOMAIN items THEN items[k] ELSE other[k]]
     /\ UNCHANGED <<keySz, grown>>

\* Filter: entries are asked for in key order until an answer covers the rest; a
\* callback that fails leaves the receiver as it was.
FilterBy(act) ==
  LET new == Filter(root, act, keySz)
      Ends(k) == act[k] \in {"keepRest", "removeRest", "fail"}
      Before(j, k) == Number(j) < Number(k)
      Asked(k) == \A j \in DOMAIN items : Before(j, k) => ~Ends(j)
      Covered(k, what) == \E j \in DOMAIN items : Before(j, k) /\ Asked(j) /\ act[j] = what
      gone == {k \in DOMAIN items :
                 \/ Asked(k) /\ act[k] \in {"remove", "removeRest"}
                 \/ Covered(k, "removeRest")}
      failed == \E k \in DOMAIN items : Asked(k) /\ act[k] = "fail"
  IN /\ root' = IF new = Fail THEN root ELSE new
     /\ items' = IF failed THEN items ELSE Without(items, gone)
     /\ UNCHANGED <<keySz, grown>>

\* CutPrefixSubdict: with removePrefix the keys lose the prefix.
CutPrefix(prefix, remove) ==
  LET pl == Len(prefix)
      under == {k \in DOMAIN items : pl <= keySz /\ Take(k, pl) = prefix}
  IN /\ ~(remove /\ pl > keySz)
     /\ root' = ExtractPrefix(root, prefix, remove, keySz)
     /\ keySz' = IF remove THEN keySz - pl ELSE keySz
     /\ items' = IF remove THEN [s \in {Drop(k, pl) : k \in under} |-> items[prefix \o s]]
                 ELSE [k \in under |-> items[k]]
     /\ UNCHANGED grown

\* The prefixes of a key, and one too long.
Prefixes(n) == UNION {Keys(pl) : pl \in 0 .. n} \cup {[i \in 1 .. n + 1 |-> 0]}

Modes == {"set", "add", "replace"}
Answers == {"keep", "remove", "keepRest", "removeRest", "fail"}

Next ==
  /\ \/ \E key \in Keys(keySz), v \in Values, mode \in Modes : Set(key, v, mode)
     \/ \E key \in Keys(keySz) : Delete(key)
     \/ \E max, inv \in BOOLEAN : DeleteMinMax(max, inv)
     \/ \E batch \in BatchMaps[keySz] : Multiset(batch)
     \/ \E other \in OtherMaps[keySz], how \in {"larger", "error"} : Combine(other, how)
     \/ \E act \in [DOMAIN items -> Answers] : FilterBy(act)
     \/ \E prefix \in Prefixes(keySz), remove \in BOOLEAN : CutPrefix(prefix, remove)
  /\ Cardinality(DOMAIN items') <= MaxItems

Spec == Init /\ [][Next]_vars

(***************************************************************************)
(* Properties.                                                             *)
(***************************************************************************)

\* The place of a key in the order of the walks; with inv keys are signed.
Rank(k, inv) == Number(IF inv /\ k # <<>> THEN [k EXCEPT ![1] = 1 - @] ELSE k)

Listed(es, rev, inv) ==
  /\ Len(es) = Cardinality(DOMAIN items)
  /\ \A e \in {es[i] : i \in 1 .. Len(es)} : e[1] \in DOMAIN items /\ e[2] = items[e[1]]
  /\ \A i \in 1 .. Len(es) - 1 :
       IF rev THEN Rank(es[i][1], inv) > Rank(es[i + 1][1], inv)
       ELSE Rank(es[i][1], inv) < Rank(es[i + 1][1], inv)

\* Whatever calls led here, batches, merges, filters and cuts included, every lookup
\* and every walk over the tree (LoadValue, LoadMinMax, LookupNearestKey, Range,
\* the iterator and the positioned iterator, in both directions and both orders)
\* answers what the map of the same calls holds.
Represents ==
  /\ \A k \in Keys(keySz) : Find(root, k) = IF k \in DOMAIN items THEN items[k] ELSE NoVal
  /\ \A rev, inv \in BOOLEAN :
       LET es == Entries(root, <<>>, rev, inv)
           Past(k, target, eq) ==
             \/ eq /\ k = target
             \/ IF rev THEN Rank(k, inv) < Rank(target, inv) ELSE Rank(k, inv) > Rank(target, inv)
       IN /\ Listed(es, rev, inv)
          /\ LoadMinMax(root, rev, inv) = IF es = <<>> THEN None ELSE es[1]
          /\ \A target \in Keys(keySz), eq \in BOOLEAN :
               LET from == SelectSeq(es, LAMBDA e : Past(e[1], target, eq))
               IN /\ EntriesFrom(root, <<>>, target, rev, inv, eq) = from
                  /\ LookupNearest(root, target, ~rev, eq, inv) = IF from = <<>> THEN None ELSE from[1]

RECURSIVE ShortestAlong(_, _)

\* Every label on the way to a key, as far as the tree follows it, is in the encoding
\* the writer chooses.
ShortestAlong(t, key) ==
  LET n == Len(key)
      m == Len(t.label)
      follows == IsFork(t) /\ CommonLen(t.label, key) = m
  IN t # Nil =>
       /\ t.form = LabelForm(t.label, n)
       /\ follows => ShortestAlong(Kid(t, key[m + 1]), Drop(key, m + 1))

\* "Dict serialization is canonical": however a dictionary was grown from empty, its
\* tree, label encodings included, is the one NewDictFromItems builds of its entries,
\* so that equal dictionaries have equal hashes.  And whatever encodings a loaded
\* dictionary uses, a Set or a Delete of a key rewrites every label on its path that
\* is not the writer's choice (hasCanonicalLabel): "mutating dictionary walks in the
\* reference rebuild every changed ancestor".
Canonical ==
  /\ grown => root = NewDictFromItems(items)
  /\ ~grown => \A k \in Keys(keySz) :
       /\ \A v \in Values : ShortestAlong(SetNode(root, k, v, "set").root, k)
       /\ k \in DOMAIN items => ShortestAlong(DeleteNode(root, k).root, k)

ReportsChanges(diff, old, new) ==
  LET out == diff.out
      Val(m, k) == IF k \in DOMAIN m THEN m[k] ELSE NoVal
      changed == {k \in DOMAIN old \cup DOMAIN new : Val(old, k) # Val(new, k)}
  IN /\ diff.ok
     /\ Len(out) = Cardinality(changed)
     /\ {out[i] : i \in 1 .. Len(out)} = {<<k, Val(old, k), Val(new, k)>> : k \in changed}
     /\ \A i \in 1 .. Len(out) - 1 : Number(out[i][1]) < Number(out[i + 1][1])

\* ScanDiff between the dictionary before and after any call reports exactly the
\* entries the call changed, once each, in key order, whatever the two trees look
\* like; and with the canonical-label check on it never fails between two
\* dictionaries this code wrote.
DiffExact ==
  [][keySz' = keySz => \A new \in {root'}, m \in {items'} :
       ReportsChanges(ScanDiff(root, new, keySz, grown), items, m)]_vars

=============================================================================
