---------------------------- MODULE StorageProofs ----------------------------
(***************************************************************************)
(* Proofs about Storage: the two back-ends agree, a restart recovers the   *)
(* cache, a read returns the history and a compaction loses nothing.       *)
(* The invariant says that a back-end is the image of its cache, the       *)
(* history and the snapshot: what it holds is determined by them, until a  *)
(* compaction overruns the log.                                            *)
(***************************************************************************)
EXTENDS Storage, FiniteSetTheorems, SequenceTheorems, TLAPS

-----------------------------------------------------------------------------
\* The inductive invariant.

Snapshots == Seq(Entries) \cup {None}
Stopsigns == {"stopsign", None}
Options   == Nat \cup {None}

Caches ==
  [batched_entries : Seq(Entries), promise : Nat, decided_idx : Nat,
   compacted_idx : Nat, stopsign : Stopsigns, accepted_idx : Nat]

StopLen(stopsign) == IF stopsign = None THEN 0 ELSE 1
Distinct(s) == \A i, j \in 1 .. Len(s) : s[i] = s[j] => i = j

\* A cache over the history h: only a stop sign is accepted behind the history,
\* and nothing behind it is compacted.  The decided index may be anything.
Valid(c, h) ==
  /\ c \in Caches /\ h \in Seq(Entries)
  /\ c.accepted_idx = Len(h) + StopLen(c.stopsign)
  /\ c.compacted_idx <= Len(h)
  /\ Distinct(h \o c.batched_entries)

\* What a back-end holds of a history that is compacted up to k.  An index
\* that was never set is None in the database.
Image(b, k, h, prom, ld, tr, snapshot, stopsign) ==
  IF b = "memory"
  THEN [log |-> SubSeq(h, k + 1, Len(h)), n_prom |-> prom,
        ld |-> OrZero(ld), trimmed_idx |-> k, compacted_idx |-> k,
        snapshot |-> snapshot, stopsign |-> stopsign]
  ELSE [log |-> [j \in k .. (Len(h) - 1) |-> h[j + 1]], n_prom |-> prom,
        ld |-> ld, trim |-> tr, snapshot |-> snapshot,
        stopsign |-> stopsign, next_log_key |-> Len(h)]

\* An InternalStorage with this cache, history and snapshot.
Held(b, s, c, h, snapshot) ==
  \E ld, tr \in Options :
    /\ OrZero(ld) = c.decided_idx /\ OrZero(tr) = c.compacted_idx
    /\ s = [cache   |-> c,
            storage |-> Image(b, c.compacted_idx, h, c.promise, ld,
                              tr, snapshot, c.stopsign)]

\* The snapshot; both back-ends hold it.
Snap == store["memory"].storage.snapshot

\* Each back-end is the image of the cache, the history and the snapshot.
ImagesHeld ==
  /\ Valid(Cache, history) /\ Snap \in Snapshots
  /\ \A b \in Backends : Held(b, store[b], Cache, history, Snap)

\* The entries before position k.
Upto(h, k) == {h[i] : i \in 1 .. k}

\* What SnapshotCovers says of one snapshot, and only compacted entries are
\* trimmed.
Covers(snapshot, h, k, tr) ==
  LET snap == IF snapshot = None THEN <<>> ELSE snapshot
  IN /\ Range(snap) = Upto(h, k) \ tr /\ IsInjective(snap)
     /\ tr \subseteq Upto(h, k)

StorageInv ==
  /\ electing \in Options /\ overrun \in BOOLEAN
  /\ ~overrun => ImagesHeld
  /\ ~overrun => Covers(Snap, history, Cache.compacted_idx, trimmed)

-----------------------------------------------------------------------------
-----------------------------------------------------------------------------
\* Arithmetic and sequences.

\* Indices of a log fit into a usize: their differences do not wrap.
LEMMA SubFits ==
  ASSUME NEW x \in Nat, NEW y \in Nat, y <= x, x <= MaxEntries + 2
  PROVE  Sub(x, y) = x - y
<1> DEFINE w == 2^Width
<1>1. w \in Nat /\ MaxEntries \in Nat /\ MaxEntries + 2 < w
  BY StorageAssumption
<1>2. Sub(x, y) = (x - y) % w
  BY DEF Sub
<1> HIDE DEF w
<1>3. x - y \in Nat /\ x - y < w
  BY <1>1
<1>4. \A z \in Nat : z < w => z % w = z
  BY <1>1
<1> QED
  BY <1>2, <1>3, <1>4

\* So do their sums.
LEMMA AddFits ==
  ASSUME NEW x \in Nat, NEW y \in Nat, x + y <= MaxEntries + 2
  PROVE  Add(x, y) = x + y
<1> DEFINE w == 2^Width
<1>1. w \in Nat /\ MaxEntries \in Nat /\ MaxEntries + 2 < w
  BY StorageAssumption
<1>2. Add(x, y) = (x + y) % w
  BY DEF Add
<1> HIDE DEF w
<1>3. x + y \in Nat /\ x + y < w
  BY <1>1
<1>4. \A z \in Nat : z < w => z % w = z
  BY <1>1
<1> QED
  BY <1>2, <1>3, <1>4

\* Part of a sequence, position by position.
LEMMA PartOf ==
  ASSUME NEW S, NEW h \in Seq(S), NEW i \in Nat, NEW j \in Nat, i <= j, j <= Len(h)
  PROVE  /\ SubSeq(h, i + 1, j) \in Seq(S) /\ Len(SubSeq(h, i + 1, j)) = j - i
         /\ \A x \in 1 .. (j - i) : SubSeq(h, i + 1, j)[x] = h[i + x]
<1>1. CASE i = j
  BY <1>1
<1>2. CASE i < j
  BY <1>2
<1> QED
  BY <1>1, <1>2

\* Sequences are equal when they agree position by position.
LEMMA SamePositions ==
  ASSUME NEW S, NEW s \in Seq(S), NEW t \in Seq(S), Len(s) = Len(t),
         \A x \in 1 .. Len(s) : s[x] = t[x]
  PROVE  s = t
  OBVIOUS

\* Parts of parts, and parts that are put together again.
LEMMA PartOfPart ==
  ASSUME NEW S, NEW h \in Seq(S), NEW k \in Nat, k <= Len(h),
         NEW i \in Nat, NEW j \in Nat, i <= j, j <= Len(h) - k
  PROVE  SubSeq(SubSeq(h, k + 1, Len(h)), i + 1, j) = SubSeq(h, k + i + 1, k + j)
<1> DEFINE t == SubSeq(h, k + 1, Len(h))
           u == SubSeq(t, i + 1, j)
           v == SubSeq(h, k + i + 1, k + j)
<1>0. Len(h) \in Nat /\ k + i \in Nat /\ k + j \in Nat /\ k + j <= Len(h) /\ (k + j) - (k + i) = j - i
  OBVIOUS
<1>1. t \in Seq(S) /\ Len(t) = Len(h) - k /\ \A x \in 1 .. (Len(h) - k) : t[x] = h[k + x]
  BY <1>0, PartOf
<1> HIDE DEF t
<1>2. u \in Seq(S) /\ Len(u) = j - i /\ \A x \in 1 .. (j - i) : u[x] = t[i + x]
  BY <1>1, PartOf
<1>3. v \in Seq(S) /\ Len(v) = j - i /\ \A x \in 1 .. (j - i) : v[x] = h[(k + i) + x]
  BY <1>0, PartOf
<1> HIDE DEF u, v
<1>4. \A x \in 1 .. (j - i) : u[x] = v[x]
  <2> SUFFICES ASSUME NEW x \in 1 .. (j - i) PROVE u[x] = v[x]
    OBVIOUS
  <2>1. u[x] = t[i + x] /\ i + x \in 1 .. (Len(h) - k)
    BY <1>0, <1>2
  <2>2. t[i + x] = h[k + (i + x)] /\ v[x] = h[(k + i) + x] /\ k + (i + x) = (k + i) + x
    BY <1>1, <1>3, <2>1
  <2> QED
    BY <2>1, <2>2
<1>5. u = v
  BY <1>2, <1>3, <1>4, SamePositions
<1> QED
  BY <1>5 DEF t, u, v

\* A sequence is its beginning and its rest.
LEMMA PartsJoined ==
  ASSUME NEW S, NEW h \in Seq(S), NEW i \in Nat, NEW j \in Nat, NEW m \in Nat,
         i <= j, j <= m, m <= Len(h)
  PROVE  SubSeq(h, i + 1, j) \o SubSeq(h, j + 1, m) = SubSeq(h, i + 1, m)
<1> DEFINE u == SubSeq(h, i + 1, j)
           v == SubSeq(h, j + 1, m)
           w == SubSeq(h, i + 1, m)
<1>0. /\ Len(h) \in Nat /\ j <= Len(h) /\ i <= m
      /\ j - i \in Nat /\ m - j \in Nat /\ m - i \in Nat /\ (j - i) + (m - j) = m - i
  OBVIOUS
<1>1. u \in Seq(S) /\ Len(u) = j - i /\ \A x \in 1 .. (j - i) : u[x] = h[i + x]
  BY <1>0, PartOf
<1>2. v \in Seq(S) /\ Len(v) = m - j /\ \A x \in 1 .. (m - j) : v[x] = h[j + x]
  BY PartOf
<1>3. w \in Seq(S) /\ Len(w) = m - i /\ \A x \in 1 .. (m - i) : w[x] = h[i + x]
  BY <1>0, PartOf
<1> HIDE DEF u, v, w
<1>4. u \o v \in Seq(S) /\ Len(u \o v) = m - i
  <2>1. u \in Seq(S) /\ v \in Seq(S)
    BY <1>1, <1>2
  <2>2. u \o v \in Seq(S) /\ Len(u \o v) = Len(u) + Len(v)
    BY <2>1
  <2> QED
    BY <1>0, <1>1, <1>2, <2>2
<1>5. ASSUME NEW x \in 1 .. (m - i) PROVE (u \o v)[x] = w[x]
  <2>1. CASE x <= j - i
    BY <1>1, <1>2, <1>3, <2>1
  <2>2. CASE x > j - i
    <3>1. (u \o v)[x] = v[x - (j - i)] /\ x - (j - i) \in 1 .. (m - j)
      BY <1>1, <1>2, <2>2, SMTT(30)
    <3>2. v[x - (j - i)] = h[j + (x - (j - i))] /\ j + (x - (j - i)) = i + x
      BY <1>2, <3>1
    <3> QED
      BY <1>3, <3>1, <3>2
  <2>3. x <= j - i \/ x > j - i
    BY <1>0
  <2> QED
    BY <2>1, <2>2, <2>3
<1>6. u \o v = w
  BY <1>3, <1>4, <1>5, SamePositions
<1> QED
  BY <1>6 DEF u, v, w

-----------------------------------------------------------------------------
\* What the back-ends answer.

\* The keys of a range are counted from its beginning.
LEMMA RankOfKey ==
  ASSUME NEW from \in Nat, NEW to \in Nat, from <= to
  PROVE  /\ Cardinality(from .. (to - 1)) = to - from
         /\ \A i \in 1 .. (to - from) :
              (CHOOSE k \in from .. (to - 1) : Rank(from .. (to - 1), k) = i) = from + i - 1
<1> DEFINE keys == from .. (to - 1)
<1>1. ASSUME NEW k \in keys PROVE Rank(keys, k) = k - from + 1
  <2>1. {j \in keys : j <= k} = from .. k
    OBVIOUS
  <2>2. Cardinality(from .. k) = k - from + 1
    BY FS_Interval
  <2> QED
    BY <2>1, <2>2 DEF Rank
<1>2. Cardinality(keys) = to - from
  <2>1. to - 1 \in Int /\ from \in Int
    OBVIOUS
  <2>2. Cardinality(keys) = IF from > to - 1 THEN 0 ELSE (to - 1) - from + 1
    BY <2>1, FS_Interval
  <2> QED
    BY <2>2
<1>3. ASSUME NEW i \in 1 .. (to - from)
      PROVE  (CHOOSE k \in keys : Rank(keys, k) = i) = from + i - 1
  <2>1. from + i - 1 \in keys
    OBVIOUS
  <2>2. \A k \in keys : Rank(keys, k) = i <=> k = from + i - 1
    BY <1>1
  <2> HIDE DEF keys
  <2> QED
    BY <2>1, <2>2
<1> QED
  BY <1>2, <1>3

\* get_entries of either back-end: the entries of the history, and nothing
\* when the range goes beyond it.
LEMMA EntriesRead ==
  ASSUME NEW b \in Backends, NEW h \in Seq(Entries), Len(h) <= MaxEntries,
         NEW k \in Nat, k <= Len(h), NEW prom, NEW ld, NEW tr,
         NEW snapshot, NEW stopsign,
         NEW from \in Nat, NEW to \in Nat, k <= from, from <= to, to <= MaxEntries + 2
  PROVE  get_entries(b, Image(b, k, h, prom, ld, tr, snapshot, stopsign), from, to)
           = IF to <= Len(h) THEN SubSeq(h, from + 1, to) ELSE <<>>
<1> DEFINE st == Image(b, k, h, prom, ld, tr, snapshot, stopsign)
<1> SUFFICES get_entries(b, st, from, to)
                = IF to <= Len(h) THEN SubSeq(h, from + 1, to) ELSE <<>>
  OBVIOUS
<1>0. Len(h) \in Nat /\ MaxEntries \in Nat /\ from <= MaxEntries + 2 /\ k <= to
  BY StorageAssumption
<1>1. CASE b = "memory"
  <2>1. st.log = SubSeq(h, k + 1, Len(h)) /\ st.trimmed_idx = k
    BY <1>1 DEF Image
  <2>2. Sub(from, k) = from - k /\ Sub(to, k) = to - k
    BY <1>0, SubFits
  <2>3. Len(SubSeq(h, k + 1, Len(h))) = Len(h) - k
    BY <1>0, PartOf
  <2>4. get_entries(b, st, from, to) = Slice(SubSeq(h, k + 1, Len(h)), from - k, to - k)
    BY <1>1, <2>1, <2>2 DEF get_entries, mem_get_entries
  <2>5. CASE to <= Len(h)
    <3>1. /\ from - k \in Nat /\ to - k \in Nat /\ from - k <= to - k /\ to - k <= Len(h) - k
          /\ k + (from - k) + 1 = from + 1 /\ k + (to - k) = to
      BY <1>0, <2>5
    <3>2. SubSeq(SubSeq(h, k + 1, Len(h)), (from - k) + 1, to - k)
            = SubSeq(h, k + (from - k) + 1, k + (to - k))
      BY <3>1, PartOfPart
    <3> QED
      BY <2>3, <2>4, <2>5, <3>1, <3>2 DEF Slice
  <2>6. CASE ~(to <= Len(h))
    <3>1. ~(to - k <= Len(h) - k)
      BY <1>0, <2>6
    <3> QED
      BY <2>3, <2>4, <2>6, <3>1 DEF Slice
  <2> QED
    BY <2>5, <2>6
<1>2. CASE b = "persistent"
  <2>1. st.log = [j \in k .. (Len(h) - 1) |-> h[j + 1]] /\ st.next_log_key = Len(h)
    BY <1>2 DEF Image
  <2>2. get_entries(b, st, from, to) = db_get_entries(st, from, to)
    BY <1>2 DEF get_entries
  <2> HIDE DEF st
  <2>3. CASE to > Len(h)
    BY <1>0, <2>1, <2>2, <2>3 DEF db_get_entries
  <2>4. CASE to <= Len(h) /\ from = to
    BY <1>0, <2>1, <2>2, <2>4 DEF db_get_entries
  <2>5. CASE to <= Len(h) /\ from < to
    <3> DEFINE keys == {j \in DOMAIN st.log : j >= from}
    <3>1. keys = from .. (Len(h) - 1)
      BY <1>0, <2>1
    <3>a. from <= Len(h)
      BY <1>0, <2>5
    <3> HIDE DEF keys
    <3>2. /\ Cardinality(keys) = Len(h) - from
          /\ \A i \in 1 .. (Len(h) - from) :
               (CHOOSE j \in keys : Rank(keys, j) = i) = from + i - 1
      BY <1>0, <3>a, <3>1, RankOfKey, SMTT(30)
    <3>3. ~(to > st.next_log_key \/ from >= to) /\ ~(to - from > Cardinality(keys))
      BY <1>0, <2>1, <2>5, <3>2
    <3>4. db_get_entries(st, from, to)
            = [i \in 1 .. (to - from) |-> st.log[CHOOSE j \in keys : Rank(keys, j) = i]]
      <4>1. db_get_entries(st, from, to) =
              CASE to > st.next_log_key \/ from >= to -> <<>>
                [] to <= st.next_log_key /\ from < to /\ to - from > Cardinality(keys) -> None
                [] OTHER -> [i \in 1 .. (to - from) |->
                               st.log[CHOOSE j \in keys : Rank(keys, j) = i]]
        BY DEF db_get_entries, keys
      <4> QED
        BY <3>3, <4>1
    <3>5. \A i \in 1 .. (to - from) : st.log[CHOOSE j \in keys : Rank(keys, j) = i] = h[from + i]
      <4> SUFFICES ASSUME NEW i \in 1 .. (to - from)
                   PROVE  st.log[CHOOSE j \in keys : Rank(keys, j) = i] = h[from + i]
        OBVIOUS
      <4>1. i \in 1 .. (Len(h) - from) /\ from + i - 1 \in k .. (Len(h) - 1)
        BY <1>0, <2>5
      <4>2. st.log[from + i - 1] = h[(from + i - 1) + 1] /\ (from + i - 1) + 1 = from + i
        BY <2>1, <4>1
      <4> QED
        BY <3>2, <4>1, <4>2
    <3>6. db_get_entries(st, from, to) = [i \in 1 .. (to - from) |-> h[from + i]]
      BY <3>4, <3>5
    <3>7. /\ SubSeq(h, from + 1, to) \in Seq(Entries) /\ Len(SubSeq(h, from + 1, to)) = to - from
          /\ \A x \in 1 .. (to - from) : SubSeq(h, from + 1, to)[x] = h[from + x]
      BY <2>5, PartOf
    <3>8. SubSeq(h, from + 1, to) = [i \in 1 .. (to - from) |-> h[from + i]]
      <4>1. DOMAIN SubSeq(h, from + 1, to) = 1 .. (to - from)
        BY <3>7
      <4> QED
        BY <3>7, <4>1
    <3> QED
      BY <2>2, <2>5, <3>6, <3>8
  <2> QED
    BY <1>0, <2>3, <2>4, <2>5 DEF st
<1> QED
  BY <1>1, <1>2 DEF Backends

\* get_suffix of either back-end.
LEMMA SuffixRead ==
  ASSUME NEW b \in Backends, NEW h \in Seq(Entries), Len(h) <= MaxEntries,
         NEW k \in Nat, k <= Len(h), NEW prom, NEW ld, NEW tr,
         NEW snapshot, NEW stopsign,
         NEW from \in Nat, k <= from, from <= MaxEntries + 2
  PROVE  get_suffix(b, Image(b, k, h, prom, ld, tr, snapshot, stopsign), from)
           = IF from <= Len(h) THEN SubSeq(h, from + 1, Len(h)) ELSE <<>>
<1> DEFINE st == Image(b, k, h, prom, ld, tr, snapshot, stopsign)
<1> SUFFICES get_suffix(b, st, from)
                = IF from <= Len(h) THEN SubSeq(h, from + 1, Len(h)) ELSE <<>>
  OBVIOUS
<1>0. Len(h) \in Nat /\ MaxEntries \in Nat /\ Len(h) <= MaxEntries + 2
  BY StorageAssumption
<1>1. from <= Len(h) => get_entries(b, st, from, Len(h)) = SubSeq(h, from + 1, Len(h))
  BY <1>0, EntriesRead, SMTT(30)
<1>2. CASE b = "memory"
  <2>1. st.log = SubSeq(h, k + 1, Len(h)) /\ st.trimmed_idx = k
    BY <1>2 DEF Image
  <2>2. Sub(from, k) = from - k /\ Sub(Len(h), k) = Len(h) - k
    BY <1>0, SubFits
  <2>3. Len(SubSeq(h, k + 1, Len(h))) = Len(h) - k
    BY <1>0, PartOf
  <2> HIDE DEF st
  <2>4. get_suffix(b, st, from) = Slice(SubSeq(h, k + 1, Len(h)), from - k, Len(h) - k)
    BY <1>2, <2>1, <2>2, <2>3 DEF get_suffix, mem_get_suffix
  <2>5. CASE from <= Len(h)
    <3>1. get_entries(b, st, from, Len(h)) = Slice(SubSeq(h, k + 1, Len(h)), from - k, Len(h) - k)
      BY <1>2, <2>1, <2>2 DEF get_entries, mem_get_entries
    <3> QED
      BY <1>1, <2>4, <2>5, <3>1
  <2>6. CASE ~(from <= Len(h))
    <3>1. ~(from - k <= Len(h) - k)
      BY <1>0, <2>6
    <3> QED
      BY <2>4, <2>6, <3>1 DEF Slice
  <2> QED
    BY <2>5, <2>6
<1>3. CASE b = "persistent"
  <2>1. st.next_log_key = Len(h)
    BY <1>3 DEF Image
  <2> HIDE DEF st
  <2>2. get_suffix(b, st, from) = db_get_entries(st, from, Len(h))
    BY <1>3, <2>1 DEF get_suffix, db_get_suffix
  <2>3. CASE from <= Len(h)
    BY <1>1, <1>3, <2>2, <2>3 DEF get_entries
  <2>4. CASE ~(from <= Len(h))
    <3>1. from >= Len(h)
      BY <1>0, <2>4
    <3>2. db_get_entries(st, from, Len(h)) = <<>>
      BY <3>1 DEF db_get_entries
    <3> QED
      BY <2>2, <2>4, <3>2
  <2> QED
    BY <2>3, <2>4
<1> QED
  BY <1>2, <1>3 DEF Backends

-----------------------------------------------------------------------------
\* What the back-ends hold after a write.

\* The histories agree up to from.
Agree(h, g, from) == \A i \in 1 .. from : h[i] = g[i]

\* Entries behind a common prefix, in the vector.
LEMMA VectorWritten ==
  ASSUME NEW h \in Seq(Entries), NEW g \in Seq(Entries), NEW k \in Nat, NEW from \in Nat,
         k <= from, from <= Len(h), from <= Len(g), Agree(h, g, from)
  PROVE  SubSeq(h, k + 1, from) \o SubSeq(g, from + 1, Len(g)) = SubSeq(g, k + 1, Len(g))
<1>0. Len(h) \in Nat /\ Len(g) \in Nat /\ Len(g) <= Len(g)
  OBVIOUS
<1> DEFINE u == SubSeq(h, k + 1, from)
           v == SubSeq(g, k + 1, from)
<1>1. u \in Seq(Entries) /\ Len(u) = from - k /\ \A x \in 1 .. (from - k) : u[x] = h[k + x]
  BY PartOf
<1>2. v \in Seq(Entries) /\ Len(v) = from - k /\ \A x \in 1 .. (from - k) : v[x] = g[k + x]
  BY PartOf
<1>3. \A x \in 1 .. (from - k) : h[k + x] = g[k + x]
  <2> SUFFICES ASSUME NEW x \in 1 .. (from - k) PROVE h[k + x] = g[k + x]
    OBVIOUS
  <2>1. k + x \in 1 .. from
    OBVIOUS
  <2> QED
    BY <2>1 DEF Agree
<1> HIDE DEF u, v
<1>4. u = v
  <2>1. \A x \in 1 .. Len(u) : u[x] = v[x]
    BY <1>1, <1>2, <1>3
  <2> QED
    BY <1>1, <1>2, <2>1, SamePositions
<1>5. SubSeq(g, k + 1, from) \o SubSeq(g, from + 1, Len(g)) = SubSeq(g, k + 1, Len(g))
  BY <1>0, PartsJoined
<1> QED
  BY <1>4, <1>5 DEF u, v

\* Entries behind a common prefix, under their keys.
LEMMA KeysWritten ==
  ASSUME NEW g \in Seq(Entries), NEW k \in Nat, NEW from \in Nat,
         k <= from, from <= Len(g), NEW log, NEW entries,
         entries = SubSeq(g, from + 1, Len(g)),
         DOMAIN log \cup (from .. (Len(g) - 1)) = k .. (Len(g) - 1),
         \A j \in k .. (from - 1) : log[j] = g[j + 1]
  PROVE  /\ Len(entries) = Len(g) - from
         /\ [j \in DOMAIN log \cup (from .. (from + Len(entries) - 1)) |->
               IF j \in from .. (from + Len(entries) - 1)
               THEN entries[j - from + 1] ELSE log[j]]
              = [j \in k .. (Len(g) - 1) |-> g[j + 1]]
<1>0. Len(g) \in Nat
  OBVIOUS
<1>1. Len(entries) = Len(g) - from /\ \A x \in 1 .. (Len(g) - from) : entries[x] = g[from + x]
  BY <1>0, PartOf
<1>2. from + Len(entries) - 1 = Len(g) - 1
  BY <1>0, <1>1
<1>3. ASSUME NEW j \in k .. (Len(g) - 1)
      PROVE  (IF j \in from .. (Len(g) - 1) THEN entries[j - from + 1] ELSE log[j]) = g[j + 1]
  <2>1. CASE j \in from .. (Len(g) - 1)
    <3>1. j - from + 1 \in 1 .. (Len(g) - from) /\ from + (j - from + 1) = j + 1
      BY <1>0, <2>1
    <3>2. entries[j - from + 1] = g[from + (j - from + 1)]
      BY <1>1, <3>1
    <3> QED
      BY <2>1, <3>1, <3>2
  <2>2. CASE j \notin from .. (Len(g) - 1)
    <3>1. j \in k .. (from - 1)
      BY <1>0, <2>2
    <3> QED
      BY <2>2, <3>1
  <2> QED
    BY <2>1, <2>2
<1> QED
  BY <1>1, <1>2, <1>3

\* append_on_prefix of either back-end.
\* append_entries of either back-end.
LEMMA EntriesAppended ==
  ASSUME NEW b \in Backends, NEW h \in Seq(Entries), NEW entries \in Seq(Entries),
         NEW k \in Nat, k <= Len(h), NEW prom, NEW ld, NEW tr,
         NEW snapshot, NEW stopsign
  PROVE  append_entries(b, Image(b, k, h, prom, ld, tr, snapshot, stopsign), entries)
           = Image(b, k, h \o entries, prom, ld, tr, snapshot, stopsign)
<1> DEFINE st == Image(b, k, h, prom, ld, tr, snapshot, stopsign)
           g == h \o entries
           from == Len(h)
<1> SUFFICES append_entries(b, st, entries)
               = Image(b, k, g, prom, ld, tr, snapshot, stopsign)
  OBVIOUS
<1>0. g \in Seq(Entries) /\ Len(g) = Len(h) + Len(entries) /\ Len(h) \in Nat /\ Len(entries) \in Nat
  OBVIOUS
<1>1. Agree(h, g, from)
  BY DEF Agree
<1>2. entries = SubSeq(g, from + 1, Len(g))
  <2> DEFINE u == SubSeq(g, from + 1, Len(g))
  <2>a. \A x \in 1 .. Len(entries) : g[from + x] = entries[x]
    OBVIOUS
  <2> HIDE DEF g
  <2>0. from \in Nat /\ Len(g) \in Nat /\ from <= Len(g) /\ Len(g) <= Len(g) /\ Len(g) - from = Len(entries)
    BY <1>0
  <2>1. /\ u \in Seq(Entries) /\ Len(u) = Len(g) - from
        /\ \A x \in 1 .. (Len(g) - from) : u[x] = g[from + x]
    <3> HIDE DEF from
    <3> QED
      BY <1>0, <2>0, PartOf
  <2> HIDE DEF u
  <2>2. \A x \in 1 .. Len(entries) : entries[x] = u[x]
    BY <2>a, <2>0, <2>1
  <2>3. Len(entries) = Len(u)
    BY <2>0, <2>1
  <2>4. entries = u
    BY <2>1, <2>2, <2>3, SamePositions
  <2> QED
    BY <2>4 DEF u
<1> HIDE DEF g
<1>3. CASE b = "memory"
  <2>1. st = [log |-> SubSeq(h, k + 1, Len(h)), n_prom |-> prom, 
              ld |-> OrZero(ld), trimmed_idx |-> k, compacted_idx |-> k,
              snapshot |-> snapshot, stopsign |-> stopsign]
    BY <1>3 DEF Image
  <2>2. SubSeq(h, k + 1, from) \o SubSeq(g, from + 1, Len(g)) = SubSeq(g, k + 1, Len(g))
    <3>1. from \in Nat /\ k <= from /\ from <= Len(h) /\ from <= Len(g)
      BY <1>0
    <3> HIDE DEF from
    <3> QED
      BY <1>0, <1>1, <3>1, VectorWritten
  <2>3. SubSeq(h, k + 1, Len(h)) \o entries = SubSeq(g, k + 1, Len(g))
    BY <1>2, <2>2
  <2> HIDE DEF st
  <2>4. append_entries(b, st, entries) = [st EXCEPT !.log = SubSeq(h, k + 1, Len(h)) \o entries]
    BY <1>3, <2>1 DEF append_entries
  <2>5. append_entries(b, st, entries) = [st EXCEPT !.log = SubSeq(g, k + 1, Len(g))]
    BY <2>3, <2>4
  <2> QED
    BY <1>3, <2>1, <2>5 DEF Image
<1>4. CASE b = "persistent"
  <2> DEFINE log == [j \in k .. (Len(h) - 1) |-> h[j + 1]]
  <2>1. st = [log |-> log, n_prom |-> prom,
              ld |-> ld, trim |-> tr, snapshot |-> snapshot,
              stopsign |-> stopsign, next_log_key |-> Len(h)]
    BY <1>4 DEF Image
  <2>2. DOMAIN log \cup (from .. (Len(g) - 1)) = k .. (Len(g) - 1)
    BY <1>0
  <2>3. \A j \in k .. (from - 1) : log[j] = g[j + 1]
    <3> SUFFICES ASSUME NEW j \in k .. (from - 1) PROVE log[j] = g[j + 1]
      OBVIOUS
    <3>1. j + 1 \in 1 .. from /\ log[j] = h[j + 1]
      BY <1>0
    <3> QED
      BY <1>1, <3>1 DEF Agree
  <2>4. /\ Len(entries) = Len(g) - from
        /\ [j \in DOMAIN log \cup (from .. (from + Len(entries) - 1)) |->
               IF j \in from .. (from + Len(entries) - 1)
               THEN entries[j - from + 1] ELSE log[j]]
              = [j \in k .. (Len(g) - 1) |-> g[j + 1]]
    <3>1. from \in Nat /\ k <= from /\ from <= Len(g) /\ g \in Seq(Entries)
      BY <1>0
    <3> HIDE DEF log, from
    <3> QED
      BY <1>2, <2>2, <2>3, <3>1, KeysWritten, SMTT(60)
  <2> HIDE DEF st, log
  <2>5. append_entries(b, st, entries)
           = [log |-> [j \in DOMAIN log \cup (from .. (from + Len(entries) - 1)) |->
                        IF j \in from .. (from + Len(entries) - 1)
                        THEN entries[j - from + 1] ELSE log[j]],
              n_prom |-> prom,
              ld |-> ld, trim |-> tr, snapshot |-> snapshot,
              stopsign |-> stopsign, next_log_key |-> from + Len(entries)]
    BY <1>4, <2>1 DEF append_entries, db_append_entries
  <2>6. from + Len(entries) = Len(g)
    BY <1>0
  <2> QED
    BY <1>4, <2>4, <2>5, <2>6 DEF Image
<1> QED
  BY <1>3, <1>4 DEF Backends
\* write_compaction leaves the entries from its index on.
LEMMA CompactionWritten ==
  ASSUME NEW b \in Backends, NEW h \in Seq(Entries), Len(h) <= MaxEntries,
         NEW k \in Nat, k <= Len(h), NEW prom, NEW ld, NEW tr,
         NEW snapshot, NEW stopsign, NEW to \in Nat, k <= to, to <= Len(h), NEW snap
  PROVE  write_compaction(b, Image(b, k, h, prom, ld, tr, snapshot, stopsign), to, snap)
           = Image(b, to, h, prom, ld, to, snap, stopsign)
<1> DEFINE st == Image(b, k, h, prom, ld, tr, snapshot, stopsign)
           st1 == trim(b, st, to)
           st2 == set_compacted_idx(b, st1, to)
           st3 == write_compaction(b, st, to, snap)
<1> SUFFICES st3 = Image(b, to, h, prom, ld, to, snap, stopsign)
  OBVIOUS
<1>0. Len(h) \in Nat /\ MaxEntries \in Nat /\ to <= MaxEntries + 2
  BY StorageAssumption
<1>1. st3 = [st2 EXCEPT !.snapshot = snap]
  BY DEF write_compaction
<1>2. CASE b = "memory"
  <2> DEFINE log == SubSeq(h, k + 1, Len(h))
             rest == SubSeq(h, to + 1, Len(h))
             to_trim == IF to - k < Len(log) THEN to - k ELSE Len(log)
  <2>1. st = [log |-> log, n_prom |-> prom,
              ld |-> OrZero(ld), trimmed_idx |-> k, compacted_idx |-> k,
              snapshot |-> snapshot, stopsign |-> stopsign]
    BY <1>2 DEF Image
  <2>2. Sub(to, k) = to - k
    BY <1>0, SubFits
  <2>3. log \in Seq(Entries) /\ Len(log) = Len(h) - k
    BY <1>0, PartOf
  <2>4. SubSeq(log, to_trim + 1, Len(log)) = rest
    <3>1. to_trim = to - k /\ to - k \in Nat /\ Len(h) - k \in Nat /\ to - k <= Len(h) - k
      BY <1>0, <2>3
    <3>2. SubSeq(log, (to - k) + 1, Len(h) - k) = SubSeq(h, k + (to - k) + 1, k + (Len(h) - k))
      BY <1>0, <3>1, PartOfPart
    <3>3. k + (to - k) + 1 = to + 1 /\ k + (Len(h) - k) = Len(h)
      BY <1>0
    <3> HIDE DEF log, to_trim
    <3> QED
      BY <2>3, <3>1, <3>2, <3>3
  <2>5. st.trimmed_idx = k /\ st.log = log
    BY <2>1
  <2> HIDE DEF st, log, rest
  <2>6. st1 = [st EXCEPT !.log = rest, !.trimmed_idx = to]
    BY <1>2, <2>2, <2>4, <2>5 DEF trim, mem_trim
  <2> HIDE DEF st1
  <2>7. st2 = [st1 EXCEPT !.compacted_idx = to]
    BY <1>2 DEF set_compacted_idx
  <2> HIDE DEF st2, st3
  <2>8. st3 = [log |-> rest, n_prom |-> prom,
               ld |-> OrZero(ld), trimmed_idx |-> to, compacted_idx |-> to,
               snapshot |-> snap, stopsign |-> stopsign]
    BY <1>1, <2>1, <2>6, <2>7
  <2> QED
    BY <1>2, <2>8 DEF Image, rest
<1>3. CASE b = "persistent"
  <2> DEFINE log == [j \in k .. (Len(h) - 1) |-> h[j + 1]]
             rest == [j \in to .. (Len(h) - 1) |-> h[j + 1]]
  <2>1. st = [log |-> log, n_prom |-> prom,
              ld |-> ld, trim |-> tr, snapshot |-> snapshot,
              stopsign |-> stopsign, next_log_key |-> Len(h)]
    BY <1>3 DEF Image
  <2>2. DeleteRange(log, 0, to) = rest
    <3>1. {j \in DOMAIN log : j < 0 \/ j >= to} = to .. (Len(h) - 1)
      BY <1>0
    <3>2. \A j \in to .. (Len(h) - 1) : log[j] = h[j + 1]
      BY <1>0
    <3> HIDE DEF log
    <3> QED
      BY <3>1, <3>2 DEF DeleteRange
  <2>3. st.log = log
    BY <2>1
  <2> HIDE DEF st, log, rest
  <2>4. st1 = [st EXCEPT !.log = rest]
    BY <1>3, <2>2, <2>3 DEF trim, db_trim
  <2> HIDE DEF st1
  <2>5. st2 = [st1 EXCEPT !.trim = to]
    BY <1>3 DEF set_compacted_idx
  <2> HIDE DEF st2, st3
  <2>6. st3 = [log |-> rest, n_prom |-> prom,
               ld |-> ld, trim |-> to, snapshot |-> snap,
               stopsign |-> stopsign, next_log_key |-> Len(h)]
    BY <1>1, <2>1, <2>4, <2>5
  <2> QED
    BY <1>3, <2>6 DEF Image, rest
<1> QED
  BY <1>2, <1>3 DEF Backends

-----------------------------------------------------------------------------
\* Caches and histories.

\* Entries are distinct, so there is room for all of them.
LEMMA Fits ==
  ASSUME NEW s \in Seq(Entries), Distinct(s)
  PROVE  Len(s) \in Nat /\ Len(s) <= MaxEntries
<1>1. MaxEntries \in Nat /\ Len(s) \in Nat
  BY StorageAssumption
<1>2. s \in Injection(1 .. Len(s), Entries)
  BY DEF Distinct, Injection, IsInjective
<1>3. IsFiniteSet(Entries) /\ Cardinality(Entries) = MaxEntries
  BY <1>1, FS_Interval DEF Entries
<1>4. Cardinality(1 .. Len(s)) <= Cardinality(Entries)
  BY <1>2, <1>3, FS_Injection
<1>5. Cardinality(1 .. Len(s)) = Len(s)
  <2>1. 1 \in Int /\ Len(s) \in Int
    BY <1>1
  <2>2. Cardinality(1 .. Len(s)) = IF 1 > Len(s) THEN 0 ELSE Len(s) - 1 + 1
    BY <2>1, FS_Interval
  <2> QED
    BY <1>1, <2>2
<1> QED
  BY <1>1, <1>3, <1>4, <1>5

\* The indices of a valid cache are bounded, and the history fits.
LEMMA ValidFits ==
  ASSUME NEW c, NEW h, Valid(c, h)
  PROVE  /\ h \in Seq(Entries) /\ c.batched_entries \in Seq(Entries)
         /\ Len(h) \in Nat /\ Len(h) + Len(c.batched_entries) <= MaxEntries
         /\ Len(h) <= MaxEntries /\ MaxEntries \in Nat
         /\ c.accepted_idx \in Nat /\ c.accepted_idx <= Len(h) + 1
         /\ c.decided_idx \in Nat
         /\ c.compacted_idx \in Nat /\ c.compacted_idx <= Len(h)
         /\ Distinct(h)
<1>1. c \in Caches /\ h \in Seq(Entries) /\ c.batched_entries \in Seq(Entries)
  BY DEF Valid, Caches
<1>2. h \o c.batched_entries \in Seq(Entries)
      /\ Len(h \o c.batched_entries) = Len(h) + Len(c.batched_entries)
  BY <1>1
<1>3. Len(h) + Len(c.batched_entries) <= MaxEntries
  BY <1>2, Fits DEF Valid
<1>4. Len(h) \in Nat /\ Len(c.batched_entries) \in Nat /\ MaxEntries \in Nat
  BY <1>1, StorageAssumption
<1>5. c.accepted_idx \in Nat /\ c.decided_idx \in Nat /\ c.compacted_idx \in Nat
  BY <1>1 DEF Caches
<1>6. c.accepted_idx = Len(h) \/ c.accepted_idx = Len(h) + 1
  BY <1>4 DEF Valid, StopLen
<1>7. c.compacted_idx <= Len(h)
  BY DEF Valid
<1>8. Distinct(h)
  <2> SUFFICES ASSUME NEW i \in 1 .. Len(h), NEW j \in 1 .. Len(h), h[i] = h[j] PROVE i = j
    BY DEF Distinct
  <2> DEFINE g == h \o c.batched_entries
  <2>1. i \in 1 .. Len(g) /\ j \in 1 .. Len(g) /\ g[i] = h[i] /\ g[j] = h[j]
    BY <1>1, <1>4
  <2>2. Distinct(g)
    BY DEF Valid
  <2> HIDE DEF g
  <2> QED
    BY <2>1, <2>2 DEF Distinct
<1> QED
  BY <1>1, <1>3, <1>4, <1>5, <1>6, <1>7, <1>8

\* An empty batch adds nothing.
LEMMA NoBatch ==
  ASSUME NEW h \in Seq(Entries)
  PROVE  h \o <<>> = h
  OBVIOUS

\* The decided index without the stop sign is an index: it is taken back by one
\* only where the stop sign lies behind the log.
LEMMA CompactIndex ==
  ASSUME NEW c, NEW h, Valid(c, h), NEW idx \in Nat
  PROVE  CompactTo(c, idx) \in Nat
<1>0. /\ Len(h) \in Nat /\ Len(h) <= MaxEntries /\ MaxEntries \in Nat
      /\ c.accepted_idx \in Nat /\ c.accepted_idx <= Len(h) + 1 /\ c.decided_idx \in Nat
  BY ValidFits
<1>1. CASE stopsign_is_decided(c)
  <2>1. c.decided_idx = Len(h) + 1
    BY <1>0, <1>1 DEF stopsign_is_decided, Valid, StopLen
  <2>2. 1 <= c.decided_idx /\ c.decided_idx <= MaxEntries + 2 /\ 1 \in Nat
    BY <1>0, <2>1
  <2>3. Sub(c.decided_idx, 1) = c.decided_idx - 1
    BY <1>0, <2>2, SubFits
  <2> QED
    BY <1>0, <1>1, <2>2, <2>3 DEF CompactTo, get_decided_idx_without_stopsign
<1>2. CASE ~stopsign_is_decided(c)
  BY <1>0, <1>2 DEF CompactTo, get_decided_idx_without_stopsign
<1> QED
  BY <1>1, <1>2

-----------------------------------------------------------------------------
\* What the setters do to an image.

WithPromise(st, x)  == [st EXCEPT !.n_prom = x]
WithStopsign(st, x) == [st EXCEPT !.stopsign = x]
WithDecided(st, x)  == [st EXCEPT !.ld = x]

\* The image with one part replaced.
LEMMA ImageSet ==
  ASSUME NEW b \in Backends, NEW k, NEW h, NEW prom, NEW ld, NEW tr,
         NEW snapshot, NEW stopsign, NEW st,
         st = Image(b, k, h, prom, ld, tr, snapshot, stopsign)
  PROVE  /\ \A x : WithPromise(st, x)
                     = Image(b, k, h, x, ld, tr, snapshot, stopsign)
         /\ \A x : WithStopsign(st, x)
                     = Image(b, k, h, prom, ld, tr, snapshot, x)
         /\ \A y \in Nat : WithDecided(st, y)
                     = Image(b, k, h, prom, y, tr, snapshot, stopsign)
         /\ st.snapshot = snapshot /\ st.stopsign = stopsign /\ st.n_prom = prom
<1>a. ASSUME NEW x, NEW y \in Nat
      PROVE  /\ [st EXCEPT !.n_prom = x]
                  = Image(b, k, h, x, ld, tr, snapshot, stopsign)
             /\ [st EXCEPT !.stopsign = x]
                  = Image(b, k, h, prom, ld, tr, snapshot, x)
             /\ [st EXCEPT !.ld = y]
                  = Image(b, k, h, prom, y, tr, snapshot, stopsign)
             /\ st.snapshot = snapshot /\ st.stopsign = stopsign /\ st.n_prom = prom
  <2>0. OrZero(y) = y
    BY NoneAssumption DEF OrZero
  <2>1. CASE b = "memory"
    <3> DEFINE log == SubSeq(h, k + 1, Len(h))
               l == OrZero(ld)
    <3>1. st = [log |-> log, n_prom |-> prom,
                ld |-> l, trimmed_idx |-> k, compacted_idx |-> k,
                snapshot |-> snapshot, stopsign |-> stopsign]
      BY <2>1 DEF Image
    <3>2. ASSUME NEW p, NEW z, NEW s
          PROVE  Image(b, k, h, p, z, tr, snapshot, s)
                   = [log |-> log, n_prom |-> p,
                      ld |-> OrZero(z), trimmed_idx |-> k, compacted_idx |-> k,
                      snapshot |-> snapshot, stopsign |-> s]
      BY <2>1 DEF Image
    <3> HIDE DEF log, l
    <3>3. [st EXCEPT !.n_prom = x]
                       = Image(b, k, h, x, ld, tr, snapshot, stopsign)
      <4> DEFINE d == [st EXCEPT !.n_prom = x]
      <4>1. d = [st EXCEPT !.n_prom = x]
        OBVIOUS
      <4> HIDE DEF d
      <4>2. d = [log |-> log, n_prom |-> x,
                 ld |-> l, trimmed_idx |-> k, compacted_idx |-> k,
                 snapshot |-> snapshot, stopsign |-> stopsign]
        BY <3>1, <4>1
      <4> QED
        BY <3>2, <4>2 DEF d, l
    <3>4. [st EXCEPT !.stopsign = x]
                       = Image(b, k, h, prom, ld, tr, snapshot, x)
      <4> DEFINE d == [st EXCEPT !.stopsign = x]
      <4>1. d = [st EXCEPT !.stopsign = x]
        OBVIOUS
      <4> HIDE DEF d
      <4>2. d = [log |-> log, n_prom |-> prom,
                 ld |-> l, trimmed_idx |-> k, compacted_idx |-> k,
                 snapshot |-> snapshot, stopsign |-> x]
        BY <3>1, <4>1
      <4> QED
        BY <3>2, <4>2 DEF d, l
    <3>5. [st EXCEPT !.ld = y]
                       = Image(b, k, h, prom, y, tr, snapshot, stopsign)
      <4> DEFINE d == [st EXCEPT !.ld = y]
      <4>1. d = [st EXCEPT !.ld = y]
        OBVIOUS
      <4> HIDE DEF d
      <4>2. d = [log |-> log, n_prom |-> prom,
                 ld |-> y, trimmed_idx |-> k, compacted_idx |-> k,
                 snapshot |-> snapshot, stopsign |-> stopsign]
        BY <3>1, <4>1
      <4> QED
        BY <2>0, <3>2, <4>2 DEF d
    <3>7. st.snapshot = snapshot /\ st.stopsign = stopsign /\ st.n_prom = prom
      BY <3>1
    <3> QED
      BY <3>3, <3>4, <3>5, <3>7
  <2>2. CASE b = "persistent"
    <3> DEFINE log == [j \in k .. (Len(h) - 1) |-> h[j + 1]]
               n == Len(h)
    <3>1. st = [log |-> log, n_prom |-> prom, ld |-> ld,
                trim |-> tr, snapshot |-> snapshot,
                stopsign |-> stopsign, next_log_key |-> n]
      BY <2>2 DEF Image
    <3>2. ASSUME NEW p, NEW z, NEW s
          PROVE  Image(b, k, h, p, z, tr, snapshot, s)
                   = [log |-> log, n_prom |-> p, ld |-> z,
                      trim |-> tr, snapshot |-> snapshot,
                      stopsign |-> s, next_log_key |-> n]
      BY <2>2 DEF Image
    <3> HIDE DEF log, n
    <3>3. [st EXCEPT !.n_prom = x]
                       = Image(b, k, h, x, ld, tr, snapshot, stopsign)
      <4> DEFINE d == [st EXCEPT !.n_prom = x]
      <4>1. d = [st EXCEPT !.n_prom = x]
        OBVIOUS
      <4> HIDE DEF d
      <4>2. d = [log |-> log, n_prom |-> x, ld |-> ld,
                 trim |-> tr, snapshot |-> snapshot,
                 stopsign |-> stopsign, next_log_key |-> n]
        BY <3>1, <4>1
      <4> QED
        BY <3>2, <4>2 DEF d
    <3>4. [st EXCEPT !.stopsign = x]
                       = Image(b, k, h, prom, ld, tr, snapshot, x)
      <4> DEFINE d == [st EXCEPT !.stopsign = x]
      <4>1. d = [st EXCEPT !.stopsign = x]
        OBVIOUS
      <4> HIDE DEF d
      <4>2. d = [log |-> log, n_prom |-> prom, ld |-> ld,
                 trim |-> tr, snapshot |-> snapshot,
                 stopsign |-> x, next_log_key |-> n]
        BY <3>1, <4>1
      <4> QED
        BY <3>2, <4>2 DEF d
    <3>5. [st EXCEPT !.ld = y]
                       = Image(b, k, h, prom, y, tr, snapshot, stopsign)
      <4> DEFINE d == [st EXCEPT !.ld = y]
      <4>1. d = [st EXCEPT !.ld = y]
        OBVIOUS
      <4> HIDE DEF d
      <4>2. d = [log |-> log, n_prom |-> prom, ld |-> y,
                 trim |-> tr, snapshot |-> snapshot,
                 stopsign |-> stopsign, next_log_key |-> n]
        BY <3>1, <4>1
      <4> QED
        BY <3>2, <4>2 DEF d
    <3>7. st.snapshot = snapshot /\ st.stopsign = stopsign /\ st.n_prom = prom
      BY <3>1
    <3> QED
      BY <3>3, <3>4, <3>5, <3>7
  <2> QED
    BY <2>1, <2>2 DEF Backends
<1>b. ASSUME NEW x, NEW y \in Nat
      PROVE  /\ WithPromise(st, x)
                  = Image(b, k, h, x, ld, tr, snapshot, stopsign)
             /\ WithStopsign(st, x)
                  = Image(b, k, h, prom, ld, tr, snapshot, x)
             /\ WithDecided(st, y)
                  = Image(b, k, h, prom, y, tr, snapshot, stopsign)
             /\ st.snapshot = snapshot /\ st.stopsign = stopsign /\ st.n_prom = prom
  BY <1>a DEF WithPromise, WithStopsign, WithDecided
<1>c. 0 \in Nat
  OBVIOUS
<1> QED
  BY <1>b, <1>c

-----------------------------------------------------------------------------
\* What an operation of InternalStorage does to cache, history and snapshot,
\* whichever the back-end.

Batched(c, x)       == [c EXCEPT !.batched_entries = x]
BatchedIn(s, x)     == [s EXCEPT !.cache.batched_entries = x]
Unbatched(c)        == [c EXCEPT !.batched_entries = <<>>]
Promised(c, ballot) == [c EXCEPT !.promise = ballot]
DecidedTo(c, idx)   == [c EXCEPT !.decided_idx = idx]
Stopped(c, ss) ==
  [c EXCEPT !.accepted_idx = CASE ss # None /\ c.stopsign = None -> @ + 1
                               [] ss = None /\ c.stopsign # None -> Sub(@, 1)
                               [] OTHER -> @,
            !.stopsign = ss]
Flushed(c) ==
  [c EXCEPT !.batched_entries = <<>>, !.accepted_idx = @ + Len(c.batched_entries)]

\* Fields of a cache after an update.
LEMMA CacheFields ==
  ASSUME NEW c \in Caches, NEW x
  PROVE  LET d == [c EXCEPT !.batched_entries = x]
         IN /\ d.promise = c.promise
            /\ d.decided_idx = c.decided_idx /\ d.compacted_idx = c.compacted_idx
            /\ d.stopsign = c.stopsign /\ d.accepted_idx = c.accepted_idx
            /\ d.batched_entries = x
  BY DEF Caches

\* Entries go into the batch.
LEMMA BatchGrown ==
  ASSUME NEW b \in Backends, NEW s, NEW c \in Caches, NEW h, NEW snap, NEW x,
         Held(b, s, c, h, snap)
  PROVE  Held(b, BatchedIn(s, x), Batched(c, x), h, snap)
<1>1. PICK ld, tr \in Options :
        /\ OrZero(ld) = c.decided_idx /\ OrZero(tr) = c.compacted_idx
        /\ s = [cache   |-> c,
                storage |-> Image(b, c.compacted_idx, h, c.promise, ld,
                                  tr, snap, c.stopsign)]
  BY DEF Held
<1> DEFINE d == [c EXCEPT !.batched_entries = x]
           st == Image(b, c.compacted_idx, h, c.promise, ld, tr, snap, c.stopsign)
           s2 == [s EXCEPT !.cache.batched_entries = x]
<1>2. /\ d.promise = c.promise
      /\ d.decided_idx = c.decided_idx /\ d.compacted_idx = c.compacted_idx
      /\ d.stopsign = c.stopsign
  BY CacheFields
<1>3. s = [cache |-> c, storage |-> st]
  BY <1>1
<1>4. s2 = [s EXCEPT !.cache = d]
  BY <1>3
<1> HIDE DEF st, d, s2
<1>5. s2 = [cache |-> d, storage |-> st]
  BY <1>3, <1>4
<1>6. s2 = [cache   |-> d,
            storage |-> Image(b, d.compacted_idx, h, d.promise, ld,
                              tr, snap, d.stopsign)]
  BY <1>2, <1>5 DEF st
<1>7. Held(b, s2, d, h, snap)
  BY <1>1, <1>2, <1>6 DEF Held
<1> QED
  BY <1>7 DEF d, s2, Batched, BatchedIn

\* flush_batch: the batch goes to the back-end.
LEMMA BatchFlushed ==
  ASSUME NEW b \in Backends, NEW s, NEW c, NEW h, NEW snap,
         Valid(c, h), Held(b, s, c, h, snap)
  PROVE  Held(b, flush_batch(b, s), Flushed(c), h \o c.batched_entries, snap)
<1>1. PICK ld, tr \in Options :
        /\ OrZero(ld) = c.decided_idx /\ OrZero(tr) = c.compacted_idx
        /\ s = [cache   |-> c,
                storage |-> Image(b, c.compacted_idx, h, c.promise, ld,
                                  tr, snap, c.stopsign)]
  BY DEF Held
<1> DEFINE d == Flushed(c)
           batch == c.batched_entries
           g == h \o batch
           st == Image(b, c.compacted_idx, h, c.promise, ld, tr, snap, c.stopsign)
           st2 == append_entries(b, st, batch)
           s1 == [s EXCEPT !.cache.batched_entries = <<>>]
<1>0. c \in Caches /\ h \in Seq(Entries) /\ batch \in Seq(Entries)
      /\ c.compacted_idx \in Nat /\ c.compacted_idx <= Len(h)
  BY ValidFits DEF Valid
<1>2. /\ d.promise = c.promise
      /\ d.decided_idx = c.decided_idx /\ d.compacted_idx = c.compacted_idx
      /\ d.stopsign = c.stopsign
  BY <1>0 DEF Caches, Flushed
<1>3. st2 = Image(b, c.compacted_idx, g, c.promise, ld, tr, snap, c.stopsign)
  BY <1>0, EntriesAppended
<1>4. s = [cache |-> c, storage |-> st]
  BY <1>1
<1> HIDE DEF st, st2, g
<1>5. s.cache = c /\ s.storage = st
  BY <1>4
<1>6. s1.cache = [c EXCEPT !.batched_entries = <<>>] /\ s1.storage = st
  BY <1>4
<1>7. flush_batch(b, s) = append_entries_without_batching(b, s1, batch)
  BY <1>5 DEF flush_batch
<1> HIDE DEF s1
<1>8. flush_batch(b, s) = [cache |-> [s1.cache EXCEPT !.accepted_idx = @ + Len(batch)],
                           storage |-> append_entries(b, s1.storage, batch)]
  BY <1>7 DEF append_entries_without_batching
<1>9. [[c EXCEPT !.batched_entries = <<>>] EXCEPT !.accepted_idx = @ + Len(batch)] = d
  BY DEF Flushed
<1>10. flush_batch(b, s) = [cache |-> d, storage |-> st2]
  BY <1>6, <1>8, <1>9 DEF st2
<1> HIDE DEF d
<1>11. flush_batch(b, s)
         = [cache   |-> d,
            storage |-> Image(b, d.compacted_idx, g, d.promise, ld,
                              tr, snap, d.stopsign)]
  BY <1>2, <1>3, <1>10
<1>12. Held(b, flush_batch(b, s), d, g, snap)
  BY <1>1, <1>2, <1>11, SMTT(30) DEF Held
<1> QED
  BY <1>12 DEF d, g

\* flush_batch: the batch is the end of the history.
LEMMA FlushedValid ==
  ASSUME NEW c, NEW h, Valid(c, h)
  PROVE  Valid(Flushed(c), h \o c.batched_entries)
<1> DEFINE d == Flushed(c)
           batch == c.batched_entries
           g == h \o batch
<1>0. c \in Caches /\ h \in Seq(Entries) /\ batch \in Seq(Entries)
  BY ValidFits DEF Valid
<1>1. /\ d \in Caches
      /\ d.decided_idx = c.decided_idx /\ d.compacted_idx = c.compacted_idx
      /\ d.stopsign = c.stopsign /\ d.batched_entries = <<>>
      /\ d.accepted_idx = c.accepted_idx + Len(batch)
  <2>0. c.accepted_idx \in Nat /\ Len(batch) \in Nat
    BY <1>0 DEF Caches
  <2> DEFINE acc == c.accepted_idx + Len(batch)
  <2>1. acc \in Nat /\ <<>> \in Seq(Entries)
    BY <2>0
  <2>2. d = [c EXCEPT !.batched_entries = <<>>, !.accepted_idx = acc]
    BY DEF Flushed
  <2> HIDE DEF d, acc
  <2>3. /\ d \in Caches
        /\ d.decided_idx = c.decided_idx /\ d.compacted_idx = c.compacted_idx
        /\ d.stopsign = c.stopsign /\ d.batched_entries = <<>> /\ d.accepted_idx = acc
    BY <1>0, <2>1, <2>2 DEF Caches
  <2> QED
    BY <2>3 DEF acc
<1>2. g \in Seq(Entries) /\ Len(g) = Len(h) + Len(batch) /\ g \o <<>> = g
  BY <1>0
<1>3. /\ c.accepted_idx = Len(h) + StopLen(c.stopsign) /\ StopLen(c.stopsign) \in Nat
      /\ c.accepted_idx \in Nat /\ Len(h) \in Nat /\ Len(batch) \in Nat
      /\ c.compacted_idx <= Len(h) /\ c.compacted_idx \in Nat
      /\ Distinct(g)
  BY <1>0 DEF Valid, StopLen, Caches
<1> HIDE DEF d, g, batch
<1>4. d.accepted_idx = Len(g) + StopLen(d.stopsign)
  BY <1>1, <1>2, <1>3
<1>6. d.compacted_idx <= Len(g)
  BY <1>1, <1>2, <1>3
<1>7. Distinct(g \o d.batched_entries)
  BY <1>1, <1>2, <1>3
<1>8. Valid(d, g)
  BY <1>1, <1>2, <1>4, <1>6, <1>7 DEF Valid
<1> QED
  BY <1>8 DEF d, g, batch

\* set_promise.
LEMMA PromiseSet ==
  ASSUME NEW b \in Backends, NEW s, NEW c \in Caches, NEW h, NEW snap, NEW ballot \in Nat,
         Held(b, s, c, h, snap)
  PROVE  Held(b, set_promise(s, ballot), Promised(c, ballot), h, snap)
<1>1. PICK ld, tr \in Options :
        /\ OrZero(ld) = c.decided_idx /\ OrZero(tr) = c.compacted_idx
        /\ s = [cache   |-> c,
                storage |-> Image(b, c.compacted_idx, h, c.promise, ld,
                                  tr, snap, c.stopsign)]
  BY DEF Held
<1> DEFINE d == [c EXCEPT !.promise = ballot]
           st == Image(b, c.compacted_idx, h, c.promise, ld, tr, snap, c.stopsign)
           st2 == WithPromise(st, ballot)
           s2 == set_promise(s, ballot)
<1>2. /\ d.promise = ballot
      /\ d.decided_idx = c.decided_idx /\ d.compacted_idx = c.compacted_idx
      /\ d.stopsign = c.stopsign
  BY DEF Caches
<1>3. st2 = Image(b, c.compacted_idx, h, ballot, ld, tr, snap, c.stopsign)
  <2>1. st = Image(b, c.compacted_idx, h, c.promise, ld, tr, snap, c.stopsign)
    OBVIOUS
  <2> HIDE DEF st
  <2> QED
    BY <2>1, ImageSet
<1>4. s = [cache |-> c, storage |-> st]
  BY <1>1
<1> HIDE DEF st
<1>5. s2 = [s EXCEPT !.cache = d, !.storage = st2]
  BY <1>4 DEF set_promise, WithPromise
<1> HIDE DEF d, st2, s2
<1>6. s2 = [cache |-> d, storage |-> st2]
  BY <1>4, <1>5
<1>7. s2 = [cache   |-> d,
            storage |-> Image(b, d.compacted_idx, h, d.promise, ld,
                              tr, snap, d.stopsign)]
  BY <1>2, <1>3, <1>6
<1>8. Held(b, s2, d, h, snap)
  BY <1>1, <1>2, <1>7 DEF Held
<1> QED
  BY <1>8 DEF d, s2, Promised

\* set_decided_idx.
LEMMA DecidedSet ==
  ASSUME NEW b \in Backends, NEW s, NEW c \in Caches, NEW h, NEW snap, NEW idx \in Nat,
         Held(b, s, c, h, snap)
  PROVE  Held(b, set_decided_idx(s, idx), DecidedTo(c, idx), h, snap)
<1>1. PICK ld, tr \in Options :
        /\ OrZero(ld) = c.decided_idx /\ OrZero(tr) = c.compacted_idx
        /\ s = [cache   |-> c,
                storage |-> Image(b, c.compacted_idx, h, c.promise, ld,
                                  tr, snap, c.stopsign)]
  BY DEF Held
<1> DEFINE d == [c EXCEPT !.decided_idx = idx]
           st == Image(b, c.compacted_idx, h, c.promise, ld, tr, snap, c.stopsign)
           st2 == WithDecided(st, idx)
           s2 == set_decided_idx(s, idx)
<1>2. /\ d.promise = c.promise
      /\ d.decided_idx = idx /\ d.compacted_idx = c.compacted_idx
      /\ d.stopsign = c.stopsign
  BY DEF Caches
<1>3. st2 = Image(b, c.compacted_idx, h, c.promise, idx, tr, snap, c.stopsign)
  <2>1. st = Image(b, c.compacted_idx, h, c.promise, ld, tr, snap, c.stopsign)
    OBVIOUS
  <2> HIDE DEF st
  <2> QED
    BY <2>1, ImageSet
<1>4. s = [cache |-> c, storage |-> st]
  BY <1>1
<1> HIDE DEF st
<1>5. s2 = [s EXCEPT !.cache = d, !.storage = st2]
  BY <1>4 DEF set_decided_idx, WithDecided
<1>a. OrZero(idx) = idx /\ idx \in Options
  BY NoneAssumption DEF OrZero, Options
<1> HIDE DEF d, st2, s2
<1>6. s2 = [cache |-> d, storage |-> st2]
  BY <1>4, <1>5
<1>7. s2 = [cache   |-> d,
            storage |-> Image(b, d.compacted_idx, h, d.promise, idx,
                              tr, snap, d.stopsign)]
  BY <1>2, <1>3, <1>6
<1>8. Held(b, s2, d, h, snap)
  BY <1>1, <1>2, <1>7, <1>a DEF Held
<1> QED
  BY <1>8 DEF d, s2, DecidedTo
\* set_stopsign.
LEMMA StopsignSet ==
  ASSUME NEW b \in Backends, NEW s, NEW c \in Caches, NEW h, NEW snap, NEW ss,
         Held(b, s, c, h, snap)
  PROVE  Held(b, set_stopsign(s, ss), Stopped(c, ss), h, snap)
<1>1. PICK ld, tr \in Options :
        /\ OrZero(ld) = c.decided_idx /\ OrZero(tr) = c.compacted_idx
        /\ s = [cache   |-> c,
                storage |-> Image(b, c.compacted_idx, h, c.promise, ld,
                                  tr, snap, c.stopsign)]
  BY DEF Held
<1> DEFINE d == Stopped(c, ss)
           st == Image(b, c.compacted_idx, h, c.promise, ld, tr, snap, c.stopsign)
           st2 == WithStopsign(st, ss)
           s2 == set_stopsign(s, ss)
<1>2. /\ d.promise = c.promise
      /\ d.decided_idx = c.decided_idx /\ d.compacted_idx = c.compacted_idx
      /\ d.stopsign = ss
  BY DEF Caches, Stopped
<1>3. st2 = Image(b, c.compacted_idx, h, c.promise, ld, tr, snap, ss)
  <2>1. st = Image(b, c.compacted_idx, h, c.promise, ld, tr, snap, c.stopsign)
    OBVIOUS
  <2> HIDE DEF st
  <2> QED
    BY <2>1, ImageSet
<1>4. s = [cache |-> c, storage |-> st]
  BY <1>1
<1> HIDE DEF st
<1>5. s2 = [s EXCEPT !.cache = d, !.storage = st2]
  BY <1>4 DEF set_stopsign, WithStopsign, Stopped
<1> HIDE DEF d, st2, s2
<1>6. s2 = [cache |-> d, storage |-> st2]
  BY <1>4, <1>5
<1>7. s2 = [cache   |-> d,
            storage |-> Image(b, d.compacted_idx, h, d.promise, ld,
                              tr, snap, d.stopsign)]
  BY <1>2, <1>3, <1>6
<1>8. Held(b, s2, d, h, snap)
  BY <1>1, <1>2, <1>7 DEF Held
<1> QED
  BY <1>8 DEF d, s2

\* open() finds the next key again.
LEMMA Opened ==
  ASSUME NEW h \in Seq(Entries), NEW k \in Nat, k <= Len(h), NEW prom, NEW ld,
         NEW tr, OrZero(tr) = k, NEW snap, NEW stopsign
  PROVE  LET st == Image("persistent", k, h, prom, ld, tr, snap, stopsign)
         IN open(st) = st
<1> DEFINE st == Image("persistent", k, h, prom, ld, tr, snap, stopsign)
           log == [j \in k .. (Len(h) - 1) |-> h[j + 1]]
           keys == DOMAIN st.log
           next == IF keys = {} THEN OrZero(st.trim)
                   ELSE (CHOOSE i \in keys : \A j \in keys : j <= i) + 1
<1>0. Len(h) \in Nat
  OBVIOUS
<1>1. st = [log |-> log, n_prom |-> prom,
            ld |-> ld, trim |-> tr, snapshot |-> snap,
            stopsign |-> stopsign, next_log_key |-> Len(h)]
  BY DEF Image
<1>2. keys = k .. (Len(h) - 1) /\ st.trim = tr
  BY <1>1
<1>3. open(st) = [st EXCEPT !.next_log_key = next]
  BY DEF open
<1> HIDE DEF keys, st
<1>4. next = Len(h)
  <2>1. CASE k = Len(h)
    <3>1. keys = {}
      BY <1>0, <1>2, <2>1
    <3> QED
      BY <1>2, <2>1, <3>1
  <2>2. CASE k < Len(h)
    <3>1. Len(h) - 1 \in keys /\ \A i \in keys : (\A j \in keys : j <= i) <=> i = Len(h) - 1
      BY <1>0, <1>2, <2>2
    <3>2. (CHOOSE i \in keys : \A j \in keys : j <= i) = Len(h) - 1
      BY <3>1
    <3>3. keys # {}
      BY <3>1
    <3> QED
      <4> DEFINE top == CHOOSE i \in keys : \A j \in keys : j <= i
      <4>1. next = top + 1
        BY <3>3
      <4>2. top = Len(h) - 1
        BY <3>2
      <4> HIDE DEF next, top
      <4> QED
        BY <1>0, <4>1, <4>2
  <2> QED
    BY <1>0, <2>1, <2>2
<1> HIDE DEF next
<1>5. open(st) = [st EXCEPT !.next_log_key = Len(h)]
  BY <1>3, <1>4
<1> DEFINE d == open(st)
<1> HIDE DEF d, log
<1>6. d = [st EXCEPT !.next_log_key = Len(h)]
  BY <1>5 DEF d
<1>7. d = [log |-> log, n_prom |-> prom,
            ld |-> ld, trim |-> tr, snapshot |-> snap,
            stopsign |-> stopsign, next_log_key |-> Len(h)]
  BY <1>1, <1>6
<1>8. open(st) = st
  BY <1>1, <1>7 DEF d
<1> QED
  BY <1>8 DEF st

\* load_cache gives back the cache, without the batch.
LEMMA CacheLoaded ==
  ASSUME NEW b \in Backends, NEW c, NEW h, Valid(c, h), NEW snap,
         NEW ld \in Options, NEW tr \in Options,
         OrZero(ld) = c.decided_idx, OrZero(tr) = c.compacted_idx
  PROVE  load_cache(b, Image(b, c.compacted_idx, h, c.promise, ld, tr,
                             snap, c.stopsign))
           = Unbatched(c)
<1> DEFINE k == c.compacted_idx
           st == Image(b, k, h, c.promise, ld, tr, snap, c.stopsign)
<1>0. /\ c \in Caches /\ h \in Seq(Entries) /\ Len(h) \in Nat /\ Len(h) <= MaxEntries
      /\ MaxEntries \in Nat /\ k \in Nat /\ k <= Len(h)
      /\ c.accepted_idx = Len(h) + StopLen(c.stopsign)
      /\ c.promise \in Nat /\ c.decided_idx \in Nat
  BY ValidFits DEF Valid, Caches
<1>1. \A x \in Nat : OrZero(x) = x
  BY NoneAssumption DEF OrZero
<1>2. /\ st.n_prom = c.promise /\ st.stopsign = c.stopsign
      /\ OrZero(st.ld) = c.decided_idx
  <2>1. CASE b = "memory"
    BY <1>0, <1>1, <2>1 DEF Image
  <2>2. CASE b = "persistent"
    BY <2>2 DEF Image
  <2> QED
    BY <2>1, <2>2 DEF Backends
<1>3. stored_compacted_idx(b, st) = k
  <2>1. CASE b = "memory"
    BY <2>1 DEF Image, stored_compacted_idx
  <2>2. CASE b = "persistent"
    BY <2>2 DEF Image, stored_compacted_idx
  <2> QED
    BY <2>1, <2>2 DEF Backends
<1>4. get_log_len(b, st) = Len(h) - k
  <2>1. CASE b = "memory"
    <3>1. st.log = SubSeq(h, k + 1, Len(h))
      BY <2>1 DEF Image
    <3> HIDE DEF k, st
    <3>2. Len(SubSeq(h, k + 1, Len(h))) = Len(h) - k
      <4>1. Len(h) <= Len(h)
        BY <1>0
      <4> QED
        BY <1>0, <4>1, PartOf
    <3> QED
      BY <2>1, <3>1, <3>2 DEF get_log_len
  <2>2. CASE b = "persistent"
    <3>1. st.next_log_key = Len(h)
      BY <2>2 DEF Image
    <3> HIDE DEF k, st
    <3>2. Len(h) <= MaxEntries + 2
      BY <1>0
    <3>3. Sub(Len(h), k) = Len(h) - k
      BY <1>0, <3>2, SubFits
    <3> QED
      BY <1>3, <2>2, <3>1, <3>3 DEF get_log_len
  <2> QED
    BY <2>1, <2>2 DEF Backends
<1>5. Add(get_log_len(b, st), stored_compacted_idx(b, st)) + (IF st.stopsign # None THEN 1 ELSE 0)
        = c.accepted_idx
  <2> HIDE DEF st, k
  <2>1. Add(Len(h) - k, k) = Len(h)
    <3>1. Len(h) - k \in Nat /\ (Len(h) - k) + k = Len(h) /\ Len(h) <= MaxEntries + 2
      BY <1>0
    <3> QED
      BY <1>0, <3>1, AddFits
  <2> QED
    BY <1>0, <1>2, <1>3, <1>4, <2>1 DEF StopLen
<1> HIDE DEF st
<1>6. load_cache(b, st) =
        [batched_entries |-> <<>>, promise |-> c.promise,
         decided_idx |-> c.decided_idx, compacted_idx |-> k, stopsign |-> c.stopsign,
         accepted_idx |-> c.accepted_idx]
  BY <1>0, <1>1, <1>2, <1>3, <1>5 DEF load_cache
<1> DEFINE d == Unbatched(c)
<1>7. d = [c EXCEPT !.batched_entries = <<>>]
  BY DEF Unbatched
<1> HIDE DEF d
<1>8. d = [batched_entries |-> <<>>, promise |-> c.promise,
           decided_idx |-> c.decided_idx, compacted_idx |-> c.compacted_idx,
           stopsign |-> c.stopsign, accepted_idx |-> c.accepted_idx]
  BY <1>0, <1>7 DEF Caches
<1>9. load_cache(b, st) = d
  BY <1>6, <1>8
<1> QED
  BY <1>9 DEF d, st

\* What a restart finds: the back-end as it was, and the cache without the
\* batch.
LEMMA Recovered ==
  ASSUME NEW b \in Backends, NEW s, NEW c, NEW h, NEW snap, Valid(c, h), Held(b, s, c, h, snap)
  PROVE  /\ s.cache = c
         /\ (IF b = "memory" THEN s.storage ELSE open(s.storage)) = s.storage
         /\ load_cache(b, s.storage) = Unbatched(c)
         /\ s.storage.n_prom = c.promise
<1>1. PICK ld, tr \in Options :
        /\ OrZero(ld) = c.decided_idx /\ OrZero(tr) = c.compacted_idx
        /\ s = [cache   |-> c,
                storage |-> Image(b, c.compacted_idx, h, c.promise, ld,
                                  tr, snap, c.stopsign)]
  BY DEF Held
<1> DEFINE st == Image(b, c.compacted_idx, h, c.promise, ld, tr, snap, c.stopsign)
<1>2. s.cache = c /\ s.storage = st
  BY <1>1
<1>3. load_cache(b, st) = Unbatched(c)
  BY <1>1, CacheLoaded
<1>4. st.n_prom = c.promise
  BY DEF Image, Backends
<1>5. b # "memory" => open(st) = st
  <2>0. h \in Seq(Entries) /\ c.compacted_idx \in Nat /\ c.compacted_idx <= Len(h)
    BY ValidFits
  <2>1. b # "memory" => b = "persistent"
    BY DEF Backends
  <2> QED
    BY <1>1, <2>0, <2>1, Opened
<1> HIDE DEF st
<1> QED
  BY <1>2, <1>3, <1>4, <1>5

\* A restart.
LEMMA Restarted ==
  ASSUME NEW b \in Backends, NEW s, NEW c, NEW h, NEW snap, Valid(c, h), Held(b, s, c, h, snap)
  PROVE  Held(b, start(b, IF b = "memory" THEN s.storage ELSE open(s.storage)),
              Unbatched(c), h, snap)
<1> DEFINE d == Unbatched(c)
           s1 == [s EXCEPT !.cache.batched_entries = <<>>]
<1>1. /\ s.cache = c
      /\ (IF b = "memory" THEN s.storage ELSE open(s.storage)) = s.storage
      /\ load_cache(b, s.storage) = d
      /\ s.storage.n_prom = c.promise
  BY Recovered
<1>2. c \in Caches /\ c.promise \in Nat
  BY DEF Valid, Caches
<1>a. d = [c EXCEPT !.batched_entries = <<>>]
  BY DEF Unbatched
<1>3. d \in Caches /\ d.promise = c.promise
  <2>1. <<>> \in Seq(Entries)
    OBVIOUS
  <2> HIDE DEF d
  <2> QED
    BY <1>2, <1>a, <2>1 DEF Caches
<1>4. Held(b, s1, d, h, snap)
  <2>1. Held(b, BatchedIn(s, <<>>), Batched(c, <<>>), h, snap)
    BY <1>2, BatchGrown
  <2> QED
    BY <2>1 DEF Unbatched, Batched, BatchedIn
<1>5. with(b, s.storage) = [cache |-> d, storage |-> s.storage]
  BY <1>1 DEF with
<1>6. s1 = [cache |-> d, storage |-> s.storage]
  <2>1. PICK st : s = [cache |-> c, storage |-> st]
    BY DEF Held
  <2>2. s1 = [s EXCEPT !.cache = d]
    BY <2>1 DEF Unbatched
  <2>3. s.storage = st
    BY <2>1
  <2> HIDE DEF s1, d
  <2> QED
    BY <2>1, <2>2, <2>3
<1> HIDE DEF s1
<1>7. Held(b, set_promise(s1, c.promise), Promised(d, c.promise), h, snap)
  BY <1>2, <1>3, <1>4, PromiseSet
<1>8. Promised(d, c.promise) = d
  <2> HIDE DEF d
  <2> DEFINE e == Promised(d, c.promise)
  <2>1. e = [d EXCEPT !.promise = c.promise]
    BY DEF Promised
  <2> HIDE DEF e
  <2>2. e = d
    BY <1>3, <2>1 DEF Caches
  <2> QED
    BY <2>2 DEF e
<1>9. start(b, s.storage) = set_promise(s1, c.promise)
  <2>1. OrZero(s.storage.n_prom) = c.promise
    BY <1>1, <1>2, NoneAssumption DEF OrZero
  <2> HIDE DEF d
  <2> QED
    BY <1>5, <1>6, <2>1 DEF start
<1> HIDE DEF d
<1>10. Held(b, start(b, s.storage), d, h, snap)
  BY <1>7, <1>8, <1>9
<1> QED
  BY <1>1, <1>10 DEF d

\* The snapshot that create_snapshot makes of the entries from k to to; an
\* index beyond the log adds nothing.
\* The snapshot that create_snapshot makes of the entries from k to to; an
\* index beyond the log adds nothing.
SnapshotOf(snap, h, k, to) ==
  LET delta == IF to <= Len(h) THEN SubSeq(h, k + 1, to) ELSE <<>>
  IN IF snap = None THEN delta ELSE snap \o delta

\* create_snapshot on an image.
LEMMA SnapshotMade ==
  ASSUME NEW b \in Backends, NEW h \in Seq(Entries), Len(h) <= MaxEntries,
         NEW k \in Nat, k <= Len(h), NEW prom, NEW ld, NEW tr,
         NEW snap, NEW stopsign, NEW to \in Nat, k <= to, to <= MaxEntries + 2, NEW s,
         s.storage = Image(b, k, h, prom, ld, tr, snap, stopsign),
         s.cache.compacted_idx = k
  PROVE  create_snapshot(b, s, to) = SnapshotOf(snap, h, k, to)
<1> DEFINE st == Image(b, k, h, prom, ld, tr, snap, stopsign)
           delta == IF to <= Len(h) THEN SubSeq(h, k + 1, to) ELSE <<>>
<1>1. get_entries(b, st, k, to) = delta
  <2>1. k <= k
    OBVIOUS
  <2> QED
    BY <2>1, EntriesRead
<1>2. st.snapshot = snap
  BY DEF Image, Backends
<1>3. s.storage = st
  OBVIOUS
<1> HIDE DEF st, delta
<1>4. create_snapshot(b, s, to) = IF snap = None THEN delta ELSE snap \o delta
  BY <1>1, <1>2, <1>3 DEF create_snapshot, create, merge
<1> QED
  BY <1>4 DEF SnapshotOf, delta

\* A snapshot is a sequence of entries.
LEMMA SnapshotTyped ==
  ASSUME NEW snap \in Snapshots, NEW h \in Seq(Entries), NEW k \in Nat, NEW to \in Nat, k <= to
  PROVE  SnapshotOf(snap, h, k, to) \in Seq(Entries)
<1> DEFINE delta == IF to <= Len(h) THEN SubSeq(h, k + 1, to) ELSE <<>>
<1>1. delta \in Seq(Entries)
  BY PartOf
<1> HIDE DEF delta
<1>2. (IF snap = None THEN delta ELSE snap \o delta) \in Seq(Entries)
  BY <1>1 DEF Snapshots
<1> QED
  BY <1>2 DEF SnapshotOf, delta

WithCompacted(c, to) == [c EXCEPT !.compacted_idx = to]

\* What setting the compacted index leaves alone.
LEMMA WithCompactedFields ==
  ASSUME NEW c \in Caches, NEW to \in Nat
  PROVE  /\ WithCompacted(c, to) \in Caches
         /\ WithCompacted(c, to).compacted_idx = to
         /\ WithCompacted(c, to).promise = c.promise
         /\ WithCompacted(c, to).decided_idx = c.decided_idx
         /\ WithCompacted(c, to).stopsign = c.stopsign
         /\ WithCompacted(c, to).accepted_idx = c.accepted_idx
         /\ WithCompacted(c, to).batched_entries = c.batched_entries
<1> DEFINE d == WithCompacted(c, to)
<1>1. d = [c EXCEPT !.compacted_idx = to]
  BY DEF WithCompacted
<1> HIDE DEF d
<1>2. /\ d \in Caches /\ d.compacted_idx = to
      /\ d.promise = c.promise
      /\ d.decided_idx = c.decided_idx /\ d.stopsign = c.stopsign
      /\ d.accepted_idx = c.accepted_idx /\ d.batched_entries = c.batched_entries
  BY <1>1 DEF Caches
<1> QED
  BY <1>2 DEF d

\* A compaction of either back-end and its cache.
LEMMA LogCompacted ==
  ASSUME NEW b \in Backends, NEW s, NEW c, NEW h, NEW snap, Valid(c, h), Held(b, s, c, h, snap),
         NEW to \in Nat, to > c.compacted_idx, to <= Len(h), NEW snap2
  PROVE  Held(b, Compact(b, s, to, snap2), WithCompacted(c, to), h, snap2)
<1>1. PICK ld, tr \in Options :
        /\ OrZero(ld) = c.decided_idx /\ OrZero(tr) = c.compacted_idx
        /\ s = [cache   |-> c,
                storage |-> Image(b, c.compacted_idx, h, c.promise, ld,
                                  tr, snap, c.stopsign)]
  BY DEF Held
<1> DEFINE d == WithCompacted(c, to)
           st == Image(b, c.compacted_idx, h, c.promise, ld, tr, snap, c.stopsign)
           st2 == write_compaction(b, st, to, snap2)
           s2 == Compact(b, s, to, snap2)
<1>0. /\ h \in Seq(Entries) /\ Len(h) \in Nat /\ Len(h) <= MaxEntries /\ MaxEntries \in Nat
      /\ c.compacted_idx \in Nat /\ c.compacted_idx <= Len(h) /\ c.compacted_idx <= to
      /\ to <= MaxEntries /\ c \in Caches
  BY ValidFits DEF Valid
<1>2. /\ d.promise = c.promise
      /\ d.decided_idx = c.decided_idx /\ d.compacted_idx = to
      /\ d.stopsign = c.stopsign
  BY <1>0, WithCompactedFields
<1>4. st2 = Image(b, to, h, c.promise, ld, to, snap2, c.stopsign)
  BY <1>0, CompactionWritten
<1>5. s.cache = c /\ s.storage = st
  BY <1>1
<1> HIDE DEF st
<1>6. s2 = [cache |-> d, storage |-> st2]
  BY <1>5 DEF Compact, WithCompacted
<1> HIDE DEF st2, d, s2
<1>7. s2 = [cache   |-> d,
            storage |-> Image(b, d.compacted_idx, h, d.promise, ld,
                              to, snap2, d.stopsign)]
  BY <1>2, <1>4, <1>6
<1>8. OrZero(to) = to /\ to \in Options
  BY NoneAssumption DEF OrZero, Options
<1>9. Held(b, s2, d, h, snap2)
  BY <1>1, <1>2, <1>7, <1>8 DEF Held
<1> QED
  BY <1>9 DEF d, s2

\* A compaction within the log keeps a cache valid.
LEMMA CompactedValid ==
  ASSUME NEW c, NEW h, Valid(c, h), NEW to \in Nat, to <= Len(h)
  PROVE  Valid(WithCompacted(c, to), h)
<1>1. c \in Caches
  BY DEF Valid
<1> QED
  BY <1>1, WithCompactedFields DEF Valid

\* try_trim.
LEMMA Trimmed ==
  ASSUME NEW b \in Backends, NEW s, NEW c, NEW h, NEW snap, Valid(c, h), Held(b, s, c, h, snap),
         NEW idx \in Nat,
         CompactTo(c, idx) > c.compacted_idx => CompactTo(c, idx) <= Len(h)
  PROVE  LET to == CompactTo(c, idx)
         IN Held(b, try_trim(b, s, idx),
                 IF to > c.compacted_idx THEN WithCompacted(c, to) ELSE c, h, snap)
<1> DEFINE to == CompactTo(c, idx)
<1>1. to \in Nat /\ (to > c.compacted_idx => to <= Len(h))
  BY CompactIndex
<1>2. s.cache = c /\ s.storage.snapshot = snap
  <2>1. PICK ld, tr \in Options :
          s = [cache   |-> c,
               storage |-> Image(b, c.compacted_idx, h, c.promise, ld,
                                 tr, snap, c.stopsign)]
    BY DEF Held
  <2>2. Image(b, c.compacted_idx, h, c.promise, ld, tr, snap, c.stopsign).snapshot = snap
    BY DEF Image
  <2> QED
    BY <2>1, <2>2
<1>3. try_trim(b, s, idx) = IF to > c.compacted_idx THEN Compact(b, s, to, snap) ELSE s
  BY <1>2 DEF try_trim
<1> HIDE DEF to
<1>4. CASE to > c.compacted_idx
  <2>1. Held(b, Compact(b, s, to, snap), WithCompacted(c, to), h, snap)
    BY <1>1, <1>4, LogCompacted
  <2>2. Held(b, try_trim(b, s, idx),
             IF to > c.compacted_idx THEN WithCompacted(c, to) ELSE c, h, snap)
    BY <1>3, <1>4, <2>1
  <2> QED
    BY <2>2 DEF to
<1>5. CASE ~(to > c.compacted_idx)
  <2>2. Held(b, try_trim(b, s, idx),
             IF to > c.compacted_idx THEN WithCompacted(c, to) ELSE c, h, snap)
    BY <1>3, <1>5
  <2> QED
    BY <2>2 DEF to
<1> QED
  BY <1>4, <1>5

\* try_snapshot.
LEMMA Snapshotted ==
  ASSUME NEW b \in Backends, NEW s, NEW c, NEW h, NEW snap, Valid(c, h), Held(b, s, c, h, snap),
         NEW idx \in Nat,
         CompactTo(c, idx) > c.compacted_idx => CompactTo(c, idx) <= Len(h)
  PROVE  LET to == CompactTo(c, idx)
         IN IF to > c.compacted_idx
            THEN Held(b, try_snapshot(b, s, idx), WithCompacted(c, to), h,
                      SnapshotOf(snap, h, c.compacted_idx, to))
            ELSE try_snapshot(b, s, idx) = s
<1> DEFINE to == CompactTo(c, idx)
<1>0. /\ h \in Seq(Entries) /\ Len(h) \in Nat /\ Len(h) <= MaxEntries /\ MaxEntries \in Nat
      /\ c.compacted_idx \in Nat /\ c.compacted_idx <= Len(h)
  BY ValidFits
<1>1. to \in Nat /\ (to > c.compacted_idx => to <= Len(h))
  BY CompactIndex
<1>2. PICK ld, tr \in Options :
          s = [cache   |-> c,
               storage |-> Image(b, c.compacted_idx, h, c.promise, ld,
                                 tr, snap, c.stopsign)]
    BY DEF Held
<1>3. s.cache = c
  BY <1>2
<1>4. try_snapshot(b, s, idx)
        = IF to > c.compacted_idx THEN Compact(b, s, to, create_snapshot(b, s, to)) ELSE s
  BY <1>3 DEF try_snapshot
<1> HIDE DEF to
<1>5. CASE to > c.compacted_idx
  <2>0. c.compacted_idx <= to /\ to <= MaxEntries + 2
    BY <1>0, <1>1, <1>5
  <2>1. create_snapshot(b, s, to) = SnapshotOf(snap, h, c.compacted_idx, to)
    <3>1. s.storage = Image(b, c.compacted_idx, h, c.promise, ld,
                            tr, snap, c.stopsign)
      BY <1>2
    <3> QED
      BY <1>0, <1>1, <1>3, <2>0, <3>1, SnapshotMade
  <2>2. Held(b, try_snapshot(b, s, idx), WithCompacted(c, to), h,
             SnapshotOf(snap, h, c.compacted_idx, to))
    BY <1>1, <1>4, <1>5, <2>1, LogCompacted
  <2> QED
    BY <1>5, <2>2 DEF to
<1>6. CASE ~(to > c.compacted_idx)
  <2>1. try_snapshot(b, s, idx) = s
    BY <1>4, <1>6
  <2> QED
    BY <1>6, <2>1 DEF to
<1> QED
  BY <1>5, <1>6

-----------------------------------------------------------------------------
\* Synchronisation of two logs.
-----------------------------------------------------------------------------
\* The caches that the operations leave are valid.

\* A new entry keeps the entries distinct.
LEMMA StillDistinct ==
  ASSUME NEW s \in Seq(Entries), Distinct(s), NEW e \in Entries, e \notin Range(s)
  PROVE  Distinct(s \o <<e>>)
<1>1. Len(s) \in Nat /\ \A i \in 1 .. Len(s) : s[i] # e
  BY DEF Range
<1> SUFFICES ASSUME NEW i \in 1 .. (Len(s) + 1), NEW j \in 1 .. (Len(s) + 1),
                    (s \o <<e>>)[i] = (s \o <<e>>)[j]
             PROVE  i = j
  BY DEF Distinct
<1>2. \A x \in 1 .. Len(s) : (s \o <<e>>)[x] = s[x]
  OBVIOUS
<1>3. (s \o <<e>>)[Len(s) + 1] = e
  OBVIOUS
<1> DEFINE t == s \o <<e>>
<1> HIDE DEF t
<1>4. t[i] = t[j] /\ (\A x \in 1 .. Len(s) : t[x] = s[x]) /\ t[Len(s) + 1] = e
  BY <1>2, <1>3 DEF t
<1>5. CASE i \in 1 .. Len(s) /\ j \in 1 .. Len(s)
  BY <1>4, <1>5 DEF Distinct
<1>6. CASE i \in 1 .. Len(s) /\ j = Len(s) + 1
  BY <1>1, <1>4, <1>6
<1>7. CASE i = Len(s) + 1 /\ j \in 1 .. Len(s)
  BY <1>1, <1>4, <1>7
<1>8. CASE i = Len(s) + 1 /\ j = Len(s) + 1
  BY <1>8
<1>9. (i \in 1 .. Len(s) \/ i = Len(s) + 1) /\ (j \in 1 .. Len(s) \/ j = Len(s) + 1)
  BY <1>1
<1> QED
  BY <1>5, <1>6, <1>7, <1>8, <1>9

\* An entry that is batched is not in the history yet.
LEMMA BatchedValid ==
  ASSUME NEW c, NEW h, Valid(c, h), NEW e \in Entries,
         e \notin Range(h \o c.batched_entries)
  PROVE  /\ Valid(Batched(c, c.batched_entries \o <<e>>), h)
         /\ Batched(c, c.batched_entries \o <<e>>) \in Caches
<1> DEFINE batch == c.batched_entries \o <<e>>
           d == Batched(c, batch)
<1>0. c \in Caches /\ h \in Seq(Entries) /\ c.batched_entries \in Seq(Entries)
  BY ValidFits DEF Valid
<1>1. batch \in Seq(Entries)
  BY <1>0
<1>2. h \o batch = (h \o c.batched_entries) \o <<e>>
  <2> DEFINE t == <<e>>
             u == c.batched_entries
  <2>1. t \in Seq(Entries) /\ u \in Seq(Entries)
    BY <1>0
  <2> HIDE DEF t, u
  <2>2. (h \o u) \o t = h \o (u \o t)
    BY <1>0, <2>1, ConcatAssociative, SMTT(30)
  <2> QED
    BY <2>2 DEF t, u
<1>3. d = [c EXCEPT !.batched_entries = batch]
  BY DEF Batched
<1>4. Distinct(h \o batch)
  <2>1. h \o c.batched_entries \in Seq(Entries)
    BY <1>0
  <2>2. Distinct(h \o c.batched_entries)
    BY DEF Valid
  <2>3. Distinct((h \o c.batched_entries) \o <<e>>)
    BY <2>1, <2>2, StillDistinct
  <2> QED
    BY <1>2, <2>3
<1> HIDE DEF d, batch
<1>5. /\ d \in Caches /\ d.batched_entries = batch /\ d.stopsign = c.stopsign
      /\ d.accepted_idx = c.accepted_idx /\ d.decided_idx = c.decided_idx
      /\ d.compacted_idx = c.compacted_idx
  BY <1>0, <1>1, <1>3 DEF Caches
<1>6. Valid(d, h)
  BY <1>4, <1>5 DEF Valid
<1> QED
  BY <1>5, <1>6 DEF d, batch

\* A cache that loses its batch stays valid.
LEMMA UnbatchedValid ==
  ASSUME NEW c, NEW h, Valid(c, h)
  PROVE  Valid(Unbatched(c), h)
<1> DEFINE d == Unbatched(c)
<1>0. c \in Caches /\ h \in Seq(Entries) /\ <<>> \in Seq(Entries) /\ Distinct(h) /\ h \o <<>> = h
  BY ValidFits, NoBatch DEF Valid
<1>1. d = [c EXCEPT !.batched_entries = <<>>]
  BY DEF Unbatched
<1> HIDE DEF d
<1>2. /\ d \in Caches /\ d.batched_entries = <<>> /\ d.stopsign = c.stopsign
      /\ d.accepted_idx = c.accepted_idx /\ d.decided_idx = c.decided_idx
      /\ d.compacted_idx = c.compacted_idx
  BY <1>0, <1>1 DEF Caches
<1>3. Distinct(h \o d.batched_entries)
  BY <1>0, <1>2
<1>4. Valid(d, h)
  BY <1>0, <1>2, <1>3 DEF Valid
<1> QED
  BY <1>4 DEF d

\* A promise keeps a cache valid.
LEMMA PromisedValid ==
  ASSUME NEW c, NEW h, Valid(c, h), NEW ballot \in Nat
  PROVE  Valid(Promised(c, ballot), h)
<1> DEFINE d == Promised(c, ballot)
<1>0. c \in Caches
  BY DEF Valid
<1>1. d = [c EXCEPT !.promise = ballot]
  BY DEF Promised
<1> HIDE DEF d
<1>2. /\ d \in Caches /\ d.batched_entries = c.batched_entries /\ d.stopsign = c.stopsign
      /\ d.accepted_idx = c.accepted_idx /\ d.decided_idx = c.decided_idx
      /\ d.compacted_idx = c.compacted_idx
  BY <1>0, <1>1 DEF Caches
<1>3. Valid(d, h)
  BY <1>2 DEF Valid
<1> QED
  BY <1>3 DEF d

\* A decided index that is accepted keeps a cache valid.
LEMMA DecidedValid ==
  ASSUME NEW c, NEW h, Valid(c, h), NEW idx \in Nat
  PROVE  Valid(DecidedTo(c, idx), h)
<1> DEFINE d == DecidedTo(c, idx)
<1>0. c \in Caches
  BY DEF Valid
<1>1. d = [c EXCEPT !.decided_idx = idx]
  BY DEF DecidedTo
<1> HIDE DEF d
<1>2. /\ d \in Caches /\ d.batched_entries = c.batched_entries /\ d.stopsign = c.stopsign
      /\ d.accepted_idx = c.accepted_idx /\ d.decided_idx = idx
      /\ d.compacted_idx = c.compacted_idx
  BY <1>0, <1>1 DEF Caches
<1>4. Valid(d, h)
  BY <1>2 DEF Valid
<1> QED
  BY <1>4 DEF d

\* A stop sign is accepted behind the history.
\* A stop sign is accepted behind the history, or taken away from there.
LEMMA StoppedValid ==
  ASSUME NEW c, NEW h, Valid(c, h), NEW ss \in Stopsigns
  PROVE  Valid(Stopped(c, ss), h)
<1> DEFINE d == Stopped(c, ss)
           acc == CASE ss # None /\ c.stopsign = None -> c.accepted_idx + 1
                    [] ss = None /\ c.stopsign # None -> Sub(c.accepted_idx, 1)
                    [] OTHER -> c.accepted_idx
<1>0. /\ c \in Caches /\ c.accepted_idx \in Nat /\ Len(h) \in Nat
      /\ Len(h) <= MaxEntries /\ MaxEntries \in Nat
      /\ c.accepted_idx = Len(h) + StopLen(c.stopsign)
  BY ValidFits DEF Valid
<1>1. d = [c EXCEPT !.accepted_idx = acc, !.stopsign = ss]
  BY DEF Stopped
<1>2. acc = Len(h) + StopLen(ss)
  <2>1. CASE ss # None /\ c.stopsign = None
    BY <1>0, <2>1 DEF StopLen
  <2>2. CASE ss = None /\ c.stopsign # None
    <3>1. c.accepted_idx = Len(h) + 1
      BY <1>0, <2>2 DEF StopLen
    <3>2. 1 \in Nat /\ 1 <= c.accepted_idx /\ c.accepted_idx <= MaxEntries + 2
      BY <1>0, <3>1
    <3>3. Sub(c.accepted_idx, 1) = c.accepted_idx - 1
      BY <1>0, <3>2, SubFits
    <3> QED
      BY <1>0, <2>2, <3>1, <3>3 DEF StopLen
  <2>3. CASE (ss = None /\ c.stopsign = None) \/ (ss # None /\ c.stopsign # None)
    BY <1>0, <2>3 DEF StopLen
  <2> QED
    BY <2>1, <2>2, <2>3
<1>3. acc \in Nat
  BY <1>0, <1>2 DEF StopLen
<1> HIDE DEF d, acc
<1>4. /\ d \in Caches /\ d.batched_entries = c.batched_entries /\ d.stopsign = ss
      /\ d.accepted_idx = acc /\ d.decided_idx = c.decided_idx
      /\ d.compacted_idx = c.compacted_idx
  BY <1>0, <1>1, <1>3 DEF Caches
<1>5. Valid(d, h)
  BY <1>2, <1>4 DEF Valid
<1> QED
  BY <1>5 DEF d

\* append_entries_and_get_accepted_idx: into the batch, which is flushed when
\* it is full.
LEMMA EntryAppended ==
  ASSUME NEW c, NEW h, Valid(c, h), NEW e \in Entries,
         e \notin Range(h \o c.batched_entries)
  PROVE  LET d  == Batched(c, c.batched_entries \o <<e>>)
             d2 == IF BatchIsFull(c, <<e>>) THEN Flushed(d) ELSE d
             h2 == IF BatchIsFull(c, <<e>>) THEN h \o c.batched_entries \o <<e>> ELSE h
         IN /\ Valid(d2, h2) /\ d2.compacted_idx = c.compacted_idx
            /\ d2.decided_idx = c.decided_idx
            /\ \A b \in Backends : \A s, snap : Held(b, s, c, h, snap)
                 => Held(b, append_entries_and_get_accepted_idx(b, s, <<e>>), d2, h2, snap)
<1> DEFINE t == <<e>>
           u == c.batched_entries
           d == Batched(c, u \o t)
           full == BatchIsFull(c, t)
           d2 == IF full THEN Flushed(d) ELSE d
           h2 == IF full THEN h \o u \o t ELSE h
<1>0. c \in Caches /\ h \in Seq(Entries) /\ u \in Seq(Entries) /\ t \in Seq(Entries)
  BY ValidFits DEF Valid
<1>1. Valid(d, h) /\ d \in Caches
  BY BatchedValid
<1>2. d.batched_entries = u \o t /\ d.compacted_idx = c.compacted_idx /\ d.decided_idx = c.decided_idx
  BY <1>0 DEF Batched, Caches
<1>3. Valid(Flushed(d), h \o (u \o t))
  <2> HIDE DEF d, t
  <2> QED
    BY <1>1, <1>2, FlushedValid
<1>4. Flushed(d).compacted_idx = c.compacted_idx /\ Flushed(d).decided_idx = c.decided_idx
  <2> HIDE DEF d
  <2> QED
    BY <1>1, <1>2 DEF Flushed, Caches
<1>5. h \o (u \o t) = h \o u \o t
  <2> HIDE DEF t, u
  <2>1. (h \o u) \o t = h \o (u \o t)
    BY <1>0, ConcatAssociative
  <2> QED
    BY <2>1
<1>6. ASSUME NEW b \in Backends, NEW s, NEW snap, Held(b, s, c, h, snap)
      PROVE  Held(b, append_entries_and_get_accepted_idx(b, s, t), d2, h2, snap)
  <2> DEFINE s2 == BatchedIn(s, u \o t)
  <2>1. Held(b, s2, d, h, snap)
    BY <1>0, <1>6, BatchGrown
  <2>2. s.cache = c
    BY <1>6 DEF Held
  <2>3. append_entries_and_get_accepted_idx(b, s, t) = IF full THEN flush_batch(b, s2) ELSE s2
    <3>1. [s EXCEPT !.cache.batched_entries = @ \o t] = s2
      BY <2>2 DEF BatchedIn
    <3> HIDE DEF s2, t
    <3> QED
      BY <2>2, <3>1 DEF append_entries_and_get_accepted_idx
  <2> HIDE DEF s2, d, full, t, u
  <2>4. Held(b, flush_batch(b, s2), Flushed(d), h \o d.batched_entries, snap)
    BY <1>1, <2>1, BatchFlushed
  <2>5. Held(b, flush_batch(b, s2), Flushed(d), h \o u \o t, snap)
    BY <1>2, <1>5, <2>4
  <2>6. CASE full
    BY <2>3, <2>5, <2>6
  <2>7. CASE ~full
    BY <2>1, <2>3, <2>7
  <2> QED
    BY <2>6, <2>7
<1> HIDE DEF d, full, t, u
<1>7. Valid(d2, h2) /\ d2.compacted_idx = c.compacted_idx /\ d2.decided_idx = c.decided_idx
  <2>1. CASE full
    BY <1>3, <1>4, <1>5, <2>1
  <2>2. CASE ~full
    BY <1>1, <1>2, <2>2
  <2> QED
    BY <2>1, <2>2
<1> HIDE DEF d2, h2
<1>8. /\ Valid(d2, h2) /\ d2.compacted_idx = c.compacted_idx /\ d2.decided_idx = c.decided_idx
      /\ \A b \in Backends : \A s, snap : Held(b, s, c, h, snap)
                 => Held(b, append_entries_and_get_accepted_idx(b, s, t), d2, h2, snap)
  BY <1>6, <1>7
<1> QED
  BY <1>8 DEF d, full, t, u, d2, h2

-----------------------------------------------------------------------------

-----------------------------------------------------------------------------
\* Steps.

\* Both back-ends hold another image: what the cache and the snapshot are then.
LEMMA Stepped ==
  ASSUME NEW F, NEW c, NEW h, NEW snap \in Snapshots, Valid(c, h),
         store' = [b \in Backends |-> F[b]], history' = h,
         \A b \in Backends : Held(b, F[b], c, h, snap)
  PROVE  ImagesHeld' /\ Cache' = c /\ Snap' = snap
<1>1. "memory" \in Backends
  BY DEF Backends
<1>2. \A b \in Backends : store'[b] = F[b]
  OBVIOUS
<1>3. F["memory"].cache = c /\ F["memory"].storage.snapshot = snap
  <2>1. PICK ld, tr \in Options :
          F["memory"] = [cache   |-> c,
               storage |-> Image("memory", c.compacted_idx, h, c.promise, ld,
                                 tr, snap, c.stopsign)]
    BY <1>1 DEF Held
  <2>2. Image("memory", c.compacted_idx, h, c.promise, ld, tr, snap,
              c.stopsign).snapshot = snap
    BY DEF Image
  <2> QED
    BY <2>1, <2>2
<1>4. Cache' = c /\ Snap' = snap
  BY <1>1, <1>2, <1>3 DEF Cache, Snap
<1>5. ImagesHeld'
  BY <1>2, <1>4 DEF ImagesHeld
<1> QED
  BY <1>4, <1>5

\* The entries before position k are the same in a longer history.
LEMMA UptoKept ==
  ASSUME NEW h \in Seq(Entries), NEW g \in Seq(Entries), NEW k \in Nat, k <= Len(h)
  PROVE  Upto(h \o g, k) = Upto(h, k)
<1>1. \A i \in 1 .. k : (h \o g)[i] = h[i]
  OBVIOUS
<1> QED
  BY <1>1 DEF Upto

\* A step that neither compacts nor makes a snapshot.
LEMMA QuietStep ==
  ASSUME StorageInv, NEW F, NEW c, NEW g \in Seq(Entries),
         electing' \in Options, overrun' = overrun, trimmed' = trimmed,
         ~overrun =>
           /\ Valid(c, history \o g) /\ c.compacted_idx = Cache.compacted_idx
           /\ store' = [b \in Backends |-> F[b]] /\ history' = history \o g
           /\ \A b \in Backends : Held(b, F[b], c, history \o g, Snap)
  PROVE  StorageInv'
<1>1. CASE overrun
  BY <1>1 DEF StorageInv
<1>2. CASE ~overrun
  <2>1. /\ Valid(Cache, history) /\ Snap \in Snapshots
        /\ Covers(Snap, history, Cache.compacted_idx, trimmed)
    BY <1>2 DEF StorageInv, ImagesHeld
  <2>2. ImagesHeld' /\ Cache' = c /\ Snap' = Snap
    BY <1>2, <2>1, Stepped
  <2>3. Upto(history \o g, Cache.compacted_idx) = Upto(history, Cache.compacted_idx)
    BY <2>1, ValidFits, UptoKept
  <2>4. Covers(Snap, history \o g, Cache.compacted_idx, trimmed)
    BY <2>1, <2>3 DEF Covers
  <2>5. Covers(Snap', history', Cache'.compacted_idx, trimmed')
    BY <1>2, <2>2, <2>4
  <2> QED
    BY <1>2, <2>2, <2>5 DEF StorageInv
<1> QED
  BY <1>1, <1>2

\* append_entries_and_get_accepted_idx.
LEMMA AppendInv ==
  ASSUME StorageInv, NEW e \in Entries, Append_(e)
  PROVE  StorageInv'
<1> DEFINE F == [b \in Backends |-> append_entries_and_get_accepted_idx(b, store[b], <<e>>)]
           c == Cache
           u == c.batched_entries
           full == BatchIsFull(c, <<e>>)
           d == Batched(c, u \o <<e>>)
           d2 == IF full THEN Flushed(d) ELSE d
           g == IF full THEN u \o <<e>> ELSE <<>>
           h2 == IF full THEN history \o u \o <<e>> ELSE history
<1>1. store' = [b \in Backends |-> F[b]]
  BY DEF Append_, Both
<1>2. electing' \in Options /\ overrun' = overrun /\ trimmed' = trimmed
  BY DEF Append_, StorageInv
<1>3. CASE overrun
  BY <1>2, <1>3 DEF StorageInv
<1>4. CASE ~overrun
  <2>1. /\ Valid(c, history) /\ \A b \in Backends : Held(b, store[b], c, history, Snap)
    BY <1>4 DEF StorageInv, ImagesHeld
  <2>2. e \notin Range(history \o u) /\ history' = h2
    BY DEF Append_
  <2>3. /\ Valid(d2, h2) /\ d2.compacted_idx = c.compacted_idx
        /\ \A b \in Backends : \A s, snap : Held(b, s, c, history, snap)
             => Held(b, append_entries_and_get_accepted_idx(b, s, <<e>>), d2, h2, snap)
    <3> HIDE DEF c
    <3> QED
      BY <2>1, <2>2, EntryAppended
  <2>4. history \in Seq(Entries) /\ u \in Seq(Entries) /\ <<e>> \in Seq(Entries)
    BY <2>1, ValidFits
  <2>5. h2 = history \o g /\ g \in Seq(Entries)
    <3> DEFINE t == <<e>>
    <3> HIDE DEF t, u, full
    <3>1. t \in Seq(Entries)
      BY <2>4 DEF t
    <3>2. (history \o u) \o t = history \o (u \o t) /\ u \o t \in Seq(Entries)
      BY <2>4, <3>1, ConcatAssociative
    <3>3. history \o <<>> = history /\ <<>> \in Seq(Entries)
      BY <2>4, NoBatch
    <3> QED
      BY <3>2, <3>3 DEF t
  <2>6. \A b \in Backends : Held(b, F[b], d2, h2, Snap)
    <3> HIDE DEF d2, h2, c
    <3> QED
      BY <2>1, <2>3
  <2> HIDE DEF F, d2, g, h2
  <2> QED
    BY <1>1, <1>2, <2>2, <2>3, <2>5, <2>6, QuietStep DEF c
<1> QED
  BY <1>3, <1>4

\* flush_batch.
LEMMA FlushInv ==
  ASSUME StorageInv, NEW ballot \in Nat, Flush(ballot)
  PROVE  StorageInv'
<1> DEFINE F == [b \in Backends |-> flush_batch(b, store[b])]
           c == Cache
           d == Flushed(c)
           g == c.batched_entries
<1>1. store' = [b \in Backends |-> F[b]] /\ history' = history \o g
  BY DEF Flush, Both
<1>2. electing' \in Options /\ overrun' = overrun /\ trimmed' = trimmed
  BY DEF Flush, Options
<1>3. CASE overrun
  BY <1>2, <1>3 DEF StorageInv
<1>4. CASE ~overrun
  <2>1. Valid(c, history) /\ \A b \in Backends : Held(b, store[b], c, history, Snap)
    BY <1>4 DEF StorageInv, ImagesHeld
  <2>2. Valid(d, history \o g) /\ g \in Seq(Entries)
    BY <2>1, FlushedValid, ValidFits
  <2>3. d.compacted_idx = c.compacted_idx
    <3>1. c \in Caches
      BY <2>1 DEF Valid
    <3> HIDE DEF c
    <3> QED
      BY <3>1 DEF Flushed, Caches
  <2>4. \A b \in Backends : Held(b, F[b], d, history \o g, Snap)
    <3> HIDE DEF c
    <3> QED
      BY <2>1, BatchFlushed
  <2> HIDE DEF F, d, g
  <2> QED
    BY <1>1, <1>2, <2>2, <2>3, <2>4, QuietStep DEF c
<1> QED
  BY <1>3, <1>4

\* An operation on the cache that leaves the log alone.
LEMMA SetterInv ==
  ASSUME StorageInv, NEW F, NEW c, store' = [b \in Backends |-> F[b]], history' = history,
         electing' \in Options, overrun' = overrun, trimmed' = trimmed,
         ~overrun => /\ Valid(c, history) /\ c.compacted_idx = Cache.compacted_idx
                     /\ \A b \in Backends : Held(b, F[b], c, history, Snap)
  PROVE  StorageInv'
<1>1. CASE overrun
  BY <1>1 DEF StorageInv
<1>2. CASE ~overrun
  <2>1. history \in Seq(Entries) /\ <<>> \in Seq(Entries)
    BY <1>2 DEF StorageInv, ImagesHeld, Valid
  <2>2. history \o <<>> = history
    BY <2>1
  <2> QED
    BY <1>2, <2>1, <2>2, QuietStep
<1> QED
  BY <1>1, <1>2

\* set_promise.
LEMMA PromiseInv ==
  ASSUME StorageInv, Promise
  PROVE  StorageInv'
<1> DEFINE F == [b \in Backends |-> set_promise(store[b], electing)]
           c == Cache
           d == Promised(c, electing)
<1>1. store' = [b \in Backends |-> F[b]] /\ history' = history
  BY DEF Promise, Both
<1>2. electing' \in Options /\ overrun' = overrun /\ trimmed' = trimmed /\ electing \in Nat
  BY DEF Promise, Options, StorageInv
<1>3. ASSUME ~overrun
      PROVE  /\ Valid(d, history) /\ d.compacted_idx = c.compacted_idx
             /\ \A b \in Backends : Held(b, F[b], d, history, Snap)
  <2>1. Valid(c, history) /\ \A b \in Backends : Held(b, store[b], c, history, Snap)
    BY <1>3 DEF StorageInv, ImagesHeld
  <2>2. c \in Caches
    BY <2>1 DEF Valid
  <2> HIDE DEF c
  <2>3. Valid(d, history)
    BY <1>2, <2>1, PromisedValid
  <2>4. d.compacted_idx = c.compacted_idx
    BY <2>2 DEF Promised, Caches
  <2>5. \A b \in Backends : Held(b, F[b], d, history, Snap)
    BY <1>2, <2>1, <2>2, PromiseSet
  <2> QED
    BY <2>3, <2>4, <2>5
<1> HIDE DEF F, d
<1> QED
  BY <1>1, <1>2, <1>3, SetterInv DEF c

\* set_decided_idx.
LEMMA DecideInv ==
  ASSUME StorageInv, NEW idx \in Nat, Decide(idx)
  PROVE  StorageInv'
<1> DEFINE F == [b \in Backends |-> set_decided_idx(store[b], idx)]
           c == Cache
           d == DecidedTo(c, idx)
<1>1. store' = [b \in Backends |-> F[b]] /\ history' = history
  BY DEF Decide, Both
<1>2. electing' \in Options /\ overrun' = overrun /\ trimmed' = trimmed
  BY DEF Decide, StorageInv
<1>3. ASSUME ~overrun
      PROVE  /\ Valid(d, history) /\ d.compacted_idx = c.compacted_idx
             /\ \A b \in Backends : Held(b, F[b], d, history, Snap)
  <2>1. Valid(c, history) /\ \A b \in Backends : Held(b, store[b], c, history, Snap)
    BY <1>3 DEF StorageInv, ImagesHeld
  <2>2. c \in Caches
    BY <2>1 DEF Valid
  <2> HIDE DEF c
  <2>3. Valid(d, history)
    BY <2>1, DecidedValid
  <2>4. d.compacted_idx = c.compacted_idx
    BY <2>2 DEF DecidedTo, Caches
  <2>5. \A b \in Backends : Held(b, F[b], d, history, Snap)
    BY <2>1, <2>2, DecidedSet
  <2> QED
    BY <2>3, <2>4, <2>5
<1> HIDE DEF F, d
<1> QED
  BY <1>1, <1>2, <1>3, SetterInv DEF c

\* set_stopsign.
LEMMA SetStopsignInv ==
  ASSUME StorageInv, NEW ss \in Stopsigns, SetStopsign(ss)
  PROVE  StorageInv'
<1> DEFINE F == [b \in Backends |-> set_stopsign(store[b], ss)]
           c == Cache
           d == Stopped(c, ss)
<1>1. store' = [b \in Backends |-> F[b]] /\ history' = history
  BY DEF SetStopsign, Both
<1>2. electing' \in Options /\ overrun' = overrun /\ trimmed' = trimmed
  BY DEF SetStopsign, StorageInv
<1>3. ASSUME ~overrun
      PROVE  /\ Valid(d, history) /\ d.compacted_idx = c.compacted_idx
             /\ \A b \in Backends : Held(b, F[b], d, history, Snap)
  <2>1. Valid(c, history) /\ \A b \in Backends : Held(b, store[b], c, history, Snap)
    BY <1>3 DEF StorageInv, ImagesHeld
  <2>2. c \in Caches
    BY <2>1 DEF Valid
  <2> HIDE DEF c
  <2>3. Valid(d, history)
    BY <2>1, StoppedValid
  <2>4. d.compacted_idx = c.compacted_idx
    BY <2>2 DEF Stopped, Caches
  <2>5. \A b \in Backends : Held(b, F[b], d, history, Snap)
    BY <2>1, <2>2, StopsignSet
  <2> QED
    BY <2>3, <2>4, <2>5
<1> HIDE DEF F, d
<1> QED
  BY <1>1, <1>2, <1>3, SetterInv DEF c

\* A restart.
LEMMA RestartInv ==
  ASSUME StorageInv, Restart
  PROVE  StorageInv'
<1> DEFINE F == [b \in Backends |->
                   start(b, IF b = "memory" THEN store[b].storage ELSE open(store[b].storage))]
           c == Cache
           d == Unbatched(c)
<1>1. store' = [b \in Backends |-> F[b]] /\ history' = history
  BY DEF Restart, Both
<1>2. electing' \in Options /\ overrun' = overrun /\ trimmed' = trimmed
  BY DEF Restart, Options
<1>3. ASSUME ~overrun
      PROVE  /\ Valid(d, history) /\ d.compacted_idx = c.compacted_idx
             /\ \A b \in Backends : Held(b, F[b], d, history, Snap)
  <2>1. Valid(c, history) /\ \A b \in Backends : Held(b, store[b], c, history, Snap)
    BY <1>3 DEF StorageInv, ImagesHeld
  <2>2. c \in Caches
    BY <2>1 DEF Valid
  <2> HIDE DEF c
  <2>3. Valid(d, history)
    BY <2>1, UnbatchedValid
  <2>4. d.compacted_idx = c.compacted_idx
    BY <2>2 DEF Unbatched, Caches
  <2>5. \A b \in Backends : Held(b, F[b], d, history, Snap)
    BY <2>1, Restarted
  <2> QED
    BY <2>3, <2>4, <2>5
<1> HIDE DEF F, d
<1> QED
  BY <1>1, <1>2, <1>3, SetterInv DEF c

-----------------------------------------------------------------------------
\* Compaction.

\* The entries between two positions of a history.
Between(h, k, to) == {h[i] : i \in {j \in 1 .. Len(h) : k < j /\ j <= to}}

\* In a history without repetition, they are what the longer part adds.
LEMMA UptoGrown ==
  ASSUME NEW h \in Seq(Entries), Distinct(h), NEW k \in Nat, NEW to \in Nat,
         k <= to, to <= Len(h)
  PROVE  /\ Upto(h, to) = Upto(h, k) \cup Between(h, k, to)
         /\ Upto(h, k) \cap Between(h, k, to) = {}
<1>0. Len(h) \in Nat
  OBVIOUS
<1>1. ASSUME NEW i \in 1 .. k, NEW j \in 1 .. Len(h), k < j, h[i] = h[j] PROVE FALSE
  BY <1>0, <1>1 DEF Distinct
<1>2. Upto(h, k) \cap Between(h, k, to) = {}
  BY <1>0, <1>1 DEF Upto, Between
<1>3. ASSUME NEW x \in Upto(h, to) PROVE x \in Upto(h, k) \cup Between(h, k, to)
  <2>1. PICK i \in 1 .. to : x = h[i]
    BY DEF Upto
  <2>2. i \in 1 .. k \/ (i \in 1 .. Len(h) /\ k < i /\ i <= to)
    BY <1>0
  <2> QED
    BY <2>1, <2>2 DEF Upto, Between
<1>4. Upto(h, k) \subseteq Upto(h, to)
  BY DEF Upto
<1>5. Between(h, k, to) \subseteq Upto(h, to)
  BY <1>0 DEF Upto, Between
<1> QED
  BY <1>2, <1>3, <1>4, <1>5

\* What is trimmed does not have to be in the snapshot.
LEMMA TrimCovers ==
  ASSUME NEW h \in Seq(Entries), Distinct(h), NEW k \in Nat, NEW to \in Nat,
         k <= to, to <= Len(h), NEW snap, NEW tr, Covers(snap, h, k, tr)
  PROVE  Covers(snap, h, to, tr \cup Between(h, k, to))
<1>1. /\ Upto(h, to) = Upto(h, k) \cup Between(h, k, to)
      /\ Upto(h, k) \cap Between(h, k, to) = {}
  BY UptoGrown
<1>2. Upto(h, to) \ (tr \cup Between(h, k, to)) = Upto(h, k) \ tr
  BY <1>1
<1>3. tr \cup Between(h, k, to) \subseteq Upto(h, to)
  BY <1>1 DEF Covers
<1> QED
  BY <1>2, <1>3 DEF Covers

\* Sequences without repetition and without common elements, put together.
LEMMA JoinedInjective ==
  ASSUME NEW u \in Seq(Entries), NEW v \in Seq(Entries), IsInjective(u), IsInjective(v),
         Range(u) \cap Range(v) = {}
  PROVE  Range(u \o v) = Range(u) \cup Range(v) /\ IsInjective(u \o v)
<1> DEFINE w == u \o v
           m == Len(u)
           n == Len(v)
<1>0. m \in Nat /\ n \in Nat /\ DOMAIN u = 1 .. m /\ DOMAIN v = 1 .. n
  OBVIOUS
<1>1. DOMAIN w = 1 .. (m + n)
  OBVIOUS
<1>2. \A i \in 1 .. m : w[i] = u[i]
  OBVIOUS
<1>3. \A i \in 1 .. n : w[m + i] = v[i]
  OBVIOUS
<1> HIDE DEF w, m, n
<1>4. \A i \in 1 .. (m + n) : i \in 1 .. m \/ \E j \in 1 .. n : i = m + j
  <2> SUFFICES ASSUME NEW i \in 1 .. (m + n), i \notin 1 .. m PROVE \E j \in 1 .. n : i = m + j
    OBVIOUS
  <2>1. i - m \in 1 .. n /\ i = m + (i - m)
    BY <1>0
  <2> QED
    BY <2>1
<1>5. \A i \in 1 .. n : m + i \in 1 .. (m + n)
  BY <1>0
<1>6. \A i \in 1 .. m : i \in 1 .. (m + n)
  BY <1>0
<1>7. Range(w) = Range(u) \cup Range(v)
  <2>1. ASSUME NEW x \in Range(w) PROVE x \in Range(u) \cup Range(v)
    <3>1. PICK i \in 1 .. (m + n) : x = w[i]
      BY <1>1 DEF Range
    <3>2. CASE i \in 1 .. m
      BY <1>0, <1>2, <3>1, <3>2 DEF Range
    <3>3. CASE \E j \in 1 .. n : i = m + j
      BY <1>0, <1>3, <3>1, <3>3 DEF Range
    <3> QED
      BY <1>4, <3>2, <3>3
  <2>2. ASSUME NEW x \in Range(u) PROVE x \in Range(w)
    BY <1>0, <1>1, <1>2, <1>6 DEF Range
  <2>3. ASSUME NEW x \in Range(v) PROVE x \in Range(w)
    BY <1>0, <1>1, <1>3, <1>5 DEF Range
  <2> QED
    BY <2>1, <2>2, <2>3
<1>8. ASSUME NEW i \in 1 .. (m + n), NEW j \in 1 .. (m + n), w[i] = w[j] PROVE i = j
  <2>1. ASSUME NEW a \in 1 .. m, NEW b \in 1 .. n PROVE u[a] # v[b]
    BY <1>0 DEF Range
  <2>2. CASE i \in 1 .. m /\ j \in 1 .. m
    BY <1>0, <1>2, <1>8, <2>2 DEF IsInjective
  <2>3. CASE i \in 1 .. m /\ \E b \in 1 .. n : j = m + b
    BY <1>2, <1>3, <1>8, <2>1, <2>3
  <2>4. CASE j \in 1 .. m /\ \E b \in 1 .. n : i = m + b
    BY <1>2, <1>3, <1>8, <2>1, <2>4
  <2>5. CASE (\E a \in 1 .. n : i = m + a) /\ \E b \in 1 .. n : j = m + b
    <3>1. PICK a \in 1 .. n, b \in 1 .. n : i = m + a /\ j = m + b
      BY <2>5
    <3>2. v[a] = v[b]
      BY <1>3, <1>8, <3>1
    <3>3. a = b
      BY <1>0, <3>2 DEF IsInjective
    <3> QED
      BY <3>1, <3>3
  <2> QED
    BY <1>4, <2>2, <2>3, <2>4, <2>5
<1>9. IsInjective(w)
  BY <1>1, <1>8 DEF IsInjective
<1> QED
  BY <1>7, <1>9 DEF w

\* A new snapshot holds the entries of the old one and the ones that are
\* compacted now, once each.
LEMMA SnapshotCoversMore ==
  ASSUME NEW h \in Seq(Entries), Distinct(h), NEW k \in Nat, NEW to \in Nat,
         k <= to, to <= Len(h), NEW snap \in Snapshots, NEW tr, Covers(snap, h, k, tr)
  PROVE  Covers(SnapshotOf(snap, h, k, to), h, to, tr)
<1> DEFINE u == IF snap = None THEN <<>> ELSE snap
           v == SubSeq(h, k + 1, to)
           new == SnapshotOf(snap, h, k, to)
<1>0. Len(h) \in Nat /\ to - k \in Nat
  OBVIOUS
<1>1. u \in Seq(Entries) /\ Range(u) = Upto(h, k) \ tr /\ IsInjective(u) /\ tr \subseteq Upto(h, k)
  BY DEF Snapshots, Covers
<1>2. /\ v \in Seq(Entries) /\ Len(v) = to - k
      /\ \A x \in 1 .. (to - k) : v[x] = h[k + x]
  BY PartOf
<1>3. /\ Upto(h, to) = Upto(h, k) \cup Between(h, k, to)
      /\ Upto(h, k) \cap Between(h, k, to) = {}
  BY UptoGrown
<1>4. new = u \o v
  <2>1. <<>> \o v = v
    BY <1>2
  <2> QED
    BY <2>1 DEF SnapshotOf
<1> HIDE DEF u, v, new
<1>5. DOMAIN v = 1 .. (to - k)
  BY <1>2
<1>6. Range(v) = Between(h, k, to)
  <2>1. ASSUME NEW x \in Range(v) PROVE x \in Between(h, k, to)
    <3>1. PICK i \in 1 .. (to - k) : x = h[k + i]
      BY <1>2, <1>5 DEF Range
    <3>2. k + i \in 1 .. Len(h) /\ k < k + i /\ k + i <= to
      BY <1>0
    <3> QED
      BY <3>1, <3>2 DEF Between
  <2>2. ASSUME NEW x \in Between(h, k, to) PROVE x \in Range(v)
    <3>1. PICK j \in 1 .. Len(h) : k < j /\ j <= to /\ x = h[j]
      BY DEF Between
    <3>2. j - k \in 1 .. (to - k) /\ k + (j - k) = j
      BY <1>0, <3>1
    <3>3. x = v[j - k]
      BY <1>2, <3>1, <3>2
    <3> QED
      BY <1>5, <3>2, <3>3 DEF Range
  <2> QED
    BY <2>1, <2>2
<1>7. IsInjective(v)
  <2> SUFFICES ASSUME NEW i \in 1 .. (to - k), NEW j \in 1 .. (to - k), v[i] = v[j] PROVE i = j
    BY <1>5 DEF IsInjective
  <2>1. h[k + i] = h[k + j] /\ k + i \in 1 .. Len(h) /\ k + j \in 1 .. Len(h)
    BY <1>0, <1>2
  <2>2. k + i = k + j
    BY <2>1 DEF Distinct
  <2> QED
    BY <2>2
<1>8. Range(u) \cap Range(v) = {}
  BY <1>1, <1>3, <1>6
<1>9. Range(new) = Range(u) \cup Range(v) /\ IsInjective(new) /\ new \in Seq(Entries)
  BY <1>1, <1>2, <1>4, <1>7, <1>8, JoinedInjective
<1>10. Range(new) = Upto(h, to) \ tr /\ tr \subseteq Upto(h, to)
  BY <1>1, <1>3, <1>6, <1>9
<1>11. new # None
  BY <1>9, NoneAssumption
<1>12. Covers(new, h, to, tr)
  BY <1>9, <1>10, <1>11 DEF Covers
<1> QED
  BY <1>12 DEF new

\* try_trim.
LEMMA TrimInv ==
  ASSUME StorageInv, NEW idx \in Nat, Trim(idx)
  PROVE  StorageInv'
<1> DEFINE F == [b \in Backends |-> try_trim(b, store[b], idx)]
           c == Cache
           to == CompactTo(c, idx)
           d == IF to > c.compacted_idx THEN WithCompacted(c, to) ELSE c
<1>1. /\ store' = [b \in Backends |-> F[b]] /\ history' = history
      /\ electing' = electing /\ overrun' = (overrun \/ Overruns(idx))
      /\ trimmed' = trimmed \cup Between(history, c.compacted_idx, to)
  BY DEF Trim, Both, Between
<1>2. overrun' \in BOOLEAN /\ electing' \in Options
  BY <1>1 DEF StorageInv
<1>3. CASE overrun'
  BY <1>2, <1>3 DEF StorageInv
<1>4. CASE ~overrun'
  <2>0. ~overrun /\ (to > c.compacted_idx => ~(to > Len(history)))
    BY <1>1, <1>4 DEF Overruns, StorageInv
  <2>1. /\ Valid(c, history) /\ \A b \in Backends : Held(b, store[b], c, history, Snap)
        /\ Snap \in Snapshots /\ Covers(Snap, history, c.compacted_idx, trimmed)
    BY <2>0 DEF StorageInv, ImagesHeld
  <2>2. /\ history \in Seq(Entries) /\ Len(history) \in Nat /\ c.compacted_idx \in Nat
        /\ Distinct(history) /\ c.compacted_idx <= Len(history) /\ to \in Nat
    <3> HIDE DEF c
    <3> QED
      BY <2>1, ValidFits, CompactIndex
  <2> HIDE DEF c
  <2>3. to > c.compacted_idx => to <= Len(history)
    BY <2>0, <2>2
  <2>4. \A b \in Backends : Held(b, F[b], d, history, Snap)
    BY <2>1, <2>3, Trimmed
  <2>5. Valid(d, history)
    BY <2>1, <2>2, <2>3, CompactedValid
  <2>6. Covers(Snap, history, d.compacted_idx, trimmed')
    <3>1. CASE to > c.compacted_idx
      <4>1. d.compacted_idx = to
        <5>1. c \in Caches
          BY <2>1 DEF Valid
        <5> QED
          BY <2>2, <3>1, <5>1, WithCompactedFields
      <4>2. c.compacted_idx <= to
        BY <2>2, <3>1
      <4> HIDE DEF d, to
      <4>3. Covers(Snap, history, to, trimmed \cup Between(history, c.compacted_idx, to))
        BY <2>1, <2>2, <2>3, <3>1, <4>2, TrimCovers
      <4> QED
        BY <1>1, <4>1, <4>3
    <3>2. CASE ~(to > c.compacted_idx)
      <4> HIDE DEF to
      <4>1. Between(history, c.compacted_idx, to) = {}
        BY <2>2, <3>2 DEF Between
      <4>2. trimmed' = trimmed
        BY <1>1, <4>1
      <4> QED
        BY <2>1, <3>2, <4>2
    <3> QED
      BY <3>1, <3>2
  <2> HIDE DEF F, d
  <2>7. ImagesHeld' /\ Cache' = d /\ Snap' = Snap
    BY <1>1, <2>1, <2>4, <2>5, Stepped
  <2> QED
    BY <1>1, <1>2, <2>6, <2>7 DEF StorageInv
<1> QED
  BY <1>2, <1>3, <1>4

\* try_snapshot.
LEMMA TakeSnapshotInv ==
  ASSUME StorageInv, NEW idx \in Nat, TakeSnapshot(idx)
  PROVE  StorageInv'
<1> DEFINE F == [b \in Backends |-> try_snapshot(b, store[b], idx)]
           c == Cache
           to == CompactTo(c, idx)
           d == IF to > c.compacted_idx THEN WithCompacted(c, to) ELSE c
           snap == IF to > c.compacted_idx
                   THEN SnapshotOf(Snap, history, c.compacted_idx, to) ELSE Snap
<1>1. /\ store' = [b \in Backends |-> F[b]] /\ history' = history
      /\ electing' = electing /\ overrun' = (overrun \/ Overruns(idx))
      /\ trimmed' = trimmed
  BY DEF TakeSnapshot, Both
<1>2. overrun' \in BOOLEAN /\ electing' \in Options
  BY <1>1 DEF StorageInv
<1>3. CASE overrun'
  BY <1>2, <1>3 DEF StorageInv
<1>4. CASE ~overrun'
  <2>0. ~overrun /\ (to > c.compacted_idx => ~(to > Len(history)))
    BY <1>1, <1>4 DEF Overruns, StorageInv
  <2>1. /\ Valid(c, history) /\ \A b \in Backends : Held(b, store[b], c, history, Snap)
        /\ Snap \in Snapshots /\ Covers(Snap, history, c.compacted_idx, trimmed)
    BY <2>0 DEF StorageInv, ImagesHeld
  <2>2. /\ history \in Seq(Entries) /\ Len(history) \in Nat /\ c.compacted_idx \in Nat
        /\ Distinct(history) /\ c.compacted_idx <= Len(history) /\ to \in Nat
    <3> HIDE DEF c
    <3> QED
      BY <2>1, ValidFits, CompactIndex
  <2> HIDE DEF c
  <2>3. to > c.compacted_idx => to <= Len(history)
    BY <2>0, <2>2
  <2>4. \A b \in Backends : Held(b, F[b], d, history, snap)
    <3> SUFFICES ASSUME NEW b \in Backends
                 PROVE  Held(b, try_snapshot(b, store[b], idx), d, history, snap)
      OBVIOUS
    <3>1. IF to > c.compacted_idx
          THEN Held(b, try_snapshot(b, store[b], idx), WithCompacted(c, to), history,
                    SnapshotOf(Snap, history, c.compacted_idx, to))
          ELSE try_snapshot(b, store[b], idx) = store[b]
      BY <2>1, <2>3, Snapshotted
    <3> HIDE DEF to
    <3>2. CASE to > c.compacted_idx
      BY <3>1, <3>2
    <3>3. CASE ~(to > c.compacted_idx)
      BY <2>1, <3>1, <3>3
    <3> QED
      BY <3>2, <3>3
  <2>5. Valid(d, history)
    BY <2>1, <2>2, <2>3, CompactedValid
  <2>6. Covers(snap, history, d.compacted_idx, trimmed) /\ snap \in Snapshots
    <3>1. CASE to > c.compacted_idx
      <4>1. d.compacted_idx = to
        <5>1. c \in Caches
          BY <2>1 DEF Valid
        <5> QED
          BY <2>2, <3>1, <5>1, WithCompactedFields
      <4>2. c.compacted_idx <= to
        BY <2>2, <3>1
      <4>3. snap = SnapshotOf(Snap, history, c.compacted_idx, to)
        BY <3>1
      <4> HIDE DEF d, to, snap
      <4>4. Covers(snap, history, to, trimmed)
        BY <2>1, <2>2, <2>3, <3>1, <4>2, <4>3, SnapshotCoversMore
      <4>5. snap \in Seq(Entries)
        BY <2>1, <2>2, <4>2, <4>3, SnapshotTyped
      <4> QED
        BY <4>1, <4>4, <4>5 DEF Snapshots
    <3>2. CASE ~(to > c.compacted_idx)
      BY <2>1, <3>2
    <3> QED
      BY <3>1, <3>2
  <2> HIDE DEF F, d, snap
  <2>7. ImagesHeld' /\ Cache' = d /\ Snap' = snap
    BY <1>1, <2>4, <2>5, <2>6, Stepped
  <2> QED
    BY <1>1, <1>2, <2>6, <2>7 DEF StorageInv
<1> QED
  BY <1>2, <1>3, <1>4

-----------------------------------------------------------------------------
\* The invariant.

\* A fresh server: both back-ends are images of the empty history.
LEMMA Fresh ==
  ASSUME NEW b \in Backends
  PROVE  LET c == [batched_entries |-> <<>>, promise |-> 0,
                   decided_idx |-> 0, compacted_idx |-> 0, stopsign |-> None, accepted_idx |-> 0]
             s == start(b, IF b = "memory" THEN DefaultMemory ELSE EmptyDB)
         IN s.cache = c /\ s.storage.snapshot = None /\ Valid(c, <<>>) /\ Held(b, s, c, <<>>, None)
<1> DEFINE c == [batched_entries |-> <<>>, promise |-> 0,
                 decided_idx |-> 0, compacted_idx |-> 0, stopsign |-> None, accepted_idx |-> 0]
           st == IF b = "memory" THEN DefaultMemory ELSE EmptyDB
           st2 == WithPromise(st, 0)
           s == start(b, st)
<1>0. OrZero(None) = 0 /\ OrZero(0) = 0 /\ None \in Options /\ 0 \in Options
  BY NoneAssumption DEF OrZero, Options
<1>1. Sub(0, 0) = 0
  <2>1. MaxEntries \in Nat /\ 0 \in Nat /\ 0 <= 0 /\ 0 <= MaxEntries + 2
    BY StorageAssumption
  <2>2. Sub(0, 0) = 0 - 0
    BY <2>1, SubFits
  <2> QED
    BY <2>2
<1>a. Add(0, 0) = 0
  <2>1. MaxEntries \in Nat /\ 0 \in Nat /\ 0 + 0 <= MaxEntries + 2
    BY StorageAssumption
  <2> QED
    BY <2>1, AddFits
<1>2. load_cache(b, st) = c
  <2>1. CASE b = "memory"
    BY <1>0, <1>a, <2>1 DEF load_cache, DefaultMemory, stored_compacted_idx, get_log_len
  <2>2. CASE b = "persistent"
    BY <1>0, <1>1, <1>a, <2>2 DEF load_cache, EmptyDB, stored_compacted_idx, get_log_len
  <2> QED
    BY <2>1, <2>2 DEF Backends
<1>3. st.n_prom = None
  BY DEF DefaultMemory, EmptyDB
<1>4. st = Image(b, 0, <<>>, None, None, None, None, None)
  <2>1. CASE b = "memory"
    <3>1. SubSeq(<<>>, 0 + 1, Len(<<>>)) = <<>>
      OBVIOUS
    <3> QED
      BY <1>0, <2>1, <3>1 DEF Image, DefaultMemory
  <2>2. CASE b = "persistent"
    <3>1. Len(<<>>) = 0
      OBVIOUS
    <3>2. [j \in 0 .. (Len(<<>>) - 1) |-> <<>>[j + 1]] = <<>>
      OBVIOUS
    <3> QED
      BY <2>2, <3>1, <3>2 DEF Image, EmptyDB
  <2> QED
    BY <2>1, <2>2 DEF Backends
<1> HIDE DEF st
<1>5. st2 = Image(b, 0, <<>>, 0, None, None, None, None)
  BY <1>4, ImageSet
<1>6. s = [cache |-> c, storage |-> st2]
  <2>1. s = set_promise([cache |-> c, storage |-> st], 0)
    BY <1>0, <1>2, <1>3 DEF start, with
  <2> DEFINE p == [cache |-> c, storage |-> st]
             d == Promised(c, 0)
  <2>2. set_promise(p, 0) = [p EXCEPT !.cache = d, !.storage = st2]
    BY DEF set_promise, WithPromise, Promised
  <2>3. d = c
    BY DEF Promised
  <2>4. p = [cache |-> c, storage |-> st]
    OBVIOUS
  <2> HIDE DEF d, st2, s, p, c
  <2>5. s = [p EXCEPT !.cache = c, !.storage = st2]
    BY <2>1, <2>2, <2>3 DEF p
  <2> QED
    BY <2>4, <2>5
<1>7. Valid(c, <<>>)
  <2>1. c \in Caches
    BY DEF Caches, Stopsigns
  <2>2. <<>> \in Seq(Entries) /\ Len(<<>>) = 0 /\ <<>> \o <<>> = <<>>
    OBVIOUS
  <2>3. Distinct(<<>> \o <<>>)
    BY <2>2 DEF Distinct
  <2> QED
    BY <2>1, <2>2, <2>3 DEF Valid, StopLen
<1>8. c.decided_idx = 0 /\ c.compacted_idx = 0 /\ c.promise = 0
      /\ c.stopsign = None
  OBVIOUS
<1> HIDE DEF c, s, st2
<1>9. s = [cache |-> c, storage |-> Image(b, c.compacted_idx, <<>>, c.promise, None, None,
                                          None, c.stopsign)]
  BY <1>5, <1>6, <1>8
<1>10. Held(b, s, c, <<>>, None)
  BY <1>0, <1>8, <1>9 DEF Held
<1>11. s.cache = c /\ s.storage.snapshot = None
  <2>1. st2.snapshot = None
    BY <1>5, ImageSet
  <2> QED
    BY <1>6, <2>1
<1> QED
  BY <1>7, <1>10, <1>11 DEF c, s, st

\* A fresh server satisfies the invariant.
LEMMA InitInv == Init => StorageInv
<1> SUFFICES ASSUME Init PROVE StorageInv
  OBVIOUS
<1> DEFINE c == [batched_entries |-> <<>>, promise |-> 0,
                 decided_idx |-> 0, compacted_idx |-> 0, stopsign |-> None, accepted_idx |-> 0]
           s(b) == start(b, IF b = "memory" THEN DefaultMemory ELSE EmptyDB)
<1>1. \A b \in Backends : s(b).cache = c /\ s(b).storage.snapshot = None /\ Valid(c, <<>>)
                          /\ Held(b, s(b), c, <<>>, None)
  BY Fresh
<1>2. \A b \in Backends : store[b] = s(b)
  BY DEF Init
<1>3. history = <<>> /\ trimmed = {} /\ overrun = FALSE /\ electing \in Options
  BY DEF Init, Options
<1>4. "memory" \in Backends
  BY DEF Backends
<1>5. c.compacted_idx = 0
  OBVIOUS
<1> HIDE DEF c, s
<1>6. Cache = c /\ Snap = None
  BY <1>1, <1>2, <1>4 DEF Cache, Snap
<1>7. ImagesHeld
  BY <1>1, <1>2, <1>3, <1>4, <1>6 DEF ImagesHeld, Snapshots
<1>8. Covers(Snap, history, Cache.compacted_idx, trimmed)
  <2>1. Range(<<>>) = {} /\ IsInjective(<<>>)
    BY DEF Range, IsInjective
  <2>2. Upto(history, 0) = {}
    BY DEF Upto
  <2> QED
    BY <1>3, <1>5, <1>6, <2>1, <2>2 DEF Covers
<1> QED
  BY <1>3, <1>7, <1>8 DEF StorageInv

\* Every step keeps it.
LEMMA NextInv ==
  ASSUME StorageInv, [Next]_vars
  PROVE  StorageInv'
<1>0. MaxEntries \in Nat /\ MaxBallot \in Nat
  BY StorageAssumption
<1>1. ASSUME NEW e \in Entries, Append_(e) PROVE StorageInv'
  BY <1>1, AppendInv
<1>2. ASSUME NEW ballot \in 1 .. MaxBallot, Flush(ballot) PROVE StorageInv'
  BY <1>0, <1>2, FlushInv
<1>3. CASE Promise
  BY <1>3, PromiseInv
<1>4. ASSUME NEW idx \in 1 .. (MaxEntries + 1), Decide(idx) PROVE StorageInv'
  BY <1>0, <1>4, DecideInv
<1>5. ASSUME NEW ss \in {"stopsign", None}, SetStopsign(ss) PROVE StorageInv'
  BY <1>5, SetStopsignInv DEF Stopsigns
<1>6. ASSUME NEW idx \in 1 .. (MaxEntries + 1), Trim(idx) PROVE StorageInv'
  BY <1>0, <1>6, TrimInv
<1>7. ASSUME NEW idx \in 1 .. (MaxEntries + 1), TakeSnapshot(idx) PROVE StorageInv'
  BY <1>0, <1>7, TakeSnapshotInv
<1>8. CASE Restart
  BY <1>8, RestartInv
<1>9. CASE UNCHANGED vars
  BY <1>9 DEF vars, StorageInv, ImagesHeld, Cache, Snap
<1> QED
  BY <1>1, <1>2, <1>3, <1>4, <1>5, <1>6, <1>7, <1>8, <1>9 DEF Next

\* The invariant holds in every reachable state.
LEMMA StorageAlways == Spec => []StorageInv
<1>1. Init => StorageInv
  BY InitInv
<1>2. StorageInv /\ [Next]_vars => StorageInv'
  BY NextInv
<1> QED
  BY <1>1, <1>2, PTL DEF Spec

-----------------------------------------------------------------------------
\* A restart.

\* Until a compaction overruns the log, a restart at any moment loses the batch
\* and nothing else (load_cache, PersistentStorage::open).
THEOREM RestartLosesOnlyBatch == Spec => []RestartRecovers
<1>1. StorageInv => RestartRecovers
  <2> SUFFICES ASSUME StorageInv, ~overrun, NEW b \in Backends
               PROVE  LET s  == store[b]
                          st == IF b = "memory" THEN s.storage ELSE open(s.storage)
                      IN /\ st = s.storage
                         /\ load_cache(b, st) = [s.cache EXCEPT !.batched_entries = <<>>]
    BY DEF RestartRecovers
  <2> DEFINE s == store[b]
             st == IF b = "memory" THEN s.storage ELSE open(s.storage)
  <2>1. Valid(Cache, history) /\ Held(b, s, Cache, history, Snap)
    BY DEF StorageInv, ImagesHeld
  <2>2. s.cache = Cache /\ st = s.storage /\ load_cache(b, s.storage) = Unbatched(Cache)
    BY <2>1, Recovered
  <2> HIDE DEF s, st
  <2>3. st = s.storage /\ load_cache(b, st) = [s.cache EXCEPT !.batched_entries = <<>>]
    BY <2>2 DEF Unbatched
  <2> QED
    BY <2>3 DEF s, st
<1> QED
  BY <1>1, StorageAlways, PTL

-----------------------------------------------------------------------------
\* What a read returns.

\* What read has to return for [from, to), for a cache c and a history h.
ReadOf(c, h, from, to) ==
  [i \in 1 .. (to - from) |->
     IF from + i <= Len(h)
     THEN <<IF from + i <= c.decided_idx THEN "Decided" ELSE "Undecided", h[from + i]>>
     ELSE <<"StopSign", c.decided_idx = c.accepted_idx>>]

\* One more element behind a sequence.
LEMMA LastAppended ==
  ASSUME NEW n \in Nat, NEW f, f = [i \in 1 .. n |-> f[i]], NEW x
  PROVE  f \o <<x>> = [i \in 1 .. (n + 1) |-> IF i <= n THEN f[i] ELSE x]
<1> DEFINE S == {f[i] : i \in 1 .. n} \cup {x}
           g == [i \in 1 .. (n + 1) |-> IF i <= n THEN f[i] ELSE x]
<1>0. f \in [1 .. n -> S]
  OBVIOUS
<1>1. f \in Seq(S) /\ Len(f) = n
  <2>1. f \in Seq(S)
    BY <1>0
  <2> HIDE DEF S
  <2> QED
    BY <1>0, <2>1
<1>2. x \in S
  OBVIOUS
<1>3. g \in [1 .. (n + 1) -> S]
  <2> SUFFICES ASSUME NEW i \in 1 .. (n + 1) PROVE (IF i <= n THEN f[i] ELSE x) \in S
    OBVIOUS
  <2>1. CASE i <= n
    BY <2>1
  <2>2. CASE ~(i <= n)
    BY <1>2, <2>2
  <2> QED
    BY <2>1, <2>2
<1> HIDE DEF S
<1>4. g \in Seq(S) /\ Len(g) = n + 1
  <2>1. \A i \in 1 .. (n + 1) : g[i] = IF i <= n THEN f[i] ELSE x
    OBVIOUS
  <2> HIDE DEF g
  <2>2. g \in Seq(S)
    BY <1>3
  <2> QED
    BY <1>3, <2>2
<1>5. <<x>> \in Seq(S) /\ Len(<<x>>) = 1
  BY <1>2
<1>6. f \o <<x>> \in Seq(S) /\ Len(f \o <<x>>) = n + 1
  BY <1>1, <1>5
<1>7. ASSUME NEW i \in 1 .. (n + 1) PROVE (f \o <<x>>)[i] = g[i]
  BY <1>1, <1>2
<1> HIDE DEF g
<1>8. f \o <<x>> = g
  BY <1>4, <1>6, <1>7, SamePositions
<1> QED
  BY <1>8 DEF g

\* create_read_log_entries: the entries with their marks.
LEMMA EntriesMarked ==
  ASSUME NEW b \in Backends, NEW s, NEW c, NEW h, NEW snap, Valid(c, h), Held(b, s, c, h, snap),
         NEW from \in Nat, NEW to \in Nat, c.compacted_idx <= from, from <= to, to <= Len(h)
  PROVE  create_read_log_entries(b, s, from, to) = ReadOf(c, h, from, to)
<1>0. /\ h \in Seq(Entries) /\ Len(h) \in Nat /\ Len(h) <= MaxEntries /\ MaxEntries \in Nat
      /\ c.compacted_idx \in Nat /\ c.compacted_idx <= Len(h) /\ c.decided_idx \in Nat
  BY ValidFits
<1>1. PICK ld, tr \in Options :
        s = [cache   |-> c,
             storage |-> Image(b, c.compacted_idx, h, c.promise, ld,
                               tr, snap, c.stopsign)]
  BY DEF Held
<1> DEFINE entries == get_entries(b, s.storage, from, to)
<1>2. s.cache = c /\ entries = SubSeq(h, from + 1, to)
  <2>1. s.cache = c /\ s.storage = Image(b, c.compacted_idx, h, c.promise, ld,
                                         tr, snap, c.stopsign)
    BY <1>1
  <2>2. to <= MaxEntries + 2
    BY <1>0
  <2> QED
    BY <1>0, <2>1, <2>2, EntriesRead, SMTT(30)
<1>3. create_read_log_entries(b, s, from, to)
        = [i \in 1 .. Len(entries) |->
             <<IF from + i - 1 < s.cache.decided_idx THEN "Decided" ELSE "Undecided", entries[i]>>]
  BY DEF create_read_log_entries
<1> HIDE DEF entries
<1>4. Len(entries) = to - from /\ \A i \in 1 .. (to - from) : entries[i] = h[from + i]
  BY <1>0, <1>2, PartOf
<1>5. \A i \in 1 .. (to - from) :
        /\ from + i <= Len(h)
        /\ (from + i - 1 < c.decided_idx) <=> (from + i <= c.decided_idx)
  BY <1>0
<1> QED
  BY <1>2, <1>3, <1>4, <1>5 DEF ReadOf

\* get_entry_type of a position that is not compacted.
LEMMA EntryType ==
  ASSUME NEW c, NEW h, Valid(c, h), NEW idx \in Nat, c.compacted_idx <= idx
  PROVE  /\ idx < Len(h) => get_entry_type(c, idx) = "Entry"
         /\ idx >= c.accepted_idx => get_entry_type(c, idx) = "None"
         /\ idx = Len(h) /\ idx < c.accepted_idx => get_entry_type(c, idx) = "StopSign"
<1>0. Len(h) \in Nat /\ c.accepted_idx \in Nat /\ c.compacted_idx \in Nat
  BY ValidFits
<1>1. c.accepted_idx = Len(h) + StopLen(c.stopsign)
  BY DEF Valid
<1>2. CASE c.stopsign = None
  <2>1. c.accepted_idx = Len(h)
    BY <1>0, <1>1, <1>2 DEF StopLen
  <2>2. ~(idx < c.compacted_idx) /\ idx >= c.compacted_idx
    BY <1>0
  <2>3. idx + 1 < c.accepted_idx => get_entry_type(c, idx) = "Entry"
    BY <1>0, <2>2 DEF get_entry_type
  <2>4. idx + 1 = c.accepted_idx => get_entry_type(c, idx) = "Entry"
    BY <1>0, <1>2, <2>2 DEF get_entry_type
  <2>5. idx >= c.accepted_idx => get_entry_type(c, idx) = "None"
    BY <1>0, <2>2 DEF get_entry_type
  <2> QED
    BY <1>0, <2>1, <2>3, <2>4, <2>5
<1>3. CASE c.stopsign # None
  <2>1. c.accepted_idx = Len(h) + 1
    BY <1>0, <1>1, <1>3 DEF StopLen
  <2>2. ~(idx < c.compacted_idx) /\ idx >= c.compacted_idx
    BY <1>0
  <2>3. idx + 1 < c.accepted_idx => get_entry_type(c, idx) = "Entry"
    BY <1>0, <2>2 DEF get_entry_type
  <2>4. idx + 1 = c.accepted_idx => get_entry_type(c, idx) = "StopSign"
    BY <1>0, <1>3, <2>2 DEF get_entry_type
  <2>5. idx >= c.accepted_idx => get_entry_type(c, idx) = "None"
    BY <1>0, <2>2 DEF get_entry_type
  <2> QED
    BY <1>0, <2>1, <2>3, <2>4, <2>5
<1> QED
  BY <1>2, <1>3

\* read: the entries of the history, or None beyond its end.
LEMMA ReadAnswer ==
  ASSUME NEW b \in Backends, NEW s, NEW c, NEW h, NEW snap, Valid(c, h), Held(b, s, c, h, snap),
         NEW from \in Nat, NEW to \in Nat, c.compacted_idx <= from, from < to, to <= MaxEntries + 2
  PROVE  read(b, s, from, to) = IF to <= c.accepted_idx THEN ReadOf(c, h, from, to) ELSE None
<1>0. /\ h \in Seq(Entries) /\ Len(h) \in Nat /\ MaxEntries \in Nat
      /\ c.compacted_idx \in Nat /\ c.decided_idx \in Nat
      /\ c.accepted_idx \in Nat /\ c.accepted_idx <= Len(h) + 1
  BY ValidFits
<1>1. s.cache = c
  BY DEF Held
<1>2. Sub(to, 1) = to - 1 /\ to - 1 \in Nat /\ c.compacted_idx <= to - 1
  BY <1>0, SubFits
<1> DEFINE to_type == get_entry_type(c, Sub(to, 1))
           from_type == get_entry_type(c, from)
           last == <<"StopSign", stopsign_is_decided(c)>>
<1>3. /\ to - 1 < Len(h) => to_type = "Entry"
      /\ to - 1 >= c.accepted_idx => to_type = "None"
      /\ to - 1 = Len(h) /\ to - 1 < c.accepted_idx => to_type = "StopSign"
  BY <1>2, EntryType
<1>4. /\ from < Len(h) => from_type = "Entry"
      /\ from = Len(h) /\ from < c.accepted_idx => from_type = "StopSign"
  BY EntryType
<1>5. read(b, s, from, to) =
        CASE to = 0 \/ to_type = "None" \/ from_type = "None" -> None
          [] from_type = "Entry" /\ to_type = "Entry" ->
               create_read_log_entries(b, s, from, to)
          [] from_type = "Entry" /\ to_type = "StopSign" ->
               create_read_log_entries(b, s, from, Sub(to, 1)) \o <<last>>
          [] from_type = "StopSign" /\ to_type = "StopSign" -> <<last>>
          [] OTHER -> "panic"
  BY <1>1 DEF read
<1> HIDE DEF to_type, from_type, last
<1>6. CASE to > c.accepted_idx
  <2>1. to_type = "None"
    BY <1>0, <1>2, <1>3, <1>6
  <2>2. read(b, s, from, to) = None
    BY <1>5, <2>1
  <2> QED
    BY <1>0, <1>6, <2>2
<1>7. CASE to <= c.accepted_idx /\ to <= Len(h)
  <2>1. to_type = "Entry" /\ from_type = "Entry" /\ to # 0
    BY <1>0, <1>2, <1>3, <1>4, <1>7
  <2>2. read(b, s, from, to) = create_read_log_entries(b, s, from, to)
    BY <1>5, <2>1
  <2>3. create_read_log_entries(b, s, from, to) = ReadOf(c, h, from, to)
    BY <1>7, EntriesMarked
  <2> QED
    BY <1>7, <2>2, <2>3
<1>8. CASE to <= c.accepted_idx /\ ~(to <= Len(h))
  <2>1. to = Len(h) + 1 /\ c.accepted_idx = Len(h) + 1 /\ to - 1 = Len(h)
    BY <1>0, <1>8
  <2>2. to_type = "StopSign" /\ to # 0
    BY <1>0, <1>3, <2>1
  <2>3. c.stopsign # None
    BY <1>0, <2>1 DEF Valid, StopLen
  <2>4. stopsign_is_decided(c) = (c.decided_idx = c.accepted_idx)
    BY <2>3 DEF stopsign_is_decided
  <2>5. last = <<"StopSign", c.decided_idx = c.accepted_idx>>
    BY <2>4 DEF last
  <2> DEFINE f == ReadOf(c, h, from, Len(h))
  <2>6. ReadOf(c, h, from, to) = [i \in 1 .. ((Len(h) - from) + 1) |->
                                    IF i <= Len(h) - from THEN f[i] ELSE last]
    <3>1. to - from = (Len(h) - from) + 1
      BY <1>0, <2>1
    <3>2. \A i \in 1 .. (to - from) : from + i <= Len(h) <=> i <= Len(h) - from
      BY <1>0
    <3>3. \A i \in 1 .. (Len(h) - from) :
            f[i] = <<IF from + i <= c.decided_idx THEN "Decided" ELSE "Undecided", h[from + i]>>
      BY <1>0 DEF ReadOf
    <3>4. \A i \in 1 .. (to - from) : i <= Len(h) - from => i \in 1 .. (Len(h) - from)
      BY <1>0
    <3> HIDE DEF f, last
    <3> QED
      BY <2>5, <3>1, <3>2, <3>3, <3>4 DEF ReadOf
  <2>7. CASE from < Len(h)
    <3>1. from_type = "Entry"
      BY <1>4, <2>7
    <3>2. read(b, s, from, to) = create_read_log_entries(b, s, from, to - 1) \o <<last>>
      BY <1>2, <1>5, <2>2, <3>1
    <3>3. create_read_log_entries(b, s, from, Len(h)) = f
      <4>1. from <= Len(h) /\ Len(h) <= Len(h)
        BY <1>0, <2>7
      <4> QED
        BY <1>0, <4>1, EntriesMarked
    <3>4. f \o <<last>> = [i \in 1 .. ((Len(h) - from) + 1) |->
                             IF i <= Len(h) - from THEN f[i] ELSE last]
      <4> DEFINE m == Len(h) - from
      <4>1. m \in Nat
        BY <1>0, <2>7
      <4>2. f = [i \in 1 .. m |-> f[i]]
        BY DEF ReadOf
      <4> HIDE DEF f, m
      <4>3. f \o <<last>> = [i \in 1 .. (m + 1) |-> IF i <= m THEN f[i] ELSE last]
        BY <4>1, <4>2, LastAppended
      <4> QED
        BY <4>3 DEF m
    <3> HIDE DEF f
    <3> QED
      BY <1>8, <2>1, <2>6, <3>2, <3>3, <3>4
  <2>8. CASE from = Len(h)
    <3>1. from_type = "StopSign"
      BY <1>0, <1>4, <2>1, <2>8
    <3>2. read(b, s, from, to) = <<last>>
      BY <1>5, <2>2, <3>1
    <3>3. Len(h) - from = 0 /\ (Len(h) - from) + 1 = 1
      BY <1>0, <2>8
    <3>4. ReadOf(c, h, from, to) = [i \in 1 .. 1 |-> last]
      <4>1. \A i \in 1 .. 1 : ~(i <= 0)
        OBVIOUS
      <4> HIDE DEF f
      <4> QED
        BY <2>6, <3>3, <4>1
    <3>5. [i \in 1 .. 1 |-> last] = <<last>>
      OBVIOUS
    <3> QED
      BY <1>8, <3>2, <3>4, <3>5
  <2>9. from < Len(h) \/ from = Len(h)
    <3>1. \A x, y \in Nat : x < y + 1 => x < y \/ x = y
      OBVIOUS
    <3>2. from < Len(h) + 1
      BY <2>1
    <3> QED
      BY <1>0, <3>1, <3>2
  <2> QED
    BY <2>7, <2>8, <2>9
<1> QED
  BY <1>0, <1>6, <1>7, <1>8

\* read of a range that starts among the compacted entries.
LEMMA ReadBelow ==
  ASSUME NEW b \in Backends, NEW s, NEW c, NEW h, NEW snap, Valid(c, h), Held(b, s, c, h, snap),
         NEW from \in Nat, NEW to \in Nat, from < c.compacted_idx, from < to, to <= MaxEntries + 2
  PROVE  read(b, s, from, to) = IF to <= c.accepted_idx THEN "panic" ELSE None
<1>0. /\ Len(h) \in Nat /\ MaxEntries \in Nat /\ c.compacted_idx \in Nat
      /\ c.accepted_idx \in Nat /\ c.accepted_idx <= Len(h) + 1
      /\ c.compacted_idx <= Len(h) /\ Len(h) <= c.accepted_idx
  BY ValidFits DEF Valid, StopLen
<1>1. s.cache = c
  BY DEF Held
<1>2. Sub(to, 1) = to - 1 /\ to - 1 \in Nat
  BY <1>0, SubFits
<1> DEFINE to_type == get_entry_type(c, Sub(to, 1))
           from_type == get_entry_type(c, from)
           last == <<"StopSign", stopsign_is_decided(c)>>
<1>3. from_type = "Compacted"
  BY <1>0 DEF get_entry_type
<1>4. to - 1 >= c.accepted_idx => to_type = "None"
  BY <1>0, <1>2, EntryType
<1>5. to - 1 < c.accepted_idx => to_type \in {"Compacted", "Entry", "StopSign"}
  <2>1. CASE to - 1 < c.compacted_idx
    BY <1>0, <1>2, <2>1 DEF get_entry_type
  <2>2. CASE c.compacted_idx <= to - 1 /\ to - 1 < Len(h)
    BY <1>2, <2>2, EntryType
  <2>3. CASE c.compacted_idx <= to - 1 /\ to - 1 = Len(h)
    BY <1>2, <2>3, EntryType
  <2> HIDE DEF to_type
  <2> QED
    BY <1>0, <1>2, <2>1, <2>2, <2>3
<1>6. read(b, s, from, to) =
        CASE to = 0 \/ to_type = "None" \/ from_type = "None" -> None
          [] from_type = "Entry" /\ to_type = "Entry" ->
               create_read_log_entries(b, s, from, to)
          [] from_type = "Entry" /\ to_type = "StopSign" ->
               create_read_log_entries(b, s, from, Sub(to, 1)) \o <<last>>
          [] from_type = "StopSign" /\ to_type = "StopSign" -> <<last>>
          [] OTHER -> "panic"
  BY <1>1 DEF read
<1> HIDE DEF to_type, from_type, last
<1>7. CASE to <= c.accepted_idx
  <2>1. to_type \in {"Compacted", "Entry", "StopSign"} /\ to # 0
    BY <1>0, <1>2, <1>5, <1>7
  <2> QED
    BY <1>3, <1>6, <1>7, <2>1
<1>8. CASE ~(to <= c.accepted_idx)
  <2>1. to_type = "None"
    BY <1>0, <1>2, <1>4, <1>8
  <2> QED
    BY <1>6, <1>8, <2>1
<1> QED
  BY <1>7, <1>8

\* Until a compaction overruns the log, a read returns the entries that were
\* appended, with their marks, None beyond the end, and panics where entries
\* are compacted (InternalStorage::read), from either back-end.
THEOREM ReadsExact == Spec => []ReadsHistory
<1>1. StorageInv => ReadsHistory
  <2> SUFFICES ASSUME StorageInv, ~overrun, NEW b \in Backends,
                      NEW to \in 1 .. (MaxEntries + 2), NEW from \in 0 .. (to - 1)
               PROVE  read(b, store[b], from, to) =
                        CASE to > Cache.accepted_idx -> None
                          [] to <= Cache.accepted_idx /\ from < Cache.compacted_idx -> "panic"
                          [] OTHER -> Expected(from, to)
    BY DEF ReadsHistory
  <2> DEFINE c == Cache
  <2>1. Valid(c, history) /\ Held(b, store[b], c, history, Snap)
    BY DEF StorageInv, ImagesHeld
  <2>2. c.compacted_idx \in Nat /\ MaxEntries \in Nat /\ c.accepted_idx \in Nat
    BY <2>1, ValidFits
  <2>3. to \in Nat /\ from \in Nat /\ from < to /\ to <= MaxEntries + 2
    BY <2>2
  <2>4. Expected(from, to) = ReadOf(c, history, from, to)
    BY DEF Expected, ReadOf
  <2> HIDE DEF c
  <2>5. CASE c.compacted_idx <= from
    <3>1. read(b, store[b], from, to)
            = IF to <= c.accepted_idx THEN ReadOf(c, history, from, to) ELSE None
      BY <2>1, <2>3, <2>5, ReadAnswer
    <3> QED
      BY <2>2, <2>3, <2>4, <2>5, <3>1 DEF c
  <2>6. CASE from < c.compacted_idx
    <3>1. read(b, store[b], from, to) = IF to <= c.accepted_idx THEN "panic" ELSE None
      BY <2>1, <2>3, <2>6, ReadBelow
    <3> QED
      BY <2>2, <2>3, <2>6, <3>1 DEF c
  <2> QED
    BY <2>2, <2>3, <2>5, <2>6
<1> QED
  BY <1>1, StorageAlways, PTL

\* The suffix.
LEMMA SuffixAnswer ==
  ASSUME NEW b \in Backends, NEW s, NEW c, NEW h, NEW snap, Valid(c, h), Held(b, s, c, h, snap)
  PROVE  /\ s.cache = c /\ s.storage.snapshot = snap
         /\ \A from \in c.compacted_idx .. (MaxEntries + 1) :
              get_suffix(b, s.storage, from)
                = IF from <= Len(h) THEN SubSeq(h, from + 1, Len(h)) ELSE <<>>
<1>0. /\ h \in Seq(Entries) /\ Len(h) \in Nat /\ Len(h) <= MaxEntries /\ MaxEntries \in Nat
      /\ c.compacted_idx \in Nat /\ c.compacted_idx <= Len(h)
  BY ValidFits
<1>1. PICK ld, tr \in Options :
        s = [cache   |-> c,
             storage |-> Image(b, c.compacted_idx, h, c.promise, ld,
                               tr, snap, c.stopsign)]
  BY DEF Held
<1> DEFINE st == Image(b, c.compacted_idx, h, c.promise, ld, tr, snap, c.stopsign)
<1>2. s.cache = c /\ s.storage = st
  BY <1>1
<1>3. st.snapshot = snap
  BY DEF Image, Backends
<1>4. ASSUME NEW from \in c.compacted_idx .. (MaxEntries + 1)
      PROVE  get_suffix(b, s.storage, from)
               = IF from <= Len(h) THEN SubSeq(h, from + 1, Len(h)) ELSE <<>>
  <2>1. from \in Nat /\ c.compacted_idx <= from /\ from <= MaxEntries + 2
    BY <1>0
  <2>2. get_suffix(b, st, from)
          = IF from <= Len(h) THEN SubSeq(h, from + 1, Len(h)) ELSE <<>>
    <3> DEFINE k == c.compacted_idx
    <3>1. h \in Seq(Entries) /\ Len(h) <= MaxEntries /\ k \in Nat /\ k <= Len(h) /\ k <= from
      BY <1>0, <2>1
    <3> HIDE DEF k
    <3>2. CASE from <= Len(h)
      <4>1. get_suffix(b, Image(b, k, h, c.promise, ld, tr, snap, c.stopsign), from)
              = SubSeq(h, from + 1, Len(h))
        BY <2>1, <3>1, <3>2, SuffixRead
      <4> QED
        BY <3>2, <4>1 DEF k
    <3>3. CASE ~(from <= Len(h))
      <4>1. get_suffix(b, Image(b, k, h, c.promise, ld, tr, snap, c.stopsign), from)
              = <<>>
        BY <2>1, <3>1, <3>3, SuffixRead
      <4> QED
        BY <3>3, <4>1 DEF k
    <3> QED
      BY <3>2, <3>3
  <2> HIDE DEF st
  <2> QED
    BY <1>2, <2>2
<1> HIDE DEF st
<1> QED
  BY <1>2, <1>3, <1>4

\* MemoryStorage and PersistentStorage lead InternalStorage to the same cache,
\* snapshot and suffixes, until a compaction overruns the log.
THEOREM BackendsSame == Spec => []BackendsAgree
<1>1. StorageInv => BackendsAgree
  <2> SUFFICES ASSUME StorageInv, ~overrun
               PROVE  LET m == store["memory"]
                          p == store["persistent"]
                      IN /\ m.cache = p.cache
                         /\ m.storage.snapshot = p.storage.snapshot
                         /\ \A from \in m.cache.compacted_idx .. (MaxEntries + 1) :
                              get_suffix("memory", m.storage, from)
                                = get_suffix("persistent", p.storage, from)
    BY DEF BackendsAgree
  <2> DEFINE c == Cache
             h == history
             Suffix(from) == IF from <= Len(h) THEN SubSeq(h, from + 1, Len(h)) ELSE <<>>
  <2>1. Valid(c, h) /\ \A b \in Backends : Held(b, store[b], c, h, Snap)
    BY DEF StorageInv, ImagesHeld
  <2>2. ASSUME NEW b \in Backends
        PROVE  /\ store[b].cache = c /\ store[b].storage.snapshot = Snap
               /\ \A from \in c.compacted_idx .. (MaxEntries + 1) :
                    get_suffix(b, store[b].storage, from) = Suffix(from)
    BY <2>1, SuffixAnswer
  <2>3. "memory" \in Backends /\ "persistent" \in Backends
    BY DEF Backends
  <2> HIDE DEF c, h, Suffix
  <2> QED
    BY <2>2, <2>3
<1> QED
  BY <1>1, StorageAlways, PTL

-----------------------------------------------------------------------------
\* What the snapshot holds.

\* Until a compaction overruns the log, the snapshot of either back-end has every
\* compacted entry that was not trimmed, once (create_snapshot, try_trim,
\* try_snapshot).
THEOREM SnapshotsCover == Spec => []SnapshotCovers
<1>1. StorageInv => SnapshotCovers
  <2> SUFFICES ASSUME StorageInv, ~overrun, NEW b \in Backends
               PROVE  LET stored   == store[b].storage.snapshot
                          snapshot == IF stored = None THEN <<>> ELSE stored
                      IN /\ Range(snapshot)
                              = {history[k] : k \in 1 .. Cache.compacted_idx} \ trimmed
                         /\ IsInjective(snapshot)
    BY DEF SnapshotCovers
  <2>1. /\ Valid(Cache, history) /\ Held(b, store[b], Cache, history, Snap)
        /\ Covers(Snap, history, Cache.compacted_idx, trimmed)
    BY DEF StorageInv, ImagesHeld
  <2>2. store[b].storage.snapshot = Snap
    BY <2>1, SuffixAnswer
  <2> QED
    BY <2>1, <2>2 DEF Covers, Upto
<1> QED
  BY <1>1, StorageAlways, PTL

==============================================================================
