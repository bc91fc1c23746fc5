------------------------------ MODULE Storage ------------------------------
(***************************************************************************)
(* The storage layer of a server: InternalStorage, its StateCache, and the *)
(* two back-ends, MemoryStorage and PersistentStorage.  Every operation is *)
(* performed on both back-ends side by side, so that their answers can be  *)
(* compared; a crash keeps what the back-end holds and load_cache builds   *)
(* the cache again.  The server appends, promises, decides and restarts;   *)
(* try_trim, try_snapshot and set_stopsign are operations of the library   *)
(* that nothing calls in the server, and are called here at any time.      *)
(* Positions count from 0, as in the code; usize is Width bits wide.       *)
(***************************************************************************)
EXTENDS Integers, Sequences, FiniteSets, SequencesExt

CONSTANTS
  BatchSize,           \* batch_size
  MaxEntries,          \* bound: entries are 1 .. MaxEntries
  MaxBallot,           \* bound: rounds are 0 .. MaxBallot
  Width,               \* bits of a usize
  MaxCrashes,          \* bound on the restarts
  None

\* Indices fit a usize.  That 2^Width is a natural follows from Width being one;
\* it is stated for the provers, which do not know exponentiation.
ASSUME StorageAssumption ==
  /\ BatchSize \in Nat /\ MaxEntries \in Nat /\ MaxBallot \in Nat
  /\ MaxCrashes \in Nat
  /\ Width \in Nat /\ 2^Width \in Nat /\ MaxEntries + 2 < 2^Width

Backends == {"memory", "persistent"}
Entries  == 1 .. MaxEntries

\* None is the Option without a value.
ASSUME NoneAssumption ==
  None \notin Nat /\ None \notin Seq(Entries) /\ None # "stopsign"

VARIABLES
  store,     \* store[b] = [cache, storage]: the InternalStorage on back-end b
  electing,  \* the ballot that handle_leader has flushed for and not yet promised
  history,   \* what was written to the log, never compacted (auxiliary)
  trimmed,   \* entries trimmed without a snapshot (auxiliary)
  overrun,   \* whether a compaction went past the end of the log (auxiliary)
  crashes    \* number of restarts so far

vars == <<store, electing, history, trimmed, overrun, crashes>>

-----------------------------------------------------------------------------
(* Arithmetic and snapshots.                                               *)

\* usize subtraction and addition, as the release build does them.
Sub(a, b) == (a - b) % 2^Width
Add(a, b) == (a + b) % 2^Width

\* The place of i among the members of S, counted from 1.
Rank(S, i) == Cardinality({j \in S : j <= i})

\* Rust's slice.get(from..to).unwrap_or(&[]).
Slice(s, from, to) ==
  IF from <= to /\ to <= Len(s) THEN SubSeq(s, from + 1, to) ELSE <<>>

\* Snapshot::create and Snapshot::merge, for a snapshot that remembers which
\* entries went into it, and in which order.
create(entries)        == entries
merge(snapshot, delta) == snapshot \o delta

-----------------------------------------------------------------------------
(* MemoryStorage: a vector and the index of its first element.             *)

DefaultMemory ==
  [log |-> <<>>, n_prom |-> None, ld |-> 0, trimmed_idx |-> 0,
   compacted_idx |-> 0, snapshot |-> None, stopsign |-> None]

\* Mutant: the index is taken as the number of entries to drop.
mem_trimAbsolute(m, idx) ==
  LET to_trim == IF idx < Len(m.log) THEN idx ELSE Len(m.log)
  IN [m EXCEPT !.log = SubSeq(@, to_trim + 1, Len(@)), !.trimmed_idx = idx]
mem_trim(m, idx) ==
  LET gap     == Sub(idx, m.trimmed_idx)
      to_trim == IF gap < Len(m.log) THEN gap ELSE Len(m.log)
  IN [m EXCEPT !.log = SubSeq(@, to_trim + 1, Len(@)), !.trimmed_idx = idx]

mem_get_entries(m, from, to) ==
  Slice(m.log, Sub(from, m.trimmed_idx), Sub(to, m.trimmed_idx))

mem_get_suffix(m, from) ==
  Slice(m.log, Sub(from, m.trimmed_idx), Len(m.log))

-----------------------------------------------------------------------------
(* PersistentStorage: entries under their index in the log column family,  *)
(* the other values under keys of their own, and next_log_key, which is    *)
(* kept in memory only.                                                    *)

EmptyDB ==
  [log |-> <<>>, n_prom |-> None, ld |-> None, trim |-> None,
   snapshot |-> None, stopsign |-> None, next_log_key |-> 0]

\* delete_range_cf(from .. to), to exclusive.
DeleteRange(log, from, to) ==
  [k \in {j \in DOMAIN log : j < from \/ j >= to} |-> log[k]]

db_append_entries(d, entries) ==
  LET new == d.next_log_key .. (d.next_log_key + Len(entries) - 1)
  IN [d EXCEPT
        !.log = [k \in DOMAIN @ \cup new |->
                   IF k \in new THEN entries[k - d.next_log_key + 1] ELSE @[k]],
        !.next_log_key = @ + Len(entries)]

db_trim(d, idx) == [d EXCEPT !.log = DeleteRange(@, 0, idx)]

\* The iterator stands on the first key that is not below from and reads
\* on; running out of keys is the error ErrHelper.
db_get_entries(d, from, to) ==
  LET keys == {k \in DOMAIN d.log : k >= from}
  IN CASE to > d.next_log_key \/ from >= to -> <<>>
       [] to <= d.next_log_key /\ from < to /\ to - from > Cardinality(keys) -> None
       [] OTHER -> [i \in 1 .. (to - from) |->
                      d.log[CHOOSE k \in keys : Rank(keys, k) = i]]

db_get_suffix(d, from) == db_get_entries(d, from, d.next_log_key)

OrZero(v) == IF v = None THEN 0 ELSE v

\* Mutant: an empty log always starts at zero.
openAtZero(d) ==
  LET keys == DOMAIN d.log
  IN [d EXCEPT !.next_log_key =
        IF keys = {} THEN 0
        ELSE (CHOOSE k \in keys : \A j \in keys : j <= k) + 1]
\* open(): the next key is one above the last key of the log, or the
\* compacted index when the log is empty.
open(d) ==
  LET keys == DOMAIN d.log
  IN [d EXCEPT !.next_log_key =
        IF keys = {} THEN OrZero(d.trim)
        ELSE (CHOOSE k \in keys : \A j \in keys : j <= k) + 1]

-----------------------------------------------------------------------------
(* The Storage trait, for either back-end.                                 *)

get_entries(b, st, from, to) ==
  IF b = "memory" THEN mem_get_entries(st, from, to)
                  ELSE db_get_entries(st, from, to)

get_suffix(b, st, from) ==
  IF b = "memory" THEN mem_get_suffix(st, from) ELSE db_get_suffix(st, from)

stored_compacted_idx(b, st) ==
  IF b = "memory" THEN st.compacted_idx ELSE OrZero(st.trim)

get_log_len(b, st) ==
  IF b = "memory" THEN Len(st.log)
                  ELSE Sub(st.next_log_key, stored_compacted_idx(b, st))

append_entries(b, st, entries) ==
  IF b = "memory" THEN [st EXCEPT !.log = @ \o entries]
                  ELSE db_append_entries(st, entries)

set_compacted_idx(b, st, idx) ==
  IF b = "memory" THEN [st EXCEPT !.compacted_idx = idx]
                  ELSE [st EXCEPT !.trim = idx]

trim(b, st, idx) ==
  IF b = "memory" THEN mem_trim(st, idx) ELSE db_trim(st, idx)

\* The operations of a compaction, of which write_atomically makes one batch:
\* Trim, SetCompactedIdx and, for a snapshot, SetSnapshot.
write_compaction(b, st, idx, snapshot) ==
  [set_compacted_idx(b, trim(b, st, idx), idx) EXCEPT !.snapshot = snapshot]

-----------------------------------------------------------------------------
(* InternalStorage.  A value s is the pair of a cache and its back-end.    *)

\* load_cache, with the batch of a new StateCache.  Nothing sets the accepted
\* round in the server; it is left out.
load_cache(b, st) ==
  [batched_entries |-> <<>>,
   promise         |-> OrZero(st.n_prom),
   decided_idx     |-> OrZero(st.ld),
   compacted_idx   |-> stored_compacted_idx(b, st),
   stopsign        |-> st.stopsign,
   accepted_idx    |-> Add(get_log_len(b, st), stored_compacted_idx(b, st))
                         + (IF st.stopsign # None THEN 1 ELSE 0)]

\* InternalStorage::with, on what the back-end holds.
with(b, st) == [cache |-> load_cache(b, st), storage |-> st]

stopsign_is_decided(c) ==
  c.stopsign # None /\ c.decided_idx = c.accepted_idx

get_decided_idx_without_stopsign(c) ==
  IF stopsign_is_decided(c) THEN Sub(c.decided_idx, 1) ELSE c.decided_idx

append_entries_without_batching(b, s, entries) ==
  [cache   |-> [s.cache EXCEPT !.accepted_idx = @ + Len(entries)],
   storage |-> append_entries(b, s.storage, entries)]

\* take_batched_entries, then the append.
flush_batch(b, s) ==
  append_entries_without_batching(
    b, [s EXCEPT !.cache.batched_entries = <<>>], s.cache.batched_entries)

BatchIsFull(c, entries) == Len(c.batched_entries \o entries) >= BatchSize

append_entries_and_get_accepted_idx(b, s, entries) ==
  LET s2 == [s EXCEPT !.cache.batched_entries = @ \o entries]
  IN IF BatchIsFull(s.cache, entries) THEN flush_batch(b, s2) ELSE s2

set_promise(s, n) ==
  [s EXCEPT !.cache.promise = n, !.storage.n_prom = n]

\* SequencePaxos::with stores the promise that it has found.
start(b, st) == set_promise(with(b, st), OrZero(st.n_prom))

set_decided_idx(s, idx) ==
  [s EXCEPT !.cache.decided_idx = idx, !.storage.ld = idx]

set_stopsign(s, ss) ==
  LET have == s.cache.stopsign # None
  IN [s EXCEPT
        !.cache.accepted_idx = CASE ss # None /\ ~have -> @ + 1
                                 [] ss = None /\ have  -> Sub(@, 1)
                                 [] OTHER              -> @,
        !.cache.stopsign     = ss,
        !.storage.stopsign   = ss]

\* Mutant: the new snapshot replaces the earlier one.
create_snapshotFresh(b, s, compact_idx) ==
  create(get_entries(b, s.storage, s.cache.compacted_idx, compact_idx))
\* Its TrimmedIndex error does not arise: the caller has compared the indices.
create_snapshot(b, s, compact_idx) ==
  LET delta == create(get_entries(b, s.storage, s.cache.compacted_idx,
                                  compact_idx))
  IN IF s.storage.snapshot = None THEN delta
                                  ELSE merge(s.storage.snapshot, delta)

\* The index that try_trim and try_snapshot compact up to.  try_snapshot(None)
\* is the call with the decided index.
CompactTo(c, idx) ==
  IF idx < c.decided_idx THEN idx ELSE get_decided_idx_without_stopsign(c)

Compact(b, s, idx, snapshot) ==
  [cache   |-> [s.cache EXCEPT !.compacted_idx = idx],
   storage |-> write_compaction(b, s.storage, idx, snapshot)]

try_trim(b, s, idx) ==
  LET to == CompactTo(s.cache, idx)
  IN IF to > s.cache.compacted_idx
     THEN Compact(b, s, to, s.storage.snapshot) ELSE s

try_snapshot(b, s, idx) ==
  LET to == CompactTo(s.cache, idx)
  IN IF to > s.cache.compacted_idx
     THEN Compact(b, s, to, create_snapshot(b, s, to)) ELSE s

-----------------------------------------------------------------------------
(* Reading the log: InternalStorage::read and the OmniPaxos facade.        *)

get_entry_type(c, idx) ==
  CASE idx < c.compacted_idx    -> "Compacted"
    [] idx >= c.compacted_idx /\ idx + 1 < c.accepted_idx -> "Entry"
    [] idx >= c.compacted_idx /\ idx + 1 = c.accepted_idx ->
         IF c.stopsign = None THEN "Entry" ELSE "StopSign"
    [] OTHER                    -> "None"

\* Mutant: the decided index is taken for the index of a decided entry.
create_read_log_entriesUpTo(b, s, from, to) ==
  LET entries == get_entries(b, s.storage, from, to)
  IN [i \in 1 .. Len(entries) |->
        <<IF from + i - 1 <= s.cache.decided_idx THEN "Decided"
                                                 ELSE "Undecided",
          entries[i]>>]
create_read_log_entries(b, s, from, to) ==
  LET entries == get_entries(b, s.storage, from, to)
  IN [i \in 1 .. Len(entries) |->
        <<IF from + i - 1 < s.cache.decided_idx THEN "Decided"
                                                ELSE "Undecided",
          entries[i]>>]

\* The entries in [from, to); "panic" is the unimplemented!() of the code.
read(b, s, from, to) ==
  LET to_type   == get_entry_type(s.cache, Sub(to, 1))
      from_type == get_entry_type(s.cache, from)
      last == <<<<"StopSign", stopsign_is_decided(s.cache)>>>>
  IN CASE to = 0 \/ to_type = "None" \/ from_type = "None" -> None
       [] from_type = "Entry" /\ to_type = "Entry" ->
            create_read_log_entries(b, s, from, to)
       [] from_type = "Entry" /\ to_type = "StopSign" ->
            create_read_log_entries(b, s, from, Sub(to, 1)) \o last
       [] from_type = "StopSign" /\ to_type = "StopSign" -> last
       [] OTHER -> "panic"

-----------------------------------------------------------------------------
(* The operations.  Each is performed on both back-ends.                   *)

Both(Op(_, _)) == store' = [b \in Backends |-> Op(b, store[b])]

\* Batch, promise and decided index never depend on the back-end, and the
\* other indices do not as long as nothing beyond the log is compacted.
Cache == store["memory"].cache

Init ==
  /\ store = [b \in Backends |->
                start(b, IF b = "memory" THEN DefaultMemory ELSE EmptyDB)]
  /\ electing = None
  /\ history = <<>>
  /\ trimmed = {}
  /\ overrun = FALSE
  /\ crashes = 0

\* handle_new_proposal: a released command is appended; the batch is written
\* when it is full.
Append_(e) ==
  /\ e \notin Range(history \o Cache.batched_entries)
  /\ Both(LAMBDA b, s : append_entries_and_get_accepted_idx(b, s, <<e>>))
  /\ history' = IF BatchIsFull(Cache, <<e>>)
                THEN history \o Cache.batched_entries \o <<e>> ELSE history
  /\ UNCHANGED <<electing, trimmed, overrun, crashes>>

\* handle_leader, its first lock section: a higher ballot flushes the batch.
Flush(ballot) ==
  /\ electing = None /\ ballot > Cache.promise
  /\ electing' = ballot
  /\ Both(LAMBDA b, s : flush_batch(b, s))
  /\ history' = history \o Cache.batched_entries
  /\ UNCHANGED <<trimmed, overrun, crashes>>

\* Its second one: the ballot is promised.
Promise ==
  /\ electing # None
  /\ Both(LAMBDA b, s : set_promise(s, electing))
  /\ electing' = None
  /\ UNCHANGED <<history, trimmed, overrun, crashes>>

\* handle_execution: a confirmation sets the decided index, whatever it was and
\* whatever the log holds.
Decide(idx) ==
  /\ Both(LAMBDA b, s : set_decided_idx(s, idx))
  /\ UNCHANGED <<electing, history, trimmed, overrun, crashes>>

\* A stop sign is put behind the log or taken away.
SetStopsign(ss) ==
  /\ Both(LAMBDA b, s : set_stopsign(s, ss))
  /\ UNCHANGED <<electing, history, trimmed, overrun, crashes>>

\* Whether a compaction for idx goes past what the log holds: the decided index
\* may lie beyond it.
Overruns(idx) ==
  /\ CompactTo(Cache, idx) > Cache.compacted_idx
  /\ CompactTo(Cache, idx) > Len(history)

\* Compaction for an index that is decided; otherwise both return
\* UndecidedIndex.
Trim(idx) ==
  /\ idx <= Cache.decided_idx
  /\ Both(LAMBDA b, s : try_trim(b, s, idx))
  /\ trimmed' = trimmed \cup
       {history[k] : k \in {j \in 1 .. Len(history) :
                              Cache.compacted_idx < j /\ j <= CompactTo(Cache, idx)}}
  /\ overrun' = (overrun \/ Overruns(idx))
  /\ UNCHANGED <<electing, history, crashes>>

TakeSnapshot(idx) ==
  /\ idx <= Cache.decided_idx
  /\ Both(LAMBDA b, s : try_snapshot(b, s, idx))
  /\ overrun' = (overrun \/ Overruns(idx))
  /\ UNCHANGED <<electing, history, trimmed, crashes>>

\* A crash and a restart: the database is opened again and the cache is
\* loaded from the back-end.  The batch is lost.
Restart ==
  /\ crashes < MaxCrashes
  /\ crashes' = crashes + 1
  /\ electing' = None
  /\ Both(LAMBDA b, s :
            start(b, IF b = "memory" THEN s.storage ELSE open(s.storage)))
  /\ UNCHANGED <<history, trimmed, overrun>>

Next ==
  \/ \E e \in Entries : Append_(e)
  \/ \E ballot \in 1 .. MaxBallot : Flush(ballot)
  \/ Promise
  \/ \E idx \in 1 .. (MaxEntries + 1) : Decide(idx)
  \/ \E ss \in {"stopsign", None} : SetStopsign(ss)
  \/ \E idx \in 1 .. (MaxEntries + 1) : Trim(idx)
  \/ \E idx \in 1 .. (MaxEntries + 1) : TakeSnapshot(idx)
  \/ Restart

Spec == Init /\ [][Next]_vars

-----------------------------------------------------------------------------
(* Properties.  The decided index may lie beyond the log, and a compaction *)
(* up to it empties the log and leaves the cache and the back-ends with    *)
(* different ends: the properties hold until that happens.                 *)

\* Both back-ends lead InternalStorage to the same cache, the same snapshot and
\* the same suffixes: a vector counted from the trimmed index and keys in a
\* database name the same entries after every mix of batches, compactions and
\* restarts.
BackendsAgree ==
  ~overrun =>
    LET m == store["memory"]
        p == store["persistent"]
    IN /\ m.cache = p.cache
       /\ m.storage.snapshot = p.storage.snapshot
       /\ \A from \in m.cache.compacted_idx .. (MaxEntries + 1) :
            get_suffix("memory", m.storage, from)
              = get_suffix("persistent", p.storage, from)

\* A restart at any moment, between the two writes of an election too, loses the
\* batch and nothing else: load_cache, and the next key that open() finds in
\* the database, give back what the lost cache held.
RestartRecovers ==
  ~overrun =>
    \A b \in Backends :
      LET s  == store[b]
          st == IF b = "memory" THEN s.storage ELSE open(s.storage)
      IN /\ st = s.storage
         /\ load_cache(b, st) = [s.cache EXCEPT !.batched_entries = <<>>]

\* What read returns for any range: exactly the entries that were appended
\* there, marked as decided up to the decided index, the stop sign in the last
\* place, None as soon as the range reaches past the end of the log, and the
\* panic of the code, never entries of other positions, when it starts among
\* the compacted ones.
Expected(from, to) ==
  [i \in 1 .. (to - from) |->
     IF from + i <= Len(history)
     THEN <<IF from + i <= Cache.decided_idx THEN "Decided" ELSE "Undecided",
            history[from + i]>>
     ELSE <<"StopSign", Cache.decided_idx = Cache.accepted_idx>>]

ReadsHistory ==
  ~overrun =>
    \A b \in Backends, to \in 1 .. (MaxEntries + 2) : \A from \in 0 .. (to - 1) :
      read(b, store[b], from, to) =
        CASE to > Cache.accepted_idx -> None
          [] to <= Cache.accepted_idx /\ from < Cache.compacted_idx -> "panic"
          [] OTHER -> Expected(from, to)

\* Compaction discards nothing that the snapshot does not hold, and the snapshot
\* holds nothing twice: it has every compacted entry that was not trimmed.
SnapshotCovers ==
  ~overrun =>
    \A b \in Backends :
      LET stored   == store[b].storage.snapshot
          snapshot == IF stored = None THEN <<>> ELSE stored
      IN /\ Range(snapshot) = {history[k] : k \in 1 .. Cache.compacted_idx} \ trimmed
         /\ IsInjective(snapshot)

\* "If entries do not exist for the complete interval, an empty Vector should be
\* returned": get_entries of either back-end, for any range.  RocksDB's iterator
\* starts at the first key that is left, and yields entries of later positions.
EntriesOrNothing ==
  ~overrun =>
    \A b \in Backends, to \in 1 .. (MaxEntries + 1) : \A from \in 0 .. (to - 1) :
      (from < Cache.compacted_idx \/ to > Len(history))
        => get_entries(b, store[b].storage, from, to) = <<>>

=============================================================================
