------------------------------ MODULE UniCache ------------------------------
(***************************************************************************)
(* UniCache: the leader replaces a field that its encoder holds by a short *)
(* code, and every follower turns the code back with a decoder that must   *)
(* go through the same evictions.  Both eviction policies are modelled:    *)
(* LRUniCache (over the lru crate) and LFUniCache (over the LFUCache of    *)
(* this repository).  A follower starts with a new cache and sees every    *)
(* message, or joins with a clone of the leader's.                         *)
(***************************************************************************)
EXTENDS Integers, Sequences, FiniteSets, SequencesExt, Functions

CONSTANTS
  Fields,       \* values of the encodable field
  Size,         \* capacity of the caches
  Veterans,     \* followers that have a new cache and see every message
  Joiners,      \* followers that join with a clone
  MaxFields     \* bound on the fields the leader encodes

ASSUME UniCacheAssumption ==
  /\ Size \in Nat \ {0}
  /\ MaxFields \in Nat
  /\ Veterans \cap Joiners = {}
  /\ "leader" \notin Veterans \cup Joiners

Followers == Veterans \cup Joiners

VARIABLES
  policy,       \* "LRU" or "LFU", the type parameter of the deployment
  encoder,      \* the leader's encoder: a cache from fields to codes
  encoding,     \* encoding[n]: the last code assigned at the leader or at n
  decoder,      \* decoder[f]: a cache from codes to fields
  inbox,        \* inbox[f]: messages on their way, oldest first
  joined,       \* the followers that have a cache
  garbled,      \* followers that have decoded a wrong value (auxiliary)
  sent          \* number of fields encoded so far

vars == <<policy, encoder, encoding, decoder, inbox, joined, garbled, sent>>

Policies == {"LRU", "LFU"}

-----------------------------------------------------------------------------
(* The LruCache of the lru crate: pairs, the most recently used first.     *)

LruKeys(c) == {c[i][1] : i \in DOMAIN c}

LruAt(c, k) == CHOOSE i \in DOMAIN c : c[i][1] = k

LruValue(c, k) == c[LruAt(c, k)][2]

\* The list without its i-th element.
Without(s, i) == [j \in 1 .. (Len(s) - 1) |-> IF j < i THEN s[j] ELSE s[j + 1]]

\* get: the entry moves to the front.
LruGet(c, k) == <<c[LruAt(c, k)]>> \o Without(c, LruAt(c, k))

LruPush(c, k, v) == <<<<k, v>>>> \o c

LruPop(c) == [entry |-> c[Len(c)], rest |-> SubSeq(c, 1, Len(c) - 1)]

-----------------------------------------------------------------------------
(* LFUCache: counted values, and a queue of keys for every count.          *)

LfuNew == [values |-> <<>>, count |-> <<>>, bin |-> <<>>, min_frequency |-> 0]

Bin(c, n) == IF n \in DOMAIN c.bin THEN c.bin[n] ELSE <<>>

\* HashMap::insert.
Put(f, k, v) == [j \in DOMAIN f \cup {k} |-> IF j = k THEN v ELSE f[j]]

\* The queue of a count, once the key has been taken out of it.
RemoveKey(queue, key) ==
  Without(queue, CHOOSE i \in DOMAIN queue : queue[i] = key)

\* Mutant: the least frequency stays although its queue is empty.
update_frequency_binStuck(c, key) ==
  LET count == c.count[key]
      bins  == Put(c.bin, count, RemoveKey(c.bin[count], key))
  IN [values        |-> c.values,
      count         |-> [c.count EXCEPT ![key] = @ + 1],
      min_frequency |-> c.min_frequency,
      bin           |-> Put(bins, count + 1, Append(Bin(c, count + 1), key))]
\* The key moves to the queue of the next count.
update_frequency_bin(c, key) ==
  LET count == c.count[key]
      old   == RemoveKey(c.bin[count], key)
      bins  == Put(c.bin, count, old)
  IN [values        |-> c.values,
      count         |-> [c.count EXCEPT ![key] = @ + 1],
      min_frequency |-> IF count = c.min_frequency /\ old = <<>>
                        THEN c.min_frequency + 1 ELSE c.min_frequency,
      bin           |-> Put(bins, count + 1, Append(Bin(c, count + 1), key))]

\* set, for a key that is not in the cache and a cache that is not full.
LfuSet(c, key, value) ==
  [values        |-> Put(c.values, key, value),
   count         |-> Put(c.count, key, 1),
   min_frequency |-> 1,
   bin           |-> Put(c.bin, 1, Append(Bin(c, 1), key))]

\* evict_and_return_key and evict_and_return_value: the first key of the
\* least frequency leaves.
LfuEvict(c) ==
  LET key  == Head(c.bin[c.min_frequency])
      rest == DOMAIN c.values \ {key}
  IN [entry |-> <<key, c.values[key]>>,
      rest  |-> [values        |-> Restrict(c.values, rest),
                 count         |-> Restrict(c.count, rest),
                 min_frequency |-> c.min_frequency,
                 bin           |-> [c.bin EXCEPT ![c.min_frequency] = Tail(@)]]]

-----------------------------------------------------------------------------
(* A cache of either policy.                                               *)

New == IF policy = "LRU" THEN <<>> ELSE LfuNew

Keys(c) == IF policy = "LRU" THEN LruKeys(c) ELSE DOMAIN c.values

Value(c, k) == IF policy = "LRU" THEN LruValue(c, k) ELSE c.values[k]

Get(c, k) == IF policy = "LRU" THEN LruGet(c, k) ELSE update_frequency_bin(c, k)

Insert(c, k, v) == IF policy = "LRU" THEN LruPush(c, k, v) ELSE LfuSet(c, k, v)

Evict(c) == IF policy = "LRU" THEN LruPop(c) ELSE LfuEvict(c)

IsFull(c) == Cardinality(Keys(c)) = Size

-----------------------------------------------------------------------------
(* FieldCache: try_encode and decode of a cache c whose last code is last, *)
(* and clone.                                                              *)

\* try_encode: a hit is sent as its code; a miss is sent as it is and gets
\* the code of the evicted field, or the next one.  Codes are the numbers
\* 1 .. Size: the code type of a deployment must hold Size.
try_encode(c, last, field) ==
  LET victim == Evict(c)
  IN IF field \in Keys(c)
     THEN [message  |-> <<"Encoded", Value(c, field)>>,
           cache    |-> Get(c, field),
           encoding |-> last]
     ELSE IF IsFull(c)
     THEN [message  |-> <<"NotEncoded", field>>,
           cache    |-> Insert(victim.rest, field, victim.entry[2]),
           encoding |-> last]
     ELSE [message  |-> <<"NotEncoded", field>>,
           cache    |-> Insert(c, field, last + 1),
           encoding |-> last + 1]

\* Mutant: a full cache assigns the next code.
decodeNextCode(c, last, message) ==
  IF message[1] = "Encoded"
  THEN [cache |-> Get(c, message[2]), encoding |-> last]
  ELSE [cache    |-> Insert(IF IsFull(c) THEN Evict(c).rest ELSE c,
                            last + 1, message[2]),
        encoding |-> last + 1]
\* Mutant: a hit is read without counting as a use.
decodePeek(c, last, message) ==
  LET victim == Evict(c)
  IN IF message[1] = "Encoded"
     THEN [cache |-> c, encoding |-> last]
     ELSE IF IsFull(c)
     THEN [cache    |-> Insert(victim.rest, victim.entry[1], message[2]),
           encoding |-> last]
     ELSE [cache    |-> Insert(c, last + 1, message[2]),
           encoding |-> last + 1]
\* decode: the same changes, keyed by the code.
decode(c, last, message) ==
  LET victim == Evict(c)
  IN IF message[1] = "Encoded"
     THEN [cache |-> Get(c, message[2]), encoding |-> last]
     ELSE IF IsFull(c)
     THEN [cache    |-> Insert(victim.rest, victim.entry[1], message[2]),
           encoding |-> last]
     ELSE [cache    |-> Insert(c, last + 1, message[2]),
           encoding |-> last + 1]

\* The value that decode returns; a code the cache does not hold is the
\* unwrap() of the code and never the value that was sent.
Decodes(c, message, field) ==
  message[1] = "Encoded" =>
    /\ message[2] \in Keys(c)
    /\ Value(c, message[2]) = field

\* clone of LRUniCache: the lru crate iterates in the order of use.
LruClone == [i \in DOMAIN encoder |-> <<encoder[i][2], encoder[i][1]>>]

\* clone of LFUniCache: every field is set once, in any order of the HashMap.
LfuClones ==
  {FoldLeft(LAMBDA c, k : LfuSet(c, encoder.values[k], k), LfuNew, order) :
     order \in SetToSeqs(DOMAIN encoder.values)}

Clones == IF policy = "LRU" THEN {LruClone} ELSE LfuClones

-----------------------------------------------------------------------------

Init ==
  /\ policy \in Policies
  /\ encoder = New
  /\ encoding = [n \in Followers \cup {"leader"} |-> 0]
  /\ decoder = [f \in Followers |-> New]
  /\ inbox = [f \in Followers |-> <<>>]
  /\ joined = Veterans
  /\ garbled = {}
  /\ sent = 0

\* StateCache::append_entries at the leader; the message goes to everyone
\* who has a cache.
Encode(field) ==
  LET result == try_encode(encoder, encoding["leader"], field)
  IN /\ sent < MaxFields
     /\ sent' = sent + 1
     /\ encoder' = result.cache
     /\ encoding' = [encoding EXCEPT !["leader"] = result.encoding]
     /\ inbox' = [f \in Followers |->
                    IF f \in joined
                    THEN Append(inbox[f], <<field, result.message>>)
                    ELSE inbox[f]]
     /\ UNCHANGED <<policy, decoder, joined, garbled>>

\* decode_entries at a follower.  One that returned a wrong value or
\* panicked is not followed any further.
Decode(f) ==
  LET field   == Head(inbox[f])[1]
      message == Head(inbox[f])[2]
      result  == decode(decoder[f], encoding[f], message)
  IN /\ inbox[f] # <<>> /\ f \notin garbled
     /\ inbox' = [inbox EXCEPT ![f] = Tail(@)]
     /\ IF Decodes(decoder[f], message, field)
        THEN /\ decoder' = [decoder EXCEPT ![f] = result.cache]
             /\ encoding' = [encoding EXCEPT ![f] = result.encoding]
             /\ garbled' = garbled
        ELSE /\ garbled' = garbled \cup {f}
             /\ UNCHANGED <<decoder, encoding>>
     /\ UNCHANGED <<policy, encoder, joined, sent>>

\* get_unicache and set_unicache: a follower takes over a clone.  The clone is
\* handed over as it is; what serialising it would do to an LRUniCache that
\* is not full is left out.
Join(f) ==
  /\ f \notin joined
  /\ joined' = joined \cup {f}
  /\ \E c \in Clones : decoder' = [decoder EXCEPT ![f] = c]
  /\ encoding' = [encoding EXCEPT ![f] = encoding["leader"]]
  /\ UNCHANGED <<policy, encoder, inbox, garbled, sent>>

Next ==
  \/ \E field \in Fields : Encode(field)
  \/ \E f \in Followers : Decode(f)
  \/ \E f \in Joiners : Join(f)

Spec == Init /\ [][Next]_vars

-----------------------------------------------------------------------------
(* Properties.                                                             *)

\* The followers whose cache counts the uses as the leader's does: a clone of
\* an LFUniCache starts all counts again.
Aligned == {f \in joined : policy = "LRU" \/ f \in Veterans}

\* Every follower that counts uses as the leader does turns every code back
\* into the field that the leader encoded, and never meets a code that its
\* cache does not hold, whatever was evicted between the encoding and the
\* decoding.  (A follower that joined with a clone of an LFUniCache does not.)
DecodesExactly == Aligned \cap garbled = {}

\* A follower that has decoded everything has the leader's cache turned
\* around: the same pairs, with the same recency or frequency, and the same
\* next code, so that both will evict the same pair.
DecoderMirrorsEncoder ==
  \A f \in Aligned : inbox[f] = <<>> =>
    /\ encoding[f] = encoding["leader"]
    /\ IF policy = "LRU"
       THEN decoder[f] = [i \in DOMAIN encoder |->
                            <<encoder[i][2], encoder[i][1]>>]
       ELSE /\ decoder[f].min_frequency = encoder.min_frequency
            /\ \A k \in DOMAIN encoder.values :
                 LET code == encoder.values[k]
                 IN /\ code \in DOMAIN decoder[f].values
                    /\ decoder[f].values[code] = k
                    /\ decoder[f].count[code] = encoder.count[k]
            /\ \A n \in DOMAIN encoder.bin :
                 decoder[f].bin[n] = [i \in DOMAIN encoder.bin[n] |->
                                        encoder.values[encoder.bin[n][i]]]

\* The LFUCache of the leader can always evict: every key waits in the one
\* queue of its count, and the least frequency is that of some key as long
\* as there is one, although it is only ever raised by one or set to 1.
EvictsLeastFrequent ==
  policy = "LFU" =>
    /\ \A k \in DOMAIN encoder.values, n \in DOMAIN encoder.bin :
         (k \in Range(encoder.bin[n])) <=> (encoder.count[k] = n)
    /\ \A k \in DOMAIN encoder.values :
         /\ encoder.min_frequency <= encoder.count[k]
         /\ Bin(encoder, encoder.min_frequency) # <<>>

=============================================================================
