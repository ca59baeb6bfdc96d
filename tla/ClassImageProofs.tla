-------------------------- MODULE ClassImageProofs --------------------------
(***************************************************************************)
(* Proofs about ClassImage: the positions in the input and the output, the *)
(* constant pool in its four forms (entries written, mirror table, count,  *)
(* indices remembered) and what is allocated, for any class file.          *)
(***************************************************************************)
EXTENDS ClassImage, IntegerLemmas, SequenceTheorems

-----------------------------------------------------------------------------
\* Sums.

\* SumTo is a sum.
LEMMA SumToSums ==
    ASSUME NEW n \in Nat, NEW w, \A k \in 1 .. n : w[k] \in Int
    PROVE  \E g : Sums(g, n, w) /\ SumTo(w, n) = g[n]
<1> DEFINE v == [k \in 1 .. n |-> w[k]]
           IsSum(g) == g = [k \in 0 .. n |-> IF k = 0 THEN 0 ELSE g[k-1] + w[k]]
           s == CHOOSE g : IsSum(g)
<1>1. v \in [1 .. n -> Int] /\ \A k \in 1 .. n : v[k] = w[k]
  OBVIOUS
<1>2. PICK h : Sums(h, n, v) /\ h = [k \in 0 .. n |-> IF k = 0 THEN 0 ELSE h[k-1] + v[k]]
  <2> HIDE DEF v
  <2> QED  BY <1>1, SumExists
<1> HIDE DEF v
<1>3. IsSum(h)
  BY <1>1, <1>2
<1>4. IsSum(s)
  <2> HIDE DEF IsSum
  <2> QED  BY <1>3
<1>5. SumTo(w, n) = s[n]
  BY DEF SumTo
<1> HIDE DEF s
<1>6. s = h
  <2> DEFINE S == {k \in Nat : s[k] = h[k]}
  <2>1. 0 \in S
    BY <1>3, <1>4
  <2>2. ASSUME NEW k \in 0 .. n - 1, k \in S PROVE k + 1 \in S
    <3>1. k + 1 \in 0 .. n /\ k + 1 # 0 /\ (k + 1) - 1 = k
      OBVIOUS
    <3> QED  BY <3>1, <2>2, <1>3, <1>4
  <2>3. \A k \in 0 .. n : k \in S
    <3> HIDE DEF S
    <3> QED  BY <2>1, <2>2, IntervalInduction
  <2> QED  BY <2>3, <1>3, <1>4
<1>7. Sums(h, n, w)
  BY <1>1, <1>2 DEF Sums
<1> QED  BY <1>5, <1>6, <1>7

\* Nothing adds up to zero, and each number adds itself.
LEMMA SumToNext ==
    ASSUME NEW n \in Nat, NEW w, \A k \in 1 .. n : w[k] \in Int
    PROVE  /\ SumTo(w, n) \in Int
           /\ n = 0 => SumTo(w, n) = 0
           /\ n > 0 => SumTo(w, n) = SumTo(w, n - 1) + w[n]
<1>1. PICK g : Sums(g, n, w) /\ SumTo(w, n) = g[n]
  BY SumToSums
<1>2. SumTo(w, n) \in Int /\ (n = 0 => SumTo(w, n) = 0)
  BY <1>1 DEF Sums
<1>3. ASSUME n > 0
      PROVE  SumTo(w, n) = SumTo(w, n - 1) + w[n]
  <2>1. n - 1 \in Nat /\ n - 1 <= n /\ n \in 1 .. n /\ \A k \in 1 .. n - 1 : k \in 1 .. n
    BY <1>3
  <2>2. PICK h : Sums(h, n - 1, w) /\ SumTo(w, n - 1) = h[n - 1]
    BY <2>1, SumToSums
  <2>3. h[n - 1] = g[n - 1]
    BY <1>1, <2>1, <2>2, SumsAgree
  <2>4. g[n] = g[n - 1] + w[n]
    BY <1>1, <2>1 DEF Sums
  <2> QED  BY <1>1, <2>2, <2>3, <2>4
<1> QED  BY <1>2, <1>3

\* Sums of numbers that agree agree.
LEMMA SumToAgree ==
    ASSUME NEW n \in Nat, NEW v, NEW w, \A k \in 1 .. n : v[k] \in Int /\ v[k] = w[k]
    PROVE  SumTo(v, n) = SumTo(w, n)
<1>1. PICK g : Sums(g, n, v) /\ SumTo(v, n) = g[n]
  BY SumToSums
<1>2. PICK h : Sums(h, n, w) /\ SumTo(w, n) = h[n]
  BY SumToSums
<1> QED  BY <1>1, <1>2, SumsAgree

\* Sums of natural numbers only grow.
LEMMA SumToGrows ==
    ASSUME NEW n \in Nat, NEW w, \A k \in 1 .. n : w[k] \in Nat, NEW m \in 0 .. n
    PROVE  SumTo(w, m) \in Nat /\ SumTo(w, m) <= SumTo(w, n)
<1>1. ASSUME NEW k \in 0 .. n
      PROVE  /\ SumTo(w, k) \in Int
             /\ k = 0 => SumTo(w, k) = 0
             /\ k > 0 => SumTo(w, k) = SumTo(w, k - 1) + w[k]
  <2>1. k \in Nat /\ \A j \in 1 .. k : w[j] \in Int
    OBVIOUS
  <2> QED  BY <2>1, SumToNext
<1>2. ASSUME NEW k \in 0 .. n - 1
      PROVE  /\ SumTo(w, k + 1) = SumTo(w, k) + w[k + 1] /\ w[k + 1] \in Nat
             /\ SumTo(w, k) \in Int
  <2>1. k + 1 \in 0 .. n /\ k + 1 > 0 /\ (k + 1) - 1 = k /\ k \in 0 .. n /\ k + 1 \in 1 .. n
    OBVIOUS
  <2> QED  BY <1>1, <2>1
<1>3. \A k \in 0 .. n : SumTo(w, k) \in Nat
  <2> DEFINE S == {k \in 0 .. n : SumTo(w, k) \in Nat}
  <2>1. 0 \in S
    BY <1>1
  <2>2. ASSUME NEW k \in 0 .. n - 1, k \in S PROVE k + 1 \in S
    BY <1>2, <2>2
  <2> HIDE DEF S
  <2>3. \A k \in 0 .. n : k \in S
    BY <2>1, <2>2, IntervalInduction
  <2> QED  BY <2>3 DEF S
<1>4. \A k \in m .. n : SumTo(w, m) <= SumTo(w, k)
  <2> DEFINE S == {k \in m .. n : SumTo(w, m) <= SumTo(w, k)}
  <2>1. m \in S /\ m \in Nat
    BY <1>3
  <2>2. ASSUME NEW k \in m .. n - 1, k \in S PROVE k + 1 \in S
    <3>1. k \in 0 .. n - 1 /\ k + 1 \in m .. n
      OBVIOUS
    <3>2. SumTo(w, m) <= SumTo(w, k) /\ SumTo(w, m) \in Int
      BY <1>3, <2>2
    <3> QED  BY <1>2, <3>1, <3>2
  <2> HIDE DEF S
  <2>3. \A k \in m .. n : k \in S
    BY <2>1, <2>2, IntervalInduction
  <2> QED  BY <2>3 DEF S
<1> QED  BY <1>3, <1>4

-----------------------------------------------------------------------------
\* Entries and their indices.

\* The slots and bytes of an entry are numbers.
LEMMA SlotsAndBytes ==
    ASSUME NEW tag \in Tags
    PROVE  Slots(tag) \in 1 .. 2 /\ EntryBytes(tag) \in Nat
BY SizesAssumption DEF Tags, Slots, EntryBytes

\* A sequence of entries, entry by entry.
LEMMA EntryFacts ==
    ASSUME NEW entries \in Seq(Entries)
    PROVE  /\ Len(entries) \in Nat /\ DOMAIN entries = 1 .. Len(entries)
           /\ \A n \in 1 .. Len(entries) :
                  /\ entries[n] \in Entries /\ entries[n].tag \in Tags
                  /\ SlotsOf(entries)[n] = Slots(entries[n].tag) /\ SlotsOf(entries)[n] \in 1 .. 2
                  /\ BytesOf(entries)[n] = EntryBytes(entries[n].tag) /\ BytesOf(entries)[n] \in Nat
<1>1. /\ Len(entries) \in Nat /\ DOMAIN entries = 1 .. Len(entries)
      /\ \A n \in 1 .. Len(entries) : entries[n] \in Entries
  BY ElementOfSeq, LenProperties
<1>2. \A n \in 1 .. Len(entries) : entries[n].tag \in Tags
  BY <1>1 DEF Entries
<1> QED  BY <1>1, <1>2, SlotsAndBytes DEF SlotsOf, BytesOf

\* Indices start with 1 and each entry takes its slots; so they increase.
LEMMA IndexFacts ==
    ASSUME NEW entries \in Seq(Entries)
    PROVE  /\ IndexOf(entries, 1) = 1
           /\ \A n \in 1 .. Len(entries) :
                  IndexOf(entries, n + 1) = IndexOf(entries, n) + Slots(entries[n].tag)
           /\ \A n \in 1 .. Len(entries) + 1 : IndexOf(entries, n) \in Nat \ {0}
           /\ \A m, n \in 1 .. Len(entries) + 1 : m < n => IndexOf(entries, m) < IndexOf(entries, n)
           /\ CountOf(entries) = IndexOf(entries, Len(entries) + 1)
           /\ PoolBytes(entries) \in Nat
<1> DEFINE w == SlotsOf(entries)
           f == [n \in 1 .. Len(entries) + 1 |-> IndexOf(entries, n)]
<1>1. /\ Len(entries) \in Nat
      /\ \A n \in 1 .. Len(entries) : w[n] = Slots(entries[n].tag) /\ w[n] \in 1 .. 2
      /\ \A n \in 1 .. Len(entries) : BytesOf(entries)[n] \in Nat
  BY EntryFacts
<1> HIDE DEF w
<1>2. ASSUME NEW n \in 0 .. Len(entries)
      PROVE  /\ SumTo(w, n) \in Nat
             /\ n = 0 => SumTo(w, n) = 0
             /\ n > 0 => SumTo(w, n) = SumTo(w, n - 1) + w[n]
  <2>1. n \in Nat /\ \A k \in 1 .. n : w[k] \in Int /\ w[k] \in Nat
    BY <1>1
  <2>2. n \in 0 .. n /\ SumTo(w, n) \in Nat
    BY <2>1, SumToGrows
  <2> QED  BY <2>1, <2>2, SumToNext
<1>3. \A n \in 1 .. Len(entries) + 1 : n - 1 \in 0 .. Len(entries) /\ IndexOf(entries, n) = 1 + SumTo(w, n - 1)
  BY <1>1 DEF IndexOf, w
<1>4. IndexOf(entries, 1) = 1
  <2>1. 1 \in 1 .. Len(entries) + 1 /\ 1 - 1 = 0 /\ 0 \in 0 .. Len(entries)
    BY <1>1
  <2> QED  BY <1>2, <1>3, <2>1
<1>5. ASSUME NEW n \in 1 .. Len(entries)
      PROVE  /\ IndexOf(entries, n + 1) = IndexOf(entries, n) + Slots(entries[n].tag)
             /\ IndexOf(entries, n) < IndexOf(entries, n + 1)
  <2>1. /\ n \in 1 .. Len(entries) + 1 /\ n + 1 \in 1 .. Len(entries) + 1 /\ (n + 1) - 1 = n
        /\ n \in 0 .. Len(entries) /\ n > 0 /\ n - 1 \in 0 .. Len(entries)
    BY <1>1
  <2>2. SumTo(w, n) = SumTo(w, n - 1) + w[n] /\ SumTo(w, n - 1) \in Nat
    BY <1>2, <2>1
  <2>3. IndexOf(entries, n + 1) = 1 + SumTo(w, n) /\ IndexOf(entries, n) = 1 + SumTo(w, n - 1)
    BY <1>3, <2>1
  <2>4. w[n] = Slots(entries[n].tag) /\ w[n] \in 1 .. 2
    BY <1>1
  <2> QED  BY <2>2, <2>3, <2>4
<1>6. \A n \in 1 .. Len(entries) + 1 : IndexOf(entries, n) \in Nat \ {0}
  BY <1>2, <1>3
<1>7. \A m, n \in 1 .. Len(entries) + 1 : m < n => IndexOf(entries, m) < IndexOf(entries, n)
  <2>1. f \in [1 .. Len(entries) + 1 -> Int] /\ Len(entries) + 1 \in Nat
    BY <1>1, <1>6
  <2>2. \A n \in 1 .. (Len(entries) + 1) - 1 : f[n] < f[n + 1]
    BY <1>1, <1>5
  <2>3. \A n \in 1 .. Len(entries) + 1 : f[n] = IndexOf(entries, n)
    OBVIOUS
  <2> HIDE DEF f
  <2>4. \A m, n \in 1 .. Len(entries) + 1 : m < n => f[m] < f[n]
    BY <2>1, <2>2, StepsIncrease
  <2> QED  BY <2>3, <2>4
<1>8. PoolBytes(entries) \in Nat
  <2>1. Len(entries) \in 0 .. Len(entries)
    BY <1>1
  <2> QED  BY <1>1, <2>1, SumToGrows DEF PoolBytes
<1> QED  BY <1>4, <1>5, <1>6, <1>7, <1>8 DEF CountOf

\* A sequence of entries starts with another.
StartsWith(longer, entries) ==
    /\ Len(entries) <= Len(longer)
    /\ \A n \in 1 .. Len(entries) : longer[n] = entries[n]

\* Entries that are added leave the indices of the others alone.
LEMMA IndexAgree ==
    ASSUME NEW entries \in Seq(Entries), NEW longer \in Seq(Entries), StartsWith(longer, entries),
           NEW n \in 1 .. Len(entries) + 1
    PROVE  /\ IndexOf(longer, n) = IndexOf(entries, n)
           /\ SumTo(BytesOf(longer), n - 1) = SumTo(BytesOf(entries), n - 1)
<1>1. /\ Len(entries) \in Nat /\ Len(longer) \in Nat
      /\ \A k \in 1 .. Len(entries) :
             /\ SlotsOf(entries)[k] = Slots(entries[k].tag) /\ SlotsOf(entries)[k] \in Int
             /\ BytesOf(entries)[k] = EntryBytes(entries[k].tag) /\ BytesOf(entries)[k] \in Int
      /\ \A k \in 1 .. Len(longer) :
             /\ SlotsOf(longer)[k] = Slots(longer[k].tag)
             /\ BytesOf(longer)[k] = EntryBytes(longer[k].tag)
  BY EntryFacts
<1>2. n - 1 \in Nat /\ \A k \in 1 .. n - 1 : k \in 1 .. Len(entries) /\ k \in 1 .. Len(longer)
  BY <1>1 DEF StartsWith
<1>3. \A k \in 1 .. n - 1 : longer[k] = entries[k]
  BY <1>2 DEF StartsWith
<1>4. \A k \in 1 .. n - 1 : SlotsOf(entries)[k] \in Int /\ SlotsOf(entries)[k] = SlotsOf(longer)[k]
  BY <1>1, <1>2, <1>3
<1>5. \A k \in 1 .. n - 1 : BytesOf(entries)[k] \in Int /\ BytesOf(entries)[k] = BytesOf(longer)[k]
  BY <1>1, <1>2, <1>3
<1>6. SumTo(SlotsOf(entries), n - 1) = SumTo(SlotsOf(longer), n - 1)
  BY <1>2, <1>4, SumToAgree
<1>7. SumTo(BytesOf(entries), n - 1) = SumTo(BytesOf(longer), n - 1)
  BY <1>2, <1>5, SumToAgree
<1> QED  BY <1>6, <1>7 DEF IndexOf

\* One more entry.
LEMMA EntryAppended ==
    ASSUME NEW entries \in Seq(Entries), NEW e \in Entries
    PROVE  /\ Append(entries, e) \in Seq(Entries)
           /\ StartsWith(Append(entries, e), entries)
           /\ Len(Append(entries, e)) = Len(entries) + 1
           /\ Append(entries, e)[Len(entries) + 1] = e
           /\ CountOf(Append(entries, e)) = CountOf(entries) + Slots(e.tag)
           /\ PoolBytes(Append(entries, e)) = PoolBytes(entries) + EntryBytes(e.tag)
<1> DEFINE longer == Append(entries, e)
<1>1. /\ longer \in Seq(Entries) /\ Len(longer) = Len(entries) + 1 /\ longer[Len(entries) + 1] = e
      /\ \A n \in 1 .. Len(entries) : longer[n] = entries[n]
  BY AppendProperties
<1>2. Len(entries) \in Nat
  BY EntryFacts
<1>3. StartsWith(longer, entries)
  BY <1>1, <1>2 DEF StartsWith
<1> HIDE DEF longer
<1>4. Len(entries) + 1 \in 1 .. Len(entries) + 1 /\ Len(entries) + 1 \in 1 .. Len(longer)
  BY <1>1, <1>2
<1>5. CountOf(longer) = CountOf(entries) + Slots(e.tag)
  <2>1. CountOf(longer) = IndexOf(longer, Len(entries) + 1) + Slots(e.tag)
    BY <1>1, <1>4, IndexFacts
  <2>2. IndexOf(longer, Len(entries) + 1) = IndexOf(entries, Len(entries) + 1)
    BY <1>1, <1>3, <1>4, IndexAgree
  <2> QED  BY <2>1, <2>2 DEF CountOf
<1>6. PoolBytes(longer) = PoolBytes(entries) + EntryBytes(e.tag)
  <2>1. /\ \A n \in 1 .. Len(longer) : BytesOf(longer)[n] \in Int
        /\ BytesOf(longer)[Len(longer)] = EntryBytes(e.tag)
        /\ Len(longer) \in Nat /\ Len(longer) > 0 /\ Len(longer) - 1 = Len(entries)
    BY <1>1, <1>2, <1>4, EntryFacts
  <2>2. SumTo(BytesOf(longer), Len(longer)) =
            SumTo(BytesOf(longer), Len(longer) - 1) + BytesOf(longer)[Len(longer)]
    BY <2>1, SumToNext
  <2>3. SumTo(BytesOf(longer), (Len(entries) + 1) - 1) = SumTo(BytesOf(entries), (Len(entries) + 1) - 1)
    BY <1>1, <1>3, <1>4, IndexAgree
  <2>4. (Len(entries) + 1) - 1 = Len(entries)
    BY <1>2
  <2> QED  BY <2>1, <2>2, <2>3, <2>4 DEF PoolBytes
<1>7. longer = Append(entries, e)
  BY DEF longer
<1> QED  BY <1>1, <1>3, <1>5, <1>6, <1>7

-----------------------------------------------------------------------------
\* The pool and its mirror.

\* The table has each entry under its index and nothing behind the count.
Mirrors(table, entries, count) ==
    /\ entries \in Seq(Entries)
    /\ count = CountOf(entries)
    /\ DOMAIN table \subseteq 1 .. count - 1
    /\ \A n \in 1 .. Len(entries) :
           IndexOf(entries, n) \in DOMAIN table /\ table[IndexOf(entries, n)] = entries[n]

\* A table has all that another has.
Keeps(new, old) == DOMAIN old \subseteq DOMAIN new /\ \A j \in DOMAIN old : new[j] = old[j]

\* fillin_cpool_entry at the count keeps the mirror.
LEMMA MirrorAdded ==
    ASSUME NEW table, NEW entries, NEW count, Mirrors(table, entries, count), NEW e \in Entries
    PROVE  /\ count \in Nat \ {0}
           /\ Mirrors(Filled(table, count, e), Append(entries, e), count + Slots(e.tag))
           /\ Keeps(Filled(table, count, e), table)
           /\ count \in DOMAIN Filled(table, count, e) /\ Filled(table, count, e)[count] = e
<1> DEFINE new == Filled(table, count, e)
           longer == Append(entries, e)
<1>1. entries \in Seq(Entries) /\ count = CountOf(entries) /\ DOMAIN table \subseteq 1 .. count - 1
  BY DEF Mirrors
<1>2. Len(entries) \in Nat /\ Len(entries) + 1 \in 1 .. Len(entries) + 1
  BY <1>1, EntryFacts
<1>3. count \in Nat \ {0} /\ count = IndexOf(entries, Len(entries) + 1)
  BY <1>1, <1>2, IndexFacts
<1>4. /\ longer \in Seq(Entries) /\ StartsWith(longer, entries) /\ Len(longer) = Len(entries) + 1
      /\ longer[Len(entries) + 1] = e /\ CountOf(longer) = count + Slots(e.tag)
  BY <1>1, EntryAppended
<1>5. DOMAIN new = DOMAIN table \cup {count} /\ new[count] = e
      /\ \A j \in DOMAIN table : new[j] = table[j]
  BY <1>1, <1>3 DEF Filled
<1> HIDE DEF new, longer
<1>6. Slots(e.tag) \in 1 .. 2
  BY SlotsAndBytes DEF Entries
<1>7. DOMAIN new \subseteq 1 .. (count + Slots(e.tag)) - 1
  BY <1>1, <1>3, <1>5, <1>6
<1>8. ASSUME NEW n \in 1 .. Len(longer)
      PROVE  IndexOf(longer, n) \in DOMAIN new /\ new[IndexOf(longer, n)] = longer[n]
  <2>1. n \in 1 .. Len(entries) + 1
    BY <1>4
  <2>2. IndexOf(longer, n) = IndexOf(entries, n)
    BY <1>1, <1>4, <2>1, IndexAgree
  <2>3. CASE n = Len(entries) + 1
    BY <1>3, <1>4, <1>5, <2>2, <2>3
  <2>4. CASE n # Len(entries) + 1
    <3>1. n \in 1 .. Len(entries)
      BY <1>2, <2>1, <2>4
    <3>2. IndexOf(entries, n) \in DOMAIN table /\ table[IndexOf(entries, n)] = entries[n]
      BY <3>1 DEF Mirrors
    <3>3. longer[n] = entries[n]
      BY <1>4, <3>1 DEF StartsWith
    <3> QED  BY <1>5, <2>2, <3>2, <3>3
  <2> QED  BY <2>3, <2>4
<1>9. Mirrors(new, longer, count + Slots(e.tag))
  BY <1>4, <1>7, <1>8 DEF Mirrors
<1>10. Keeps(new, table)
  BY <1>5 DEF Keeps
<1> QED  BY <1>3, <1>5, <1>9, <1>10 DEF new, longer

\* A pool that mirrors its output, with a count of 16 bits.
PoolRight(p) == Mirrors(p.cpool, p.output, p.count) /\ p.count < U2Mod

\* A pool has what another has, and at most so many bytes more.
Grows(q, p, bytes) ==
    /\ Keeps(q.cpool, p.cpool) /\ StartsWith(q.output, p.output)
    /\ PoolBytes(q.output) <= PoolBytes(p.output) + bytes

\* Growing goes on.
LEMMA GrowsOn ==
    ASSUME NEW p, NEW q, NEW r, PoolRight(p), PoolRight(q), PoolRight(r),
           NEW m \in Nat, NEW n \in Nat, Grows(q, p, m), Grows(r, q, n)
    PROVE  Grows(r, p, m + n)
<1>1. /\ Len(p.output) \in Nat /\ Len(q.output) \in Nat /\ Len(r.output) \in Nat
      /\ PoolBytes(p.output) \in Nat /\ PoolBytes(q.output) \in Nat /\ PoolBytes(r.output) \in Nat
  BY EntryFacts, IndexFacts DEF PoolRight, Mirrors
<1>2. PoolBytes(r.output) <= PoolBytes(p.output) + (m + n)
  BY <1>1 DEF Grows
<1>3. StartsWith(r.output, p.output)
  <2>1. \A k \in 1 .. Len(p.output) : k \in 1 .. Len(q.output)
    BY <1>1 DEF Grows, StartsWith
  <2>2. \A k \in 1 .. Len(p.output) : r.output[k] = p.output[k]
    BY <2>1 DEF Grows, StartsWith
  <2>3. Len(p.output) <= Len(r.output)
    BY <1>1 DEF Grows, StartsWith
  <2> QED  BY <2>2, <2>3 DEF StartsWith
<1>4. Keeps(r.cpool, p.cpool)
  BY DEF Grows, Keeps
<1> QED  BY <1>2, <1>3, <1>4 DEF Grows

\* The bytes of an entry that is added.
Bytes(e) == EntryBytes(e.tag)

\* Numbers below the modulus and just behind it.
LEMMA Remainders ==
    ASSUME NEW d \in Nat \ {0}, NEW n \in 0 .. 2 * d - 1
    PROVE  n % d = IF n < d THEN n ELSE n - d
OBVIOUS

\* What add_new_cpool_entry returns.
LEMMA EntryAdded ==
    ASSUME NEW p, PoolRight(p), NEW e \in Entries, e.tag # "Long",
           NEW q, q = add_new_cpool_entry(p, e), ~ q.full
    PROVE  /\ PoolRight(q) /\ Grows(q, p, Bytes(e)) /\ q.count = p.count + 1
           /\ p.count \in Nat /\ p.count \in DOMAIN q.cpool /\ q.cpool[p.count] = e
<1>1. /\ q.cpool = Filled(p.cpool, p.count, e) /\ q.output = Append(p.output, e)
      /\ q.count = (p.count + 1) % U2Mod /\ p.count < q.count
  BY DEF add_new_cpool_entry, HasRoom
<1>2. Slots(e.tag) = 1 /\ p.output \in Seq(Entries)
  BY DEF Slots, PoolRight, Mirrors
<1>3. /\ p.count \in Nat /\ Mirrors(q.cpool, q.output, p.count + 1)
      /\ Keeps(q.cpool, p.cpool) /\ p.count \in DOMAIN q.cpool /\ q.cpool[p.count] = e
  BY <1>1, <1>2, MirrorAdded DEF PoolRight
<1>4. q.count = p.count + 1 /\ q.count < U2Mod
  <2>1. p.count + 1 < U2Mod \/ p.count + 1 = U2Mod
    BY <1>3, SizesAssumption DEF PoolRight
  <2>2. CASE p.count + 1 < U2Mod
    <3>1. p.count + 1 \in 0 .. 2 * U2Mod - 1 /\ U2Mod \in Nat \ {0}
      BY <1>3, <2>2, SizesAssumption
    <3>2. (p.count + 1) % U2Mod = p.count + 1
      BY <2>2, <3>1, Remainders
    <3> QED  BY <1>1, <2>2, <3>2
  <2>3. CASE p.count + 1 = U2Mod
    <3>1. q.count = 0
      BY <1>1, <2>3, SizesAssumption, Remainders
    <3> QED  BY <1>1, <1>3, <3>1
  <2> QED  BY <2>1, <2>2, <2>3
<1>5. StartsWith(q.output, p.output) /\ PoolBytes(q.output) = PoolBytes(p.output) + Bytes(e)
  BY <1>1, <1>2, EntryAppended DEF Bytes
<1>6. PoolBytes(q.output) <= PoolBytes(p.output) + Bytes(e)
  <2>1. PoolBytes(p.output) \in Nat /\ e.tag \in Tags
    BY <1>2, IndexFacts DEF Entries
  <2>2. Bytes(e) \in Nat
    BY <2>1, SlotsAndBytes DEF Bytes
  <2> QED  BY <1>5, <2>1, <2>2
<1>7. PoolRight(q)
  BY <1>3, <1>4 DEF PoolRight
<1> QED  BY <1>3, <1>4, <1>5, <1>6, <1>7 DEF Grows

\* A pool that has an entry too many stays so.
LEMMA FullStays ==
    ASSUME NEW p, NEW e, ~ add_new_cpool_entry(p, e).full
    PROVE  ~ p.full
BY DEF add_new_cpool_entry

\* The entry under an index names a class.
IsClass(table, index, name) ==
    /\ index \in DOMAIN table /\ table[index].index1 \in DOMAIN table
    /\ table[table[index].index1].text = name

\* The entry under an index is a method of a class, with a name and a descriptor.
IsMethod(table, index, class_index, name, descr) ==
    /\ index \in DOMAIN table /\ table[index].tag = "Methodref" /\ table[index].index1 = class_index
    /\ \E typed \in DOMAIN table :
           /\ table[index].index2 = typed /\ table[typed].tag = "NameAndType"
           /\ table[typed].index1 \in DOMAIN table /\ table[table[typed].index1].text = name
           /\ table[typed].index2 \in DOMAIN table /\ table[table[typed].index2].text = descr

\* A table that keeps its entries keeps its classes and methods.
LEMMA KeepsMeaning ==
    ASSUME NEW new, NEW old, Keeps(new, old), NEW index, NEW class_index, NEW name, NEW descr
    PROVE  /\ IsClass(old, index, name) => IsClass(new, index, name)
           /\ IsMethod(old, index, class_index, name, descr) =>
                  IsMethod(new, index, class_index, name, descr)
<1>1. \A j \in DOMAIN old : j \in DOMAIN new /\ new[j] = old[j]
  BY DEF Keeps
<1>2. IsClass(old, index, name) => IsClass(new, index, name)
  BY <1>1 DEF IsClass
<1>3. ASSUME IsMethod(old, index, class_index, name, descr)
      PROVE  IsMethod(new, index, class_index, name, descr)
  <2>1. /\ index \in DOMAIN old /\ old[index].tag = "Methodref" /\ old[index].index1 = class_index
        /\ index \in DOMAIN new /\ new[index] = old[index]
    BY <1>1, <1>3 DEF IsMethod
  <2>2. PICK typed \in DOMAIN old :
           /\ old[index].index2 = typed /\ old[typed].tag = "NameAndType"
           /\ old[typed].index1 \in DOMAIN old /\ old[old[typed].index1].text = name
           /\ old[typed].index2 \in DOMAIN old /\ old[old[typed].index2].text = descr
    BY <1>3 DEF IsMethod
  <2>3. typed \in DOMAIN new /\ new[typed] = old[typed]
    BY <1>1
  <2>4. /\ new[typed].index1 \in DOMAIN new /\ new[new[typed].index1].text = name
        /\ new[typed].index2 \in DOMAIN new /\ new[new[typed].index2].text = descr
    BY <1>1, <2>2, <2>3
  <2> QED  BY <2>1, <2>2, <2>3, <2>4 DEF IsMethod
<1> QED  BY <1>2, <1>3

\* What add_new_class_cpool_entry returns.
LEMMA ClassAdded ==
    ASSUME NEW p, PoolRight(p), NEW name \in Text,
           NEW q, q = add_new_class_cpool_entry(p, name), ~ q.full
    PROVE  /\ PoolRight(q) /\ Grows(q, p, (3 + TextLen) + 3) /\ LastIndex(q) \in Nat
           /\ IsClass(q.cpool, LastIndex(q), name)
<1> DEFINE e1 == Entry("Utf8", 0, 0, name)
           e2 == Entry("Class", p.count, 0, "none")
<1>0. p.count \in Nat
  BY IndexFacts, EntryFacts DEF PoolRight, Mirrors, CountOf
<1>1. /\ e1 \in Entries /\ e2 \in Entries /\ e1.tag # "Long" /\ e2.tag # "Long"
      /\ Bytes(e1) = 3 + TextLen /\ Bytes(e2) = 3 /\ e1.text = name /\ e2.index1 = p.count
  BY <1>0, TextAssumption DEF Entry, Entries, Tags, Bytes, EntryBytes
<1> HIDE DEF e1, e2
<1>2. PICK r : r = add_new_cpool_entry(p, e1)
  OBVIOUS
<1>3. q = add_new_cpool_entry(r, e2)
  BY <1>2 DEF add_new_class_cpool_entry, e1, e2
<1>4. ~ r.full
  BY <1>3, FullStays
<1>5. /\ PoolRight(r) /\ Grows(r, p, 3 + TextLen) /\ p.count \in Nat
      /\ p.count \in DOMAIN r.cpool /\ r.cpool[p.count] = e1
  BY <1>1, <1>2, <1>4, EntryAdded
<1>6. /\ PoolRight(q) /\ Grows(q, r, 3) /\ q.count = r.count + 1 /\ r.count \in Nat
      /\ r.count \in DOMAIN q.cpool /\ q.cpool[r.count] = e2
  BY <1>1, <1>3, <1>5, EntryAdded
<1>7. Grows(q, p, (3 + TextLen) + 3)
  BY <1>5, <1>6, SizesAssumption, GrowsOn
<1>8. LastIndex(q) = r.count
  BY <1>6 DEF LastIndex
<1>9. p.count \in DOMAIN q.cpool /\ q.cpool[p.count] = e1
  BY <1>5, <1>6 DEF Grows, Keeps
<1> QED  BY <1>1, <1>6, <1>7, <1>8, <1>9 DEF IsClass

\* The bytes of a method that is added.
MethodEntries == 2 * (3 + TextLen) + 5 + 5

\* What add_new_method_cpool_entry returns.
LEMMA MethodAdded ==
    ASSUME NEW p, PoolRight(p), NEW class_index \in Nat, NEW name \in Text, NEW descr \in Text,
           NEW q, q = add_new_method_cpool_entry(p, class_index, name, descr), ~ q.full
    PROVE  /\ PoolRight(q) /\ Grows(q, p, MethodEntries) /\ LastIndex(q) \in Nat
           /\ IsMethod(q.cpool, LastIndex(q), class_index, name, descr)
<1>1. p.count \in Nat
  BY IndexFacts, EntryFacts DEF PoolRight, Mirrors, CountOf
<1>2. PICK e1 : e1 = Entry("Utf8", 0, 0, name)
  OBVIOUS
<1>3. PICK e2 : e2 = Entry("Utf8", 0, 0, descr)
  OBVIOUS
<1>4. /\ e1 \in Entries /\ e1.tag # "Long" /\ Bytes(e1) = 3 + TextLen /\ e1.text = name
      /\ e2 \in Entries /\ e2.tag # "Long" /\ Bytes(e2) = 3 + TextLen /\ e2.text = descr
  BY <1>2, <1>3 DEF Entry, Entries, Tags, Bytes, EntryBytes
<1>5. PICK named : named = add_new_cpool_entry(p, e1)
  OBVIOUS
<1>6. PICK typed : typed = add_new_cpool_entry(named, e2)
  OBVIOUS
<1>7. PICK e3 : e3 = Entry("NameAndType", p.count, named.count, "none")
  OBVIOUS
<1>8. PICK both : both = add_new_cpool_entry(typed, e3)
  OBVIOUS
<1>9. PICK e4 : e4 = Entry("Methodref", class_index, typed.count, "none")
  OBVIOUS
<1>10. q = add_new_cpool_entry(both, e4)
  BY <1>2, <1>3, <1>5, <1>6, <1>7, <1>8, <1>9 DEF add_new_method_cpool_entry
<1>11. ~ both.full /\ ~ typed.full /\ ~ named.full
  <2>1. ~ both.full
    BY <1>10, FullStays
  <2>2. ~ typed.full
    BY <1>8, <2>1, FullStays
  <2> QED  BY <1>6, <2>1, <2>2, FullStays
<1>12. /\ PoolRight(named) /\ Grows(named, p, 3 + TextLen) /\ named.count = p.count + 1
       /\ p.count \in DOMAIN named.cpool /\ named.cpool[p.count] = e1
  BY <1>4, <1>5, <1>11, EntryAdded
<1>13. /\ PoolRight(typed) /\ Grows(typed, named, 3 + TextLen) /\ typed.count = named.count + 1
       /\ named.count \in DOMAIN typed.cpool /\ typed.cpool[named.count] = e2
  BY <1>4, <1>6, <1>11, <1>12, EntryAdded
<1>14. named.count \in Nat /\ typed.count \in Nat
  BY <1>1, <1>12, <1>13
<1>15. /\ e3 \in Entries /\ e3.tag = "NameAndType" /\ Bytes(e3) = 5
       /\ e3.index1 = p.count /\ e3.index2 = named.count
       /\ e4 \in Entries /\ e4.tag = "Methodref" /\ Bytes(e4) = 5
       /\ e4.index1 = class_index /\ e4.index2 = typed.count
  BY <1>1, <1>7, <1>9, <1>14, TextAssumption DEF Entry, Entries, Tags, Bytes, EntryBytes
<1>16. /\ PoolRight(both) /\ Grows(both, typed, 5) /\ both.count = typed.count + 1
       /\ typed.count \in DOMAIN both.cpool /\ both.cpool[typed.count] = e3
  BY <1>8, <1>11, <1>13, <1>15, EntryAdded
<1>17. /\ PoolRight(q) /\ Grows(q, both, 5) /\ q.count = both.count + 1 /\ both.count \in Nat
       /\ both.count \in DOMAIN q.cpool /\ q.cpool[both.count] = e4
  BY <1>10, <1>15, <1>16, EntryAdded
<1>18. /\ Grows(q, typed, 5 + 5)
       /\ Grows(q, named, (3 + TextLen) + (5 + 5))
       /\ Grows(q, p, (3 + TextLen) + ((3 + TextLen) + (5 + 5)))
  <2>1. 5 \in Nat /\ 5 + 5 \in Nat /\ 3 + TextLen \in Nat /\ (3 + TextLen) + (5 + 5) \in Nat
    BY SizesAssumption
  <2>2. Grows(q, typed, 5 + 5)
    BY <2>1, <1>13, <1>16, <1>17, GrowsOn
  <2>3. Grows(q, named, (3 + TextLen) + (5 + 5))
    BY <2>1, <2>2, <1>12, <1>13, <1>17, GrowsOn
  <2> QED  BY <2>1, <2>2, <2>3, <1>12, <1>17, GrowsOn
<1>19. LastIndex(q) = both.count
  BY <1>17 DEF LastIndex
<1>20. /\ p.count \in DOMAIN q.cpool /\ q.cpool[p.count] = e1
       /\ named.count \in DOMAIN q.cpool /\ q.cpool[named.count] = e2
       /\ typed.count \in DOMAIN q.cpool /\ q.cpool[typed.count] = e3
  <2>1. Keeps(q.cpool, named.cpool) /\ Keeps(q.cpool, typed.cpool) /\ Keeps(q.cpool, both.cpool)
    BY <1>17, <1>18 DEF Grows
  <2> QED  BY <1>12, <1>13, <1>16, <2>1 DEF Keeps
<1>21. IsMethod(q.cpool, LastIndex(q), class_index, name, descr)
  BY <1>4, <1>15, <1>17, <1>19, <1>20 DEF IsMethod
<1>22. (3 + TextLen) + ((3 + TextLen) + (5 + 5)) = MethodEntries
  BY SizesAssumption DEF MethodEntries
<1> QED  BY <1>17, <1>18, <1>19, <1>21, <1>22

\* What the text and the signature of a tracker are.
LEMMA TrackerTexts ==
    ASSUME call \in Calls, NEW kind \in Kinds
    PROVE  kind \in Text /\ Signature(kind) \in Text
<1>1. call.newarray_sig \in Text
  BY CallsAssumption
<1> QED  BY <1>1, TextAssumption DEF Signature

\* The trackers of some kinds are in the pool.
Resolves(added, kinds, class_index) ==
    \A kind \in kinds \cap call.trackers :
        IsMethod(added.pool.cpool, added.index[kind], class_index, kind, Signature(kind))

\* Adding one tracker more.
LEMMA TrackerAdded ==
    ASSUME call \in Calls, NEW added, PoolRight(added.pool), added.index \in [Kinds -> Nat],
           NEW kind \in Kinds, NEW kinds \in SUBSET Kinds, kind \notin kinds,
           NEW class_index \in Nat, Resolves(added, kinds, class_index),
           NEW new, new = AddTracker(added, kind, class_index), ~ new.pool.full
    PROVE  /\ PoolRight(new.pool) /\ Grows(new.pool, added.pool, MethodEntries)
           /\ new.index \in [Kinds -> Nat]
           /\ Resolves(new, kinds \cup {kind}, class_index)
<1>1. PICK extended : extended =
          add_new_method_cpool_entry(added.pool, class_index, kind, Signature(kind))
  OBVIOUS
<1>2. CASE kind \in call.trackers
  <2>1. /\ new.pool = extended
        /\ new.index = [added.index EXCEPT ![kind] = LastIndex(extended)]
    BY <1>1, <1>2 DEF AddTracker
  <2>2. /\ PoolRight(extended) /\ Grows(extended, added.pool, MethodEntries)
        /\ LastIndex(extended) \in Nat
        /\ IsMethod(extended.cpool, LastIndex(extended), class_index, kind, Signature(kind))
    BY <1>1, <2>1, TrackerTexts, MethodAdded
  <2>3. /\ new.index \in [Kinds -> Nat] /\ new.index[kind] = LastIndex(extended)
        /\ \A k \in kinds : new.index[k] = added.index[k]
    BY <2>1, <2>2
  <2>4. ASSUME NEW k \in (kinds \cup {kind}) \cap call.trackers
        PROVE  IsMethod(new.pool.cpool, new.index[k], class_index, k, Signature(k))
    <3>1. CASE k = kind
      BY <2>1, <2>2, <2>3, <3>1
    <3>2. CASE k \in kinds
      <4>1. IsMethod(added.pool.cpool, added.index[k], class_index, k, Signature(k))
        BY <2>4, <3>2 DEF Resolves
      <4>2. Keeps(extended.cpool, added.pool.cpool)
        BY <2>2 DEF Grows
      <4>3. IsMethod(extended.cpool, added.index[k], class_index, k, Signature(k))
        BY <4>1, <4>2, KeepsMeaning
      <4> QED  BY <2>1, <2>3, <3>2, <4>3
    <3> QED  BY <2>4, <3>1, <3>2
  <2>5. Resolves(new, kinds \cup {kind}, class_index)
    BY <2>4 DEF Resolves
  <2> QED  BY <2>1, <2>2, <2>3, <2>5
<1>3. CASE kind \notin call.trackers
  <2>1. new = added
    BY <1>3 DEF AddTracker
  <2>2. (kinds \cup {kind}) \cap call.trackers = kinds \cap call.trackers
    BY <1>3
  <2>3. Resolves(new, kinds \cup {kind}, class_index)
    BY <2>1, <2>2 DEF Resolves
  <2>4. Grows(new.pool, added.pool, MethodEntries)
    <3>1. PoolBytes(added.pool.output) \in Nat /\ Len(added.pool.output) \in Nat
      BY IndexFacts, EntryFacts DEF PoolRight, Mirrors
    <3>2. MethodEntries \in Nat
      BY SizesAssumption DEF MethodEntries
    <3>3. StartsWith(added.pool.output, added.pool.output)
      BY <3>1 DEF StartsWith
    <3> QED  BY <2>1, <3>1, <3>2, <3>3 DEF Grows, Keeps
  <2> QED  BY <2>1, <2>3, <2>4
<1> QED  BY <1>2, <1>3

\* A pool with a tracker too many stays full.
LEMMA FullTracker ==
    ASSUME NEW added, NEW kind, NEW class_index,
           ~ AddTracker(added, kind, class_index).pool.full
    PROVE  ~ added.pool.full
BY FullStays DEF AddTracker, add_new_method_cpool_entry

\* All that cpool_setup adds: the pool mirrors its output still, starts with what
\* it had, and has every tracker under the index that is remembered.
LEMMA NewPoolRight ==
    ASSUME call \in Calls, NEW p, PoolRight(p), call.trackers \subseteq Kinds, tracker_index \in [Kinds -> Nat],
           NEW new, new = NewPool(p), ~ new.pool.full
    PROVE  /\ PoolRight(new.pool) /\ Grows(new.pool, p, NewBytes)
           /\ new.index \in [Kinds -> Nat]
           /\ \E class_index \in Nat :
                  /\ IsClass(new.pool.cpool, class_index, "tclass")
                  /\ Resolves(new, Kinds, class_index)
<1>1. PICK numbered : numbered =
          IF NumberInPool THEN add_new_cpool_entry(p, Entry("Integer", 0, 0, "number")) ELSE p
  OBVIOUS
<1>2. PICK classed : classed = add_new_class_cpool_entry(numbered, "tclass")
  OBVIOUS
<1>3. PICK class_index : class_index = LastIndex(classed)
  OBVIOUS
<1>4. PICK start : start = [pool |-> classed, index |-> tracker_index]
  OBVIOUS
<1>5. PICK inited : inited = AddTracker(start, "obj_init", class_index)
  OBVIOUS
<1>6. PICK arrayed : arrayed = AddTracker(inited, "newarray", class_index)
  OBVIOUS
<1>7. PICK called : called = AddTracker(arrayed, "call", class_index)
  OBVIOUS
<1>8. new = AddTracker(called, "return", class_index)
  BY <1>1, <1>2, <1>3, <1>4, <1>5, <1>6, <1>7 DEF NewPool
<1>9. /\ ~ called.pool.full /\ ~ arrayed.pool.full /\ ~ inited.pool.full /\ ~ start.pool.full
      /\ ~ classed.full /\ ~ numbered.full
  <2>1. ~ called.pool.full
    BY <1>8, FullTracker
  <2>2. ~ arrayed.pool.full
    BY <1>7, <2>1, FullTracker
  <2>3. ~ inited.pool.full
    BY <1>6, <2>2, FullTracker
  <2>4. ~ start.pool.full
    BY <1>5, <2>3, FullTracker
  <2>5. ~ classed.full
    BY <1>4, <2>4
  <2>6. ~ numbered.full
    BY <1>2, <2>5, FullStays DEF add_new_class_cpool_entry
  <2> QED  BY <2>1, <2>2, <2>3, <2>4, <2>5, <2>6
<1>10. PoolRight(numbered) /\ Grows(numbered, p, 5)
  <2>1. CASE NumberInPool
    <3>1. PICK e : e = Entry("Integer", 0, 0, "number")
      OBVIOUS
    <3>2. e \in Entries /\ e.tag # "Long" /\ Bytes(e) = 5
      BY <3>1, TextAssumption DEF Entry, Entries, Tags, Bytes, EntryBytes
    <3> QED  BY <1>1, <1>9, <2>1, <3>1, <3>2, EntryAdded
  <2>2. CASE ~ NumberInPool
    <3>1. PoolBytes(p.output) \in Nat /\ Len(p.output) \in Nat
      BY IndexFacts, EntryFacts DEF PoolRight, Mirrors
    <3>2. StartsWith(p.output, p.output) /\ Keeps(p.cpool, p.cpool)
      BY <3>1 DEF StartsWith, Keeps
    <3>3. PoolBytes(p.output) <= PoolBytes(p.output) + 5
      BY <3>1
    <3> QED  BY <1>1, <2>2, <3>2, <3>3 DEF Grows
  <2> QED  BY <2>1, <2>2
<1>11. /\ PoolRight(classed) /\ Grows(classed, numbered, (3 + TextLen) + 3) /\ class_index \in Nat
       /\ IsClass(classed.cpool, class_index, "tclass")
  <2>1. "tclass" \in Text
    BY TextAssumption
  <2> QED  BY <1>2, <1>3, <1>9, <1>10, <2>1, ClassAdded
<1>12. start.pool = classed /\ start.index \in [Kinds -> Nat] /\ Resolves(start, {}, class_index)
  BY <1>4 DEF Resolves
<1>13. "obj_init" \in Kinds /\ "newarray" \in Kinds /\ "call" \in Kinds /\ "return" \in Kinds
  BY DEF Kinds
<1>14. /\ PoolRight(inited.pool) /\ Grows(inited.pool, classed, MethodEntries)
       /\ inited.index \in [Kinds -> Nat] /\ Resolves(inited, {"obj_init"}, class_index)
  <2>1. /\ PoolRight(inited.pool) /\ Grows(inited.pool, start.pool, MethodEntries)
        /\ inited.index \in [Kinds -> Nat] /\ Resolves(inited, {} \cup {"obj_init"}, class_index)
    BY <1>5, <1>9, <1>11, <1>12, <1>13, TrackerAdded
  <2>2. {} \cup {"obj_init"} = {"obj_init"}
    OBVIOUS
  <2> QED  BY <1>12, <2>1, <2>2
<1>15. /\ PoolRight(arrayed.pool) /\ Grows(arrayed.pool, inited.pool, MethodEntries)
       /\ arrayed.index \in [Kinds -> Nat]
       /\ Resolves(arrayed, {"obj_init"} \cup {"newarray"}, class_index)
  <2>1. {"obj_init"} \in SUBSET Kinds /\ "newarray" \notin {"obj_init"}
    BY DEF Kinds
  <2> QED  BY <1>6, <1>9, <1>11, <1>13, <1>14, <2>1, TrackerAdded
<1>16. /\ PoolRight(called.pool) /\ Grows(called.pool, arrayed.pool, MethodEntries)
       /\ called.index \in [Kinds -> Nat]
       /\ Resolves(called, {"obj_init"} \cup {"newarray"} \cup {"call"}, class_index)
  <2>1. /\ {"obj_init"} \cup {"newarray"} \in SUBSET Kinds
        /\ "call" \notin {"obj_init"} \cup {"newarray"}
    BY DEF Kinds
  <2> QED  BY <1>7, <1>9, <1>11, <1>13, <1>15, <2>1, TrackerAdded
<1>17. /\ PoolRight(new.pool) /\ Grows(new.pool, called.pool, MethodEntries)
       /\ new.index \in [Kinds -> Nat]
       /\ Resolves(new, {"obj_init"} \cup {"newarray"} \cup {"call"} \cup {"return"}, class_index)
  <2>1. /\ {"obj_init"} \cup {"newarray"} \cup {"call"} \in SUBSET Kinds
        /\ "return" \notin {"obj_init"} \cup {"newarray"} \cup {"call"}
    BY DEF Kinds
  <2> QED  BY <1>8, <1>11, <1>13, <1>16, <2>1, TrackerAdded
<1>18. {"obj_init"} \cup {"newarray"} \cup {"call"} \cup {"return"} = Kinds
  BY DEF Kinds
<1> DEFINE M == MethodEntries
<1>19. M \in Nat /\ (3 + TextLen) + 3 \in Nat /\ 5 \in Nat
  BY SizesAssumption DEF MethodEntries
<1> HIDE DEF M
<1>20. Grows(new.pool, arrayed.pool, M + M)
  BY <1>15, <1>16, <1>17, <1>19, GrowsOn DEF M
<1>21. Grows(new.pool, inited.pool, M + (M + M))
  BY <1>14, <1>15, <1>17, <1>19, <1>20, GrowsOn DEF M
<1>22. Grows(new.pool, classed, M + (M + (M + M)))
  BY <1>11, <1>14, <1>17, <1>19, <1>21, GrowsOn DEF M
<1>23. Grows(new.pool, numbered, ((3 + TextLen) + 3) + (M + (M + (M + M))))
  BY <1>10, <1>11, <1>17, <1>19, <1>22, GrowsOn
<1>24. Grows(new.pool, p, 5 + (((3 + TextLen) + 3) + (M + (M + (M + M)))))
  BY <1>10, <1>17, <1>19, <1>23, GrowsOn
<1>25. 5 + (((3 + TextLen) + 3) + (M + (M + (M + M)))) = NewBytes
  BY SizesAssumption DEF M, MethodEntries, NewBytes
<1>26. IsClass(new.pool.cpool, class_index, "tclass")
  <2>1. Keeps(new.pool.cpool, classed.cpool)
    BY <1>22 DEF Grows
  <2> QED  BY <1>11, <2>1, KeepsMeaning
<1> QED  BY <1>11, <1>17, <1>18, <1>24, <1>25, <1>26

-----------------------------------------------------------------------------
\* Room for the entries that are added.

\* n more entries fit into the table, and the count stays below the modulus.
Fits(p, n) ==
    /\ ~ p.full /\ p.count \in Nat \ {0}
    /\ cpool_max_elements \in Nat /\ cpool_max_elements < U2Mod
    /\ p.count + n < cpool_max_elements

\* An entry takes one place.
LEMMA EntryFits ==
    ASSUME NEW p, NEW e, NEW n \in Nat, Fits(p, n + 1)
    PROVE  Fits(add_new_cpool_entry(p, e), n)
<1>1. PICK q : q = add_new_cpool_entry(p, e)
  OBVIOUS
<1>2. PICK max : max = cpool_max_elements
  OBVIOUS
<1>3. PICK count : count = p.count + 1
  OBVIOUS
<1>4. /\ ~ p.full /\ p.count \in Nat \ {0} /\ max \in Nat /\ max < U2Mod /\ p.count + (n + 1) < max
  BY <1>2 DEF Fits
<1>5. /\ count \in 0 .. 2 * U2Mod - 1 /\ count < U2Mod /\ U2Mod \in Nat \ {0} /\ count < max
      /\ p.count > 0 /\ p.count < count /\ count \in Nat \ {0} /\ count + n < max
  BY <1>3, <1>4, SizesAssumption
<1>6. count % U2Mod = count
  BY <1>5, Remainders
<1>7. q.count = count /\ q.full = (p.full \/ ~ HasRoom(p, count))
  BY <1>1, <1>3, <1>6 DEF add_new_cpool_entry
<1>8. HasRoom(p, count)
  BY <1>2, <1>5 DEF HasRoom
<1>9. ~ q.full
  BY <1>4, <1>7, <1>8
<1>10. Fits(q, n)
  BY <1>2, <1>4, <1>5, <1>7, <1>9 DEF Fits
<1> QED  BY <1>1, <1>10

\* A pool in which more entries fit is one in which fewer do.
LEMMA FewerFit ==
    ASSUME NEW p, NEW n \in Nat, NEW m \in Nat, m <= n, Fits(p, n)
    PROVE  Fits(p, m)
<1>1. PICK max : max = cpool_max_elements
  OBVIOUS
<1>2. p.count \in Nat \ {0} /\ max \in Nat /\ p.count + n < max
  BY <1>1 DEF Fits
<1>3. p.count + m < max
  BY <1>2
<1> QED  BY <1>1, <1>3 DEF Fits

\* A class takes two places.
LEMMA ClassFits ==
    ASSUME NEW p, NEW name, NEW n \in Nat, Fits(p, n + 2)
    PROVE  Fits(add_new_class_cpool_entry(p, name), n)
<1>1. PICK r : r = add_new_cpool_entry(p, Entry("Utf8", 0, 0, name))
  OBVIOUS
<1>2. n + 1 \in Nat /\ n + 2 = (n + 1) + 1
  OBVIOUS
<1>3. Fits(r, n + 1)
  BY <1>1, <1>2, EntryFits
<1> QED  BY <1>1, <1>3, EntryFits DEF add_new_class_cpool_entry

\* A method takes four places.
LEMMA MethodFits ==
    ASSUME NEW p, NEW class_index, NEW name, NEW descr, NEW n \in Nat, Fits(p, n + 4)
    PROVE  Fits(add_new_method_cpool_entry(p, class_index, name, descr), n)
<1>1. PICK named : named = add_new_cpool_entry(p, Entry("Utf8", 0, 0, name))
  OBVIOUS
<1>2. PICK typed : typed = add_new_cpool_entry(named, Entry("Utf8", 0, 0, descr))
  OBVIOUS
<1>3. PICK both : both =
          add_new_cpool_entry(typed, Entry("NameAndType", p.count, named.count, "none"))
  OBVIOUS
<1>4. /\ n + 1 \in Nat /\ n + 2 \in Nat /\ n + 3 \in Nat
      /\ n + 4 = (n + 3) + 1 /\ n + 3 = (n + 2) + 1 /\ n + 2 = (n + 1) + 1
  OBVIOUS
<1>5. Fits(named, n + 3)
  BY <1>1, <1>4, EntryFits
<1>6. Fits(typed, n + 2)
  BY <1>2, <1>4, <1>5, EntryFits
<1>7. Fits(both, n + 1)
  BY <1>3, <1>4, <1>6, EntryFits
<1>8. Fits(add_new_cpool_entry(both, Entry("Methodref", class_index, typed.count, "none")), n)
  BY <1>7, EntryFits
<1> QED  BY <1>1, <1>2, <1>3, <1>8 DEF add_new_method_cpool_entry

\* A tracker takes four places or none.
LEMMA TrackerFits ==
    ASSUME NEW added, NEW kind, NEW class_index, NEW n \in Nat, Fits(added.pool, n + 4)
    PROVE  Fits(AddTracker(added, kind, class_index).pool, n)
<1>1. PICK extended : extended =
          add_new_method_cpool_entry(added.pool, class_index, kind, Signature(kind))
  OBVIOUS
<1>2. PICK new : new = AddTracker(added, kind, class_index)
  OBVIOUS
<1>3. new.pool = extended \/ new.pool = added.pool
  BY <1>1, <1>2 DEF AddTracker
<1>4. Fits(extended, n)
  BY <1>1, MethodFits
<1>5. Fits(added.pool, n)
  <2>1. n + 4 \in Nat /\ n <= n + 4
    OBVIOUS
  <2> QED  BY <2>1, FewerFit
<1>6. Fits(new.pool, n)
  BY <1>3, <1>4, <1>5
<1> QED  BY <1>2, <1>6

\* All that cpool_setup adds is nineteen entries at most, so the pool is not full
\* and its count below the size of the table.
LEMMA NewPoolFits ==
    ASSUME NEW p, Fits(p, 19)
    PROVE  Fits(NewPool(p).pool, 0)
<1>1. PICK numbered : numbered =
          IF NumberInPool THEN add_new_cpool_entry(p, Entry("Integer", 0, 0, "number")) ELSE p
  OBVIOUS
<1>2. PICK classed : classed = add_new_class_cpool_entry(numbered, "tclass")
  OBVIOUS
<1>3. PICK class_index : class_index = LastIndex(classed)
  OBVIOUS
<1>4. PICK start : start = [pool |-> classed, index |-> tracker_index]
  OBVIOUS
<1>5. PICK inited : inited = AddTracker(start, "obj_init", class_index)
  OBVIOUS
<1>6. PICK arrayed : arrayed = AddTracker(inited, "newarray", class_index)
  OBVIOUS
<1>7. PICK called : called = AddTracker(arrayed, "call", class_index)
  OBVIOUS
<1>8. NewPool(p) = AddTracker(called, "return", class_index)
  BY <1>1, <1>2, <1>3, <1>4, <1>5, <1>6, <1>7 DEF NewPool
<1>9. /\ 19 = 18 + 1 /\ 18 = 16 + 2 /\ 16 = 12 + 4 /\ 12 = 8 + 4 /\ 8 = 4 + 4 /\ 4 = 0 + 4
      /\ 18 \in Nat /\ 19 \in Nat /\ 18 <= 19 /\ 16 \in Nat /\ 12 \in Nat /\ 8 \in Nat /\ 4 \in Nat
      /\ 0 \in Nat
  OBVIOUS
<1>10. Fits(numbered, 18)
  <2>1. Fits(add_new_cpool_entry(p, Entry("Integer", 0, 0, "number")), 18)
    BY <1>9, EntryFits
  <2>2. Fits(p, 18)
    BY <1>9, FewerFit
  <2> QED  BY <1>1, <2>1, <2>2
<1>11. Fits(start.pool, 16)
  BY <1>2, <1>4, <1>9, <1>10, ClassFits
<1>12. Fits(inited.pool, 12)
  BY <1>5, <1>9, <1>11, TrackerFits
<1>13. Fits(arrayed.pool, 8)
  BY <1>6, <1>9, <1>12, TrackerFits
<1>14. Fits(called.pool, 4)
  BY <1>7, <1>9, <1>13, TrackerFits
<1>15. Fits(NewPool(p).pool, 0)
  BY <1>8, <1>9, <1>14, TrackerFits
<1> QED  BY <1>15

\* Below the limit of 16 bits, the table is as large as it should be.
LEMMA TableSize ==
    ASSUME call \in Calls, ~ PoolFull
    PROVE  /\ cpool_max_elements = CountOf(call.pool) + MAXIMUM_NEW_CPOOL_ENTRIES
           /\ CountOf(call.pool) \in Nat \ {0} /\ CountOf(call.pool) + 19 < cpool_max_elements
           /\ cpool_max_elements \in Nat /\ cpool_max_elements < U2Mod
<1>1. PICK count : count = CountOf(call.pool)
  OBVIOUS
<1>2. count \in Nat \ {0}
  <2>1. call.pool \in Seq(Entries)
    BY CallsAssumption
  <2>2. Len(call.pool) + 1 \in 1 .. Len(call.pool) + 1
    BY <2>1, EntryFacts
  <2> QED  BY <1>1, <2>1, <2>2, IndexFacts DEF CountOf
<1>3. /\ count + MAXIMUM_NEW_CPOOL_ENTRIES < U2Mod /\ MAXIMUM_NEW_CPOOL_ENTRIES \in Nat
      /\ MAXIMUM_NEW_CPOOL_ENTRIES >= 20 /\ U2Mod \in Nat \ {0}
  BY <1>1, <1>2, SizesAssumption DEF PoolFull
<1>4. count + MAXIMUM_NEW_CPOOL_ENTRIES \in 0 .. 2 * U2Mod - 1
  BY <1>2, <1>3
<1>5. cpool_max_elements = count + MAXIMUM_NEW_CPOOL_ENTRIES
  BY <1>1, <1>3, <1>4, Remainders DEF cpool_max_elements
<1> QED  BY <1>1, <1>2, <1>3, <1>5

\* The size of the table is the call's.
LEMMA SizesStay ==
    ASSUME call' = call
    PROVE  /\ cpool_max_elements' = cpool_max_elements /\ (PoolFull' <=> PoolFull)
           /\ \A kind : Signature(kind)' = Signature(kind)
BY DEF cpool_max_elements, PoolFull, Signature

-----------------------------------------------------------------------------
\* The inductive invariant.

\* The call writes a class; the other function reads a name.
Java == call.function = "java_crw_demo"

\* Bytes in front of the methods.
Front == 10 + PoolBytes(call.pool) + 8 + call.fields + 2

\* The call is one that may be served, and what stops a call has not been found.
CallInv ==
    /\ call \in Calls
    /\ phase \in {"interface", "header"} =>
           /\ i = 1 /\ cpool = << >> /\ output = << >> /\ cpool_count_plus_one = 0
           /\ input_position = 0 /\ output_position = 0
    /\ phase \in {"header", "cpool", "class", "methods", "cleanup"} => ~ call.empty
    /\ phase = "methods" => Java /\ ~ call.interface

\* While the pool is read, the output starts as the input's pool does.
ReadInv ==
    phase = "cpool" =>
        /\ Mirrors(cpool, output, i)
        /\ StartsWith(call.pool, output)
        /\ cpool_count_plus_one = CountOf(call.pool) /\ header_count = CountOf(call.pool)
        /\ input_position = 10 + PoolBytes(output)
        /\ Java => output_position = input_position

\* A table and the indices remembered have the configured trackers.
HasTrackers(table, index) ==
    \E class_index \in DOMAIN table :
        /\ IsClass(table, class_index, "tclass")
        /\ \A kind \in call.trackers :
               IsMethod(table, index[kind], class_index, kind, Signature(kind))

\* Then the output has the input's pool, and what is new.
PoolInv ==
    PoolDone =>
        /\ Mirrors(cpool, output, cpool_count_plus_one)
        /\ header_count = cpool_count_plus_one
        /\ StartsWith(output, call.pool)
        /\ Java => HasTrackers(cpool, tracker_index)

\* Where reading and writing are.  Twice the input and what the pool grew by is
\* enough, unless the calls in a method are longer than its code.
PositionsInv ==
    /\ phase = "class" => i = 1 /\ input_position = 10 + PoolBytes(call.pool)
    /\ (phase = "class" /\ Java) => output_position <= input_position + NewBytes
    /\ phase = "methods" =>
           /\ i \in 1 .. Len(call.methods) + 1
           /\ input_position = Front + MethodsTo(call.methods, i - 1)
           /\ \/ \E k \in DOMAIN call.methods : Doubled(k)
              \/ output_position <= 2 * input_position + NewBytes
    /\ result = "image" => input_position = file_len

\* What the caller gets, and what it is told.
ResultInv ==
    /\ phase \in {"interface", "header", "cpool", "class", "methods"} =>
           result = "none" /\ called_back = {}
    /\ phase \in {"interface", "header", "cpool", "class"} => injected = {}
    /\ (phase = "cleanup" /\ Java) =>
           /\ result \in {"none", "image"} /\ (result = "image" <=> injected # {})
           /\ called_back = IF call.callback /\ ~ call.interface
                              THEN {Len(call.methods)} ELSE {}
    /\ (phase = "cleanup" /\ ~ Java) => result = call.name

\* What the caller frees, while it is made.
CallersObject == Object(IF Java THEN "image" ELSE "result", 0)

\* All else that is allocated is what cleanup frees.
HeapInv ==
    /\ phase = "interface" => heap = {}
    /\ phase \in {"header", "cpool", "class", "methods", "cleanup"} =>
           /\ heap \subseteq Freed(cpool_count_plus_one) \cup {CallersObject}
           /\ Java \/ phase = "cleanup" => CallersObject \in heap
           /\ ~ Java /\ phase # "cleanup" => CallersObject \notin heap

\* All of it, with what the runs check.
IInv ==
    /\ TypeOK
    /\ CallInv
    /\ ReadInv
    /\ PoolInv
    /\ PositionsInv
    /\ ResultInv
    /\ HeapInv
    /\ NameRead
    /\ ImageComplete
    /\ NothingLeaked
    /\ FailsOnBadInput

\* Why a call fails.
BadInput ==
    \/ ~ call.magic \/ (\E n \in DOMAIN call.pool : call.pool[n].tag = "unknown")
    \/ PoolFull
    \/ /\ Java
       /\ BadArguments \/ BadClass \/ \E k \in DOMAIN call.methods : Doubled(k)

\* What is known of a call and its class.
LEMMA CallFacts ==
    ASSUME call \in Calls
    PROVE  /\ Java \/ call.function = "java_crw_demo_classname"
           /\ call.trackers \subseteq Kinds /\ call.name \notin {"none", "image"}
           /\ call.pool \in Seq(Entries) /\ Len(call.pool) \in Nat
           /\ CountOf(call.pool) \in Nat \ {0} /\ CountOf(call.pool) < U2Mod
           /\ PoolBytes(call.pool) \in Nat /\ call.fields \in Nat
           /\ Len(call.methods) \in Nat /\ DOMAIN call.methods = 1 .. Len(call.methods)
           /\ Front \in Nat
<1>1. /\ Java \/ call.function = "java_crw_demo_classname"
      /\ call.trackers \subseteq Kinds /\ call.name \notin {"none", "image"}
      /\ call.pool \in Seq(Entries) /\ CountOf(call.pool) < U2Mod /\ call.fields \in Nat
      /\ call.methods \in Seq(MethodInfos)
  BY CallsAssumption DEF Java
<1>2. Len(call.pool) \in Nat /\ CountOf(call.pool) \in Nat \ {0} /\ PoolBytes(call.pool) \in Nat
  <2>1. Len(call.pool) \in Nat
    BY <1>1, EntryFacts
  <2>2. Len(call.pool) + 1 \in 1 .. Len(call.pool) + 1
    BY <2>1
  <2> QED  BY <1>1, <2>1, <2>2, IndexFacts DEF CountOf
<1>3. Len(call.methods) \in Nat /\ DOMAIN call.methods = 1 .. Len(call.methods)
  BY <1>1, LenProperties
<1>4. Front \in Nat
  BY <1>1, <1>2 DEF Front
<1> QED  BY <1>1, <1>2, <1>3, <1>4

\* What is known of the methods of the class.
LEMMA MethodFacts ==
    ASSUME call \in Calls, NEW k \in 1 .. Len(call.methods)
    PROVE  /\ call.methods[k] \in MethodInfos /\ MethodBytes(call.methods[k]) \in Nat
           /\ call.methods[k].code_len <= MethodBytes(call.methods[k])
           /\ call.methods[k].code_len + call.methods[k].widening >= 0
           /\ MethodsTo(call.methods, k - 1) \in Nat
           /\ MethodsTo(call.methods, k) = MethodsTo(call.methods, k - 1) + MethodBytes(call.methods[k])
           /\ MethodsTo(call.methods, k) <= MethodsTo(call.methods, Len(call.methods))
           /\ MethodsTo(call.methods, Len(call.methods)) \in Nat
<1> DEFINE n == Len(call.methods)
           w == [j \in 1 .. n |-> MethodBytes(call.methods[j])]
<1>1. /\ n \in Nat /\ \A j \in 1 .. n : call.methods[j] \in MethodInfos
      /\ \A j \in 1 .. n : call.methods[j].code_len + call.methods[j].widening >= 0
  <2>1. /\ call.methods \in Seq(MethodInfos)
        /\ \A j \in DOMAIN call.methods : call.methods[j].code_len + call.methods[j].widening >= 0
    BY CallsAssumption
  <2>2. n \in Nat /\ DOMAIN call.methods = 1 .. n
    BY CallFacts
  <2> QED  BY <2>1, <2>2, ElementOfSeq
<1>2. ASSUME NEW m \in MethodInfos
      PROVE  MethodBytes(m) \in Nat /\ m.code_len <= MethodBytes(m)
  BY DEF MethodInfos, MethodBytes, CodeHead
<1>3. \A j \in 1 .. n : w[j] \in Nat /\ w[j] = MethodBytes(call.methods[j])
  BY <1>1, <1>2
<1>4. \A m \in 0 .. n : MethodsTo(call.methods, m) = SumTo(w, m)
  BY DEF MethodsTo
<1> HIDE DEF w
<1>5. \A m \in 0 .. n : SumTo(w, m) \in Nat /\ SumTo(w, m) <= SumTo(w, n)
  BY <1>1, <1>3, SumToGrows
<1>6. SumTo(w, k) = SumTo(w, k - 1) + w[k]
  <2>1. k \in Nat /\ k > 0 /\ \A j \in 1 .. k : w[j] \in Int
    BY <1>1, <1>3
  <2> QED  BY <2>1, SumToNext
<1>7. k - 1 \in 0 .. n /\ k \in 0 .. n /\ n \in 0 .. n
  BY <1>1
<1>8. /\ MethodsTo(call.methods, k - 1) = SumTo(w, k - 1) /\ MethodsTo(call.methods, k) = SumTo(w, k)
      /\ MethodsTo(call.methods, n) = SumTo(w, n)
      /\ SumTo(w, k - 1) \in Nat /\ SumTo(w, n) \in Nat /\ SumTo(w, k) <= SumTo(w, n)
  BY <1>4, <1>5, <1>7
<1> HIDE DEF n
<1>9. /\ MethodsTo(call.methods, k - 1) \in Nat /\ MethodsTo(call.methods, n) \in Nat
      /\ MethodsTo(call.methods, k) = MethodsTo(call.methods, k - 1) + MethodBytes(call.methods[k])
      /\ MethodsTo(call.methods, k) <= MethodsTo(call.methods, n)
  <2>1. w[k] = MethodBytes(call.methods[k])
    BY <1>3 DEF n
  <2> QED  BY <1>6, <1>8, <2>1
<1>10. /\ call.methods[k] \in MethodInfos /\ MethodBytes(call.methods[k]) \in Nat
       /\ call.methods[k].code_len <= MethodBytes(call.methods[k])
       /\ call.methods[k].code_len + call.methods[k].widening >= 0
  BY <1>1, <1>2 DEF n
<1> QED  BY <1>9, <1>10 DEF n

\* The methods, and a class without any.
LEMMA MethodsEnd ==
    ASSUME call \in Calls
    PROVE  /\ MethodsTo(call.methods, 0) = 0
           /\ MethodsTo(call.methods, Len(call.methods)) \in Nat
           /\ file_len = (Front + MethodsTo(call.methods, Len(call.methods))) + 2
           /\ file_len \in Nat
<1> DEFINE n == Len(call.methods)
           w == [j \in 1 .. n |-> MethodBytes(call.methods[j])]
<1>1. n \in Nat /\ call.fields \in Nat /\ PoolBytes(call.pool) \in Nat
  BY CallFacts
<1>2. MethodsTo(call.methods, 0) = 0
  <2>1. 0 \in Nat /\ \A j \in 1 .. 0 : w[j] \in Int
    OBVIOUS
  <2>2. MethodsTo(call.methods, 0) = SumTo(w, 0)
    BY DEF MethodsTo
  <2> HIDE DEF w
  <2> QED  BY <2>1, <2>2, SumToNext
<1>3. MethodsTo(call.methods, n) \in Nat
  <2>1. n = 0 \/ n \in 1 .. n
    BY <1>1
  <2> HIDE DEF n
  <2>2. CASE n = 0
    BY <1>2, <2>2
  <2>3. CASE n \in 1 .. n
    BY <2>3, MethodFacts DEF n
  <2> QED  BY <2>1, <2>2, <2>3
<1>4. /\ file_len = (Front + MethodsTo(call.methods, Len(call.methods))) + 2
      /\ file_len \in Nat
  BY <1>1, <1>3 DEF file_len, FileLen, Front
<1> QED  BY <1>2, <1>3, <1>4

\* A product of natural numbers is one.
LEMMA Products ==
    ASSUME NEW x \in Nat, NEW y \in Nat
    PROVE  x * y \in Nat
OBVIOUS

\* A method does not get shorter by more than its code.
LEMMA GrowthFacts ==
    ASSUME call \in Calls, tracker_index \in [Kinds -> Nat], NEW k \in 1 .. Len(call.methods)
    PROVE  /\ Growth(call.methods[k], k - 1) \in Int
           /\ MethodBytes(call.methods[k]) + Growth(call.methods[k], k - 1) >= 0
<1>1. PICK m : m = call.methods[k]
  OBVIOUS
<1>2. /\ m \in MethodInfos /\ MethodBytes(m) \in Nat /\ m.code_len <= MethodBytes(m)
      /\ m.code_len + m.widening >= 0
  BY <1>1, MethodFacts
<1>3. /\ Sites(m)["obj_init"] \in Nat /\ Sites(m)["newarray"] \in Nat
      /\ Sites(m)["call"] \in Nat /\ Sites(m)["return"] \in Nat
  BY <1>2 DEF Sites, Kinds, MethodInfos
<1>4. /\ injection_template("obj_init", k - 1) \in Nat /\ injection_template("newarray", k - 1) \in Nat
      /\ injection_template("call", k - 1) \in Nat /\ injection_template("return", k - 1) \in Nat
  <2>1. \A number : push_short(number) \in Nat /\ push_pool(number) \in Nat
    BY DEF push_short, push_pool
  <2> QED  BY <2>1 DEF injection_template
<1>5. PICK a \in Nat : a = Sites(m)["obj_init"] * injection_template("obj_init", k - 1)
  BY <1>3, <1>4, Products
<1>6. PICK b \in Nat : b = Sites(m)["newarray"] * injection_template("newarray", k - 1)
  BY <1>3, <1>4, Products
<1>7. PICK c \in Nat : c = Sites(m)["call"] * injection_template("call", k - 1)
  BY <1>3, <1>4, Products
<1>8. PICK d \in Nat : d = Sites(m)["return"] * injection_template("return", k - 1)
  BY <1>3, <1>4, Products
<1>9. Growth(m, k - 1) = a + b + c + d + m.widening + m.frames
  BY <1>5, <1>6, <1>7, <1>8 DEF Growth
<1>10. m.widening \in Int /\ m.code_len \in Nat /\ m.frames \in Nat
  BY <1>2 DEF MethodInfos
<1>11. Growth(m, k - 1) \in Int /\ MethodBytes(m) + Growth(m, k - 1) >= 0
  BY <1>2, <1>9, <1>10
<1> QED  BY <1>1, <1>11

\* How much a method grows is known as soon as the trackers are.
LEMMA GrowthStays ==
    ASSUME call' = call, tracker_index' = tracker_index
    PROVE  \A k : Doubled(k)' <=> Doubled(k)
<1>1. NumberInPool' = NumberInPool
  BY DEF NumberInPool
<1>2. ASSUME NEW kind, NEW mnum
      PROVE  injection_template(kind, mnum)' = injection_template(kind, mnum)
  BY <1>1 DEF injection_template
<1>3. ASSUME NEW m
      PROVE  Sites(m)' = Sites(m) /\ (Skipped(m)' <=> Skipped(m))
  BY DEF Sites, Skipped, skip_method, object_init_method, is_object_class, is_thread_class
<1>4. ASSUME NEW m, NEW mnum
      PROVE  Growth(m, mnum)' = Growth(m, mnum)
  BY <1>2, <1>3 DEF Growth
<1> QED  BY <1>3, <1>4 DEF Doubled

\* The causes of a failure stay.
LEMMA BadInputStays ==
    ASSUME call' = call, tracker_index' = tracker_index
    PROVE  BadInput' <=> BadInput
<1>1. PoolFull' <=> PoolFull
  BY SizesStay
<1>2. (BadArguments' <=> BadArguments) /\ (BadClass' <=> BadClass) /\ (Java' <=> Java)
  BY SizesStay DEF BadArguments, newarray_accepted, BadClass, Java
<1> QED  BY <1>1, <1>2, GrowthStays DEF BadInput

-----------------------------------------------------------------------------
\* The invariant is inductive.

\* It holds at the start.
LEMMA InitInv ==
    ASSUME Init
    PROVE  IInv
<1>1. /\ call \in Calls /\ phase = "interface" /\ i = 1 /\ cpool = << >> /\ output = << >>
      /\ cpool_count_plus_one = 0 /\ input_position = 0 /\ output_position = 0
      /\ header_count = 0 /\ injected = {} /\ heap = {} /\ result = "none" /\ called_back = {}
  BY DEF Init
<1>2. TypeOK
  <2>1. tracker_index \in [Kinds -> Nat] /\ DOMAIN cpool = {}
    BY <1>1 DEF Init
  <2>2. cpool_count_plus_one \in 0 .. U2Mod - 1
    BY <1>1, SizesAssumption
  <2> QED  BY <1>1, <2>1, <2>2 DEF TypeOK, Ended
<1>3. CallInv /\ ReadInv /\ PoolInv /\ PositionsInv /\ ResultInv /\ HeapInv
  BY <1>1 DEF CallInv, ReadInv, PoolInv, PositionsInv, ResultInv, HeapInv, PoolDone
<1>4. NameRead /\ ImageComplete /\ NothingLeaked /\ FailsOnBadInput
  BY <1>1 DEF NameRead, ImageComplete, NothingLeaked, FailsOnBadInput
<1> QED  BY <1>2, <1>3, <1>4 DEF IInv

\* A step that ends a call without a result keeps it, if there is a cause or no
\* memory is left.
LEMMA FailsInv ==
    ASSUME IInv, phase' \in {"fatal", "out_of_memory", "crashed"},
           BadInput \/ phase' = "out_of_memory",
           UNCHANGED <<call, i, pool, positions, results, heap>>
    PROVE  IInv'
<1>1. /\ call' = call /\ i' = i /\ cpool' = cpool /\ cpool_count_plus_one' = cpool_count_plus_one
      /\ tracker_index' = tracker_index /\ header_count' = header_count
      /\ input_position' = input_position /\ output_position' = output_position
      /\ injected' = injected /\ result' = result
  BY DEF pool, positions, results
<1>2. TypeOK'
  BY <1>1, SizesStay DEF IInv, TypeOK, Ended
<1>3. CallInv' /\ ReadInv' /\ PoolInv' /\ PositionsInv' /\ ResultInv' /\ HeapInv'
  <2>1. call \in Calls /\ (result = "image" => input_position = file_len)
    BY DEF IInv, CallInv, PositionsInv
  <2> QED  BY <1>1, <2>1 DEF CallInv, ReadInv, PoolInv, PositionsInv, ResultInv, HeapInv, PoolDone,
              file_len
<1>4. NameRead' /\ ImageComplete' /\ NothingLeaked'
  BY <1>1 DEF IInv, NameRead, ImageComplete, NothingLeaked
<1>5. FailsOnBadInput'
  <2>1. CASE BadInput
    <3>1. BadInput'
      BY <1>1, <2>1, BadInputStays
    <3> QED  BY <3>1 DEF BadInput, FailsOnBadInput, Java
  <2>2. CASE phase' = "out_of_memory"
    BY <2>2 DEF FailsOnBadInput
  <2> QED  BY <2>1, <2>2
<1> QED  BY <1>2, <1>3, <1>4, <1>5 DEF IInv

\* A step that does not fail and does not return has nothing to show for that.
LEMMA GoesOn ==
    ASSUME phase' \in {"header", "cpool", "class", "methods", "cleanup"}
    PROVE  ImageComplete' /\ NothingLeaked' /\ FailsOnBadInput'
BY DEF ImageComplete, NothingLeaked, FailsOnBadInput

\* The checks of the arguments keep it.
LEMMA CheckInterfaceInv ==
    ASSUME IInv, CheckInterface
    PROVE  IInv'
<1>1. /\ phase = "interface" /\ call' = call /\ i' = i /\ cpool' = cpool /\ output' = output
      /\ cpool_count_plus_one' = cpool_count_plus_one
      /\ tracker_index' = tracker_index /\ header_count' = header_count
      /\ input_position' = input_position /\ output_position' = output_position
      /\ injected' = injected /\ result' = result /\ called_back' = called_back
  BY DEF CheckInterface, AssertFails, FatalError, OutOfMemory, pool, positions, results
<1>2. /\ call \in Calls /\ i = 1 /\ cpool = << >> /\ output = << >> /\ cpool_count_plus_one = 0
      /\ input_position = 0 /\ output_position = 0 /\ injected = {} /\ heap = {} /\ result = "none"
      /\ called_back = {}
  BY <1>1 DEF IInv, CallInv, ResultInv, HeapInv
<1>3. CASE Java /\ BadArguments /\ (FatalError \/ AssertFails)
  <2>1. BadInput
    BY <1>3 DEF BadInput
  <2> QED  BY <1>3, <2>1, FailsInv DEF FatalError, AssertFails
<1>4. CASE OutOfMemory
  BY <1>4, FailsInv DEF OutOfMemory
<1>5. CASE phase' = "returned" /\ call.empty /\ heap' = heap
  <2>1. TypeOK'
    BY <1>1, <1>5, SizesStay DEF IInv, TypeOK, Ended
  <2>2. CallInv' /\ ReadInv' /\ PoolInv' /\ PositionsInv' /\ ResultInv' /\ HeapInv'
    BY <1>1, <1>2, <1>5 DEF CallInv, ReadInv, PoolInv, PositionsInv, ResultInv, HeapInv, PoolDone
  <2>3. NameRead' /\ ImageComplete' /\ NothingLeaked' /\ FailsOnBadInput'
    BY <1>1, <1>2, <1>5 DEF NameRead, ImageComplete, NothingLeaked, FailsOnBadInput
  <2> QED  BY <2>1, <2>2, <2>3 DEF IInv
<1>6. CASE /\ phase' = "header" /\ ~ call.empty
           /\ heap' \subseteq {Object("name", 0), CallersObject}
           /\ CallersObject \in heap' <=> Java
  <2>1. TypeOK'
    BY <1>1, <1>6, SizesStay DEF IInv, TypeOK, Ended
  <2>2. CallInv' /\ ReadInv' /\ PoolInv' /\ PositionsInv' /\ ResultInv'
    BY <1>1, <1>2, <1>6 DEF CallInv, ReadInv, PoolInv, PositionsInv, ResultInv, PoolDone
  <2>3. HeapInv'
    <3>1. (Java' <=> Java) /\ CallersObject' = CallersObject
      BY <1>1 DEF Java, CallersObject
    <3>2. Object("name", 0) \in Freed(cpool_count_plus_one')
      BY DEF Freed
    <3> QED  BY <1>6, <3>1, <3>2 DEF HeapInv
  <2>4. NameRead'
    BY <1>1, <1>2 DEF NameRead
  <2> QED  BY <1>6, <2>1, <2>2, <2>3, <2>4, GoesOn DEF IInv
<1>7. CASE call.empty /\ phase' = "returned" /\ UNCHANGED <<call, i, pool, positions, results, heap>>
  BY <1>5, <1>7
<1>8. CASE /\ ~ call.empty /\ call.function = "java_crw_demo_classname" /\ phase' = "header"
           /\ UNCHANGED <<call, i, pool, positions, results, heap>>
  BY <1>2, <1>6, <1>8 DEF Java
<1>9. CASE /\ ~ call.empty /\ Java
           /\ IF call.badArgument \/ ~ newarray_accepted THEN FatalError
              ELSE IF "name" \in call.dotted THEN AssertFails
              ELSE \/ OutOfMemory
                   \/ IF "tclass_name" \in call.dotted THEN AssertFails
                      ELSE /\ phase' = "header"
                           /\ heap' = {Object("image", 0)} \cup
                                 (IF call.given = "none" THEN {} ELSE {Object("name", 0)})
  <2>1. CASE phase' = "header" /\ heap' = {Object("image", 0)} \cup
                 (IF call.given = "none" THEN {} ELSE {Object("name", 0)})
    <3>1. CallersObject = Object("image", 0)
      BY <1>9 DEF CallersObject
    <3> QED  BY <1>6, <1>9, <2>1, <3>1
  <2>2. \/ BadArguments /\ (FatalError \/ AssertFails)
        \/ OutOfMemory
        \/ phase' = "header" /\ heap' = {Object("image", 0)} \cup
                 (IF call.given = "none" THEN {} ELSE {Object("name", 0)})
    BY <1>9 DEF BadArguments
  <2> QED  BY <1>3, <1>4, <1>9, <2>1, <2>2
<1> QED  BY <1>7, <1>8, <1>9 DEF CheckInterface, Java

\* Reading the header keeps it.
LEMMA ReadHeaderInv ==
    ASSUME IInv, ReadHeader
    PROVE  IInv'
<1>1. /\ phase = "header" /\ call \in Calls /\ i = 1 /\ cpool = << >> /\ output = << >>
      /\ cpool_count_plus_one = 0 /\ ~ call.empty
      /\ input_position = 0 /\ output_position = 0 /\ injected = {} /\ result = "none"
      /\ called_back = {} /\ tracker_index \in [Kinds -> Nat]
  BY DEF ReadHeader, IInv, CallInv, ResultInv, TypeOK
<1>2. CASE AssertFails /\ (~ call.magic \/ (Java /\ call.version > 50))
  <2>1. BadInput
    BY <1>2 DEF BadInput, BadClass
  <2> QED  BY <1>2, <2>1, FailsInv DEF AssertFails
<1>3. CASE FatalError /\ cpool_max_elements = 0
  <2>1. PoolFull
    <3> SUFFICES ASSUME ~ PoolFull PROVE FALSE
      OBVIOUS
    <3>1. CountOf(call.pool) + 19 < 0 /\ CountOf(call.pool) \in Nat
      BY <1>1, <1>3, TableSize
    <3> QED  BY <3>1
  <2>2. BadInput
    BY <2>1 DEF BadInput
  <2> QED  BY <1>3, <2>2, FailsInv DEF FatalError
<1>4. CASE OutOfMemory
  BY <1>4, FailsInv DEF OutOfMemory
<1>5. CASE /\ phase' = "cpool"
           /\ cpool_count_plus_one' = CountOf(call.pool) % U2Mod
           /\ header_count' = CountOf(call.pool)
           /\ heap' = heap \cup {Object("cpool", 0)}
           /\ Copied(10)
           /\ UNCHANGED <<call, i, cpool, tracker_index, output, results>>
  <2>1. /\ phase' = "cpool"
        /\ cpool_count_plus_one' = CountOf(call.pool) % U2Mod
        /\ header_count' = CountOf(call.pool) /\ heap' = heap \cup {Object("cpool", 0)}
        /\ Copied(10) /\ call' = call /\ i' = i /\ cpool' = cpool
        /\ tracker_index' = tracker_index /\ output' = output /\ injected' = injected
        /\ result' = result /\ called_back' = called_back
    BY <1>5 DEF results
  <2>2. /\ CountOf(call.pool) \in Nat \ {0} /\ CountOf(call.pool) < U2Mod
        /\ PoolBytes(call.pool) \in Nat /\ call.pool \in Seq(Entries) /\ Len(call.pool) \in Nat
    BY <1>1, CallFacts
  <2>3. cpool_count_plus_one' = CountOf(call.pool)
    <3>1. CountOf(call.pool) \in 0 .. 2 * U2Mod - 1 /\ U2Mod \in Nat \ {0}
      BY <2>2, SizesAssumption
    <3>2. CountOf(call.pool) % U2Mod = CountOf(call.pool)
      BY <2>2, <3>1, Remainders
    <3> QED  BY <2>1, <3>2
  <2>4. /\ input_position' = 10 /\ output_position' \in Nat
        /\ (Java => output_position' = 10)
    BY <1>1, <2>1 DEF Copied, writes, Java
  <2>5. Java' <=> Java
    BY <2>1 DEF Java
  <2>6. TypeOK'
    <3>1. phase' = "cpool" /\ i' \in Nat \ {0} /\ DOMAIN cpool' = {}
      BY <1>1, <2>1
    <3>2. cpool_count_plus_one' \in 0 .. U2Mod - 1
      BY <2>2, <2>3, SizesAssumption
    <3>3. {input_position', output_position', header_count'} \subseteq Nat
      BY <2>1, <2>2, <2>4
    <3>4. tracker_index' \in [Kinds -> Nat] /\ injected' \subseteq DOMAIN call.methods'
      BY <1>1, <2>1
    <3> QED  BY <3>1, <3>2, <3>3, <3>4 DEF TypeOK
  <2>7. HeapInv'
    <3>1. /\ heap \subseteq Freed(cpool_count_plus_one) \cup {CallersObject}
          /\ Java => CallersObject \in heap
          /\ ~ Java => CallersObject \notin heap
      BY <1>1 DEF IInv, HeapInv
    <3>2. Freed(cpool_count_plus_one) \cup {Object("cpool", 0)} \subseteq Freed(cpool_count_plus_one')
      <4>1. \A at \in 0 .. 0 - 1 : FALSE
        OBVIOUS
      <4> QED  BY <1>1, <4>1 DEF Freed
    <3>3. CallersObject' = CallersObject
      BY <2>5 DEF CallersObject
    <3>4. ~ Java => CallersObject # Object("cpool", 0)
      BY DEF CallersObject, Object
    <3> QED  BY <2>1, <2>5, <3>1, <3>2, <3>3, <3>4 DEF HeapInv
  <2>8. CallInv' /\ PoolInv' /\ PositionsInv' /\ ResultInv' /\ NameRead'
    BY <1>1, <2>1 DEF CallInv, PoolInv, PositionsInv, ResultInv, PoolDone, NameRead
  <2>9. /\ << >> \in Seq(Entries) /\ Len(<< >>) = 0
        /\ CountOf(<< >>) = 1 /\ PoolBytes(<< >>) = 0
    <3>1. << >> \in Seq(Entries) /\ Len(<< >>) = 0
      BY EmptySeq
    <3>2. 0 + 1 = 1 /\ 0 \in Nat /\ \A k \in 1 .. 0 : BytesOf(<< >>)[k] \in Int
      OBVIOUS
    <3>3. CountOf(<< >>) = 1
      BY <3>1, <3>2, IndexFacts DEF CountOf
    <3>4. PoolBytes(<< >>) = 0
      BY <3>1, <3>2, SumToNext DEF PoolBytes
    <3> QED  BY <3>1, <3>3, <3>4
  <2>10. Mirrors(<< >>, << >>, 1)
    BY <2>9 DEF Mirrors
  <2>11. StartsWith(call.pool, << >>)
    BY <2>2, <2>9 DEF StartsWith
  <2>12. ReadInv'
    BY <1>1, <2>1, <2>3, <2>4, <2>5, <2>9, <2>10, <2>11 DEF ReadInv
  <2>13. ImageComplete' /\ NothingLeaked' /\ FailsOnBadInput'
    BY <2>1, GoesOn
  <2> QED  BY <2>6, <2>7, <2>8, <2>12, <2>13 DEF IInv
<1> QED  BY <1>2, <1>3, <1>4, <1>5 DEF ReadHeader, Java

\* Entries in front of others: their count is smaller as long as some are left.
LEMMA PrefixCounts ==
    ASSUME NEW longer \in Seq(Entries), NEW entries \in Seq(Entries), StartsWith(longer, entries)
    PROVE  /\ CountOf(entries) <= CountOf(longer)
           /\ CountOf(entries) < CountOf(longer) <=> Len(entries) < Len(longer)
           /\ Len(entries) = Len(longer) => /\ StartsWith(entries, longer)
                                            /\ PoolBytes(entries) = PoolBytes(longer)
<1>1. Len(entries) \in Nat /\ Len(longer) \in Nat /\ Len(entries) <= Len(longer)
  BY EntryFacts DEF StartsWith
<1>2. /\ Len(entries) + 1 \in 1 .. Len(entries) + 1 /\ Len(entries) + 1 \in 1 .. Len(longer) + 1
      /\ Len(longer) + 1 \in 1 .. Len(longer) + 1
  BY <1>1
<1>3. CountOf(entries) = IndexOf(longer, Len(entries) + 1)
  BY <1>2, IndexAgree DEF CountOf
<1>4. /\ Len(entries) + 1 < Len(longer) + 1 =>
             IndexOf(longer, Len(entries) + 1) < IndexOf(longer, Len(longer) + 1)
      /\ IndexOf(longer, Len(entries) + 1) \in Nat /\ IndexOf(longer, Len(longer) + 1) \in Nat
  BY <1>2, IndexFacts
<1>5. /\ CountOf(entries) <= CountOf(longer)
      /\ CountOf(entries) < CountOf(longer) <=> Len(entries) < Len(longer)
  <2>1. CASE Len(entries) < Len(longer)
    <3>1. Len(entries) + 1 < Len(longer) + 1
      BY <1>1, <2>1
    <3> QED  BY <1>3, <1>4, <2>1, <3>1 DEF CountOf
  <2>2. CASE Len(entries) = Len(longer)
    BY <1>1, <1>3, <1>4, <2>2 DEF CountOf
  <2> QED  BY <1>1, <2>1, <2>2
<1>6. ASSUME Len(entries) = Len(longer)
      PROVE  StartsWith(entries, longer) /\ PoolBytes(entries) = PoolBytes(longer)
  <2>1. StartsWith(entries, longer)
    BY <1>1, <1>6 DEF StartsWith
  <2>2. SumTo(BytesOf(longer), (Len(entries) + 1) - 1) = SumTo(BytesOf(entries), (Len(entries) + 1) - 1)
    BY <1>2, IndexAgree
  <2>3. (Len(entries) + 1) - 1 = Len(entries)
    BY <1>1
  <2> QED  BY <1>6, <2>1, <2>2, <2>3 DEF PoolBytes
<1> QED  BY <1>5, <1>6

\* What is allocated for the texts of a table is freed with its count.
LEMMA TextsFreed ==
    ASSUME NEW table, NEW count \in Nat, DOMAIN table \subseteq 1 .. count - 1
    PROVE  Texts(table) \subseteq Freed(count) /\ CallersObject \notin Texts(table)
<1>1. \A at \in DOMAIN table : at \in 0 .. count - 1
  OBVIOUS
<1>2. Texts(table) \subseteq Freed(count)
  BY <1>1 DEF Texts, Freed
<1>3. CallersObject \notin Texts(table)
  BY DEF Texts, CallersObject, Object
<1> QED  BY <1>2, <1>3

\* Filling in an entry keeps it.
LEMMA EntryReadInv ==
    ASSUME IInv, phase = "cpool", i < cpool_count_plus_one,
           NEW e, e = call.pool[Len(output) + 1],
           cpool' = Filled(cpool, i, e), output' = Append(output, e),
           heap' = heap \cup Texts(cpool'), i' = i + Slots(e.tag), Copied(EntryBytes(e.tag)),
           phase' = phase \/ (i >= cpool_max_elements /\ phase' = "crashed"),
           UNCHANGED <<call, cpool_count_plus_one, tracker_index, header_count, results>>
    PROVE  IInv'
<1>1. /\ phase = "cpool" /\ call \in Calls /\ i < cpool_count_plus_one /\ ~ call.empty
      /\ Mirrors(cpool, output, i) /\ StartsWith(call.pool, output)
      /\ cpool_count_plus_one = CountOf(call.pool) /\ header_count = CountOf(call.pool)
      /\ input_position = 10 + PoolBytes(output) /\ (Java => output_position = input_position)
      /\ injected = {} /\ result = "none" /\ called_back = {}
  BY DEF IInv, CallInv, ReadInv, ResultInv
<1>2. e = call.pool[Len(output) + 1]
  OBVIOUS
<1>3. /\ cpool' = Filled(cpool, i, e) /\ output' = Append(output, e)
      /\ heap' = heap \cup Texts(cpool') /\ i' = i + Slots(e.tag) /\ Copied(EntryBytes(e.tag))
      /\ phase' = phase \/ (i >= cpool_max_elements /\ phase' = "crashed")
      /\ call' = call /\ cpool_count_plus_one' = cpool_count_plus_one
      /\ tracker_index' = tracker_index /\ header_count' = header_count
      /\ injected' = injected /\ result' = result /\ called_back' = called_back
  BY DEF results
<1>4. /\ call.pool \in Seq(Entries) /\ Len(call.pool) \in Nat
      /\ CountOf(call.pool) \in Nat \ {0} /\ CountOf(call.pool) < U2Mod
      /\ output \in Seq(Entries) /\ i = CountOf(output) /\ Len(output) \in Nat
  BY <1>1, CallFacts, EntryFacts DEF Mirrors
<1>5. Len(output) < Len(call.pool)
  BY <1>1, <1>4, PrefixCounts
<1>6. e \in Entries /\ e.tag \in Tags
  <2>1. Len(output) + 1 \in 1 .. Len(call.pool)
    BY <1>4, <1>5
  <2> QED  BY <1>2, <1>4, <2>1, EntryFacts
<1>7. /\ Mirrors(cpool', output', i') /\ i \in Nat \ {0}
  BY <1>1, <1>3, <1>6, MirrorAdded
<1>8. /\ output' \in Seq(Entries) /\ StartsWith(call.pool, output') /\ i' = CountOf(output')
      /\ PoolBytes(output') = PoolBytes(output) + EntryBytes(e.tag)
  <2>1. /\ output' \in Seq(Entries) /\ StartsWith(output', output) /\ Len(output') = Len(output) + 1
        /\ output'[Len(output) + 1] = e /\ PoolBytes(output') = PoolBytes(output) + EntryBytes(e.tag)
    BY <1>3, <1>4, <1>6, EntryAppended
  <2>2. \A n \in 1 .. Len(output') : n \in 1 .. Len(output) \/ n = Len(output) + 1
    BY <1>4, <2>1
  <2>3. StartsWith(call.pool, output')
    BY <1>1, <1>2, <1>4, <1>5, <2>1, <2>2 DEF StartsWith
  <2> QED  BY <1>7, <2>1, <2>3 DEF Mirrors
<1>9. i' <= CountOf(call.pool) /\ i' \in Nat \ {0} /\ DOMAIN cpool' \subseteq 1 .. i' - 1
  <2>1. i' <= CountOf(call.pool)
    BY <1>4, <1>8, PrefixCounts
  <2>2. Slots(e.tag) \in 1 .. 2
    BY <1>6, SlotsAndBytes
  <2>3. i \in Nat \ {0} /\ i' = i + Slots(e.tag)
    BY <1>3 DEF IInv, TypeOK
  <2>4. DOMAIN cpool' \subseteq 1 .. i' - 1
    BY <1>7 DEF Mirrors
  <2> QED  BY <2>1, <2>2, <2>3, <2>4
<1>10. /\ input_position' = 10 + PoolBytes(output') /\ output_position' \in Nat
       /\ Java => output_position' = input_position'
       /\ input_position' \in Nat
  <2>1. EntryBytes(e.tag) \in Nat /\ PoolBytes(output) \in Nat /\ output_position \in Nat
    BY <1>4, <1>6, SlotsAndBytes, IndexFacts DEF IInv, TypeOK
  <2>2. PICK bytes \in Nat : bytes = EntryBytes(e.tag)
    BY <2>1
  <2>3. /\ input_position' = input_position + bytes
        /\ output_position' = output_position + (IF Java THEN bytes ELSE 0)
    BY <1>3, <2>2 DEF Copied, writes, Java
  <2>4. input_position = 10 + PoolBytes(output) /\ (Java => output_position = input_position)
    BY <1>1
  <2>5. PoolBytes(output') = PoolBytes(output) + bytes
    BY <1>8, <2>2
  <2>6. input_position \in Nat /\ input_position' \in Nat /\ output_position' \in Nat
    BY <2>1, <2>2, <2>3, <2>4
  <2>7. Java => output_position' = input_position'
    BY <2>3, <2>4
  <2>8. input_position' = 10 + PoolBytes(output')
    BY <2>1, <2>2, <2>3, <2>4, <2>5
  <2> QED  BY <2>6, <2>7, <2>8
<1>11. TypeOK'
  <2>1. phase' \in {"cpool", "crashed"} /\ i' \in Nat \ {0}
    BY <1>1, <1>3, <1>9
  <2>2. \A at \in DOMAIN cpool' : 0 < at /\ at < cpool_count_plus_one'
    BY <1>1, <1>3, <1>4, <1>9
  <2>3. tracker_index' \in [Kinds -> Nat] /\ cpool_count_plus_one' \in 0 .. U2Mod - 1
        /\ header_count' \in Nat /\ injected' \subseteq DOMAIN call.methods'
    BY <1>1, <1>3 DEF IInv, TypeOK
  <2>4. \A at \in DOMAIN cpool' : at < cpool_max_elements \/ PoolFull
    <3> SUFFICES ASSUME NEW at \in DOMAIN cpool', ~ PoolFull PROVE at < cpool_max_elements
      OBVIOUS
    <3>1. CountOf(call.pool) + 19 < cpool_max_elements /\ cpool_max_elements \in Nat
      BY <1>1, TableSize
    <3>2. at \in Int /\ at < CountOf(call.pool)
      BY <1>4, <1>9
    <3> QED  BY <1>4, <3>1, <3>2
  <2>5. cpool_max_elements' = cpool_max_elements /\ (PoolFull' <=> PoolFull)
    BY <1>3, SizesStay
  <2> QED  BY <1>10, <2>1, <2>2, <2>3, <2>4, <2>5 DEF TypeOK, Ended
<1>12. HeapInv'
  <2>1. /\ heap \subseteq Freed(cpool_count_plus_one) \cup {CallersObject}
        /\ Java => CallersObject \in heap
        /\ ~ Java => CallersObject \notin heap
    BY <1>1 DEF IInv, HeapInv
  <2>2. (Java' <=> Java) /\ CallersObject' = CallersObject
    BY <1>3 DEF Java, CallersObject
  <2>3. DOMAIN cpool' \subseteq 1 .. cpool_count_plus_one - 1 /\ cpool_count_plus_one \in Nat
    BY <1>1, <1>4, <1>9
  <2>4. Texts(cpool') \subseteq Freed(cpool_count_plus_one) /\ CallersObject \notin Texts(cpool')
    BY <2>3, TextsFreed
  <2>5. phase' \in {"cpool", "crashed"}
    BY <1>1, <1>3
  <2> QED  BY <1>3, <2>1, <2>2, <2>4, <2>5 DEF HeapInv
<1>13. ReadInv'
  <2>1. Java' <=> Java
    BY <1>3 DEF Java
  <2> QED  BY <1>1, <1>3, <1>7, <1>8, <1>10, <2>1 DEF ReadInv
<1>14. CallInv' /\ PoolInv' /\ PositionsInv' /\ ResultInv' /\ NameRead'
  BY <1>1, <1>3 DEF CallInv, PoolInv, PositionsInv, ResultInv, PoolDone, NameRead
<1>15. ImageComplete' /\ NothingLeaked'
  BY <1>1, <1>3 DEF ImageComplete, NothingLeaked
<1>16. FailsOnBadInput'
  <2>1. CASE phase' = "cpool"
    BY <2>1 DEF FailsOnBadInput
  <2>2. CASE phase' = "crashed"
    <3>1. i >= cpool_max_elements
      BY <1>1, <1>3, <2>2
    <3>2. PoolFull
      <4> SUFFICES ASSUME ~ PoolFull PROVE FALSE
        OBVIOUS
      <4>1. CountOf(call.pool) + 19 < cpool_max_elements /\ cpool_max_elements \in Nat
        BY <1>1, TableSize
      <4> QED  BY <1>1, <1>4, <1>7, <3>1, <4>1
    <3>3. BadInput'
      BY <1>3, <3>2, BadInputStays DEF BadInput
    <3> QED  BY <3>3 DEF BadInput, FailsOnBadInput, Java
  <2> QED  BY <1>1, <1>3, <2>1, <2>2
<1> QED  BY <1>11, <1>12, <1>13, <1>14, <1>15, <1>16 DEF IInv

\* Reading an entry keeps it.
LEMMA ReadEntryInv ==
    ASSUME IInv, ReadEntry
    PROVE  IInv'
<1>1. PICK e : e = call.pool[Len(output) + 1]
  OBVIOUS
<1>2. phase = "cpool" /\ i < cpool_count_plus_one
  BY DEF ReadEntry
<1>3. CASE e.tag = "unknown" /\ FatalError
  <2>1. /\ call \in Calls /\ Mirrors(cpool, output, i) /\ StartsWith(call.pool, output)
        /\ cpool_count_plus_one = CountOf(call.pool)
    BY <1>2 DEF IInv, CallInv, ReadInv
  <2>2. /\ call.pool \in Seq(Entries) /\ Len(call.pool) \in Nat
        /\ output \in Seq(Entries) /\ i = CountOf(output) /\ Len(output) \in Nat
    BY <2>1, CallFacts, EntryFacts DEF Mirrors
  <2>3. Len(output) < Len(call.pool)
    BY <1>2, <2>1, <2>2, PrefixCounts
  <2>4. Len(output) + 1 \in DOMAIN call.pool
    BY <2>2, <2>3, EntryFacts
  <2>5. BadInput
    BY <1>1, <1>3, <2>4 DEF BadInput
  <2> QED  BY <1>3, <2>5, FailsInv DEF FatalError
<1>4. CASE OutOfMemory
  BY <1>4, FailsInv DEF OutOfMemory
<1>5. CASE /\ cpool' = Filled(cpool, i, e) /\ output' = Append(output, e)
           /\ heap' = heap \cup Texts(cpool') /\ i' = i + Slots(e.tag)
           /\ Copied(EntryBytes(e.tag))
           /\ phase' = phase \/ (i >= cpool_max_elements /\ phase' = "crashed")
           /\ UNCHANGED <<call, cpool_count_plus_one, tracker_index, header_count, results>>
  BY <1>1, <1>2, <1>5, EntryReadInv
<1> QED  BY <1>1, <1>3, <1>4, <1>5 DEF ReadEntry

\* A greater count frees more.
LEMMA FreedMore ==
    ASSUME NEW m \in Nat, NEW n \in Nat, m <= n
    PROVE  Freed(m) \subseteq Freed(n)
<1>1. \A at \in 0 .. m - 1 : at \in 0 .. n - 1
  OBVIOUS
<1> QED  BY <1>1 DEF Freed

\* The pool when all of the input's is read.
ReadPool == [cpool |-> cpool, count |-> cpool_count_plus_one, output |-> output, full |-> FALSE]

\* All of the input's pool is read, then.
LEMMA PoolRead ==
    ASSUME IInv, phase = "cpool", i >= cpool_count_plus_one
    PROVE  /\ PoolRight(ReadPool) /\ StartsWith(output, call.pool)
           /\ PoolBytes(output) = PoolBytes(call.pool) /\ PoolBytes(output) \in Nat
           /\ header_count = cpool_count_plus_one /\ cpool_count_plus_one = CountOf(call.pool)
           /\ cpool_count_plus_one \in Nat \ {0} /\ cpool_count_plus_one < U2Mod
<1>1. /\ call \in Calls /\ Mirrors(cpool, output, i) /\ StartsWith(call.pool, output)
      /\ cpool_count_plus_one = CountOf(call.pool) /\ header_count = CountOf(call.pool)
  BY DEF IInv, CallInv, ReadInv
<1>2. /\ call.pool \in Seq(Entries) /\ CountOf(call.pool) \in Nat \ {0} /\ CountOf(call.pool) < U2Mod
      /\ output \in Seq(Entries) /\ i = CountOf(output) /\ Len(output) \in Nat /\ Len(call.pool) \in Nat
      /\ PoolBytes(output) \in Nat
  BY <1>1, CallFacts, EntryFacts, IndexFacts DEF Mirrors
<1>3. i <= CountOf(call.pool) /\ (i < CountOf(call.pool) <=> Len(output) < Len(call.pool))
  BY <1>1, <1>2, PrefixCounts
<1>4. i \in Nat
  BY DEF IInv, TypeOK
<1>5. i = cpool_count_plus_one /\ Len(output) = Len(call.pool)
  BY <1>1, <1>2, <1>3, <1>4 DEF StartsWith
<1>6. StartsWith(output, call.pool) /\ PoolBytes(output) = PoolBytes(call.pool)
  BY <1>1, <1>2, <1>5, PrefixCounts
<1>7. PoolRight(ReadPool)
  BY <1>1, <1>2, <1>5 DEF PoolRight, ReadPool
<1> QED  BY <1>1, <1>2, <1>6, <1>7

\* Adding the trackers keeps it.
LEMMA AddTrackersInv ==
    ASSUME IInv, AddTrackers
    PROVE  IInv'
<1>1. /\ phase = "cpool" /\ i >= cpool_count_plus_one /\ call \in Calls /\ ~ call.empty
      /\ input_position = 10 + PoolBytes(output) /\ (Java => output_position = input_position)
      /\ injected = {} /\ result = "none" /\ called_back = {}
      /\ tracker_index \in [Kinds -> Nat] /\ output_position \in Nat
      /\ DOMAIN cpool \subseteq 1 .. cpool_count_plus_one - 1
  <2>1. /\ phase = "cpool" /\ i >= cpool_count_plus_one
    BY DEF AddTrackers
  <2>2. PoolRight(ReadPool)
    BY <2>1, PoolRead
  <2> QED  BY <2>1, <2>2 DEF IInv, CallInv, ReadInv, ResultInv, TypeOK, PoolRight, ReadPool, Mirrors
<1>2. /\ PoolRight(ReadPool) /\ StartsWith(output, call.pool)
      /\ PoolBytes(output) = PoolBytes(call.pool) /\ PoolBytes(output) \in Nat
      /\ header_count = cpool_count_plus_one /\ cpool_count_plus_one = CountOf(call.pool)
      /\ cpool_count_plus_one \in Nat \ {0} /\ cpool_count_plus_one < U2Mod
  BY <1>1, PoolRead
<1>3. /\ heap \subseteq Freed(cpool_count_plus_one) \cup {CallersObject}
      /\ Java => CallersObject \in heap
      /\ ~ Java => CallersObject \notin heap
  BY <1>1 DEF IInv, HeapInv
<1>4. PICK new : new = NewPool(ReadPool)
  OBVIOUS
<1>5. ~ PoolFull => Fits(new.pool, 0)
  <2> SUFFICES ASSUME ~ PoolFull PROVE Fits(new.pool, 0)
    OBVIOUS
  <2>1. Fits(ReadPool, 19)
    BY <1>1, <1>2, TableSize DEF Fits, ReadPool
  <2> QED  BY <1>4, <2>1, NewPoolFits
<1>6. CASE /\ ~ Java /\ phase' = "class" /\ i' = 1
           /\ UNCHANGED <<call, pool, positions, results, heap>>
  <2>1. /\ call' = call /\ cpool' = cpool /\ cpool_count_plus_one' = cpool_count_plus_one
        /\ tracker_index' = tracker_index /\ output' = output /\ header_count' = header_count
        /\ input_position' = input_position /\ output_position' = output_position
        /\ injected' = injected /\ result' = result /\ called_back' = called_back /\ heap' = heap
    BY <1>6 DEF pool, positions, results
  <2>2. ~ Java' /\ CallersObject' = CallersObject
    BY <1>6, <2>1 DEF Java, CallersObject
  <2>3. TypeOK'
    BY <1>6, <2>1, SizesStay DEF IInv, TypeOK
  <2>4. PoolInv'
    BY <1>2, <2>1, <2>2 DEF PoolInv, PoolRight, ReadPool
  <2>5. CallInv' /\ ReadInv' /\ PositionsInv' /\ ResultInv' /\ NameRead'
    BY <1>1, <1>2, <1>6, <2>1, <2>2 DEF CallInv, ReadInv, PositionsInv, ResultInv, NameRead
  <2>6. HeapInv'
    BY <1>3, <1>6, <2>1, <2>2 DEF HeapInv
  <2> QED  BY <1>6, <2>3, <2>4, <2>5, <2>6, GoesOn DEF IInv
<1>7. CASE Java /\ new.pool.full /\ AssertFails
  <2>1. PoolFull
    <3> SUFFICES ASSUME ~ PoolFull PROVE FALSE
      OBVIOUS
    <3> QED  BY <1>5, <1>7 DEF Fits
  <2>2. BadInput
    BY <2>1 DEF BadInput
  <2> QED  BY <1>7, <2>2, FailsInv DEF AssertFails
<1>8. CASE /\ Java /\ ~ new.pool.full /\ phase' = "class" /\ i' = 1
           /\ cpool' = new.pool.cpool /\ cpool_count_plus_one' = new.pool.count
           /\ tracker_index' = new.index /\ output' = new.pool.output
           /\ header_count' = HeaderCount(new.pool) /\ heap' = heap \cup Texts(cpool')
           /\ output_position' = output_position + (PoolBytes(new.pool.output) - PoolBytes(output))
           /\ UNCHANGED <<call, input_position, results>>
  <2>1. /\ call' = call /\ input_position' = input_position /\ injected' = injected
        /\ result' = result /\ called_back' = called_back
        /\ header_count' = cpool_count_plus_one'
    BY <1>8 DEF results, HeaderCount
  <2>2. /\ PoolRight(new.pool) /\ Grows(new.pool, ReadPool, NewBytes)
        /\ new.index \in [Kinds -> Nat]
        /\ \E class_index \in Nat :
               /\ IsClass(new.pool.cpool, class_index, "tclass")
               /\ Resolves(new, Kinds, class_index)
    <3>1. call.trackers \subseteq Kinds
      BY <1>1, CallFacts
    <3> QED  BY <1>1, <1>2, <1>4, <1>8, <3>1, NewPoolRight
  <2>3. /\ Mirrors(cpool', output', cpool_count_plus_one') /\ cpool_count_plus_one' < U2Mod
        /\ output' \in Seq(Entries) /\ DOMAIN cpool' \subseteq 1 .. cpool_count_plus_one' - 1
        /\ cpool_count_plus_one' = CountOf(output')
    BY <1>8, <2>2 DEF PoolRight, Mirrors
  <2>4. /\ output \in Seq(Entries) /\ cpool_count_plus_one = CountOf(output)
        /\ StartsWith(output', output) /\ PoolBytes(output') <= PoolBytes(output) + NewBytes
    BY <1>2, <1>8, <2>2 DEF PoolRight, ReadPool, Mirrors, Grows
  <2>5. /\ cpool_count_plus_one <= cpool_count_plus_one' /\ cpool_count_plus_one' \in Nat
        /\ PoolBytes(output') \in Nat
    <3>1. cpool_count_plus_one <= cpool_count_plus_one'
      BY <2>3, <2>4, PrefixCounts
    <3>2. Len(output') \in Nat /\ PoolBytes(output') \in Nat
      BY <2>3, EntryFacts, IndexFacts
    <3>3. Len(output') + 1 \in 1 .. Len(output') + 1
      BY <3>2
    <3> QED  BY <2>3, <3>1, <3>2, <3>3, IndexFacts DEF CountOf
  <2>6. StartsWith(output', call.pool)
    <3>1. Len(output') \in Nat /\ Len(output) \in Nat /\ Len(call.pool) \in Nat
      BY <1>1, <2>3, <2>4, EntryFacts, CallFacts
    <3>2. \A n \in 1 .. Len(call.pool) : n \in 1 .. Len(output)
      BY <1>2, <3>1 DEF StartsWith
    <3> QED  BY <1>2, <2>4, <3>1, <3>2 DEF StartsWith
  <2>7. HasTrackers(cpool, tracker_index)'
    <3>1. PICK class_index \in Nat :
              /\ IsClass(cpool', class_index, "tclass")
              /\ \A kind \in Kinds \cap call.trackers :
                     IsMethod(cpool', tracker_index'[kind], class_index, kind, Signature(kind))
      BY <1>8, <2>2 DEF Resolves
    <3>2. \A kind \in call'.trackers : kind \in Kinds \cap call.trackers
      BY <1>1, <2>1, CallFacts
    <3>3. class_index \in DOMAIN cpool'
      BY <3>1 DEF IsClass
    <3>4. \A kind : Signature(kind)' = Signature(kind)
      BY <2>1, SizesStay
    <3> QED  BY <3>1, <3>2, <3>3, <3>4 DEF HasTrackers
  <2>8. PoolInv'
    BY <2>1, <2>3, <2>6, <2>7 DEF PoolInv
  <2>9. /\ output_position' = 10 + PoolBytes(output')
        /\ input_position' = 10 + PoolBytes(call'.pool) /\ input_position' \in Nat
        /\ output_position' <= input_position' + NewBytes
        /\ output_position' \in Nat
    <3>1. PICK a \in Nat : a = PoolBytes(output)
      BY <1>2
    <3>2. PICK b \in Nat : b = PoolBytes(output')
      BY <2>5
    <3>3. output_position = 10 + a /\ output_position' = output_position + (b - a)
      BY <1>1, <1>8, <3>1, <3>2
    <3>4. output_position' = 10 + b /\ NewBytes \in Nat
      BY <3>3, SizesAssumption DEF NewBytes
    <3>5. b <= a + NewBytes
      BY <2>4, <3>1, <3>2
    <3>6. input_position' = 10 + a
      BY <1>1, <2>1, <3>1
    <3>7. output_position' <= input_position' + NewBytes
      BY <3>4, <3>5, <3>6
    <3> QED  BY <1>2, <2>1, <3>1, <3>2, <3>4, <3>6, <3>7
  <2>10. TypeOK'
    <3>1. \A at \in DOMAIN cpool' : 0 < at /\ at < cpool_count_plus_one'
      BY <2>3, <2>5
    <3>2. cpool_count_plus_one' \in 0 .. U2Mod - 1
      BY <2>3, <2>5, SizesAssumption
    <3>3. \A at \in DOMAIN cpool' : at < cpool_max_elements \/ PoolFull
      <4> SUFFICES ASSUME NEW at \in DOMAIN cpool', ~ PoolFull PROVE at < cpool_max_elements
        OBVIOUS
      <4>1. PICK max \in Nat, count \in Nat :
                max = cpool_max_elements /\ count = cpool_count_plus_one'
        BY <1>5, <2>5 DEF Fits
      <4>2. count + 0 < max
        BY <1>5, <1>8, <4>1 DEF Fits
      <4>3. at \in Int /\ at < count
        BY <2>3, <4>1
      <4>4. at < max
        BY <4>2, <4>3
      <4> QED  BY <4>1, <4>4
    <3>4. cpool_max_elements' = cpool_max_elements /\ (PoolFull' <=> PoolFull)
      BY <2>1, SizesStay
    <3> QED  BY <1>1, <1>8, <2>1, <2>2, <2>5, <2>9, <3>1, <3>2, <3>3, <3>4 DEF TypeOK
  <2>11. HeapInv'
    <3>1. Freed(cpool_count_plus_one) \subseteq Freed(cpool_count_plus_one')
      BY <1>2, <2>5, FreedMore
    <3>2. Texts(cpool') \subseteq Freed(cpool_count_plus_one')
      BY <2>3, <2>5, TextsFreed
    <3>3. Java' /\ CallersObject' = CallersObject
      BY <1>8, <2>1 DEF Java, CallersObject
    <3> QED  BY <1>3, <1>8, <3>1, <3>2, <3>3 DEF HeapInv
  <2>12. CallInv' /\ ReadInv' /\ PositionsInv' /\ ResultInv' /\ NameRead'
    BY <1>1, <1>8, <2>1, <2>9 DEF CallInv, ReadInv, PositionsInv, ResultInv, NameRead
  <2> QED  BY <1>8, <2>8, <2>10, <2>11, <2>12, GoesOn DEF IInv
<1>9. new = NewPool([cpool |-> cpool, count |-> cpool_count_plus_one, output |-> output,
                    full |-> FALSE])
  BY <1>4 DEF ReadPool
<1>10. CASE OutOfMemory
  BY <1>10, FailsInv DEF OutOfMemory
<1> QED  BY <1>6, <1>7, <1>8, <1>9, <1>10 DEF AddTrackers, Java

\* What stands under the index of the class's name is its name.
LEMMA NameFound ==
    ASSUME IInv, PoolDone
    PROVE  NameOf(this_class) = call.name
<1>1. /\ call \in Calls /\ Mirrors(cpool, output, cpool_count_plus_one) /\ StartsWith(output, call.pool)
  BY DEF IInv, CallInv, PoolInv
<1>2. PICK class : class = call.this_class
  OBVIOUS
<1>3. call.pool \in Seq(Entries) /\ output \in Seq(Entries)
  BY <1>1, CallFacts DEF Mirrors
<1>4. PICK n \in 1 .. Len(call.pool) :
          call.pool[n].text = call.name /\ call.pool[class].index1 = IndexOf(call.pool, n)
  <2> DEFINE spelled(c) ==
        \E n \in DOMAIN c.pool :
            c.pool[n].text = c.name /\ c.pool[c.this_class].index1 = IndexOf(c.pool, n)
  <2>1. \A c \in Calls : spelled(c)
    BY CallsAssumption
  <2>2. spelled(call)
    BY <1>1, <2>1
  <2>3. DOMAIN call.pool = 1 .. Len(call.pool)
    BY <1>3, EntryFacts
  <2> QED  BY <1>2, <2>2, <2>3
<1>5. class \in 1 .. Len(call.pool)
  <2> DEFINE named(c) == c.this_class \in DOMAIN c.pool
  <2>1. \A c \in Calls : named(c)
    BY CallsAssumption
  <2>2. named(call)
    BY <1>1, <2>1
  <2> QED  BY <1>2, <1>3, <2>2, EntryFacts
<1>6. ASSUME NEW k \in 1 .. Len(call.pool)
      PROVE  cpool[IndexOf(call.pool, k)] = call.pool[k]
  <2>1. k \in 1 .. Len(output) /\ output[k] = call.pool[k] /\ k \in 1 .. Len(call.pool) + 1
    <3>1. Len(output) \in Nat /\ Len(call.pool) \in Nat
      BY <1>3, EntryFacts
    <3> QED  BY <1>1, <3>1 DEF StartsWith
  <2>2. IndexOf(output, k) = IndexOf(call.pool, k)
    BY <1>1, <1>3, <2>1, IndexAgree
  <2> QED  BY <1>1, <2>1, <2>2 DEF Mirrors
<1>7. this_class = IndexOf(call.pool, class)
  BY <1>2 DEF this_class
<1> QED  BY <1>4, <1>5, <1>6, <1>7 DEF NameOf

\* Reading the name of the class keeps it.
LEMMA ReadClassNameInv ==
    ASSUME IInv, ReadClassName
    PROVE  IInv'
<1>0. CASE OutOfMemory
  BY <1>0, FailsInv DEF OutOfMemory
<1> SUFFICES ASSUME ~ OutOfMemory PROVE IInv'
  BY <1>0
<1>1. /\ phase = "class" /\ ~ Java /\ phase' = "cleanup" /\ result' = NameOf(this_class)
      /\ heap' = heap \cup {Object("result", 0)} /\ Copied(4) /\ call' = call /\ i' = i
      /\ cpool' = cpool /\ cpool_count_plus_one' = cpool_count_plus_one
      /\ tracker_index' = tracker_index /\ output' = output /\ header_count' = header_count
      /\ injected' = injected /\ called_back' = called_back
  BY DEF ReadClassName, Java, pool
<1>2. /\ call \in Calls /\ ~ call.empty /\ called_back = {} /\ result = "none"
      /\ input_position \in Nat /\ output_position \in Nat
  BY <1>1 DEF IInv, CallInv, ResultInv, TypeOK
<1>3. result' = call.name /\ call.name \notin {"none", "image"}
  BY <1>1, <1>2, NameFound, CallFacts DEF PoolDone
<1>4. ~ Java' /\ CallersObject' = Object("result", 0) /\ CallersObject = Object("result", 0)
  BY <1>1 DEF Java, CallersObject
<1>5. input_position' \in Nat /\ output_position' \in Nat
  BY <1>1, <1>2 DEF Copied, writes
<1>6. TypeOK'
  BY <1>1, <1>5, SizesStay DEF IInv, TypeOK
<1>7. PoolInv'
  BY <1>1, <1>4 DEF IInv, PoolInv, PoolDone
<1>8. CallInv' /\ ReadInv' /\ PositionsInv' /\ ResultInv' /\ NameRead'
  BY <1>1, <1>2, <1>3, <1>4 DEF CallInv, ReadInv, PositionsInv, ResultInv, NameRead
<1>9. HeapInv'
  <2>1. heap \subseteq Freed(cpool_count_plus_one) \cup {CallersObject}
    BY <1>1 DEF IInv, HeapInv
  <2> QED  BY <1>1, <1>4, <2>1 DEF HeapInv
<1> QED  BY <1>1, <1>6, <1>7, <1>8, <1>9, GoesOn DEF IInv

\* The pool stays as it is.
LEMMA PoolStays ==
    ASSUME IInv, PoolDone, UNCHANGED <<call, pool>>
    PROVE  PoolInv'
<1>1. /\ call' = call /\ cpool' = cpool /\ cpool_count_plus_one' = cpool_count_plus_one
      /\ tracker_index' = tracker_index /\ output' = output /\ header_count' = header_count
  BY DEF pool
<1>2. HasTrackers(cpool, tracker_index)' <=> HasTrackers(cpool, tracker_index)
  BY <1>1, SizesStay DEF HasTrackers
<1> QED  BY <1>1, <1>2 DEF IInv, PoolInv, Java

\* Reading the head of the class keeps it.
LEMMA ReadClassInv ==
    ASSUME IInv, ReadClass
    PROVE  IInv'
<1>1. /\ phase = "class" /\ Java /\ call \in Calls /\ ~ call.empty /\ called_back = {}
      /\ result = "none" /\ injected = {} /\ input_position \in Nat /\ output_position \in Nat
      /\ i = 1 /\ input_position = 10 + PoolBytes(call.pool)
      /\ output_position <= input_position + NewBytes
  BY DEF ReadClass, Java, IInv, CallInv, ResultInv, TypeOK, PositionsInv
<1>2. NameOf(this_class) = call.name
  BY <1>1, NameFound DEF PoolDone
<1>3. CASE OutOfMemory
  BY <1>3, FailsInv DEF OutOfMemory
<1>4. CASE ~ NameAgrees /\ AssertFails
  <2>1. BadClass
    BY <1>2, <1>4 DEF NameAgrees, BadClass, is_object_class
  <2>2. BadInput
    BY <1>1, <2>1 DEF BadInput
  <2> QED  BY <1>4, <2>2, FailsInv DEF AssertFails
<1> SUFFICES ASSUME ~ OutOfMemory, ~ (~ NameAgrees /\ AssertFails) PROVE IInv'
  BY <1>3, <1>4
<1>5. /\ call' = call /\ i' = i /\ UNCHANGED <<call, pool>> /\ tracker_index' = tracker_index
      /\ cpool' = cpool /\ cpool_count_plus_one' = cpool_count_plus_one
      /\ header_count' = header_count
      /\ injected' = injected /\ result' = result /\ called_back' = called_back
      /\ IF call.interface
           THEN phase' = "cleanup" /\ Copied(2) /\ heap' = heap
           ELSE /\ phase' = "methods" /\ Copied(8 + call.fields + 2)
                /\ heap' = heap
                      \cup (IF call.given = "none" THEN {Object("name", 0)} ELSE {})
                      \cup (IF call.methods = << >> THEN {}
                            ELSE {Object("method_name", 0), Object("method_descr", 0)})
  BY DEF ReadClass, pool, results
<1>6. PoolInv'
  BY <1>1, <1>5, PoolStays DEF PoolDone
<1>7. Java' /\ CallersObject' = CallersObject
  BY <1>1, <1>5 DEF Java, CallersObject
<1>8. /\ call.fields \in Nat /\ PoolBytes(call.pool) \in Nat /\ Len(call.methods) \in Nat
      /\ MethodsTo(call.methods, 0) = 0 /\ NewBytes \in Nat
  BY <1>1, CallFacts, MethodsEnd, SizesAssumption DEF NewBytes
<1>9. /\ input_position' \in Nat /\ output_position' \in Nat
      /\ ~ call.interface => /\ input_position' = Front + MethodsTo(call.methods, 1 - 1)
                             /\ output_position' <= 2 * input_position' + NewBytes
  <2>1. PICK n \in Nat : n = IF call.interface THEN 2 ELSE (8 + call.fields) + 2
    BY <1>8
  <2>2. input_position' = input_position + n /\ output_position' = output_position + n
    BY <1>1, <1>5, <2>1 DEF Copied, writes, Java
  <2>3. PICK bytes \in Nat, fields \in Nat, new \in Nat :
            bytes = PoolBytes(call.pool) /\ fields = call.fields /\ new = NewBytes
    BY <1>8
  <2>4. Front = (((10 + bytes) + 8) + fields) + 2 /\ MethodsTo(call.methods, 1 - 1) = 0
    BY <1>8, <2>3 DEF Front
  <2>5. PICK a \in Nat, b \in Nat : a = input_position /\ b = output_position
    BY <1>1
  <2>6. /\ input_position' = a + n /\ output_position' = b + n /\ a = 10 + bytes /\ b <= a + new
        /\ ~ call.interface => n = (8 + fields) + 2
    BY <1>1, <2>1, <2>2, <2>3, <2>5
  <2>7. b + n <= 2 * (a + n) + new
    BY <2>6
  <2>8. ~ call.interface => a + n = Front + MethodsTo(call.methods, 1 - 1)
    BY <2>4, <2>6
  <2> QED  BY <2>3, <2>6, <2>7, <2>8
<1>10. TypeOK'
  BY <1>5, <1>9, SizesStay DEF IInv, TypeOK
<1>11. HeapInv'
  <2>1. heap \subseteq Freed(cpool_count_plus_one) \cup {CallersObject} /\ CallersObject \in heap
    BY <1>1 DEF IInv, HeapInv
  <2>2. {Object("name", 0), Object("method_name", 0), Object("method_descr", 0)}
            \subseteq Freed(cpool_count_plus_one)
    BY DEF Freed
  <2> QED  BY <1>5, <1>7, <2>1, <2>2 DEF HeapInv
<1>12. PositionsInv'
  <2>1. call.interface => phase' = "cleanup"
    BY <1>5
  <2>2. phase' # "class" /\ result' # "image"
    BY <1>1, <1>5
  <2>3. i' \in 1 .. Len(call'.methods) + 1
    BY <1>1, <1>5, <1>8
  <2>4. Front' = Front
    BY <1>5 DEF Front
  <2> QED  BY <1>1, <1>5, <1>9, <2>1, <2>2, <2>3, <2>4 DEF PositionsInv
<1>13. CallInv' /\ ReadInv' /\ ResultInv' /\ NameRead'
  BY <1>1, <1>5, <1>7 DEF CallInv, ReadInv, ResultInv, NameRead
<1> QED  BY <1>5, <1>6, <1>10, <1>11, <1>12, <1>13, GoesOn DEF IInv

\* Writing a method with what is injected keeps it, if the method is no more than
\* doubled or that is a cause of failure.
LEMMA WrittenInv ==
    ASSUME IInv, phase = "methods", i \in 1 .. Len(call.methods),
           NEW m, m = call.methods[i], NEW growth \in Int, MethodWritten(m, growth),
           MethodBytes(m) + growth >= 0, Doubled(i) \/ growth <= MethodBytes(m),
           injected' \in {injected, injected \cup {i}},
           heap' \subseteq heap, CallersObject \in heap => CallersObject \in heap'
    PROVE  IInv'
<1>1. /\ Java /\ call \in Calls /\ ~ call.empty /\ ~ call.interface /\ called_back = {}
      /\ result = "none" /\ input_position \in Nat /\ output_position \in Nat
      /\ input_position = Front + MethodsTo(call.methods, i - 1)
      /\ \/ \E k \in DOMAIN call.methods : Doubled(k)
         \/ output_position <= 2 * input_position + NewBytes
  BY DEF IInv, CallInv, ResultInv, TypeOK, PositionsInv
<1>2. /\ Len(call.methods) \in Nat /\ DOMAIN call.methods = 1 .. Len(call.methods) /\ Front \in Nat
      /\ NewBytes \in Nat
  BY <1>1, CallFacts, SizesAssumption DEF NewBytes
<1>3. /\ m \in MethodInfos /\ MethodBytes(m) \in Nat /\ MethodsTo(call.methods, i - 1) \in Nat
      /\ MethodsTo(call.methods, i) = MethodsTo(call.methods, i - 1) + MethodBytes(m)
  BY <1>1, MethodFacts
<1>4. /\ i' = i + 1 /\ call' = call /\ phase' = phase /\ UNCHANGED <<call, pool>>
      /\ result' = result /\ called_back' = called_back
      /\ tracker_index' = tracker_index /\ cpool' = cpool /\ header_count' = header_count
      /\ cpool_count_plus_one' = cpool_count_plus_one
  BY DEF MethodWritten, pool
<1>5. input_position' = input_position + MethodBytes(m)
  <2>1. m.code_len \in Nat /\ m.tables \in Nat
    BY <1>3 DEF MethodInfos
  <2>2. SkippedRest(m) = ((8 + m.code_len) + m.tables) - ((2 + 2) + 4)
    BY DEF SkippedRest, attr_len
  <2>3. m.code_len > 0 => MethodBytes(m) = 8 + ((14 + m.code_len) + m.tables)
    BY <2>1 DEF MethodBytes, CodeHead
  <2>4. m.code_len > 0 => (8 + CodeHead) + SkippedRest(m) = MethodBytes(m)
    <3>1. PICK code \in Nat, tables \in Nat : code = m.code_len /\ tables = m.tables
      BY <2>1
    <3>2. (8 + 14) + (((8 + code) + tables) - ((2 + 2) + 4)) = 8 + ((14 + code) + tables)
      OBVIOUS
    <3> QED  BY <2>2, <2>3, <3>1, <3>2 DEF CodeHead
  <2> QED  BY <2>4 DEF MethodWritten
<1>6. output_position' = (output_position + MethodBytes(m)) + growth
  <2>1. output_position' = (output_position + (input_position' - input_position)) + growth
    BY DEF MethodWritten
  <2> QED  BY <1>1, <1>3, <1>5, <2>1
<1>7. input_position' \in Nat /\ output_position' \in Nat
  <2>1. PICK a \in Nat, b \in Nat, n \in Nat :
            a = input_position /\ b = output_position /\ n = MethodBytes(m)
    BY <1>1, <1>3
  <2>2. n + growth >= 0 /\ input_position' = a + n /\ output_position' = (b + n) + growth
    BY <1>5, <1>6, <2>1
  <2>3. a + n \in Nat /\ (b + n) + growth \in Nat
    BY <2>2
  <2> QED  BY <2>2, <2>3
<1>8. TypeOK'
  <2>1. injected' \subseteq DOMAIN call'.methods /\ i' \in Nat \ {0}
    BY <1>2, <1>4 DEF IInv, TypeOK
  <2> QED  BY <1>4, <1>7, <2>1, SizesStay DEF IInv, TypeOK
<1>9. PoolInv'
  BY <1>4, PoolStays DEF PoolDone
<1>10. Java' /\ CallersObject' = CallersObject
  BY <1>1, <1>4 DEF Java, CallersObject
<1>11. HeapInv'
  <2>1. heap \subseteq Freed(cpool_count_plus_one) \cup {CallersObject} /\ CallersObject \in heap
    BY <1>1 DEF IInv, HeapInv
  <2> QED  BY <1>4, <1>10, <2>1 DEF HeapInv
<1>12. PositionsInv'
  <2>1. i' \in 1 .. Len(call'.methods) + 1 /\ i' - 1 = i
    BY <1>2, <1>4
  <2>2. Front' = Front
    BY <1>4 DEF Front
  <2>3. input_position' = Front + MethodsTo(call.methods, i)
    BY <1>1, <1>2, <1>3, <1>5
  <2>4. CASE \E k \in DOMAIN call.methods : Doubled(k)
    <3>1. \E k \in DOMAIN call'.methods : Doubled(k)'
      BY <1>4, <2>4, GrowthStays
    <3> QED  BY <1>1, <1>4, <2>1, <2>2, <2>3, <3>1 DEF PositionsInv
  <2>5. CASE ~ \E k \in DOMAIN call.methods : Doubled(k)
    <3>1. growth <= MethodBytes(m)
      BY <1>2, <2>5
    <3>2. output_position <= 2 * input_position + NewBytes
      BY <1>1, <2>5
    <3>3. PICK a \in Nat, b \in Nat, n \in Nat, new \in Nat :
              a = input_position /\ b = output_position /\ n = MethodBytes(m) /\ new = NewBytes
      BY <1>1, <1>2, <1>3
    <3>4. output_position' <= 2 * input_position' + NewBytes
      <4>1. b <= 2 * a + new /\ growth <= n
        BY <3>1, <3>2, <3>3
      <4>2. (b + n) + growth <= 2 * (a + n) + new
        BY <4>1
      <4> QED  BY <1>5, <1>6, <3>3, <4>2
    <3> QED  BY <1>1, <1>4, <2>1, <2>2, <2>3, <3>4 DEF PositionsInv
  <2> QED  BY <2>4, <2>5
<1>13. CallInv' /\ ReadInv' /\ ResultInv' /\ NameRead'
  BY <1>1, <1>4, <1>10 DEF CallInv, ReadInv, ResultInv, NameRead
<1> QED  BY <1>4, <1>8, <1>9, <1>11, <1>12, <1>13, GoesOn DEF IInv

\* While no method is more than doubled, the output has room for the next one.
LEMMA MethodHasRoom ==
    ASSUME IInv, phase = "methods", i \in 1 .. Len(call.methods),
           NEW m, m = call.methods[i], m.code_len > 0, ~ Skipped(m),
           ~ \E k \in DOMAIN call.methods : Doubled(k)
    PROVE  ~ Overflows(MethodBytes(m) + Growth(m, i - 1))
<1>1. /\ call \in Calls /\ tracker_index \in [Kinds -> Nat]
      /\ input_position \in Nat /\ output_position \in Nat
      /\ input_position = Front + MethodsTo(call.methods, i - 1)
      /\ output_position <= 2 * input_position + NewBytes
  BY DEF IInv, CallInv, TypeOK, PositionsInv
<1>2. Growth(m, i - 1) <= MethodBytes(m)
  <2>1. Growth(m, i - 1) \in Int /\ MethodBytes(m) \in Nat /\ i \in DOMAIN call.methods
    BY <1>1, GrowthFacts, MethodFacts, CallFacts
  <2>2. ~ (Growth(m, i - 1) > MethodBytes(m))
    BY <2>1 DEF Doubled
  <2> QED  BY <2>1, <2>2
<1>3. PICK growth \in Int : growth = Growth(m, i - 1)
  BY <1>1, GrowthFacts
<1>4. /\ MethodBytes(m) \in Nat
      /\ MethodsTo(call.methods, i - 1) \in Nat
      /\ MethodsTo(call.methods, i) = MethodsTo(call.methods, i - 1) + MethodBytes(m)
      /\ MethodsTo(call.methods, i) <= MethodsTo(call.methods, Len(call.methods))
      /\ MethodsTo(call.methods, Len(call.methods)) \in Nat
  BY <1>1, MethodFacts
<1>5. /\ file_len = (Front + MethodsTo(call.methods, Len(call.methods))) + 2
      /\ Front \in Nat /\ NewBytes \in Nat /\ NewBytes <= Slack /\ Slack \in Nat
  BY <1>1, MethodsEnd, CallFacts, SizesAssumption DEF NewBytes
<1>6. PICK a \in Nat, b \in Nat, n \in Nat, new \in Nat, slack \in Nat, len \in Nat :
          /\ a = input_position /\ b = output_position /\ n = MethodBytes(m) /\ new = NewBytes
          /\ slack = Slack /\ len = file_len
  BY <1>1, <1>4, <1>5, MethodsEnd
<1>7. a + n <= len
  <2>1. PICK front \in Nat, x \in Nat, y \in Nat :
            /\ front = Front /\ x = MethodsTo(call.methods, i - 1)
            /\ y = MethodsTo(call.methods, Len(call.methods))
    BY <1>4, <1>5
  <2>2. a = front + x /\ x + n <= y /\ len = (front + y) + 2
    BY <1>1, <1>4, <1>5, <1>6, <2>1
  <2> QED  BY <2>2
<1>8. growth <= n /\ b <= 2 * a + new /\ new <= slack
  BY <1>1, <1>2, <1>3, <1>5, <1>6
<1>9. b + (n + growth) <= len * 2 + slack
  BY <1>7, <1>8
<1>10. max_length = len * 2 + slack
  BY <1>6 DEF max_length
<1>11. ~ (b + (n + growth) > max_length)
  BY <1>9, <1>10
<1> QED  BY <1>3, <1>6, <1>11 DEF Overflows

\* method_term frees all that method_init and inject_bytecodes allocated.
LEMMA MethodTermFrees ==
    ASSUME NEW k
    PROVE  /\ method_term(heap \cup method_init(k), k) \subseteq heap
           /\ CallersObject \in heap => CallersObject \in method_term(heap \cup method_init(k), k)
<1>1. method_init(k) \subseteq {Object(part, k) : part \in MethodParts \cup {"injected code"}}
  BY DEF method_init
<1>2. CallersObject \notin {Object(part, k) : part \in MethodParts \cup {"injected code"}}
  BY DEF CallersObject, Object, MethodParts
<1> QED  BY <1>1, <1>2 DEF method_term

\* Writing a method keeps it.
LEMMA MethodWriteInv ==
    ASSUME IInv, method_write
    PROVE  IInv'
<1>1. phase = "methods" /\ i <= Len(call.methods) /\ call \in Calls /\ tracker_index \in [Kinds -> Nat]
  BY DEF method_write, IInv, CallInv, TypeOK
<1>2. i \in 1 .. Len(call.methods) /\ Java
  BY <1>1, CallFacts DEF IInv, TypeOK, CallInv
<1>3. PICK m : m = call.methods[i]
  OBVIOUS
<1>4. /\ MethodBytes(m) \in Nat /\ Growth(m, i - 1) \in Int
      /\ MethodBytes(m) + Growth(m, i - 1) >= 0
      /\ DOMAIN call.methods = 1 .. Len(call.methods)
  BY <1>1, <1>2, <1>3, MethodFacts, GrowthFacts, CallFacts
<1>5. CASE MethodWritten(m, 0) /\ injected' = injected /\ heap' = heap
  <2>1. 0 \in Int /\ MethodBytes(m) + 0 >= 0 /\ 0 <= MethodBytes(m)
    BY <1>4
  <2> QED  BY <1>1, <1>2, <1>3, <1>5, <2>1, WrittenInv
<1>6. CASE OutOfMemory
  BY <1>6, FailsInv DEF OutOfMemory
<1>7. CASE m.malformed /\ FatalError
  <2>1. BadInput
    BY <1>2, <1>3, <1>4, <1>7 DEF BadInput, BadClass
  <2> QED  BY <1>7, <2>1, FailsInv DEF FatalError
<1>8. CASE /\ m.code_len > 0 /\ ~ Skipped(m) /\ Overflows(MethodBytes(m) + Growth(m, i - 1))
           /\ OverflowFails(TRUE)
  <2>1. \E k \in DOMAIN call.methods : Doubled(k)
    BY <1>1, <1>2, <1>3, <1>8, MethodHasRoom
  <2>2. BadInput
    BY <1>2, <2>1 DEF BadInput
  <2> QED  BY <1>8, <2>2, FailsInv DEF OverflowFails
<1>9. CASE /\ m.code_len > 0 /\ ~ Skipped(m) /\ MethodWritten(m, Growth(m, i - 1))
           /\ injected' \in {injected, injected \cup {i}}
           /\ heap' = method_term(heap \cup method_init(i), i)
  <2>1. Doubled(i) \/ Growth(m, i - 1) <= MethodBytes(m)
    <3>1. Doubled(i) \/ ~ (Growth(m, i - 1) > MethodBytes(m))
      BY <1>3, <1>9 DEF Doubled
    <3> QED  BY <1>4, <3>1
  <2>2. heap' \subseteq heap /\ (CallersObject \in heap => CallersObject \in heap')
    BY <1>9, MethodTermFrees
  <2> QED  BY <1>1, <1>2, <1>3, <1>4, <1>9, <2>1, <2>2, WrittenInv
<1>10. \/ MethodWritten(m, 0) /\ injected' = injected /\ heap' = heap
       \/ OutOfMemory
       \/ m.malformed /\ FatalError
       \/ /\ m.code_len > 0 /\ ~ Skipped(m) /\ Overflows(MethodBytes(m) + Growth(m, i - 1))
          /\ OverflowFails(TRUE)
       \/ /\ m.code_len > 0 /\ ~ Skipped(m) /\ MethodWritten(m, Growth(m, i - 1))
          /\ injected' = IF Injects(m) THEN injected \cup {i} ELSE injected
          /\ heap' = method_term(heap \cup method_init(i), i)
  BY <1>3 DEF method_write
<1> QED  BY <1>5, <1>6, <1>7, <1>8, <1>9, <1>10

\* The end of the methods keeps it.
LEMMA FinishMethodsInv ==
    ASSUME IInv, FinishMethods
    PROVE  IInv'
<1>1. /\ phase = "methods" /\ i > Len(call.methods) /\ i \in Nat
      /\ Java /\ call \in Calls /\ ~ call.empty /\ ~ call.interface /\ called_back = {}
      /\ result = "none" /\ input_position \in Nat /\ output_position \in Nat
      /\ i \in 1 .. Len(call.methods) + 1
      /\ input_position = Front + MethodsTo(call.methods, i - 1)
      /\ \/ \E k \in DOMAIN call.methods : Doubled(k)
         \/ output_position <= 2 * input_position + NewBytes
  BY DEF FinishMethods, IInv, CallInv, ResultInv, TypeOK, PositionsInv
<1>2. /\ i - 1 = Len(call.methods) /\ Len(call.methods) \in Nat /\ Front \in Nat
      /\ MethodsTo(call.methods, Len(call.methods)) \in Nat /\ file_len \in Nat
      /\ file_len = (Front + MethodsTo(call.methods, Len(call.methods))) + 2
      /\ NewBytes \in Nat /\ Slack \in Nat /\ NewBytes <= Slack
  <2>1. Len(call.methods) \in Nat /\ Front \in Nat
    BY <1>1, CallFacts
  <2>2. i - 1 = Len(call.methods)
    BY <1>1, <2>1
  <2>3. NewBytes \in Nat /\ Slack \in Nat /\ NewBytes <= Slack
    BY SizesAssumption DEF NewBytes
  <2>4. /\ MethodsTo(call.methods, Len(call.methods)) \in Nat /\ file_len \in Nat
        /\ file_len = (Front + MethodsTo(call.methods, Len(call.methods))) + 2
    BY <1>1, MethodsEnd
  <2> QED  BY <2>1, <2>2, <2>3, <2>4
<1>3. file_len = input_position + 2
  BY <1>1, <1>2
<1>4. CASE Overflows(2) /\ OverflowFails(FALSE)
  <2>1. \E k \in DOMAIN call.methods : Doubled(k)
    <3> SUFFICES ASSUME ~ \E k \in DOMAIN call.methods : Doubled(k) PROVE FALSE
      OBVIOUS
    <3>1. PICK a \in Nat, b \in Nat, new \in Nat, slack \in Nat :
              a = input_position /\ b = output_position /\ new = NewBytes /\ slack = Slack
      BY <1>1, <1>2
    <3>2. b <= 2 * a + new /\ new <= slack
      BY <1>1, <1>2, <3>1
    <3>3. max_length = (a + 2) * 2 + slack
      BY <1>3, <3>1 DEF max_length
    <3>4. ~ (b + 2 > (a + 2) * 2 + slack)
      BY <3>2
    <3> QED  BY <1>4, <3>1, <3>3, <3>4 DEF Overflows
  <2>2. BadInput
    BY <1>1, <2>1 DEF BadInput
  <2> QED  BY <1>4, <2>2, FailsInv DEF OverflowFails
<1>5. CASE /\ phase' = "cleanup"
           /\ called_back' = IF call.callback THEN {Len(call.methods)} ELSE {}
           /\ IF Unchanged
                THEN UNCHANGED <<positions, result>>
                ELSE result' = "image" /\ Copied(2)
           /\ UNCHANGED <<call, i, pool, injected, heap>>
  <2>1. /\ call' = call /\ i' = i /\ injected' = injected /\ heap' = heap
        /\ UNCHANGED <<call, pool>> /\ tracker_index' = tracker_index /\ cpool' = cpool
        /\ header_count' = header_count /\ cpool_count_plus_one' = cpool_count_plus_one
    BY <1>5 DEF pool
  <2>2. /\ result' \in {"none", "image"} /\ (result' = "image" <=> injected # {})
        /\ input_position' \in Nat /\ output_position' \in Nat
        /\ result' = "image" => input_position' = file_len
    <3>1. CASE injected = {}
      BY <1>1, <1>5, <3>1 DEF Unchanged, positions
    <3>2. CASE injected # {}
      BY <1>1, <1>3, <1>5, <3>2 DEF Unchanged, Copied, writes
    <3> QED  BY <3>1, <3>2
  <2>3. Java' /\ CallersObject' = CallersObject
    BY <1>1, <2>1 DEF Java, CallersObject
  <2>4. TypeOK'
    BY <1>5, <2>1, <2>2, SizesStay DEF IInv, TypeOK
  <2>5. PoolInv'
    BY <1>1, <2>1, PoolStays DEF PoolDone
  <2>6. PositionsInv'
    BY <1>5, <2>1, <2>2 DEF PositionsInv, file_len
  <2>7. HeapInv'
    <3>1. heap \subseteq Freed(cpool_count_plus_one) \cup {CallersObject} /\ CallersObject \in heap
      BY <1>1 DEF IInv, HeapInv
    <3> QED  BY <1>5, <2>1, <2>3, <3>1 DEF HeapInv
  <2>8. ResultInv'
    BY <1>1, <1>5, <2>1, <2>2, <2>3 DEF ResultInv
  <2>9. CallInv' /\ ReadInv' /\ NameRead'
    BY <1>1, <1>5, <2>1, <2>2, <2>3 DEF CallInv, ReadInv, NameRead
  <2> QED  BY <1>5, <2>4, <2>5, <2>6, <2>7, <2>8, <2>9, GoesOn DEF IInv
<1>6. \/ Overflows(2) /\ OverflowFails(FALSE)
      \/ /\ phase' = "cleanup"
         /\ called_back' = IF call.callback THEN {Len(call.methods)} ELSE {}
         /\ IF Unchanged
              THEN UNCHANGED <<positions, result>>
              ELSE result' = "image" /\ Copied(2)
         /\ UNCHANGED <<call, i, pool, injected, heap>>
  BY DEF FinishMethods
<1> QED  BY <1>4, <1>5, <1>6

\* Cleaning up and returning keeps it.
LEMMA ReturnInv ==
    ASSUME IInv, Return
    PROVE  IInv'
<1>0. CASE OutOfMemory
  BY <1>0, FailsInv DEF OutOfMemory
<1> SUFFICES ASSUME ~ OutOfMemory PROVE IInv'
  BY <1>0
<1>1. /\ phase = "cleanup" /\ call \in Calls /\ ~ call.empty
      /\ Java => /\ result \in {"none", "image"} /\ (result = "image" <=> injected # {})
                 /\ called_back = IF call.callback /\ ~ call.interface
                                    THEN {Len(call.methods)} ELSE {}
      /\ ~ Java => result = call.name
      /\ result = "image" => input_position = file_len
      /\ heap \subseteq Freed(cpool_count_plus_one) \cup {CallersObject} /\ CallersObject \in heap
  BY DEF Return, IInv, CallInv, ResultInv, PositionsInv, HeapInv
<1>2. /\ phase' = "returned" /\ call' = call /\ i' = i /\ cpool' = cpool
      /\ cpool_count_plus_one' = cpool_count_plus_one /\ tracker_index' = tracker_index
      /\ header_count' = header_count /\ input_position' = input_position
      /\ output_position' = output_position /\ injected' = injected /\ result' = result
      /\ called_back' = called_back
      /\ heap' = cleanup(IF result = "none" THEN heap \ {Object("image", 0)} ELSE heap)
  BY DEF Return, pool, positions, results
<1>3. call.name \notin {"none", "image"}
  BY <1>1, CallFacts
<1>4. TypeOK'
  BY <1>2, SizesStay DEF IInv, TypeOK, Ended
<1>5. CallInv' /\ ReadInv' /\ PoolInv' /\ PositionsInv' /\ ResultInv' /\ HeapInv'
  <2>1. (result = "image" => input_position = file_len)' 
    BY <1>1, <1>2 DEF file_len
  <2> QED  BY <1>1, <1>2, <2>1 DEF CallInv, ReadInv, PoolInv, PositionsInv, ResultInv, HeapInv, PoolDone
<1>6. NameRead'
  BY <1>2 DEF IInv, NameRead
<1>7. ImageComplete'
  <2>1. (Java' <=> Java) /\ file_len' = file_len
    BY <1>2 DEF Java, file_len
  <2>2. ASSUME Java
        PROVE  /\ result' = "image" <=> injected' # {}
               /\ result' = "image" => input_position' = file_len'
               /\ called_back' = IF call'.callback /\ ~ call'.interface /\ ~ call'.empty
                                   THEN {Len(call'.methods)} ELSE {}
    BY <1>1, <1>2, <2>1, <2>2
  <2> QED  BY <2>1, <2>2 DEF ImageComplete, Java
<1>8. NothingLeaked'
  <2>1. CallersObject \notin Freed(cpool_count_plus_one)
    BY DEF CallersObject, Object, Freed
  <2>2. CASE result = "none"
    <3>1. Java /\ CallersObject = Object("image", 0)
      BY <1>1, <1>3, <2>2 DEF CallersObject
    <3>2. heap' = {}
      BY <1>1, <1>2, <2>2, <3>1 DEF cleanup
    <3> QED  BY <1>2, <2>2, <3>2 DEF NothingLeaked
  <2>3. CASE result # "none"
    <3>1. heap' = {CallersObject}
      BY <1>1, <1>2, <2>1, <2>3 DEF cleanup
    <3>2. CallersObject = IF result = "image" THEN Object("image", 0) ELSE Object("result", 0)
      BY <1>1, <1>3, <2>3 DEF CallersObject
    <3> QED  BY <1>2, <2>3, <3>1, <3>2 DEF NothingLeaked
  <2> QED  BY <2>2, <2>3
<1>9. FailsOnBadInput'
  BY <1>2 DEF FailsOnBadInput
<1> QED  BY <1>4, <1>5, <1>6, <1>7, <1>8, <1>9 DEF IInv

\* A step that changes nothing keeps it.
LEMMA StutterInv ==
    ASSUME IInv, UNCHANGED vars
    PROVE  IInv'
<1>1. /\ call' = call /\ phase' = phase /\ i' = i /\ cpool' = cpool
      /\ cpool_count_plus_one' = cpool_count_plus_one /\ tracker_index' = tracker_index
      /\ output' = output /\ header_count' = header_count /\ input_position' = input_position
      /\ output_position' = output_position /\ injected' = injected /\ heap' = heap
      /\ result' = result /\ called_back' = called_back
  BY DEF vars
<1>2. /\ Java' <=> Java
      /\ Front' = Front /\ file_len' = file_len /\ CallersObject' = CallersObject
      /\ PoolDone' <=> PoolDone
  BY <1>1 DEF Java, Front, file_len, CallersObject, PoolDone
<1>3. TypeOK' /\ CallInv' /\ ReadInv' /\ ResultInv' /\ HeapInv'
  BY <1>1, <1>2, SizesStay DEF IInv, TypeOK, CallInv, ReadInv, ResultInv, HeapInv
<1>4. PoolInv'
  <2>1. CASE PoolDone
    <3>1. UNCHANGED <<call, pool>>
      BY <1>1 DEF pool
    <3> QED  BY <2>1, <3>1, PoolStays
  <2>2. CASE ~ PoolDone
    BY <1>2, <2>2 DEF PoolInv
  <2> QED  BY <2>1, <2>2
<1>5. PositionsInv'
  BY <1>1, <1>2, GrowthStays DEF IInv, PositionsInv
<1>6. NameRead' /\ ImageComplete' /\ NothingLeaked'
  BY <1>1, <1>2 DEF IInv, NameRead, ImageComplete, NothingLeaked
<1>7. FailsOnBadInput'
  <2>1. phase \in {"fatal", "crashed"} => BadInput
    BY DEF IInv, FailsOnBadInput, BadInput, Java
  <2>2. phase \in {"fatal", "crashed"} => BadInput'
    BY <1>1, <2>1, BadInputStays
  <2> QED  BY <1>1, <2>2 DEF FailsOnBadInput, BadInput, Java
<1> QED  BY <1>3, <1>4, <1>5, <1>6, <1>7 DEF IInv

-----------------------------------------------------------------------------
\* What holds in every state.

\* The invariant: where a call is in the class file, what of the constant pool is
\* in the output and in the mirror table, which indices are remembered, what is
\* allocated and what the caller gets are related so, after each step of
\* java_crw_demo and java_crw_demo_classname.
THEOREM ImageInvariant == Spec => []IInv
<1>1. Init => IInv
  BY InitInv
<1>2. IInv /\ [Next]_vars => IInv'
  <2>1. ASSUME IInv, Next PROVE IInv'
    <3>1. CASE CheckInterface
      BY <2>1, <3>1, CheckInterfaceInv
    <3>2. CASE ReadHeader
      BY <2>1, <3>2, ReadHeaderInv
    <3>3. CASE ReadEntry
      BY <2>1, <3>3, ReadEntryInv
    <3>4. CASE AddTrackers
      BY <2>1, <3>4, AddTrackersInv
    <3>5. CASE ReadClassName
      BY <2>1, <3>5, ReadClassNameInv
    <3>6. CASE ReadClass
      BY <2>1, <3>6, ReadClassInv
    <3>7. CASE method_write
      BY <2>1, <3>7, MethodWriteInv
    <3>8. CASE FinishMethods
      BY <2>1, <3>8, FinishMethodsInv
    <3>9. CASE Return
      BY <2>1, <3>9, ReturnInv
    <3>10. CASE Stopped
      BY <2>1, <3>10, StutterInv DEF Stopped
    <3> QED  BY <2>1, <3>1, <3>2, <3>3, <3>4, <3>5, <3>6, <3>7, <3>8, <3>9, <3>10 DEF Next, Step
  <2> QED  BY <2>1, StutterInv
<1> QED  BY <1>1, <1>2, PTL DEF Spec

\* Every variable has its type, and cpool_setup and add_new_cpool_entry put no entry
\* outside of the mirror table, unless the class and the new entries have more than
\* 16 bits count: then the table is allocated too small.
THEOREM Types == Spec => []TypeOK
<1>1. IInv => TypeOK
  BY DEF IInv
<1> QED  BY <1>1, ImageInvariant, PTL

\* The mirror table cpool_setup and add_new_cpool_entry keep agrees with the
\* constant pool in the output, index by index, and with the count in front of it.
THEOREM PoolMirrors == Spec => []PoolMirrorsOutput
<1>1. ASSUME IInv PROVE PoolMirrorsOutput
  <2> SUFFICES ASSUME PoolDone
               PROVE  /\ header_count = CountOf(output)
                      /\ \A n \in DOMAIN output : cpool[IndexOf(output, n)] = output[n]
    BY DEF PoolMirrorsOutput
  <2>1. Mirrors(cpool, output, cpool_count_plus_one) /\ header_count = cpool_count_plus_one
    BY <1>1 DEF IInv, PoolInv
  <2>2. DOMAIN output = 1 .. Len(output)
    BY <2>1, EntryFacts DEF Mirrors
  <2> QED  BY <2>1, <2>2 DEF Mirrors
<1> QED  BY <1>1, ImageInvariant, PTL

\* Every index cpool_setup remembers for a tracker resolves, through the table, to
\* the tracker's class, name and signature.
THEOREM IndicesResolve == Spec => []TrackersResolve
<1>1. ASSUME IInv PROVE TrackersResolve
  <2> SUFFICES ASSUME PoolDone, Java, NEW kind \in call.trackers
               PROVE  LET method == cpool[tracker_index[kind]]
                          typed == cpool[method.index2]
                      IN  /\ method.tag = "Methodref" /\ typed.tag = "NameAndType"
                          /\ NameOf(method.index1) = "tclass"
                          /\ cpool[typed.index1].text = kind
                          /\ cpool[typed.index2].text = Signature(kind)
    BY DEF TrackersResolve, Java
  <2>1. HasTrackers(cpool, tracker_index)
    BY <1>1 DEF IInv, PoolInv
  <2>2. PICK class_index \in DOMAIN cpool :
            /\ IsClass(cpool, class_index, "tclass")
            /\ IsMethod(cpool, tracker_index[kind], class_index, kind, Signature(kind))
    BY <2>1 DEF HasTrackers
  <2>3. cpool[tracker_index[kind]].tag = "Methodref" /\ cpool[tracker_index[kind]].index1 = class_index
    BY <2>2 DEF IsMethod
  <2>4. NameOf(class_index) = "tclass"
    BY <2>2 DEF IsClass, NameOf
  <2>5. PICK typed : /\ cpool[tracker_index[kind]].index2 = typed /\ cpool[typed].tag = "NameAndType"
                     /\ cpool[cpool[typed].index1].text = kind
                     /\ cpool[cpool[typed].index2].text = Signature(kind)
    BY <2>2 DEF IsMethod
  <2> QED  BY <2>3, <2>4, <2>5
<1> QED  BY <1>1, ImageInvariant, PTL

\* java_crw_demo_classname returns the name of the class, for every constant pool.
THEOREM NamesAreRead == Spec => []NameRead
<1>1. IInv => NameRead
  BY DEF IInv
<1> QED  BY <1>1, ImageInvariant, PTL

\* java_crw_demo returns an image exactly when it injected something, and then has
\* read the whole file; the callback hears of all methods.
THEOREM ImagesAreComplete == Spec => []ImageComplete
<1>1. IInv => ImageComplete
  BY DEF IInv
<1> QED  BY <1>1, ImageInvariant, PTL

\* cleanup frees all that is allocated on the way, for every class file.
THEOREM NoLeaks == Spec => []NothingLeaked
<1>1. IInv => NothingLeaked
  BY DEF IInv
<1> QED  BY <1>1, ImageInvariant, PTL

\* With memory left, a call fails only for the causes FailsOnBadInput names: the
\* table and the output buffer are large enough for every other class, however its
\* branches, switches and stack map frames grow.
THEOREM FailuresAreNamed == Spec => []FailsOnBadInput
<1>1. IInv => FailsOnBadInput
  BY DEF IInv
<1> QED  BY <1>1, ImageInvariant, PTL
=============================================================================
