--------------------------- MODULE TTLCacheProofs ---------------------------
(***************************************************************************)
(* What the operations of the cache keep: the list and the index agree     *)
(* after each of them, and the entries of the result are those one expects.*)
(* The replay cache and the dedup cache rest on these facts.               *)
(***************************************************************************)
EXTENDS TTLCache, SequenceTheorems, TLAPS

Elem(K, t, n) == [key : K, at : 0..t, el : 1..n]

\* A cache of keys in K, with entries no younger than t.
Sound(c, K, t) ==
  /\ c.made \in Nat /\ c.list \in Seq(Elem(K, t, c.made))
  /\ Agree(c)

Entries(c) == {c.list[i] : i \in 1..Len(c.list)}

\* Entries have the fields they should.
LEMMA SoundEntries ==
  ASSUME NEW K, NEW t \in Nat, NEW c, Sound(c, K, t)
  PROVE  /\ Len(c.list) \in Nat
         /\ \A i \in 1..Len(c.list) :
              /\ c.list[i] \in Elem(K, t, c.made) /\ c.list[i].key \in K
              /\ c.list[i].at \in Nat /\ c.list[i].at <= t
              /\ c.list[i].el \in Nat /\ c.list[i].el >= 1 /\ c.list[i].el <= c.made
<1>1. Len(c.list) \in Nat /\ \A i \in 1..Len(c.list) : c.list[i] \in Elem(K, t, c.made)
  BY DEF Sound
<1> QED BY <1>1 DEF Elem, Sound

\* The index leads to the one element of a key.
LEMMA IndexLeads ==
  ASSUME NEW K, NEW t \in Nat, NEW c, Sound(c, K, t), NEW k \in DOMAIN c.index
  PROVE  /\ Position(c, k) \in 1..Len(c.list) /\ c.list[Position(c, k)].key = k
         /\ Element(c, k) \in Entries(c) /\ Element(c, k).key = k
<1>1. PICK j \in 1..Len(c.list) : c.list[j].key = k /\ c.list[j].el = c.index[k]
  BY DEF Sound, Agree
<1>2. /\ Position(c, k) \in 1..Len(c.list) /\ c.list[Position(c, k)].el = c.index[k]
  BY <1>1 DEF Position
<1>3. Position(c, k) = j
  <2> DEFINE p == Position(c, k)
  <2>1. p \in 1..Len(c.list) /\ c.list[p].el = c.list[j].el
    BY <1>1, <1>2
  <2> HIDE DEF p
  <2>2. Len(c.list) \in Nat /\ c.list[p].el \in Nat /\ c.list[j].el \in Nat
    BY <2>1, SoundEntries
  <2>3. \A a, b \in 1..Len(c.list) : a < b => c.list[a].el < c.list[b].el
    BY DEF Sound, Agree
  <2>4. ~(p < j) /\ ~(j < p)
    BY <2>1, <2>2, <2>3
  <2>5. p = j
    BY <2>1, <2>2, <2>4
  <2> QED BY <2>5 DEF p
<1> QED BY <1>1, <1>3 DEF Entries, Element

\* An entry is the element of its key.
LEMMA EntryIsElement ==
  ASSUME NEW K, NEW t \in Nat, NEW c, Sound(c, K, t), NEW x \in Entries(c)
  PROVE  /\ x.key \in DOMAIN c.index /\ c.index[x.key] = x.el /\ Element(c, x.key) = x
         /\ x \in Elem(K, t, c.made)
<1>1. PICK i \in 1..Len(c.list) : c.list[i] = x
  BY DEF Entries
<1>2. x.key \in DOMAIN c.index /\ c.index[x.key] = x.el
  BY <1>1 DEF Sound, Agree
<1>3. PICK p : p = Position(c, x.key)
  OBVIOUS
<1>4. p \in 1..Len(c.list) /\ c.list[p].key = x.key
  BY <1>2, <1>3, IndexLeads
<1>5. p = i
  <2>1. Len(c.list) \in Nat
    BY SoundEntries
  <2> QED BY <1>1, <1>4, <2>1 DEF Sound, Agree
<1> QED BY <1>1, <1>2, <1>3, <1>5, SoundEntries DEF Element

\* Time goes by.
LEMMA SoundLater ==
  ASSUME NEW K, NEW t \in Nat, NEW u \in Nat, t <= u, NEW c, Sound(c, K, t)
  PROVE  Sound(c, K, u)
<1>1. Len(c.list) \in Nat /\ \A i \in 1..Len(c.list) : c.list[i] \in Elem(K, u, c.made)
  <2>1. \A x : x \in Elem(K, t, c.made) => x \in Elem(K, u, c.made)
    BY DEF Elem
  <2> QED BY <2>1, SoundEntries
<1>2. c.list \in Seq(Elem(K, u, c.made))
  <2>1. c.list \in [1..Len(c.list) -> Elem(K, t, c.made)]
    BY LenProperties DEF Sound
  <2>2. c.list \in [1..Len(c.list) -> Elem(K, u, c.made)]
    BY <1>1, <2>1
  <2> QED BY <1>1, <2>2, SeqDef
<1> QED BY <1>2 DEF Sound

\* The new cache, and one after a restart.
LEMMA EmptySound ==
  ASSUME NEW K, NEW t \in Nat, NEW n \in Nat, NEW c,
         c.list = <<>>, DOMAIN c.index = {}, c.made = n
  PROVE  Sound(c, K, t) /\ Entries(c) = {}
BY DEF Sound, Agree, Entries

\* What c becomes without the entry of k.
Removed(d, c, k, K, t) ==
  /\ Sound(d, K, t) /\ d.made = c.made /\ k \notin DOMAIN d.index
  /\ \A x : x \in Entries(d) <=> x \in Entries(c) /\ x.key # k
  /\ Len(d.list) <= Len(c.list)

\* entries.Remove and delete take one entry, the one of the key.
LEMMA RemoveSound ==
  ASSUME NEW K, NEW t \in Nat, NEW c, Sound(c, K, t), NEW k
  PROVE  Removed(Remove(c, k), c, k, K, t)
<1> DEFINE d == Remove(c, k)
<1>1. CASE k \notin DOMAIN c.index
  <2>1. d = c
    BY <1>1 DEF Remove
  <2>2. \A x \in Entries(c) : x.key # k
    BY <1>1, EntryIsElement
  <2>3. Len(c.list) \in Nat
    BY SoundEntries
  <2> HIDE DEF d
  <2>4. \A x : x \in Entries(d) <=> x \in Entries(c) /\ x.key # k
    BY <2>1, <2>2
  <2>5. Sound(d, K, t) /\ d.made = c.made /\ k \notin DOMAIN d.index /\ Len(d.list) <= Len(c.list)
    BY <1>1, <2>1, <2>3
  <2>6. Removed(d, c, k, K, t)
    BY <2>4, <2>5 DEF Removed
  <2> QED BY <2>6 DEF d
<1>2. CASE k \in DOMAIN c.index
  <2> DEFINE T == Elem(K, t, c.made)
             n == Len(c.list)
  <2>1. PICK i \in 1..n : i = Position(c, k) /\ c.list[i].key = k
    BY <1>2, IndexLeads
  <2> DEFINE l == SubSeq(c.list, 1, i - 1) \o SubSeq(c.list, i + 1, n)
             f(j) == IF j < i THEN j ELSE j + 1
  <2>2. n \in Nat /\ c.list \in Seq(T)
    BY SoundEntries DEF Sound
  <2>3. d.list = l /\ d.index = Without(c.index, {k}) /\ d.made = c.made
    BY <1>2, <2>1 DEF Remove
  <2>4. l \in Seq(T) /\ Len(l) = n - 1 /\ \A j \in 1..(n - 1) : l[j] = c.list[f(j)]
    <3> DEFINE a == SubSeq(c.list, 1, i - 1)
               b == SubSeq(c.list, i + 1, n)
    <3> HIDE DEF T
    <3>1. a \in Seq(T) /\ Len(a) = i - 1 /\ \A j \in 1..(i - 1) : a[j] = c.list[j]
      BY <2>1, <2>2
    <3>2. b \in Seq(T) /\ Len(b) = n - i /\ \A j \in 1..(n - i) : b[j] = c.list[i + j]
      BY <2>1, <2>2, SMTT(60)
    <3> HIDE DEF a, b, n
    <3>3. a \o b \in Seq(T) /\ Len(a \o b) = n - 1
      <4>1. a \o b \in Seq(T) /\ Len(a \o b) = Len(a) + Len(b)
        BY <3>1, <3>2, ConcatProperties
      <4> QED BY <2>1, <2>2, <3>1, <3>2, <4>1
    <3>4. ASSUME NEW j \in 1..(n - 1) PROVE (a \o b)[j] = c.list[f(j)]
      <4>1. CASE j < i
        BY <2>1, <2>2, <3>1, <3>2, <4>1
      <4>2. CASE ~(j < i)
        <5>1. (a \o b)[j] = b[j - Len(a)]
          <6>1. j \in 1..Len(a) + Len(b) /\ ~(j <= Len(a))
            BY <2>1, <2>2, <3>1, <3>2, <4>2
          <6> QED BY <3>1, <3>2, <6>1, ConcatProperties
        <5>2. j - Len(a) \in 1..(n - i) /\ i + (j - Len(a)) = j + 1
          BY <2>1, <2>2, <3>1, <4>2, SMTT(60)
        <5> QED BY <3>2, <4>2, <5>1, <5>2
      <4> QED BY <4>1, <4>2
    <3> QED BY <3>3, <3>4 DEF a, b
  <2> HIDE DEF l, d
  <2>5. \A j \in 1..(n - 1) : f(j) \in 1..n /\ f(j) # i
    BY <2>1, <2>2
  <2>6. \A j, m \in 1..(n - 1) : j < m => f(j) < f(m)
    BY <2>1, <2>2
  <2>7. \A m \in 1..n : m # i => \E j \in 1..(n - 1) : m = f(j)
    <3> SUFFICES ASSUME NEW m \in 1..n, m # i PROVE \E j \in 1..(n - 1) : m = f(j)
      OBVIOUS
    <3>1. CASE m < i
      <4>1. m \in 1..(n - 1) /\ m = f(m)
        BY <2>1, <2>2, <3>1
      <4> QED BY <4>1
    <3>2. CASE m > i
      <4>1. m - 1 \in 1..(n - 1) /\ m = f(m - 1)
        BY <2>1, <2>2, <3>2
      <4> QED BY <4>1
    <3> QED BY <2>1, <2>2, <3>1, <3>2
  <2> HIDE DEF f, n
  <2>8. \A m \in 1..n : c.list[m].key = k => m = i
    BY <2>1, <2>2 DEF Sound, Agree, n
  <2>9. Agree(d)
    <3>1. \A j, m \in 1..(n - 1) : j < m =>
            l[j].at <= l[m].at /\ l[j].el < l[m].el /\ l[j].key # l[m].key
      <4>1. \A j, m \in 1..n : j < m =>
              c.list[j].at <= c.list[m].at /\ c.list[j].el < c.list[m].el /\ c.list[j].key # c.list[m].key
        BY DEF Sound, Agree, n
      <4>2. \A j \in 1..(n - 1) : l[j] = c.list[f(j)] /\ f(j) \in 1..n
        BY <2>4, <2>5
      <4> QED BY <2>6, <4>1, <4>2
    <3>2. DOMAIN c.index = {c.list[m].key : m \in 1..n}
          /\ \A m \in 1..n : c.index[c.list[m].key] = c.list[m].el
      BY DEF Sound, Agree, n
    <3>3. DOMAIN d.index = DOMAIN c.index \ {k} /\ \A x \in DOMAIN d.index : d.index[x] = c.index[x]
      BY <2>3 DEF Without
    <3>4. \A j \in 1..(n - 1) : l[j].key \in DOMAIN d.index /\ d.index[l[j].key] = l[j].el
      BY <2>4, <2>5, <2>8, <3>2, <3>3, SMTT(60)
    <3>5. \A x \in DOMAIN d.index : \E j \in 1..(n - 1) : l[j].key = x
      <4> SUFFICES ASSUME NEW x \in DOMAIN d.index PROVE \E j \in 1..(n - 1) : l[j].key = x
        OBVIOUS
      <4>1. PICK m \in 1..n : c.list[m].key = x /\ m # i
        BY <2>1, <3>2, <3>3
      <4>2. PICK j \in 1..(n - 1) : m = f(j)
        BY <2>7, <4>1
      <4> QED BY <2>4, <4>1, <4>2
    <3>6. DOMAIN d.index = {l[j].key : j \in 1..(n - 1)}
      BY <3>4, <3>5
    <3>7. d.list = l /\ Len(l) = n - 1
      BY <2>3, <2>4
    <3>8. \A j, m \in 1..Len(d.list) : j < m =>
            d.list[j].at <= d.list[m].at /\ d.list[j].el < d.list[m].el /\ d.list[j].key # d.list[m].key
      BY <3>1, <3>7
    <3>9. DOMAIN d.index = {d.list[j].key : j \in 1..Len(d.list)}
      BY <3>6, <3>7
    <3>10. \A j \in 1..Len(d.list) : d.index[d.list[j].key] = d.list[j].el
      BY <3>4, <3>7
    <3> QED BY <3>8, <3>9, <3>10 DEF Agree
  <2>10. \A x : x \in Entries(d) <=> x \in Entries(c) /\ x.key # k
    <3>1. \A x \in Entries(d) : x \in Entries(c) /\ x.key # k
      BY <2>3, <2>4, <2>5, <2>8 DEF Entries, n
    <3>2. ASSUME NEW x \in Entries(c), x.key # k PROVE x \in Entries(d)
      <4>1. PICK m \in 1..n : c.list[m] = x /\ m # i
        BY <2>1, <3>2 DEF Entries, n
      <4>2. PICK j \in 1..(n - 1) : m = f(j)
        BY <2>7, <4>1
      <4> QED BY <2>3, <2>4, <4>1, <4>2 DEF Entries
    <3> QED BY <3>1, <3>2
  <2>11. k \notin DOMAIN d.index
    BY <2>3 DEF Without
  <2>12. Sound(d, K, t) /\ Len(d.list) <= Len(c.list)
    <3>1. d.list \in Seq(Elem(K, t, d.made)) /\ Len(d.list) <= Len(c.list)
      BY <2>2, <2>3, <2>4 DEF n
    <3>2. d.made \in Nat
      BY <2>3 DEF Sound
    <3> QED BY <2>9, <3>1, <3>2 DEF Sound
  <2>13. Removed(d, c, k, K, t)
    BY <2>3, <2>10, <2>11, <2>12 DEF Removed
  <2> QED BY <2>13 DEF d
<1> QED BY <1>1, <1>2

\* What c becomes with an entry of k made at t.
Pushed(d, c, k, K, t) ==
  /\ Sound(d, K, t) /\ d.made = c.made + 1
  /\ Entries(d) = Entries(c) \cup {[key |-> k, at |-> t, el |-> c.made + 1]}
  /\ Len(d.list) = Len(c.list) + 1

\* PushBack adds an entry for a key that has none.
LEMMA PushBackSound ==
  ASSUME NEW K, NEW t \in Nat, NEW c, Sound(c, K, t), NEW k \in K, k \notin DOMAIN c.index
  PROVE  Pushed(PushBack(c, k, t), c, k, K, t)
<1> DEFINE d == PushBack(c, k, t)
           e == [key |-> k, at |-> t, el |-> c.made + 1]
           n == Len(c.list)
           T == Elem(K, t, c.made + 1)
<1>1. d.list = Append(c.list, e) /\ d.made = c.made + 1
      /\ d.index = [x \in DOMAIN c.index \cup {k} |-> IF x = k THEN c.made + 1 ELSE c.index[x]]
  BY DEF PushBack
<1>2. c.made \in Nat /\ n \in Nat
  BY SoundEntries DEF Sound
<1>3. e \in T
  BY <1>2 DEF Elem
<1>4. c.list \in Seq(T)
  <2>1. \A x : x \in Elem(K, t, c.made) => x \in T
    BY <1>2 DEF Elem
  <2>2. c.list \in [1..n -> Elem(K, t, c.made)]
    BY LenProperties DEF Sound
  <2>3. c.list \in [1..n -> T]
    BY <2>1, <2>2
  <2> HIDE DEF T
  <2> QED BY <1>2, <2>3, SeqDef
<1>5. e.key = k /\ e.at = t /\ e.el = c.made + 1
  OBVIOUS
<1> HIDE DEF d, e, T
<1>6. d.list \in Seq(T) /\ Len(d.list) = n + 1 /\ d.list[n + 1] = e
      /\ \A i \in 1..n : d.list[i] = c.list[i]
  BY <1>1, <1>2, <1>3, <1>4
<1> HIDE DEF n
<1>7. /\ \A i \in 1..n : c.list[i].at <= t /\ c.list[i].el < c.made + 1 /\ c.list[i].key # k
      /\ \A i, j \in 1..n : i < j =>
           c.list[i].at <= c.list[j].at /\ c.list[i].el < c.list[j].el /\ c.list[i].key # c.list[j].key
  <2>1. \A i \in 1..n : c.list[i].at <= t /\ c.list[i].el \in Nat /\ c.list[i].el <= c.made
    BY SoundEntries DEF n
  <2>2. \A i \in 1..n : c.list[i].key # k
    BY DEF Sound, Agree, n
  <2> QED BY <1>2, <2>1, <2>2 DEF Sound, Agree, n
<1>8. \A i, j \in 1..(n + 1) : i < j =>
        d.list[i].at <= d.list[j].at /\ d.list[i].el < d.list[j].el /\ d.list[i].key # d.list[j].key
  <2> SUFFICES ASSUME NEW i \in 1..(n + 1), NEW j \in 1..(n + 1), i < j
               PROVE  /\ d.list[i].at <= d.list[j].at /\ d.list[i].el < d.list[j].el
                      /\ d.list[i].key # d.list[j].key
    OBVIOUS
  <2>1. i \in 1..n
    BY <1>2
  <2>2. CASE j = n + 1
    BY <1>5, <1>6, <1>7, <2>1, <2>2
  <2>3. CASE j # n + 1
    <3>1. j \in 1..n
      BY <1>2, <2>3
    <3> QED BY <1>6, <1>7, <2>1, <3>1
  <2> QED BY <2>2, <2>3
<1>9. /\ DOMAIN c.index = {c.list[i].key : i \in 1..n}
      /\ \A i \in 1..n : c.index[c.list[i].key] = c.list[i].el
  BY DEF Sound, Agree, n
<1>10. Entries(d) = Entries(c) \cup {e}
  <2>1. \A i \in 1..(n + 1) : i \in 1..n \/ i = n + 1
    BY <1>2
  <2>2. n + 1 \in 1..(n + 1) /\ \A i \in 1..n : i \in 1..(n + 1)
    BY <1>2
  <2> QED BY <1>6, <2>1, <2>2 DEF Entries, n
<1>11. DOMAIN d.index = {d.list[i].key : i \in 1..(n + 1)}
  <2>1. \A i \in 1..(n + 1) : i \in 1..n \/ i = n + 1
    BY <1>2
  <2>2. n + 1 \in 1..(n + 1) /\ \A i \in 1..n : i \in 1..(n + 1)
    BY <1>2
  <2>3. DOMAIN d.index = DOMAIN c.index \cup {k}
    BY <1>1
  <2> QED BY <1>5, <1>6, <1>9, <2>1, <2>2, <2>3
<1>12. \A i \in 1..(n + 1) : d.index[d.list[i].key] = d.list[i].el
  <2> SUFFICES ASSUME NEW i \in 1..(n + 1) PROVE d.index[d.list[i].key] = d.list[i].el
    OBVIOUS
  <2>1. CASE i = n + 1
    BY <1>1, <1>5, <1>6, <2>1
  <2>2. CASE i \in 1..n
    <3>1. c.list[i].key \in DOMAIN c.index /\ c.list[i].key # k /\ d.list[i] = c.list[i]
      BY <1>6, <1>7, <1>9, <2>2
    <3>2. d.index[c.list[i].key] = c.index[c.list[i].key]
      BY <1>1, <3>1
    <3> QED BY <1>9, <2>2, <3>1, <3>2
  <2> QED BY <1>2, <2>1, <2>2
<1>13. Agree(d)
  BY <1>6, <1>8, <1>11, <1>12 DEF Agree
<1>14. Sound(d, K, t)
  BY <1>1, <1>2, <1>6, <1>13 DEF Sound, T
<1>15. Pushed(d, c, k, K, t)
  BY <1>1, <1>6, <1>10, <1>14 DEF Pushed, e, n
<1> QED BY <1>15 DEF d

\* What c becomes without its n oldest entries.
Dropped(d, c, n, K, t) ==
  /\ Sound(d, K, t) /\ d.made = c.made
  /\ Entries(d) \subseteq Entries(c)
  /\ \A x \in Entries(c) : x \in Entries(d) \/ \E i \in 1..n : c.list[i] = x
  /\ Len(d.list) = Len(c.list) - n

\* The front of the list goes, and its keys with it.
LEMMA DropFrontSound ==
  ASSUME NEW K, NEW t \in Nat, NEW c, Sound(c, K, t), NEW n \in 0..Len(c.list)
  PROVE  Dropped(DropFront(c, n), c, n, K, t)
<1> DEFINE d == DropFront(c, n)
           m == Len(c.list) - n
           T == Elem(K, t, c.made)
<1>1. d.list = SubSeq(c.list, n + 1, Len(c.list)) /\ d.made = c.made
      /\ d.index = Without(c.index, {c.list[i].key : i \in 1..n})
  BY DEF DropFront
<1>2. c.made \in Nat /\ Len(c.list) \in Nat /\ c.list \in Seq(T) /\ n \in Nat /\ m \in Nat
  BY SoundEntries DEF Sound
<1> HIDE DEF d, T
<1>3. d.list \in Seq(T) /\ Len(d.list) = m /\ \A i \in 1..m : d.list[i] = c.list[n + i]
  BY <1>1, <1>2
<1>4. \A i \in 1..m : n + i \in 1..Len(c.list) /\ n + i \notin 1..n
  BY <1>2
<1>5. \A i \in 1..Len(c.list) : i \in 1..n \/ (i - n \in 1..m /\ i = n + (i - n))
  BY <1>2
<1>6. \A i, j \in 1..m : i < j => n + i < n + j
  BY <1>2
<1>7. /\ \A i, j \in 1..Len(c.list) : i < j =>
           c.list[i].at <= c.list[j].at /\ c.list[i].el < c.list[j].el /\ c.list[i].key # c.list[j].key
      /\ DOMAIN c.index = {c.list[i].key : i \in 1..Len(c.list)}
      /\ \A i \in 1..Len(c.list) : c.index[c.list[i].key] = c.list[i].el
  BY DEF Sound, Agree
<1>8. \A i \in 1..m, j \in 1..n : d.list[i].key # c.list[j].key
  <2> SUFFICES ASSUME NEW i \in 1..m, NEW j \in 1..n PROVE d.list[i].key # c.list[j].key
    OBVIOUS
  <2>1. j \in 1..Len(c.list) /\ j < n + i
    BY <1>2
  <2>2. d.list[i] = c.list[n + i] /\ n + i \in 1..Len(c.list)
    BY <1>3, <1>4
  <2>3. c.list[j].key # c.list[n + i].key
    BY <1>7, <2>1, <2>2
  <2> QED BY <2>2, <2>3
<1>9. DOMAIN d.index = DOMAIN c.index \ {c.list[i].key : i \in 1..n}
      /\ \A x \in DOMAIN d.index : d.index[x] = c.index[x]
  BY <1>1 DEF Without
<1>10. \A i \in 1..m : d.list[i].key \in DOMAIN d.index /\ d.index[d.list[i].key] = d.list[i].el
  <2> SUFFICES ASSUME NEW i \in 1..m
               PROVE  d.list[i].key \in DOMAIN d.index /\ d.index[d.list[i].key] = d.list[i].el
    OBVIOUS
  <2>1. d.list[i] = c.list[n + i] /\ n + i \in 1..Len(c.list)
    BY <1>3, <1>4
  <2>2. d.list[i].key \in DOMAIN c.index /\ c.index[d.list[i].key] = d.list[i].el
    BY <1>7, <2>1
  <2> QED BY <1>8, <1>9, <2>2
<1>11. \A x \in DOMAIN d.index : \E i \in 1..m : d.list[i].key = x
  <2> SUFFICES ASSUME NEW x \in DOMAIN d.index PROVE \E i \in 1..m : d.list[i].key = x
    OBVIOUS
  <2>1. PICK i \in 1..Len(c.list) : c.list[i].key = x /\ i \notin 1..n
    BY <1>7, <1>9
  <2> QED BY <1>3, <1>5, <2>1
<1>12. DOMAIN d.index = {d.list[i].key : i \in 1..m}
  BY <1>10, <1>11
<1>13. \A i, j \in 1..m : i < j =>
         d.list[i].at <= d.list[j].at /\ d.list[i].el < d.list[j].el /\ d.list[i].key # d.list[j].key
  <2> SUFFICES ASSUME NEW i \in 1..m, NEW j \in 1..m, i < j
               PROVE  /\ d.list[i].at <= d.list[j].at /\ d.list[i].el < d.list[j].el
                      /\ d.list[i].key # d.list[j].key
    OBVIOUS
  <2>1. n + i \in 1..Len(c.list) /\ n + j \in 1..Len(c.list) /\ n + i < n + j
    BY <1>4, <1>6
  <2>2. d.list[i] = c.list[n + i] /\ d.list[j] = c.list[n + j]
    BY <1>3
  <2>3. /\ c.list[n + i].at <= c.list[n + j].at /\ c.list[n + i].el < c.list[n + j].el
        /\ c.list[n + i].key # c.list[n + j].key
    BY <1>7, <2>1
  <2> QED BY <2>2, <2>3
<1> HIDE DEF m
<1>14. Agree(d)
  BY <1>3, <1>10, <1>12, <1>13 DEF Agree
<1>15. Sound(d, K, t)
  BY <1>1, <1>2, <1>3, <1>14 DEF Sound, T
<1>16. Entries(d) \subseteq Entries(c)
  BY <1>3, <1>4 DEF Entries
<1>17. ASSUME NEW x \in Entries(c) PROVE x \in Entries(d) \/ \E i \in 1..n : c.list[i] = x
  <2>1. PICK i \in 1..Len(c.list) : c.list[i] = x
    BY DEF Entries
  <2>2. CASE i \in 1..n
    BY <2>1, <2>2
  <2>3. CASE i - n \in 1..m /\ i = n + (i - n)
    BY <1>3, <2>1, <2>3 DEF Entries
  <2> QED BY <1>5, <2>2, <2>3
<1>18. Dropped(d, c, n, K, t)
  BY <1>1, <1>3, <1>15, <1>16, <1>17 DEF Dropped, m
<1> QED BY <1>18 DEF d

\* What c becomes when k is recorded at t: it keeps what is not replaced or pushed
\* out, within the capacity.
Recorded(d, c, k, K, t) ==
  LET e == [key |-> k, at |-> t, el |-> c.made + 1]
  IN  /\ Sound(d, K, t) /\ d.made = c.made + 1
      /\ Capacity > 0 => Len(d.list) <= Capacity
      /\ \A x \in Entries(d) : x = e \/ (x \in Entries(c) /\ x.key # k)
      /\ \A x \in Entries(c) : x.key # k => x \in Entries(d) \/ x.key \in Evicted(c, k, t)
      /\ e \in Entries(d) \/ k \in Evicted(c, k, t)
      /\ Evicted(c, k, t) \subseteq K

\* Record is Remove, PushBack and DropFront.
LEMMA RecordSound ==
  ASSUME NEW K, NEW t \in Nat, NEW c, Sound(c, K, t), NEW k \in K, Capacity \in Nat
  PROVE  Recorded(Record(c, k, t), c, k, K, t)
<1> DEFINE r == Remove(c, k)
           p == PushBack(r, k, t)
           n == OverCapacity(p)
           d == DropFront(p, n)
           e == [key |-> k, at |-> t, el |-> c.made + 1]
<1>1. Removed(r, c, k, K, t)
  BY RemoveSound
<1>2. Record(c, k, t) = d /\ Evicted(c, k, t) = {p.list[i].key : i \in 1..n}
  BY DEF Record, Evicted
<1> HIDE DEF r
<1>3. Sound(r, K, t) /\ r.made = c.made /\ k \notin DOMAIN r.index
      /\ \A x : x \in Entries(r) <=> x \in Entries(c) /\ x.key # k
  BY <1>1 DEF Removed
<1>4. Pushed(p, r, k, K, t)
  BY <1>3, PushBackSound
<1> HIDE DEF p
<1>5. Sound(p, K, t) /\ p.made = c.made + 1 /\ Entries(p) = Entries(r) \cup {e}
  BY <1>3, <1>4 DEF Pushed
<1>6. Len(p.list) \in Nat /\ \A i \in 1..Len(p.list) : p.list[i].key \in K
  BY <1>5, SoundEntries
<1>7. n \in 0..Len(p.list) /\ (Capacity > 0 => Len(p.list) - n <= Capacity)
  BY <1>6 DEF OverCapacity
<1> HIDE DEF n
<1>8. Dropped(d, p, n, K, t)
  BY <1>5, <1>7, DropFrontSound
<1> HIDE DEF d
<1>9. e.key = k
  OBVIOUS
<1> HIDE DEF e
<1>10. \A x \in Entries(p) : x \in Entries(d) \/ x.key \in Evicted(c, k, t)
  BY <1>2, <1>8 DEF Dropped
<1>11. Evicted(c, k, t) \subseteq K
  BY <1>2, <1>6, <1>7
<1>12. \A x \in Entries(d) : x = e \/ (x \in Entries(c) /\ x.key # k)
  BY <1>3, <1>5, <1>8 DEF Dropped
<1>13. \A x \in Entries(c) : x.key # k => x \in Entries(d) \/ x.key \in Evicted(c, k, t)
  BY <1>3, <1>5, <1>10
<1>14. e \in Entries(d) \/ k \in Evicted(c, k, t)
  BY <1>5, <1>9, <1>10
<1>15. Sound(d, K, t) /\ d.made = c.made + 1 /\ (Capacity > 0 => Len(d.list) <= Capacity)
  BY <1>5, <1>7, <1>8 DEF Dropped
<1>16. Recorded(d, c, k, K, t)
  BY <1>11, <1>12, <1>13, <1>14, <1>15 DEF Recorded, e
<1> QED BY <1>2, <1>16
=============================================================================
