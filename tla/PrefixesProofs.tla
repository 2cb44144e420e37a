--------------------------- MODULE PrefixesProofs ---------------------------
(***************************************************************************)
(* Proofs about CIDR notation, for addresses of every width: ReduceCIDRs   *)
(* of internal/helper/google.go computes what module CrawlerRanges says of *)
(* networks as sets of addresses.                                          *)
(***************************************************************************)
EXTENDS CrawlerRangesProofs, Prefixes

\* A prefix and its address are of one family.
LEMMA PrefixTyped ==
    ASSUME NEW p \in Prefix
    PROVE  \E f \in {4, 6} : \E b \in [1 .. Width[f] -> {0, 1}], n \in 0 .. Width[f] :
              p = [addr |-> [family |-> f, bit |-> b], bits |-> n]
<1>1. PICK f \in {4, 6} : p \in [addr : AddressOfFamily(f), bits : 0 .. Width[f]]
  BY DEF Prefix
<1>2. PICK a \in AddressOfFamily(f), n \in 0 .. Width[f] : p = [addr |-> a, bits |-> n]
  BY <1>1
<1>3. PICK b \in [1 .. Width[f] -> {0, 1}] : a = [family |-> f, bit |-> b]
  BY DEF AddressOfFamily
<1> QED BY <1>2, <1>3

\* What a prefix is made of.
LEMMA PrefixFacts ==
    ASSUME NEW p \in Prefix
    PROVE  /\ p.addr.family \in {4, 6}
           /\ Width[p.addr.family] \in Nat
           /\ p.addr.bit \in [1 .. Width[p.addr.family] -> {0, 1}]
           /\ p.addr \in AddressOfFamily(p.addr.family)
           /\ p.bits \in 0 .. Width[p.addr.family]
           /\ p.addr \in Denotes(p)
<1>0. PICK f \in {4, 6} : \E b \in [1 .. Width[f] -> {0, 1}], n \in 0 .. Width[f] :
        p = [addr |-> [family |-> f, bit |-> b], bits |-> n]
  BY PrefixTyped
<1>1. PICK b \in [1 .. Width[f] -> {0, 1}], n \in 0 .. Width[f] :
        p = [addr |-> [family |-> f, bit |-> b], bits |-> n]
  BY <1>0
<1>2. Width[f] \in Nat
  BY PrefixAssumption
<1> QED BY <1>1, <1>2 DEF AddressOfFamily, Denotes, Contains

\* Masking an entry changes no address of it.
LEMMA MaskedFacts ==
    ASSUME NEW p \in Prefix
    PROVE  Masked(p) \in Prefix /\ Denotes(Masked(p)) = Denotes(p)
<1>0. PICK f \in {4, 6} : \E b \in [1 .. Width[f] -> {0, 1}], n \in 0 .. Width[f] :
        p = [addr |-> [family |-> f, bit |-> b], bits |-> n]
  BY PrefixTyped
<1>1. PICK b \in [1 .. Width[f] -> {0, 1}], n \in 0 .. Width[f] :
        p = [addr |-> [family |-> f, bit |-> b], bits |-> n]
  BY <1>0
<1> DEFINE c == [m \in 1 .. Width[f] |-> IF m <= n THEN b[m] ELSE 0]
<1>2. Masked(p) = [addr |-> [family |-> f, bit |-> c], bits |-> n]
  <2>1. p.addr.bit = b /\ p.bits = n /\ DOMAIN b = 1 .. Width[f]
    BY <1>1
  <2>2. Masked(p) = [p EXCEPT !.addr.bit = c]
    BY <2>1 DEF Masked
  <2> HIDE DEF c
  <2>3. [p EXCEPT !.addr.bit = c] = [addr |-> [family |-> f, bit |-> c], bits |-> n]
    BY <1>1
  <2> QED BY <2>2, <2>3
<1>3. c \in [1 .. Width[f] -> {0, 1}] /\ \A m \in 1 .. n : c[m] = b[m]
  BY PrefixAssumption
<1> HIDE DEF c
<1>4. [addr |-> [family |-> f, bit |-> c], bits |-> n]
        \in [addr : AddressOfFamily(f), bits : 0 .. Width[f]]
  BY <1>3 DEF AddressOfFamily
<1>5. \A a : Contains(Masked(p), a) <=> Contains(p, a)
  <2>1. p.addr.family = f /\ p.addr.bit = b /\ p.bits = n
    BY <1>1
  <2>2. Masked(p).addr.family = f /\ Masked(p).addr.bit = c /\ Masked(p).bits = n
    BY <1>2
  <2> QED BY <1>3, <2>1, <2>2 DEF Contains
<1> QED BY <1>1, <1>2, <1>4, <1>5 DEF Prefix, Denotes

\* The test of the loop, a length and one address, says that all addresses of the
\* candidate are in the other network.
LEMMA CoversIsWider ==
    ASSUME NEW p \in Prefix, NEW q \in Prefix
    PROVE  Covers(p, q) <=> Denotes(q) \subseteq Denotes(p)
<1>1. ASSUME Covers(p, q) PROVE Denotes(q) \subseteq Denotes(p)
  <2>1. p.bits \in Nat /\ q.bits \in Nat
    BY PrefixFacts
  <2>2. \A a : Contains(q, a) => Contains(p, a)
    BY <1>1, <2>1 DEF Covers, Contains
  <2>3. p.addr.family = q.addr.family
    BY <1>1 DEF Covers, Contains
  <2> QED BY <2>2, <2>3 DEF Denotes
<1>2. ASSUME Denotes(q) \subseteq Denotes(p) PROVE Covers(p, q)
  <2>1. Contains(p, q.addr)
    BY <1>2, PrefixFacts DEF Denotes
  <2>2. ASSUME q.bits < p.bits PROVE FALSE
    <3> DEFINE f == q.addr.family
               n == q.bits + 1
               b == [q.addr.bit EXCEPT ![n] = 1 - @]
               a == [family |-> f, bit |-> b]
    <3>1. /\ p.addr.family = f /\ n \in 1 .. Width[f] /\ n \in 1 .. p.bits
          /\ q.addr.bit \in [1 .. Width[f] -> {0, 1}]
          /\ q.bits \in Nat
      BY <2>1, <2>2, PrefixFacts DEF Contains
    <3>2. b \in [1 .. Width[f] -> {0, 1}] /\ b[n] # q.addr.bit[n]
      <4>1. q.addr.bit[n] \in {0, 1}
        BY <3>1
      <4>2. 1 - q.addr.bit[n] \in {0, 1} /\ 1 - q.addr.bit[n] # q.addr.bit[n]
        BY <4>1
      <4> HIDE DEF f, n
      <4> QED BY <3>1, <4>2
    <3>3. \A m \in 1 .. q.bits : b[m] = q.addr.bit[m]
      <4>1. \A m \in 1 .. q.bits : m \in 1 .. Width[f] /\ m # n
        BY <3>1, PrefixFacts
      <4> HIDE DEF n
      <4> QED BY <3>1, <4>1
    <3> HIDE DEF b, n
    <3>4. a \in AddressOfFamily(f)
      BY <3>2 DEF AddressOfFamily
    <3>5. a \in Denotes(q)
      BY <3>3, <3>4 DEF Denotes, Contains
    <3>6. a \in Denotes(p)
      BY <1>2, <3>5
    <3>7. b[n] = p.addr.bit[n] /\ q.addr.bit[n] = p.addr.bit[n]
      BY <2>1, <3>1, <3>6 DEF Denotes, Contains
    <3> QED BY <3>2, <3>7
  <2> QED BY <2>1, <2>2, PrefixFacts DEF Covers
<1> QED BY <1>1, <1>2

\* The sort puts a network before all networks within it.
LEMMA WiderComesFirst ==
    ASSUME NEW p \in Prefix, NEW q \in Prefix,
           Denotes(q) \subseteq Denotes(p), Denotes(q) # Denotes(p)
    PROVE  Before(p, q)
<1>1. Covers(p, q) /\ ~ Covers(q, p)
  BY CoversIsWider
<1>2. ~ (q.bits = p.bits)
  BY <1>1, PrefixFacts DEF Covers, Contains
<1> QED BY <1>1, <1>2, PrefixFacts DEF Covers, Contains, Before

-----------------------------------------------------------------------------
\* A candidate is kept exactly if nothing before it in the list covers it, kept or
\* not: what covers it and was dropped is itself covered.
LEMMA KeptIsUncovered ==
    ASSUME NEW s \in Seq(Prefix)
    PROVE  Kept(s) = {i \in DOMAIN s : ~ \E j \in 1 .. i - 1 : Covers(s[j], s[i])}
<1> DEFINE Loop(f) == f = [i \in DOMAIN s |->
                            ~ \E j \in 1 .. i - 1 : f[j] /\ Covers(s[j], s[i])]
           g == [i \in DOMAIN s |-> ~ \E j \in 1 .. i - 1 : Covers(s[j], s[i])]
           kept == CHOOSE f : Loop(f)
<1>1. DOMAIN s = 1 .. Len(s) /\ Len(s) \in Nat /\ \A i \in DOMAIN s : s[i] \in Prefix
  OBVIOUS
<1>2. \A i, j, k \in DOMAIN s : Covers(s[i], s[j]) /\ Covers(s[j], s[k]) => Covers(s[i], s[k])
  BY <1>1, CoversIsWider
<1>3. ASSUME NEW i \in DOMAIN s, NEW j \in 1 .. i - 1, Covers(s[j], s[i])
      PROVE  \E k \in 1 .. i - 1 : Covers(s[k], s[i])
                                   /\ ~ \E l \in 1 .. k - 1 : Covers(s[l], s[k])
  <2> DEFINE T == {k \in 1 .. i - 1 : Covers(s[k], s[i])}
  <2>1. T \subseteq Nat /\ T # {}
    BY <1>1, <1>3
  <2>2. PICK k \in T : \A l \in T : ~ (l < k)
    BY <2>1, LeastNatural
  <2>3. ASSUME NEW l \in 1 .. k - 1, Covers(s[l], s[k]) PROVE FALSE
    <3>1. l \in 1 .. i - 1 /\ l \in DOMAIN s /\ k \in DOMAIN s /\ l < k
      BY <1>1, <2>2
    <3>2. Covers(s[l], s[i])
      BY <1>2, <2>2, <2>3, <3>1
    <3> QED BY <2>2, <3>1, <3>2
  <2> QED BY <2>2, <2>3
<1>4. Loop(g)
  <2>1. ASSUME NEW i \in DOMAIN s
        PROVE  (\E j \in 1 .. i - 1 : Covers(s[j], s[i]))
                 <=> (\E j \in 1 .. i - 1 : g[j] /\ Covers(s[j], s[i]))
    <3>1. \A j \in 1 .. i - 1 : j \in DOMAIN s
      BY <1>1
    <3> QED BY <1>3, <3>1
  <2> QED BY <2>1
<1>5. Loop(kept)
  BY <1>4
<1>6. Kept(s) = {i \in DOMAIN s : kept[i]}
  BY DEF Kept
<1> HIDE DEF kept
<1>7. \A i \in DOMAIN s : kept[i] <=> ~ \E j \in 1 .. i - 1 : kept[j] /\ Covers(s[j], s[i])
  BY <1>5
<1> HIDE DEF g
<1>8. ASSUME NEW i \in DOMAIN s
      PROVE  kept[i] <=> ~ \E j \in 1 .. i - 1 : Covers(s[j], s[i])
  <2>1. ASSUME ~ \E j \in 1 .. i - 1 : Covers(s[j], s[i]) PROVE kept[i]
    BY <1>7, <2>1
  <2>2. ASSUME NEW j \in 1 .. i - 1, Covers(s[j], s[i]) PROVE ~ kept[i]
    <3>1. PICK k \in 1 .. i - 1 : /\ Covers(s[k], s[i])
                                  /\ ~ \E l \in 1 .. k - 1 : Covers(s[l], s[k])
      BY <1>3, <2>2
    <3>2. k \in DOMAIN s
      BY <1>1
    <3>3. kept[k]
      BY <1>7, <3>1, <3>2
    <3> QED BY <1>7, <3>1, <3>3
  <2> QED BY <2>1, <2>2
<1> QED BY <1>6, <1>8

\* Whatever the width of addresses and however long, unsorted and redundant the
\* list is: ReduceCIDRs keeps the networks that no other network of the list
\* covers, each of them once, and drops the rest; no address is lost or won.
THEOREM ReductionCorrect ==
    ASSUME Invalid \notin {Denotes(p) : p \in Prefix},
           NEW list \in Seq(Prefix \cup {Unparsed}),
           NEW prefixes, Sorts(prefixes, list)
    PROVE  LET valid == {list[i] : i \in DOMAIN list} \ {Unparsed}
           IN  /\ {Denotes(prefixes[i]) : i \in Kept(prefixes)}
                    = Reduced({Denotes(p) : p \in valid})
               /\ \A i, j \in Kept(prefixes) :
                    Denotes(prefixes[i]) = Denotes(prefixes[j]) => i = j
               /\ UNION {Denotes(prefixes[i]) : i \in Kept(prefixes)}
                    = UNION {Denotes(p) : p \in valid}
<1> DEFINE valid == {list[i] : i \in DOMAIN list} \ {Unparsed}
           nets == {Denotes(p) : p \in valid}
           D(i) == Denotes(prefixes[i])
<1>1. /\ prefixes \in Seq(Prefix)
      /\ DOMAIN prefixes = 1 .. Len(prefixes) /\ Len(prefixes) \in Nat
      /\ \A i \in DOMAIN prefixes : prefixes[i] \in Prefix
  BY DEF Sorts
<1>2. valid \subseteq Prefix
  OBVIOUS
<1>3. nets = {D(i) : i \in DOMAIN prefixes}
  <2>1. {prefixes[i] : i \in DOMAIN prefixes} = {Masked(p) : p \in valid}
    BY DEF Sorts
  <2>2. \A p \in valid : Denotes(Masked(p)) = Denotes(p)
    BY <1>2, MaskedFacts
  <2> HIDE DEF valid
  <2>3. \A p \in valid : \E i \in DOMAIN prefixes : D(i) = Denotes(p)
    <3> SUFFICES ASSUME NEW p \in valid PROVE \E i \in DOMAIN prefixes : D(i) = Denotes(p)
      OBVIOUS
    <3>1. PICK i \in DOMAIN prefixes : prefixes[i] = Masked(p)
      BY <2>1
    <3> QED BY <2>2, <3>1
  <2>4. \A i \in DOMAIN prefixes : \E p \in valid : D(i) = Denotes(p)
    <3> SUFFICES ASSUME NEW i \in DOMAIN prefixes PROVE \E p \in valid : D(i) = Denotes(p)
      OBVIOUS
    <3>1. PICK p \in valid : prefixes[i] = Masked(p)
      BY <2>1
    <3> QED BY <2>2, <3>1
  <2> QED BY <2>3, <2>4
<1>4. Invalid \notin nets
  BY <1>2
<1> HIDE DEF valid, nets
<1>5. \A i, j \in DOMAIN prefixes : Covers(prefixes[i], prefixes[j]) <=> D(j) \subseteq D(i)
  BY <1>1, CoversIsWider
<1>6. \A i, j \in DOMAIN prefixes : D(j) \subseteq D(i) /\ D(j) # D(i) => i < j
  <2> SUFFICES ASSUME NEW i \in DOMAIN prefixes, NEW j \in DOMAIN prefixes,
                      D(j) \subseteq D(i), D(j) # D(i), ~ (i < j)
               PROVE  FALSE
    OBVIOUS
  <2>1. Before(prefixes[i], prefixes[j])
    BY <1>1, WiderComesFirst
  <2>2. i # j
    OBVIOUS
  <2>3. j < i
    BY <1>1, <2>2
  <2> QED BY <2>1, <2>3 DEF Sorts
<1>7. Kept(prefixes) = {i \in DOMAIN prefixes : ~ \E j \in 1 .. i - 1 : D(i) \subseteq D(j)}
  <2>1. \A i \in DOMAIN prefixes : \A j \in 1 .. i - 1 : j \in DOMAIN prefixes
    BY <1>1
  <2>2. \A i \in DOMAIN prefixes :
          (\E j \in 1 .. i - 1 : Covers(prefixes[j], prefixes[i]))
            <=> (\E j \in 1 .. i - 1 : D(i) \subseteq D(j))
    BY <1>5, <2>1
  <2>3. Kept(prefixes) = {i \in DOMAIN prefixes :
                            ~ \E j \in 1 .. i - 1 : Covers(prefixes[j], prefixes[i])}
    BY <1>1, KeptIsUncovered
  <2> QED BY <2>2, <2>3
<1>8. ASSUME NEW i \in Kept(prefixes), NEW j \in Kept(prefixes), D(i) = D(j) PROVE i = j
  <2>1. i \in 1 .. j - 1 \/ j \in 1 .. i - 1 \/ i = j
    BY <1>1, <1>7
  <2> QED BY <1>7, <1>8, <2>1
<1>9. ASSUME NEW i \in Kept(prefixes) PROVE D(i) \in Reduced(nets)
  <2>1. i \in DOMAIN prefixes /\ D(i) \in nets
    BY <1>3, <1>7
  <2>2. ASSUME NEW m \in nets, D(i) \subseteq m, D(i) # m PROVE FALSE
    <3>1. PICK j \in DOMAIN prefixes : m = D(j)
      BY <1>3
    <3>2. j < i
      BY <1>6, <2>1, <2>2, <3>1
    <3>3. j \in 1 .. i - 1
      BY <1>1, <2>1, <3>2
    <3> QED BY <1>7, <2>2, <3>1, <3>3
  <2> QED BY <1>4, <2>1, <2>2 DEF Reduced
<1>10. ASSUME NEW n \in Reduced(nets) PROVE \E i \in Kept(prefixes) : D(i) = n
  <2> DEFINE T == {i \in DOMAIN prefixes : D(i) = n}
  <2>1. n \in nets /\ \A m \in nets : n \subseteq m => n = m
    BY <1>4 DEF Reduced
  <2>2. T \subseteq Nat /\ T # {}
    BY <1>1, <1>3, <2>1
  <2>3. PICK i \in T : \A j \in T : ~ (j < i)
    BY <2>2, LeastNatural
  <2>4. ASSUME NEW j \in 1 .. i - 1, n \subseteq D(j) PROVE FALSE
    <3>1. j \in DOMAIN prefixes /\ j < i
      BY <1>1, <2>3
    <3>2. D(j) = n
      BY <1>3, <2>1, <2>4, <3>1
    <3> QED BY <2>3, <3>1, <3>2
  <2> QED BY <1>7, <2>3, <2>4
<1>11. {D(i) : i \in Kept(prefixes)} = Reduced(nets)
  BY <1>9, <1>10
<1>12. ASSUME NEW i \in DOMAIN prefixes PROVE \E k \in Kept(prefixes) : D(i) \subseteq D(k)
  <2> DEFINE T == {k \in DOMAIN prefixes : D(i) \subseteq D(k)}
  <2>1. T \subseteq Nat /\ T # {}
    BY <1>1
  <2>2. PICK k \in T : \A j \in T : ~ (j < k)
    BY <2>1, LeastNatural
  <2>3. \A j \in 1 .. k - 1 : j \in DOMAIN prefixes /\ j < k
    BY <1>1
  <2>4. \A j \in 1 .. k - 1 : ~ (D(k) \subseteq D(j))
    BY <2>2, <2>3
  <2> QED BY <1>7, <2>2, <2>4
<1>13. UNION {D(i) : i \in Kept(prefixes)} = UNION nets
  <2>1. Kept(prefixes) \subseteq DOMAIN prefixes
    BY <1>7
  <2>2. \A i \in DOMAIN prefixes : D(i) \in nets
    BY <1>3
  <2>3. \A n \in nets : \E k \in Kept(prefixes) : n \subseteq D(k)
    BY <1>3, <1>12
  <2> QED BY <2>1, <2>2, <2>3
<1> QED BY <1>8, <1>11, <1>13 DEF valid, nets
=============================================================================
