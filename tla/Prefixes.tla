------------------------------ MODULE Prefixes ------------------------------
(***************************************************************************)
(* CIDR notation: ReduceCIDRs of internal/helper/google.go, loop by loop,  *)
(* over the bits of addresses in two families.  What it computes is what   *)
(* CrawlerRanges!Reduced says of networks as sets of addresses.            *)
(***************************************************************************)
EXTENDS Integers, Sequences, TLC

CONSTANTS
    Width,    \* of an address in bits, by family
    Unparsed  \* an entry that is no CIDR

AddressOfFamily(f) == [family : {f}, bit : [1 .. Width[f] -> {0, 1}]]
Prefix == UNION {[addr : AddressOfFamily(f), bits : 0 .. Width[f]] : f \in {4, 6}}

ASSUME PrefixAssumption == Width \in [{4, 6} -> Nat] /\ Unparsed \notin Prefix

\* netip.Prefix.Contains.
Contains(p, a) ==
    p.addr.family = a.family /\ \A n \in 1 .. p.bits : a.bit[n] = p.addr.bit[n]

\* The addresses of a prefix.
Denotes(p) == {a \in AddressOfFamily(p.addr.family) : Contains(p, a)}

Masked(p) ==
    [p EXCEPT !.addr.bit = [n \in DOMAIN @ |-> IF n <= p.bits THEN @[n] ELSE 0]]

\* netip.Addr.Compare.
Less(a, b) ==
    \E n \in DOMAIN a.bit :
       a.bit[n] < b.bit[n] /\ \A m \in 1 .. n - 1 : a.bit[m] = b.bit[m]

\* IPv4 first, then the broad prefixes, then by address.
Before(p, q) ==
    IF p.addr.family # q.addr.family THEN p.addr.family = 4
    ELSE IF p.bits # q.bits THEN p.bits < q.bits ELSE Less(p.addr, q.addr)

\* What the parser and sort.Slice make of a list.
Sorts(prefixes, list) ==
    /\ prefixes \in Seq(Prefix)
    /\ {prefixes[i] : i \in DOMAIN prefixes}
         = {Masked(p) : p \in {list[i] : i \in DOMAIN list} \ {Unparsed}}
    /\ \A i, j \in DOMAIN prefixes : i < j => ~Before(prefixes[j], prefixes[i])

Covers(p, q) == p.bits <= q.bits /\ Contains(p, q.addr)

\* The loop over the candidates: which of them are appended to reduced.
Kept(prefixes) ==
    LET kept[i \in DOMAIN prefixes] ==
          ~ \E j \in 1 .. i - 1 : kept[j] /\ Covers(prefixes[j], prefixes[i])
    IN  {i \in DOMAIN prefixes : kept[i]}

ReduceCIDRs(list) ==
    LET valid == SelectSeq(list, LAMBDA c : c # Unparsed)
        prefixes == SortSeq([i \in DOMAIN valid |-> Masked(valid[i])], Before)
    IN  [i \in Kept(prefixes) |-> prefixes[i]]
=============================================================================
