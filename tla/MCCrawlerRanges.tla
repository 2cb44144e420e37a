--------------------------- MODULE MCCrawlerRanges ---------------------------
\* CrawlerRanges on small instances: two IPv4 addresses in three networks, an
\* IPv6 address, and endpoints that publish overlapping, invalid or no networks.
EXTENDS CrawlerRanges, Prefixes

CONSTANTS a1, a2, b

SmallNetworks == {{a1}, {a2}, {a1, a2}, {b}}
SmallAnswers == {{{a1, a2}, {a1}}, {{a2}, {b}}, {Invalid}}

\* One bit is an IPv4 address, two are an IPv6 address.
SmallWidth == [f \in {4, 6} |-> IF f = 4 THEN 1 ELSE 2]

\* For all lists of up to three entries, valid or not, in every order: the loops
\* of ReduceCIDRs keep the networks that Reduced keeps, each of them once.
ASSUME ReduceCIDRsReduces ==
    \A length \in 0 .. 3 : \A list \in [1 .. length -> Prefix \cup {Unparsed}] :
       LET valid == {list[i] : i \in 1 .. length} \ {Unparsed}
           result == ReduceCIDRs(list)
           kept == {Denotes(result[i]) : i \in DOMAIN result}
       IN  /\ kept = Reduced({Denotes(p) : p \in valid})
           /\ Cardinality(DOMAIN result) = Cardinality(kept)

\* For all these lists: SortSeq does what is asked of sort.Slice.
ASSUME SortSeqSorts ==
    \A length \in 0 .. 3 : \A list \in [1 .. length -> Prefix] :
       Sorts(SortSeq([i \in 1 .. length |-> Masked(list[i])], Before), list)
=============================================================================
