--------------------------- MODULE MCRequestGate ---------------------------
\* RequestGate on small instances: a page behind the gate, and requests that
\* differ from a plain GET of it in one respect.
EXTENDS RequestGate, TLC

CONSTANTS Bot, Token, GoodHost, OtherHost

SitePaths == {"page", "image", "feed"}
WholeSite == {SitePaths}
Feeds == {{"feed"}}
Pages == {"page", "feed"}

PlainGet(c) ==
    [client |-> c, cookie |-> None, params |-> FALSE,
     protectedMethod |-> TRUE, exemptAgent |-> FALSE, path |-> "page"]

BotTraffic == {PlainGet(Bot)}
MixedTraffic ==
    LET get == PlainGet(Bot)
    IN  {get, [get EXCEPT !.cookie = Token], [get EXCEPT !.params = TRUE],
         [get EXCEPT !.protectedMethod = FALSE], [get EXCEPT !.exemptAgent = TRUE],
         [get EXCEPT !.path = "image"], [get EXCEPT !.path = "feed"]}

Symmetry == Permutations(Requests)
=============================================================================
