------------------------------ MODULE MCVisit ------------------------------
\* Visit on small instances: one visitor, behind two proxies, a URI with an escaped
\* parameter, a bookmark and a link with "%2F%2Fhost" ("/%2F%2Fhost" and, after
\* another challenge, "///host" for http.Redirect).  Of the four deployments the
\* one with redirects and sessions is left out: where a challenge is shown decides
\* about the destination, and the mode about the key, which do not depend on each
\* other.
EXTENDS Visit, SequencesExt

CONSTANTS v1, proxy, inner, other

Settings == [onPage : BOOLEAN, session : BOOLEAN] \ {[onPage |-> FALSE, session |-> TRUE]}
Site == {Page(1)}
Bookmarks == {Empty, [slashes |-> <<1, 1>>, rest |-> TRUE, escapes |-> 0]}
Chain == <<proxy, inner>>
Lies == {<<>>, <<other, Blank, inner>>}

Hosts == {v1, proxy, inner, other, Blank}

\* The loop of getClientIP, component by component.
Walk(components, remote) ==
    LET Step(walk, c) ==
          IF walk.ip # Unknown \/ c \in Exempt THEN walk
          ELSE IF walk.depth = 0 THEN [walk EXCEPT !.ip = c]
          ELSE [walk EXCEPT !.depth = @ - 1]
        ip == FoldLeft(Step, [depth |-> Depth, ip |-> Unknown], Reverse(components)).ip
    IN  IF ip \in {Unknown, Blank} THEN remote ELSE ip

\* For all headers of up to four components: ClientIP is what the loop finds.
ASSUME WalkEndsAtClient ==
    \A n \in 0 .. 4 : \A header \in [1 .. n -> Hosts] :
       ClientIP(header, Remote) = Walk(header, Remote)
=============================================================================
