--------------------------- MODULE ClientAddress ---------------------------
(***************************************************************************)
(* getClientIP of main.go: the address that a request counts for, from the *)
(* list in the forwarding header (which each proxy extends by the address  *)
(* that it was asked from) and the address of the connection.              *)
(***************************************************************************)
EXTENDS Integers, Sequences, FiniteSets

CONSTANTS
    Addresses,  \* what may stand in the header
    Exempt,     \* the addresses in exemptIps
    Depth,      \* config.IPDepth
    Blank       \* an empty component

ASSUME AddressAssumption ==
    /\ Depth \in Nat
    /\ Exempt \subseteq Addresses /\ Blank \in Addresses \ Exempt

Counted(components) == {i \in DOMAIN components : components[i] \notin Exempt}

\* The list is walked from its end over exempt addresses and Depth others.
ClientIP(components, remote) ==
    LET at == {i \in Counted(components) :
                 Cardinality({j \in Counted(components) : j > i}) = Depth}
        ips == {components[i] : i \in at} \ {Blank}
    IN  IF ips = {} THEN remote ELSE CHOOSE ip \in ips : TRUE
=============================================================================
