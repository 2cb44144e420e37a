---------------------------- MODULE PublishedList ----------------------------
(***************************************************************************)
(* What a crawler address list promises to the request handlers: it is     *)
(* replaced as a whole, and every question is answered from one whole      *)
(* list, the current one.                                                  *)
(***************************************************************************)
CONSTANTS Addresses, Clients

VARIABLES
    list,     \* the addresses on the list
    reading,  \* the clients that are being looked up
    answer    \* what the last lookup of each client has found

vars == <<list, reading, answer>>

Init ==
    /\ list = {}
    /\ reading = {}
    /\ answer = [c \in Clients |-> FALSE]

Replace ==
    /\ list' \in SUBSET Addresses
    /\ UNCHANGED <<reading, answer>>

Ask(c) ==
    /\ reading' = reading \cup {c}
    /\ UNCHANGED <<list, answer>>

Answer(c) ==
    /\ c \in reading
    /\ answer' = [answer EXCEPT ![c] = c \in list]
    /\ reading' = reading \ {c}
    /\ UNCHANGED list

Next == Replace \/ \E c \in Clients : Ask(c) \/ Answer(c)

Spec == Init /\ [][Next]_vars

FairSpec == Spec /\ \A c \in Clients : WF_vars(Answer(c))
=============================================================================
