--------------------------- MODULE MCClientSession ---------------------------
(* Client a may negotiate capabilities; the other one only logs in. *)
EXTENDS ClientSession

MixedLines == [c \in Clients |->
    IF c = "a" THEN {"LS", "END", "NAMES", "net", "bad"}
               ELSE {"NAMES", "net", "user"}]
MixedBound == [c \in Clients |-> IF c = "a" THEN 4 ELSE 2]

\* Both only log in.
PlainLines == [c \in Clients |-> {"NAMES", "net"}]
PlainBound == [c \in Clients |-> 2]

\* One of them negotiates capabilities again when it is registered.
SwallowLines == [c \in Clients |-> {"NAMES", "net", "LS", "OTHER", "QUIT", "END"}]
SwallowBound == [c \in Clients |-> IF c = "a" THEN 5 ELSE 0]

=============================================================================
