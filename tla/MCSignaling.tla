---------------------------- MODULE MCSignaling ----------------------------
EXTENDS Signaling

CONSTANTS a, b, r, d, t1, t2, c1, c2, c3, c4

\* t1 goes from agent a to agent b, t2 is a link of b's.  c1 is a's ticket socket
\* of t1, c2 and c3 are two always-on connections in a row of b, c4 is the
\* browser's socket of t2.
IdentityValue ==
    [c \in Conns |->
        [agent   |-> IF c = c1 THEN a ELSE IF c = c4 THEN r ELSE b,
         device  |-> d,
         scope   |-> IF c = c1 THEN t1 ELSE IF c = c4 THEN t2 ELSE AlwaysOn,
         browser |-> c = c4]]

PartiesValue ==
    [t \in Transfers |-> IF t = t1 THEN [from |-> a, to |-> b, target |-> "agent"]
                         ELSE [from |-> b, to |-> r, target |-> "browser_link"]]
=============================================================================
