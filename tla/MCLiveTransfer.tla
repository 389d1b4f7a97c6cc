--------------------------- MODULE MCLiveTransfer ---------------------------
EXTENDS LiveTransfer

Transfer(kind, size, gather, breaks) ==
    [kind |-> kind, size |-> size, gather |-> gather, cuts |-> breaks]

\* An empty and a longer file to either kind of recipient, where the connection breaks once,
\* except that of the empty file to a browser; and a transfer with more candidates than are held.
AllPlans == {Transfer("agent", 0, 1, 1), Transfer("agent", 2, 1, 1), Transfer("agent", 0, 2, 0),
             Transfer("browser", 0, 1, 0), Transfer("browser", 2, 1, 1)}

BrokenToAgent == {Transfer("agent", 2, 1, 1)}
EmptyToPage   == {Transfer("browser", 0, 1, 0)}
=============================================================================
