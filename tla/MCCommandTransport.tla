------------------------- MODULE MCCommandTransport -------------------------
(* A model checking instance of CommandTransport: three commands of up to   *)
(* five fragments and two buffers, so that a command needs more buffers     *)
(* than there are and one command follows the wreck of another.  Requests   *)
(* have their parts empty, at the limit of the field and one beyond, with a *)
(* buffer that just holds the command or does not.                          *)
EXTENDS CommandTransport

Plain(op) ==
  [op |-> op, ssid |-> 0, ie |-> 0, bss |-> 0, sae |-> 0, key |-> 16, seq |-> 0,
   index |-> 0, secure |-> TRUE, pairwise |-> 1, akm |-> 1, frequencies |-> 0,
   ssids |-> 0, name |-> 0, room |-> 2048]

Edge(n) == {0, n, n + 1}

Authentications ==
  {[Plain("authenticate") EXCEPT !.ssid = s, !.ie = i, !.bss = b, !.sae = a, !.key = k,
                                 !.index = x, !.room = n] :
    s \in Edge(32), i \in Edge(400), b \in {0, 401}, a \in Edge(256),
    k \in {NoKey} \cup Edge(256), x \in {3, 4}, n \in {1723, 1724}}

Associations ==
  {[Plain("associate") EXCEPT !.ssid = s, !.ie = i, !.secure = c, !.pairwise = p,
                              !.akm = a, !.room = n] :
    s \in Edge(32), i \in Edge(400), c \in BOOLEAN, p \in {0, 1, 7, 8}, a \in 0 .. 3,
    n \in {1620, 1621}}

Keys ==
  {[Plain(op) EXCEPT !.key = k, !.seq = s, !.index = x] :
    op \in {"newKey", "setKey"}, k \in Edge(256), s \in Edge(256), x \in {0, 3, 4}}

Scans ==
  {[Plain("scan") EXCEPT !.ssids = c, !.ssid = s, !.ie = i, !.frequencies = f, !.room = n] :
    c \in 0 .. 3, s \in Edge(32), i \in Edge(400), f \in Edge(64), n \in {538, 794, 2048}}

Interfaces ==
  {[Plain("newInterface") EXCEPT !.name = n, !.room = m] : n \in Edge(16), m \in {85, 86}}

Others ==
  {Plain(op) : op \in {"interfaceState", "regulatory", "powerSave", "powerSaveTimeout",
                       "authorize", "scanResults", "deauthenticate", "systemInit"}}

MCRequests == Authentications \cup Associations \cup Keys \cup Scans \cup Interfaces \cup Others
=============================================================================
