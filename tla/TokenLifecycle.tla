--------------------------- MODULE TokenLifecycle ---------------------------
(***************************************************************************)
(* What the token store promises its callers, without indexes, commands or *)
(* a clock: a token is issued once, dies once, and a call is answered only *)
(* with tokens that had not died when it began, unless it asks for dead    *)
(* ones too.  Tokens shows that it keeps this promise.                     *)
(***************************************************************************)
CONSTANTS Token, Proc

VARIABLES
    status,     \* status[k]
    calling,    \* the calls under way
    barred,     \* barred[p]: what the call of p may not be answered with
    answer      \* answer[p]: what it has so far to be answered with

vars == <<status, calling, barred, answer>>

Status == {"unborn", "live", "dead"}
Dead == {k \in Token : status[k] = "dead"}

Init ==
    /\ status = [k \in Token |-> "unborn"]
    /\ calling = {}
    /\ barred = [p \in Proc |-> {}]
    /\ answer = [p \in Proc |-> {}]

Begin(p) ==
    /\ p \notin calling /\ calling' = calling \cup {p}
    /\ \E past \in BOOLEAN : barred' = [barred EXCEPT ![p] = IF past THEN {} ELSE Dead]
    /\ UNCHANGED <<status, answer>>

\* The call of p comes across an issued token that it may answer with.
Obtain(p, k) ==
    /\ p \in calling
    /\ status[k] # "unborn" /\ k \notin barred[p]
    /\ answer' = [answer EXCEPT ![p] = @ \cup {k}]
    /\ UNCHANGED <<status, calling, barred>>

\* The call of p issues a token, which may be past its expiry by the time it is stored.
Issue(p, k) ==
    /\ p \in calling
    /\ status[k] = "unborn"
    /\ \E s \in {"live", "dead"} : status' = [status EXCEPT ![k] = s]
    /\ answer' = [answer EXCEPT ![p] = @ \cup {k}]
    /\ UNCHANGED <<calling, barred>>

\* Tokens expire.
Expire(dying) ==
    /\ \A k \in dying : status[k] = "live"
    /\ status' = [k \in Token |-> IF k \in dying THEN "dead" ELSE status[k]]
    /\ UNCHANGED <<calling, barred, answer>>

\* The call of p ends, by which it may revoke a token it has obtained.
End(p) ==
    /\ p \in calling /\ calling' = calling \ {p}
    /\ \/ UNCHANGED status
       \/ \E k \in answer[p] : status' = [status EXCEPT ![k] = "dead"]
    /\ barred' = [barred EXCEPT ![p] = {}]
    /\ answer' = [answer EXCEPT ![p] = {}]

Next ==
    \/ \E p \in Proc : \/ Begin(p) \/ End(p)
                       \/ \E k \in Token : Obtain(p, k) \/ Issue(p, k)
    \/ \E dying \in SUBSET Token : Expire(dying)

Spec == Init /\ [][Next]_vars
=============================================================================
