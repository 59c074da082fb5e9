---------------------------- MODULE OneTimeCodes ----------------------------
(***************************************************************************)
(* What authorization codes promise, without commands or a clock: a code   *)
(* is granted once; an exchange is answered with it as it was granted,     *)
(* only to the client and for the URI it was granted for, and only if it   *)
(* was neither spent nor late when the exchange began.  Two exchanges are  *)
(* thus both answered with one code only if they overlap.  AuthCodes shows *)
(* that it keeps this promise.                                             *)
(***************************************************************************)
CONSTANTS Client, Uri, User, CodeId, Proc, None

VARIABLES
    grant,      \* grant[i]: whom and what code i was granted for, or None
    over,       \* the codes that are spent or late
    asking,     \* asking[p]: what the exchange of p presents, or None
    barred,     \* barred[p]: the codes that were over when it began
    answer      \* answer[p]: what it is answered with, or None

vars == <<grant, over, asking, barred, answer>>

Access == [consumer : Client, uri : Uri, user : User]
Criteria == [id : CodeId, consumer : Client, uri : Uri]

Init ==
    /\ grant = [i \in CodeId |-> None]
    /\ over = {}
    /\ asking = [p \in Proc |-> None]
    /\ barred = [p \in Proc |-> {}]
    /\ answer = [p \in Proc |-> None]

\* A user grants an access; by the time its code is stored it may be late already.
Grant(i, access) ==
    /\ grant[i] = None
    /\ grant' = [grant EXCEPT ![i] = access]
    /\ over' \in {over, over \cup {i}}
    /\ UNCHANGED <<asking, barred, answer>>

Ask(p, criteria) ==
    /\ asking[p] = None
    /\ asking' = [asking EXCEPT ![p] = criteria]
    /\ barred' = [barred EXCEPT ![p] = over]
    /\ UNCHANGED <<grant, over, answer>>

\* The exchange of p is answered, by which the code is spent.
Answer(p) ==
    LET k == asking[p]
        access == grant[k.id]
    IN  /\ k # None /\ access # None
        /\ k.id \notin barred[p]
        /\ access.consumer = k.consumer /\ access.uri = k.uri
        /\ answer' = [answer EXCEPT ![p] = access]
        /\ over' = over \cup {k.id}
        /\ UNCHANGED <<grant, asking, barred>>

\* Codes become late.
Expire(late) ==
    /\ \A i \in late : grant[i] # None
    /\ over' = over \cup late
    /\ UNCHANGED <<grant, asking, barred, answer>>

\* The exchange of p is over, be it answered or refused.
End(p) ==
    /\ asking[p] # None
    /\ asking' = [asking EXCEPT ![p] = None]
    /\ barred' = [barred EXCEPT ![p] = {}]
    /\ answer' = [answer EXCEPT ![p] = None]
    /\ UNCHANGED <<grant, over>>

Next ==
    \/ \E i \in CodeId, access \in Access : Grant(i, access)
    \/ \E p \in Proc : \/ \E criteria \in Criteria : Ask(p, criteria)
                       \/ Answer(p) \/ End(p)
    \/ \E late \in SUBSET CodeId : Expire(late)

Spec == Init /\ [][Next]_vars
=============================================================================
