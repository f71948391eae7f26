----------------------- MODULE IdempotentOrdersProofs -----------------------
(***************************************************************************)
(* What the specification the service implements comes to, for any sets of *)
(* requests and keys.  What is proved here holds of whatever is shown to   *)
(* implement IdempotentOrders.                                             *)
(***************************************************************************)
EXTENDS IdempotentOrders, TLAPS

\* A request has no answer before it has a key, an answer that carries an
\* order carries that of the request's key, and a 201 is its creator's.
Consistent ==
    /\ orders \in [Keys -> Requests \cup {None}]
    /\ events \subseteq Requests
    /\ key \in [Requests -> Keys \cup {None}]
    /\ answer \in [Requests -> [status : {0, 201, 200, 400, 422, 503, 500},
                                order : Requests \cup {None}]]
    /\ \A r \in Requests :
          /\ key[r] = None => answer[r].status = 0
          /\ answer[r].status = 0 => answer[r].order = None
          /\ answer[r].order # None =>
                key[r] \in Keys /\ answer[r].order = orders[key[r]]
          /\ answer[r].status = 201 => answer[r].order = r

\* Nothing is promised at first.
LEMMA InitConsistent == Init => Consistent
BY DEF Init, Consistent

\* An order is created for a key that has none, and an answer given to a
\* request that waits for one.
LEMMA NextConsistent ==
    ASSUME None \notin Keys, Consistent, [Next]_vars
    PROVE  Consistent'
<1> USE DEF Consistent, Give, Waiting
<1>1. CASE UNCHANGED vars
  BY <1>1 DEF vars
<1>2. ASSUME NEW r \in Requests, Receive(r) PROVE Consistent'
  BY <1>2 DEF Receive
<1>3. ASSUME NEW r \in Requests, Create(r) PROVE Consistent'
  BY <1>3 DEF Create
<1>4. ASSUME NEW r \in Requests, Return(r) PROVE Consistent'
  BY <1>4 DEF Return
<1>5. ASSUME NEW r \in Requests, Refuse(r) PROVE Consistent'
  BY <1>5 DEF Refuse
<1> QED
  BY <1>1, <1>2, <1>3, <1>4, <1>5 DEF Next

LEMMA ConsistentAlways ==
    ASSUME None \notin Keys
    PROVE  Spec => []Consistent
<1>1. Consistent /\ [Next]_vars => Consistent'
  BY NextConsistent
<1> QED
  BY <1>1, InitConsistent, PTL DEF Spec

\* Idempotency, as a client sees it: all answers for a key that carry an
\* order carry the same one, and one client at most is told it created it.
THEOREM OneOrderPerKeyCorrect ==
    ASSUME None \notin Keys
    PROVE  Spec => []OneOrderPerKey
<1>1. Consistent => OneOrderPerKey
  BY DEF Consistent, OneOrderPerKey
<1> QED
  BY <1>1, ConsistentAlways, PTL

\* A step gives no answer twice and no second order to a key.
LEMMA StepIsFinal ==
    ASSUME Consistent, [Next]_vars
    PROVE  /\ \A k \in Keys : orders[k] # None => orders'[k] = orders[k]
           /\ \A r \in Requests : answer[r].status # 0 => answer'[r] = answer[r]
           /\ events \subseteq events'
<1> USE DEF Consistent, Give, Waiting
<1>1. CASE UNCHANGED vars
  BY <1>1 DEF vars
<1>2. CASE \E r \in Requests : Receive(r)
  BY <1>2 DEF Receive
<1>3. CASE \E r \in Requests : Create(r)
  BY <1>3 DEF Create
<1>4. CASE \E r \in Requests : Return(r) \/ Refuse(r)
  BY <1>4 DEF Return, Refuse
<1> QED
  BY <1>1, <1>2, <1>3, <1>4 DEF Next

\* No step takes back an answer, an order or an event.
THEOREM PromisesAreFinalCorrect ==
    ASSUME None \notin Keys
    PROVE  Spec => PromisesAreFinal
<1>1. Consistent /\ [Next]_vars =>
         [/\ \A k \in Keys : orders[k] # None => orders'[k] = orders[k]
          /\ \A r \in Requests : answer[r].status # 0 => answer'[r] = answer[r]
          /\ events \subseteq events']_vars
  BY StepIsFinal
<1> QED
  BY <1>1, ConsistentAlways, PTL DEF Spec, PromisesAreFinal
=============================================================================
