-------------------------- MODULE StoreRaceProofs --------------------------
(***************************************************************************)
(* The action store called from any number of threads: what holds for      *)
(* every interleaving, and atomicity for a call that no other call on its  *)
(* order overlaps.                                                         *)
(***************************************************************************)
EXTENDS StoreRace, TLAPS

-----------------------------------------------------------------------------
\* Type correctness.

\* What a call that was made, and one that has read, have in hand.
InHand ==
    \A c \in Calls :
        /\ status[c] # "new" => request[c] \in StoreRequests
        /\ status[c] = "read" => /\ copy[c] \in OrderRecords
                                 /\ request[c].order_id \in Orders

TypeInv == TypeOK /\ InHand

\* An acceptable update of a record is a record.
LEMMA UpdatedType ==
    ASSUME NEW r \in StoreRequests, NEW order \in OrderRecords,
           r.action_type \notin {"investigate_billing", "investigate_product_issue"},
           Acceptable(r, order)
    PROVE  Updated(r, order) \in OrderRecords
  BY DEF StoreRequests, ActionTypes, OrderRecords, Acceptable, Updated,
         OrderStatuses, PaymentStatuses

\* A store call that is made leaves a store.
LEMMA WriteType ==
    ASSUME TypeInv, NEW c \in Calls, Write(c)
    PROVE  store' \in Stores
<1> DEFINE r == request[c]
           o == r.order_id
<1>1. r \in StoreRequests /\ o \in Orders /\ copy[c] \in OrderRecords /\ store \in Stores
  BY DEF TypeInv, TypeOK, InHand, Write
<1>2. CASE r.action_type = "investigate_billing"
  BY <1>1, <1>2 DEF Write, Stores, CreateBillingInvestigation
<1>3. CASE r.action_type = "investigate_product_issue"
  <2>1. store' = CreateProductInvestigation(store, o)
    BY <1>3 DEF Write
  <2>2. QED
    BY <1>1, <2>1 DEF Stores, CreateProductInvestigation
<1>4. CASE r.action_type \notin {"investigate_billing", "investigate_product_issue"}
  <2>1. Updated(r, copy[c]) \in OrderRecords
    BY <1>1, <1>4, UpdatedType DEF Write
  <2>2. store' = [store EXCEPT !.orders[o] = Updated(r, copy[c])]
    BY <1>4 DEF Write
  <2>3. QED
    BY <1>1, <2>1, <2>2 DEF Stores
<1>5. QED
  BY <1>2, <1>3, <1>4

LEMMA InitType == Init => TypeInv
<1> SUFFICES ASSUME Init PROVE TypeInv
  OBVIOUS
<1>1. fixture \in [Orders -> OrderRecords]
  BY RaceAssumption DEF Init
<1>2. store \in Stores
  BY <1>1 DEF Init, Stores, FreshStore
<1>3. QED
  BY <1>1, <1>2 DEF Init, TypeInv, TypeOK, InHand, Statuses

LEMMA NextType == TypeInv /\ [Next]_vars => TypeInv'
<1> SUFFICES ASSUME TypeInv, [Next]_vars PROVE TypeInv'
  OBVIOUS
<1> USE DEF TypeInv, TypeOK, InHand
<1>1. ASSUME NEW c \in Calls, NEW r \in StoreRequests, Begin(c, r) PROVE TypeInv'
  <2>1. overlaps' \subseteq SUBSET Calls
    BY <1>1 DEF Begin, Rivals
  <2>2. QED
    BY <1>1, <2>1 DEF Begin, Statuses
<1>2. ASSUME NEW c \in Calls, GetOrder(c) PROVE TypeInv'
  <2>1. store.orders \in [Orders -> OrderRecords]
    BY DEF Stores
  <2>2. status' = [status EXCEPT ![c] =
            IF request[c].order_id \in Orders THEN "read" ELSE "refused"]
    BY <1>2, <2>1 DEF GetOrder, KnownOrder
  <2>3. copy' = [copy EXCEPT ![c] =
            IF request[c].order_id \in Orders THEN store.orders[request[c].order_id]
                                              ELSE None]
    BY <1>2, <2>1 DEF GetOrder, KnownOrder
  <2>4. UNCHANGED <<store, request, fixture, overlaps>> /\ request[c] \in StoreRequests
    BY <1>2 DEF GetOrder
  <2>5. QED
    BY <2>1, <2>2, <2>3, <2>4 DEF Statuses
<1>3. ASSUME NEW c \in Calls, Reject(c) PROVE TypeInv'
  BY <1>3 DEF Reject, Statuses
<1>4. ASSUME NEW c \in Calls, Write(c) PROVE TypeInv'
  <2>1. store' \in Stores
    BY <1>4, WriteType
  <2>2. QED
    BY <1>4, <2>1 DEF Write, Statuses
<1>5. CASE UNCHANGED vars
  BY <1>5 DEF vars
<1>6. QED
  BY <1>1, <1>2, <1>3, <1>4, <1>5 DEF Next, CallStep

\* Every variable of the store and of its calls keeps to its type, for any
\* number of concurrent calls on any orders.
THEOREM StoreTypeCorrect == Spec => []TypeOK
<1>1. TypeInv => TypeOK
  BY DEF TypeInv
<1>2. QED
  BY InitType, NextType, <1>1, PTL DEF Spec

-----------------------------------------------------------------------------
\* Nothing is invented.

\* What a record shows of order o beyond its fixture was accepted on o.
Explained(o, is) ==
    LET was == fixture[o]
    IN  /\ is.status # was.status =>
               is.status = "cancelled" /\ Accepted(o, "cancel_order") # {}
        /\ is.payment_status # was.payment_status =>
               is.payment_status = "refunded" /\ Accepted(o, "issue_refund") # {}
        /\ is.shipping_address # was.shipping_address =>
               \E c \in Accepted(o, "change_address") :
                   is.shipping_address = request[c].new_shipping_address

InvestigationsExact ==
    \A o \in Orders :
        /\ o \in store.billing <=> Accepted(o, "investigate_billing") # {}
        /\ o \in store.product <=> Accepted(o, "investigate_product_issue") # {}

\* NothingInvented is not inductive: a call that has read writes back its
\* copy, so the copies must be explained too.
NothingInventedInv ==
    /\ \A o \in Orders : Explained(o, store.orders[o])
    /\ \A c \in Calls : status[c] = "read" => Explained(request[c].order_id, copy[c])
    /\ InvestigationsExact

\* A record stays explained while accepted calls stay accepted.
LEMMA StaysExplained ==
    ASSUME NEW o, NEW is, Explained(o, is), fixture' = fixture,
           \A a \in ActionTypes : \A c \in Accepted(o, a) :
               c \in Accepted(o, a)' /\ request'[c] = request[c]
    PROVE  Explained(o, is)'
<1>1. {"cancel_order", "issue_refund", "change_address"} \subseteq ActionTypes
  BY DEF ActionTypes
<1>2. Accepted(o, "cancel_order") # {} => Accepted(o, "cancel_order")' # {}
  BY <1>1
<1>3. Accepted(o, "issue_refund") # {} => Accepted(o, "issue_refund")' # {}
  BY <1>1
<1>4. \A c \in Accepted(o, "change_address") :
          c \in Accepted(o, "change_address")' /\ request'[c] = request[c]
  BY <1>1
<1>5. QED
  BY <1>2, <1>3, <1>4 DEF Explained

\* A step that accepts no call changes no set of accepted calls.
LEMMA NoneAccepted ==
    ASSUME TypeInv, NEW c \in Calls, status[c] # "accepted",
           NEW s, s # "accepted", status' = [status EXCEPT ![c] = s],
           \A d \in Calls \ {c} : request'[d] = request[d]
    PROVE  \A o, a : /\ Accepted(o, a)' = Accepted(o, a)
                     /\ \A d \in Accepted(o, a) : request'[d] = request[d]
<1>1. \A d \in Calls : status'[d] = IF d = c THEN s ELSE status[d]
  BY DEF TypeInv, TypeOK
<1>2. QED
  BY <1>1 DEF Accepted

\* Accepting c adds it to the accepted calls of its kind and changes no other.
LEMMA OneAccepted ==
    ASSUME TypeInv, NEW c \in Calls, status[c] = "read",
           status' = [status EXCEPT ![c] = "accepted"], request' = request
    PROVE  \A o, a : Accepted(o, a)' =
               IF o = request[c].order_id /\ a = request[c].action_type
               THEN Accepted(o, a) \cup {c} ELSE Accepted(o, a)
<1>1. \A d \in Calls : status'[d] = IF d = c THEN "accepted" ELSE status[d]
  BY DEF TypeInv, TypeOK
<1>2. QED
  BY <1>1 DEF Accepted

\* The updated copy of an accepted call is explained by the call itself.
LEMMA UpdateExplained ==
    ASSUME TypeInv, NothingInventedInv, NEW c \in Calls, Write(c),
           request[c].action_type \notin
               {"investigate_billing", "investigate_product_issue"}
    PROVE  Explained(request[c].order_id, Updated(request[c], copy[c]))'
<1> DEFINE r == request[c]
           o == r.order_id
<1>1. /\ r \in StoreRequests /\ copy[c] \in OrderRecords
      /\ Explained(o, copy[c]) /\ fixture' = fixture /\ request' = request /\ copy' = copy
      /\ r.action_type \in ActionTypes
  BY DEF Write, TypeInv, InHand, NothingInventedInv, StoreRequests
<1>2. \A p, a : Accepted(p, a)' =
          IF p = o /\ a = r.action_type THEN Accepted(p, a) \cup {c} ELSE Accepted(p, a)
  BY OneAccepted DEF Write
<1>3. c \in Accepted(o, r.action_type)'
  BY <1>1 DEF Accepted, Write, TypeInv, TypeOK
<1>4. Explained(o, copy[c])'
  BY <1>1, <1>2, StaysExplained
<1>5. CASE r.action_type = "cancel_order"
  BY <1>1, <1>3, <1>4, <1>5 DEF Explained, Updated, OrderRecords
<1>6. CASE r.action_type = "change_address"
  <2>1. Updated(r, copy[c]) = [copy[c] EXCEPT !.shipping_address = r.new_shipping_address]
    BY <1>6 DEF Updated
  <2>2. QED
    BY <1>1, <1>3, <1>4, <1>6, <2>1 DEF Explained, OrderRecords
<1>7. CASE r.action_type = "issue_refund"
  <2>1. Updated(r, copy[c]) = [copy[c] EXCEPT !.payment_status = "refunded"]
    BY <1>7 DEF Updated
  <2>2. QED
    BY <1>1, <1>3, <1>4, <1>7, <2>1 DEF Explained, OrderRecords
<1>8. QED
  BY <1>1, <1>5, <1>6, <1>7 DEF ActionTypes

\* A call that does not write leaves everything explained.
LEMMA QuietStep ==
    ASSUME TypeInv, NothingInventedInv, NEW c \in Calls,
           UNCHANGED <<store, fixture>>,
           \A o, a : /\ Accepted(o, a)' = Accepted(o, a)
                     /\ \A d \in Accepted(o, a) : request'[d] = request[d],
           \A d \in Calls : status'[d] = "read" =>
               \/ /\ d = c /\ request[c].order_id \in Orders
                  /\ request'[c] = request[c]
                  /\ copy'[c] = store.orders[request[c].order_id]
               \/ status[d] = "read" /\ UNCHANGED <<request[d], copy[d]>>
    PROVE  NothingInventedInv'
<1>1. \A o, is : Explained(o, is) => Explained(o, is)'
  BY StaysExplained
<1>2. \A o \in Orders : Explained(o, store.orders[o])'
  BY <1>1 DEF NothingInventedInv
<1>3. ASSUME NEW d \in Calls, status'[d] = "read"
      PROVE  Explained(request[d].order_id, copy[d])'
  BY <1>1, <1>3 DEF NothingInventedInv
<1>4. InvestigationsExact'
  BY DEF NothingInventedInv, InvestigationsExact
<1>5. QED
  BY <1>2, <1>3, <1>4 DEF NothingInventedInv

LEMMA WriteStep ==
    ASSUME TypeInv, NothingInventedInv, NEW c \in Calls, Write(c)
    PROVE  NothingInventedInv'
<1> DEFINE r == request[c]
           o == r.order_id
<1>1. /\ r \in StoreRequests /\ o \in Orders /\ r.action_type \in ActionTypes
      /\ store \in Stores
      /\ UNCHANGED <<request, copy, fixture>>
      /\ status' = [status EXCEPT ![c] = "accepted"]
  BY DEF Write, TypeInv, TypeOK, InHand, StoreRequests
<1>2. \A p, a : Accepted(p, a)' =
          IF p = o /\ a = r.action_type THEN Accepted(p, a) \cup {c} ELSE Accepted(p, a)
  BY <1>1, OneAccepted DEF Write
<1>3. \A p, is : Explained(p, is) => Explained(p, is)'
  BY <1>1, <1>2, StaysExplained
<1>4. ASSUME NEW d \in Calls, status'[d] = "read"
      PROVE  Explained(request[d].order_id, copy[d])'
  <2>1. status[d] = "read"
    BY <1>1, <1>4 DEF TypeInv, TypeOK
  <2>2. QED
    BY <1>1, <1>3, <2>1 DEF NothingInventedInv
<1>5. CASE r.action_type = "investigate_billing"
  <2>1. store' = CreateBillingInvestigation(store, o)
    BY <1>5 DEF Write
  <2>2. /\ store'.orders = store.orders /\ store'.product = store.product
        /\ store'.billing = store.billing \cup {o}
    BY <1>1, <2>1 DEF CreateBillingInvestigation, Stores
  <2>3. InvestigationsExact'
    BY <1>2, <1>5, <2>2 DEF InvestigationsExact, NothingInventedInv
  <2>4. \A p \in Orders : Explained(p, store.orders[p])'
    BY <1>3, <2>2 DEF NothingInventedInv
  <2>5. QED
    BY <1>4, <2>3, <2>4 DEF NothingInventedInv
<1>6. CASE r.action_type = "investigate_product_issue"
  <2>1. store' = CreateProductInvestigation(store, o)
    BY <1>6 DEF Write
  <2>2. /\ store'.orders = store.orders /\ store'.billing = store.billing
        /\ store'.product = store.product \cup {o}
    BY <1>1, <2>1 DEF CreateProductInvestigation, Stores
  <2>3. InvestigationsExact'
    BY <1>2, <1>6, <2>2 DEF InvestigationsExact, NothingInventedInv
  <2>4. \A p \in Orders : Explained(p, store.orders[p])'
    BY <1>3, <2>2 DEF NothingInventedInv
  <2>5. QED
    BY <1>4, <2>3, <2>4 DEF NothingInventedInv
<1>7. CASE r.action_type \notin {"investigate_billing", "investigate_product_issue"}
  <2>1. store' = [store EXCEPT !.orders[o] = Updated(r, copy[c])]
    BY <1>7 DEF Write
  <2>2. /\ store'.billing = store.billing /\ store'.product = store.product
        /\ \A p \in Orders : store'.orders[p] =
               IF p = o THEN Updated(r, copy[c]) ELSE store.orders[p]
    BY <1>1, <2>1 DEF Stores
  <2>3. Explained(o, Updated(r, copy[c]))'
    BY <1>7, UpdateExplained
  <2>4. \A p \in Orders : Explained(p, store.orders[p])'
    BY <1>1, <1>3, <2>2, <2>3 DEF NothingInventedInv
  <2>5. InvestigationsExact'
    BY <1>2, <1>7, <2>2 DEF InvestigationsExact, NothingInventedInv
  <2>6. QED
    BY <1>4, <2>4, <2>5 DEF NothingInventedInv
<1>8. QED
  BY <1>5, <1>6, <1>7

LEMMA InventsNothing ==
    TypeInv /\ NothingInventedInv /\ [Next]_vars => NothingInventedInv'
<1> SUFFICES ASSUME TypeInv, NothingInventedInv, [Next]_vars PROVE NothingInventedInv'
  OBVIOUS
<1>1. ASSUME NEW c \in Calls, NEW r \in StoreRequests, Begin(c, r)
      PROVE  NothingInventedInv'
  <2>1. status[c] # "accepted" /\ status' = [status EXCEPT ![c] = "called"]
    BY <1>1 DEF Begin
  <2>2. \A d \in Calls \ {c} : UNCHANGED <<status[d], request[d], copy[d]>>
    BY <1>1 DEF Begin, TypeInv, TypeOK
  <2>3. status'[c] = "called"
    BY <1>1 DEF Begin, TypeInv, TypeOK
  <2>4. \A o, a : /\ Accepted(o, a)' = Accepted(o, a)
                     /\ \A d \in Accepted(o, a) : request'[d] = request[d]
    BY <2>1, <2>2, NoneAccepted
  <2>5. \A d \in Calls : status'[d] = "read" =>
            status[d] = "read" /\ UNCHANGED <<request[d], copy[d]>>
    BY <2>2, <2>3
  <2>6. QED
    BY <1>1, <2>4, <2>5, QuietStep DEF Begin
<1>2. ASSUME NEW c \in Calls, GetOrder(c) PROVE NothingInventedInv'
  <2>1. \E s \in {"read", "refused"} :
            /\ status' = [status EXCEPT ![c] = s]
            /\ s = "read" => /\ request[c].order_id \in Orders
                             /\ copy'[c] = store.orders[request[c].order_id]
    BY <1>2 DEF GetOrder, KnownOrder, TypeInv, TypeOK, Stores
  <2>2. /\ status[c] # "accepted" /\ UNCHANGED <<store, fixture, request>>
        /\ \A d \in Calls \ {c} : UNCHANGED <<status[d], copy[d]>>
    BY <1>2 DEF GetOrder, TypeInv, TypeOK
  <2>3. \A d \in Calls : status'[d] = "read" =>
            \/ /\ d = c /\ request[c].order_id \in Orders
               /\ request'[c] = request[c]
               /\ copy'[c] = store.orders[request[c].order_id]
            \/ status[d] = "read" /\ UNCHANGED <<request[d], copy[d]>>
    BY <2>1, <2>2 DEF TypeInv, TypeOK
  <2>4. \A o, a : /\ Accepted(o, a)' = Accepted(o, a)
                     /\ \A d \in Accepted(o, a) : request'[d] = request[d]
    BY <2>1, <2>2, NoneAccepted
  <2>5. QED
    BY <2>2, <2>3, <2>4, QuietStep
<1>3. ASSUME NEW c \in Calls, Reject(c) PROVE NothingInventedInv'
  <2>1. \A d \in Calls \ {c} : UNCHANGED status[d]
    BY <1>3 DEF Reject, TypeInv, TypeOK
  <2>2. status'[c] = "refused"
    BY <1>3 DEF Reject, TypeInv, TypeOK
  <2>3. \A o, a : /\ Accepted(o, a)' = Accepted(o, a)
                     /\ \A d \in Accepted(o, a) : request'[d] = request[d]
    BY <1>3, NoneAccepted DEF Reject
  <2>4. \A d \in Calls : status'[d] = "read" =>
            status[d] = "read" /\ UNCHANGED <<request[d], copy[d]>>
    BY <1>3, <2>1, <2>2 DEF Reject
  <2>5. QED
    BY <1>3, <2>3, <2>4, QuietStep DEF Reject
<1>4. ASSUME NEW c \in Calls, Write(c) PROVE NothingInventedInv'
  BY <1>4, WriteStep
<1>5. CASE UNCHANGED vars
  BY <1>5 DEF vars, NothingInventedInv, Explained, InvestigationsExact, Accepted
<1>6. QED
  BY <1>1, <1>2, <1>3, <1>4, <1>5 DEF Next, CallStep

\* However many calls overlap on however many orders, the store shows only
\* what accepted calls on the very order did, and every acknowledged
\* investigation.
THEOREM StoreInventsNothing == Spec => []NothingInvented
<1>1. Init => NothingInventedInv
  <2> SUFFICES ASSUME Init PROVE NothingInventedInv
    OBVIOUS
  <2>1. \A o, a : Accepted(o, a) = {}
    BY DEF Init, Accepted
  <2>2. QED
    BY <2>1 DEF Init, FreshStore, NothingInventedInv, Explained, InvestigationsExact
<1>2. NothingInventedInv => NothingInvented
  BY DEF NothingInventedInv, NothingInvented, Explained, InvestigationsExact
<1>3. QED
  BY <1>1, <1>2, InitType, NextType, InventsNothing, PTL DEF Spec

-----------------------------------------------------------------------------
\* Atomicity.

\* Calls under way together on one order are on record as overlapping, so the
\* copy of a call that overlaps no other is still its order's current record.
OverlapInv ==
    /\ \A c, d \in Calls :
           /\ UnderWay(c) /\ UnderWay(d)
           /\ request[c].order_id = request[d].order_id
           /\ c # d
           => {c, d} \in overlaps
    /\ \A c \in Calls :
           status[c] = "read" /\ ~Raced(c) => copy[c] = store.orders[request[c].order_id]

LEMMA KeepsOverlapInv == TypeInv /\ OverlapInv /\ [Next]_vars => OverlapInv'
<1> SUFFICES ASSUME TypeInv, OverlapInv, [Next]_vars PROVE OverlapInv'
  OBVIOUS
<1> USE DEF OverlapInv, UnderWay
<1>1. ASSUME NEW c \in Calls, NEW r \in StoreRequests, Begin(c, r) PROVE OverlapInv'
  <2>1. \A d \in Calls : /\ status'[d] = IF d = c THEN "called" ELSE status[d]
                         /\ request'[d] = IF d = c THEN r ELSE request[d]
    BY <1>1 DEF Begin, TypeInv, TypeOK
  <2>2. overlaps \subseteq overlaps' /\ UNCHANGED <<store, copy>>
    BY <1>1 DEF Begin
  <2>3. \A d \in Calls : UnderWay(d) /\ request[d].order_id = r.order_id =>
            {c, d} \in overlaps' /\ {d, c} \in overlaps'
    <3>1. ASSUME NEW d \in Calls, UnderWay(d), request[d].order_id = r.order_id
          PROVE  {c, d} \in overlaps'
      BY <1>1, <3>1 DEF Begin, Rivals
    <3>2. \A d : {c, d} = {d, c}
      OBVIOUS
    <3>3. QED
      BY <3>1, <3>2
  <2>4. ASSUME NEW a \in Calls, NEW b \in Calls, UnderWay(a)', UnderWay(b)',
               request'[a].order_id = request'[b].order_id, a # b
        PROVE  {a, b} \in overlaps'
    <3>1. CASE a = c
      BY <2>1, <2>3, <2>4, <3>1
    <3>2. CASE b = c
      BY <2>1, <2>3, <2>4, <3>2
    <3>3. CASE a # c /\ b # c
      BY <2>1, <2>2, <2>4, <3>3
    <3>4. QED
      BY <3>1, <3>2, <3>3
  <2>5. ASSUME NEW d \in Calls, status'[d] = "read", ~Raced(d)'
        PROVE  copy'[d] = store'.orders[request'[d].order_id]
    BY <2>1, <2>2, <2>5 DEF Raced
  <2>6. QED
    BY <2>4, <2>5
<1>2. ASSUME NEW c \in Calls, GetOrder(c) PROVE OverlapInv'
  <2>1. status[c] = "called" /\ UNCHANGED <<store, request>>
    BY <1>2 DEF GetOrder
  <2>2. \A d \in Calls \ {c} : UNCHANGED <<status[d], copy[d]>>
    BY <1>2 DEF GetOrder, TypeInv, TypeOK
  <2>3. status'[c] = "read" => copy'[c] = store.orders[request[c].order_id]
    BY <1>2 DEF GetOrder, TypeInv, TypeOK
  <2>4. UNCHANGED overlaps
    BY <1>2 DEF GetOrder
  <2>5. QED
    BY <2>1, <2>2, <2>3, <2>4 DEF Raced
<1>3. ASSUME NEW c \in Calls, Reject(c) PROVE OverlapInv'
  BY <1>3 DEF Reject, TypeInv, TypeOK, Raced
<1>4. ASSUME NEW c \in Calls, Write(c) PROVE OverlapInv'
  <2>1. \A d \in Calls : status'[d] = IF d = c THEN "accepted" ELSE status[d]
    BY <1>4 DEF Write, TypeInv, TypeOK
  <2>2. \A d \in Calls \ {c} : UnderWay(d) /\ ~Raced(d) =>
            request[d].order_id # request[c].order_id
    BY <1>4 DEF Write, Raced
  <2>3. \A o \in Orders \ {request[c].order_id} : store'.orders[o] = store.orders[o]
    BY <1>4 DEF Write, TypeInv, TypeOK, Stores, CreateBillingInvestigation,
                CreateProductInvestigation
  <2>4. \A d \in Calls : status[d] = "read" => request[d].order_id \in Orders
    BY DEF TypeInv, InHand
  <2>5. QED
    BY <1>4, <2>1, <2>2, <2>3, <2>4 DEF Write, Raced
<1>5. CASE UNCHANGED vars
  BY <1>5 DEF vars, Raced
<1>6. QED
  BY <1>1, <1>2, <1>3, <1>4, <1>5 DEF Next, CallStep

AtomicStatus == [c \in Calls |-> IF UnderWay(c) THEN "pending" ELSE status[c]]

\* What the atomic store permits is what the code's checks let through.
LEMMA PermitsMeansAcceptable ==
    ASSUME NEW r \in StoreRequests, store \in Stores
    PROVE  Atomic!Permits(store, r) <=>
               r.order_id \in Orders /\ Acceptable(r, store.orders[r.order_id])
<1>1. store.orders \in [Orders -> OrderRecords]
  BY DEF Stores
<1>2. r.ready /\ r.action_type \in ActionTypes
  BY DEF StoreRequests
<1>3. QED
  BY <1>1, <1>2
     DEF Atomic!Permits, Atomic!ExecutionFails, Atomic!CanCancel,
         Atomic!CanChangeAddress, Atomic!CanRefund, Atomic!KnownOrder,
         Atomic!CancellableStatuses, Atomic!AddressChangeableStatuses,
         Atomic!ApprovalRequiredActionTypes,
         Acceptable, CancellableStatuses, AddressChangeableStatuses, ActionTypes

\* Writing back the updated current record is the atomic store's operation.
LEMMA WriteIsEffect ==
    ASSUME TypeInv, OverlapInv, NEW c \in Calls, ~Raced(c), Write(c)
    PROVE  store' = Atomic!Effect(store, request[c])
<1> DEFINE r == request[c]
           o == r.order_id
<1>1. /\ r.action_type \in ActionTypes /\ o \in Orders /\ store \in Stores
      /\ copy[c] = store.orders[o]
  BY DEF Write, TypeInv, TypeOK, InHand, OverlapInv, StoreRequests
<1> USE DEF Atomic!Effect, Atomic!ExecuteAction
<1>2. CASE r.action_type = "investigate_billing"
  BY <1>2 DEF Write, CreateBillingInvestigation, Atomic!CreateBillingInvestigation
<1>3. CASE r.action_type = "investigate_product_issue"
  BY <1>3 DEF Write, CreateProductInvestigation, Atomic!CreateProductInvestigation
<1>4. CASE r.action_type = "cancel_order"
  BY <1>1, <1>4 DEF Write, Updated, Atomic!CancelOrder, Stores, OrderRecords
<1>5. CASE r.action_type = "change_address"
  BY <1>1, <1>5 DEF Write, Updated, Atomic!ChangeShippingAddress, Stores, OrderRecords
<1>6. CASE r.action_type = "issue_refund"
  BY <1>1, <1>6 DEF Write, Updated, Atomic!IssueFullRefund, Stores, OrderRecords
<1>7. QED
  BY <1>1, <1>2, <1>3, <1>4, <1>5, <1>6 DEF ActionTypes

LEMMA AtomicInit == Init => Atomic!Init
<1> SUFFICES ASSUME Init PROVE Atomic!Init
  OBVIOUS
<1>1. fixture \in [Orders -> OrderRecords]
  BY RaceAssumption DEF Init
<1>2. store = Atomic!FreshStore(fixture)
  BY DEF Init, FreshStore, Atomic!FreshStore
<1>3. fixture \in [Orders -> Atomic!OrderRecords]
  BY <1>1 DEF OrderRecords, Atomic!OrderRecords, OrderStatuses, Atomic!OrderStatuses,
              PaymentStatuses, Atomic!PaymentStatuses
<1>4. AtomicStatus = [c \in Calls |-> "new"]
  BY DEF Init, AtomicStatus, UnderWay
<1>5. QED
  BY <1>2, <1>3, <1>4 DEF Init, Atomic!Init, AtomicStatus

\* A step of a call that overlaps no other on its order is a step of the atomic
\* store or changes nothing of it.
LEMMA AtomicStep ==
    ASSUME TypeInv, OverlapInv, [Next]_vars,
           \A c \in Calls : status'[c] # status[c] => ~Raced(c)
    PROVE  [Atomic!Next]_Atomic!vars
<1>0. \A c \in Calls : AtomicStatus[c] = IF UnderWay(c) THEN "pending" ELSE status[c]
  BY DEF AtomicStatus
<1>1. ASSUME NEW c \in Calls, NEW r \in StoreRequests, Begin(c, r)
      PROVE  Atomic!Next
  <2>1. AtomicStatus[c] = "new"
    BY <1>1 DEF AtomicStatus, UnderWay, Begin
  <2>2. AtomicStatus' = [AtomicStatus EXCEPT ![c] = "pending"]
    BY <1>1 DEF AtomicStatus, UnderWay, Begin, TypeInv, TypeOK
  <2>3. Atomic!Begin(c, r)
    BY <1>1, <2>1, <2>2 DEF Begin, Atomic!Begin, AtomicStatus
  <2>4. r \in Atomic!StoreRequests
    BY DEF StoreRequests, Atomic!StoreRequests, ActionTypes, Atomic!ActionTypes
  <2>5. QED
    BY <2>3, <2>4 DEF Atomic!Next
<1>2. ASSUME NEW c \in Calls, UnderWay(c), status' = [status EXCEPT ![c] = "refused"],
             ~Atomic!Permits(store, request[c]), UNCHANGED <<store, request>>
      PROVE  Atomic!Next
  <2>1. AtomicStatus[c] = "pending"
    BY <1>2 DEF AtomicStatus
  <2>2. AtomicStatus' = [AtomicStatus EXCEPT ![c] = "refused"]
    BY <1>2 DEF AtomicStatus, UnderWay, TypeInv, TypeOK
  <2>3. Atomic!Refuse(c)
    BY <1>2, <2>1, <2>2 DEF Atomic!Refuse, AtomicStatus
  <2>4. QED
    BY <2>3 DEF Atomic!Next
<1>3. ASSUME NEW c \in Calls, GetOrder(c) PROVE [Atomic!Next]_Atomic!vars
  <2>1. store.orders \in [Orders -> OrderRecords] /\ request[c] \in StoreRequests
    BY <1>3 DEF TypeInv, TypeOK, InHand, GetOrder, Stores
  <2>2. CASE request[c].order_id \in Orders
    <3>1. status' = [status EXCEPT ![c] = "read"] /\ status[c] = "called"
      BY <1>3, <2>1, <2>2 DEF GetOrder, KnownOrder
    <3>2. AtomicStatus' = AtomicStatus
      BY <3>1 DEF AtomicStatus, UnderWay, TypeInv, TypeOK
    <3>3. QED
      BY <1>3, <3>2 DEF GetOrder, Atomic!vars, AtomicStatus
  <2>3. CASE request[c].order_id \notin Orders
    <3>1. status' = [status EXCEPT ![c] = "refused"] /\ UnderWay(c)
      BY <1>3, <2>1, <2>3 DEF GetOrder, KnownOrder, UnderWay
    <3>2. ~Atomic!Permits(store, request[c])
      BY <2>1, <2>3, PermitsMeansAcceptable DEF TypeInv, TypeOK
    <3>3. QED
      BY <1>2, <1>3, <3>1, <3>2 DEF GetOrder
  <2>4. QED
    BY <2>2, <2>3
<1>4. ASSUME NEW c \in Calls, Reject(c) PROVE Atomic!Next
  <2>0. ~Raced(c)
    BY <1>4 DEF Reject, TypeInv, TypeOK
  <2>1. /\ request[c] \in StoreRequests /\ request[c].order_id \in Orders
        /\ copy[c] = store.orders[request[c].order_id] /\ store \in Stores
    BY <1>4, <2>0 DEF Reject, TypeInv, TypeOK, InHand, OverlapInv
  <2>2. ~Atomic!Permits(store, request[c])
    BY <1>4, <2>1, PermitsMeansAcceptable DEF Reject
  <2>3. QED
    BY <1>2, <1>4, <2>2 DEF Reject, UnderWay
<1>5. ASSUME NEW c \in Calls, Write(c) PROVE Atomic!Next
  <2>0. ~Raced(c)
    BY <1>5 DEF Write, TypeInv, TypeOK
  <2>1. /\ request[c] \in StoreRequests /\ request[c].order_id \in Orders
        /\ copy[c] = store.orders[request[c].order_id] /\ store \in Stores
    BY <1>5, <2>0 DEF Write, TypeInv, TypeOK, InHand, OverlapInv
  <2>2. Atomic!Permits(store, request[c])
    BY <1>5, <2>1, PermitsMeansAcceptable DEF Write
  <2>3. store' = Atomic!Effect(store, request[c])
    BY <1>5, <2>0, WriteIsEffect
  <2>4. AtomicStatus[c] = "pending"
    BY <1>5 DEF AtomicStatus, Write, UnderWay
  <2>5. AtomicStatus' = [AtomicStatus EXCEPT ![c] = "accepted"]
    BY <1>5 DEF AtomicStatus, UnderWay, Write, TypeInv, TypeOK
  <2>6. Atomic!Perform(c)
    BY <1>5, <2>2, <2>3, <2>4, <2>5 DEF Write, Atomic!Perform, AtomicStatus
  <2>7. QED
    BY <2>6 DEF Atomic!Next
<1>6. CASE UNCHANGED vars
  BY <1>6 DEF vars, Atomic!vars, UnderWay
<1>7. QED
  BY <1>1, <1>3, <1>4, <1>5, <1>6 DEF Next, CallStep

\* A step is the step of one call.
LEMMA OneCaller ==
    ASSUME TypeInv, [Next]_vars, NEW c \in Calls, NEW d \in Calls,
           status'[c] # status[c], status'[d] # status[d]
    PROVE  c = d
<1>1. ~UNCHANGED vars
  BY DEF vars
<1>2. \E k \in Calls : \E s \in Statuses : status' = [status EXCEPT ![k] = s]
  BY <1>1 DEF Next, CallStep, Begin, GetOrder, Reject, Write, Statuses
<1>3. QED
  BY <1>2 DEF TypeInv, TypeOK

LEMMA OverlapInvHolds == Spec => [](TypeInv /\ OverlapInv)
<1>1. Init => OverlapInv
  BY DEF Init, OverlapInv, UnderWay
<1>2. QED
  BY <1>1, InitType, NextType, KeepsOverlapInv, PTL DEF Spec

\* A call that no other call on its order overlaps takes effect or is refused
\* at one moment, on the store of that moment, however many calls on other
\* orders interleave with it and whatever raced on its order before.
THEOREM StoreIsAtomic == Spec => AtomicUnlessRaced
<1> DEFINE Alone == \A c \in Calls :
               status'[c] # status[c] /\ ~Raced(c) =>
                   Atomic!Next \/ UNCHANGED Atomic!vars
<1>1. TypeInv /\ OverlapInv /\ [Next]_vars => Alone
  <2> SUFFICES ASSUME TypeInv, OverlapInv, [Next]_vars, NEW c \in Calls,
                      status'[c] # status[c], ~Raced(c)
               PROVE  Atomic!Next \/ UNCHANGED Atomic!vars
    OBVIOUS
  <2>1. \A d \in Calls : status'[d] # status[d] => ~Raced(d)
    BY OneCaller
  <2>2. QED
    BY <2>1, AtomicStep
<1>2. QED
  BY <1>1, AtomicInit, OverlapInvHolds, PTL DEF Spec, AtomicUnlessRaced

\* Callers that keep calls on one order apart have the atomic store: calls on
\* different orders may interleave freely.
THEOREM StoreIsAtomicForOrderlyCallers ==
    Spec /\ [](overlaps = {}) => Atomic!Spec
<1>1. TypeInv /\ OverlapInv /\ overlaps = {} /\ [Next]_vars => [Atomic!Next]_Atomic!vars
  <2>1. overlaps = {} => \A c \in Calls : ~Raced(c)
    BY DEF Raced
  <2>2. QED
    BY <2>1, AtomicStep
<1>2. QED
  BY <1>1, AtomicInit, OverlapInvHolds, PTL DEF Spec, Atomic!Spec

-----------------------------------------------------------------------------
\* What is acknowledged is kept.

\* Whether a record shows the effect of call c, or of a later address change.
Shows(c, is) ==
    CASE request[c].action_type = "cancel_order" -> is.status = "cancelled"
      [] request[c].action_type = "issue_refund" -> is.payment_status = "refunded"
      [] request[c].action_type = "change_address" ->
            \E d \in Accepted(request[c].order_id, "change_address") :
                is.shipping_address = request[d].new_shipping_address
      [] OTHER -> TRUE

KeepsEffect(c) ==
    /\ request[c].order_id \in Orders => Shows(c, store.orders[request[c].order_id])
    /\ \A d \in Calls : status[d] = "read" /\ request[d].order_id = request[c].order_id =>
           Shows(c, copy[d])

OnceTypes == {"cancel_order", "issue_refund"}

\* LostOnlyToOverlap is not inductive: a copy read before the effect would
\* undo it, so every copy in hand must show it too.  That nobody holds an
\* older one when c writes is what OverlapInv says.
KeptInv ==
    \A c \in Calls : status[c] = "accepted" =>
        /\ request[c].order_id \in Orders
        /\ ~Raced(c) => KeepsEffect(c)
        /\ request[c].action_type \in OnceTypes =>
               \A d \in Accepted(request[c].order_id, request[c].action_type) \ {c} :
                   Raced(c) \/ Raced(d)

\* A record goes on showing an effect while accepted calls stay accepted.
LEMMA StillShows ==
    ASSUME NEW c \in Calls, NEW is, Shows(c, is), request'[c] = request[c],
           \A d \in Accepted(request[c].order_id, "change_address") :
               d \in Accepted(request[c].order_id, "change_address")' /\ request'[d] = request[d]
    PROVE  Shows(c, is)'
  BY DEF Shows

\* What is shown on a copy survives the update of another accepted call.
LEMMA UpdateShows ==
    ASSUME TypeInv, NEW c \in Calls, NEW d \in Calls, Write(d),
           request[d].order_id = request[c].order_id,
           request[d].action_type \notin {"investigate_billing", "investigate_product_issue"},
           Shows(c, copy[d]) \/ c = d
    PROVE  Shows(c, Updated(request[d], copy[d]))'
<1> DEFINE r == request[d]
           o == r.order_id
           new == Updated(r, copy[d])
<1>1. /\ r \in StoreRequests /\ copy[d] \in OrderRecords /\ r.action_type \in ActionTypes
      /\ UNCHANGED <<request, copy>>
  BY DEF Write, TypeInv, InHand, StoreRequests
<1>2. \A p, a : Accepted(p, a)' =
          IF p = o /\ a = r.action_type THEN Accepted(p, a) \cup {d} ELSE Accepted(p, a)
  BY OneAccepted DEF Write
<1>3. Shows(c, copy[d]) => Shows(c, copy[d])'
  BY <1>1, <1>2 DEF Shows
<1>4. CASE r.action_type = "cancel_order"
  <2>1. new = [copy[d] EXCEPT !.status = "cancelled"]
    BY <1>4 DEF Updated
  <2>2. /\ new.status = "cancelled" /\ new.payment_status = copy[d].payment_status
        /\ new.shipping_address = copy[d].shipping_address
    BY <1>1, <2>1 DEF OrderRecords
  <2>3. QED
    BY <1>1, <1>3, <1>4, <2>2 DEF Shows
<1>5. CASE r.action_type = "issue_refund"
  <2>1. new = [copy[d] EXCEPT !.payment_status = "refunded"]
    BY <1>5 DEF Updated
  <2>2. /\ new.payment_status = "refunded" /\ new.status = copy[d].status
        /\ new.shipping_address = copy[d].shipping_address
    BY <1>1, <2>1 DEF OrderRecords
  <2>3. QED
    BY <1>1, <1>3, <1>5, <2>2 DEF Shows
<1>6. CASE r.action_type = "change_address"
  <2>1. new = [copy[d] EXCEPT !.shipping_address = r.new_shipping_address]
    BY <1>6 DEF Updated
  <2>2. /\ new.shipping_address = r.new_shipping_address /\ new.status = copy[d].status
        /\ new.payment_status = copy[d].payment_status
    BY <1>1, <2>1 DEF OrderRecords
  <2>3. d \in Accepted(request[c].order_id, "change_address")'
    BY <1>1, <1>2, <1>6
  <2>4. CASE request[c].action_type = "change_address"
    BY <1>1, <2>2, <2>3, <2>4 DEF Shows
  <2>5. CASE request[c].action_type # "change_address"
    BY <1>1, <1>6, <2>2, <2>5 DEF Shows
  <2>6. QED
    BY <2>4, <2>5
<1>7. QED
  BY <1>1, <1>4, <1>5, <1>6 DEF ActionTypes

\* A call that does not write keeps every effect: it holds an old copy or
\* reads the current record.
LEMMA QuietKeeps ==
    ASSUME TypeInv, KeptInv, UNCHANGED store, overlaps \subseteq overlaps',
           \A d \in Calls : status'[d] = "accepted" =>
               status[d] = "accepted" /\ request'[d] = request[d],
           \A o, a : /\ Accepted(o, a)' = Accepted(o, a)
                     /\ \A d \in Accepted(o, a) : request'[d] = request[d],
           \A d \in Calls : status'[d] = "read" =>
               /\ request'[d] = request[d]
               /\ \/ copy'[d] = store.orders[request[d].order_id]
                  \/ status[d] = "read" /\ copy'[d] = copy[d]
    PROVE  KeptInv'
<1> SUFFICES ASSUME NEW c \in Calls, status'[c] = "accepted"
             PROVE  /\ request'[c].order_id \in Orders
                    /\ ~Raced(c)' => KeepsEffect(c)'
                    /\ request'[c].action_type \in OnceTypes =>
                           \A d \in Accepted(request[c].order_id,
                                             request[c].action_type)' \ {c} :
                               Raced(c)' \/ Raced(d)'
  BY DEF KeptInv
<1>1. /\ status[c] = "accepted" /\ request'[c] = request[c] /\ request[c].order_id \in Orders
  BY DEF KeptInv
<1>2. \A d : Raced(d) => Raced(d)'
  BY DEF Raced
<1>3. \A is : Shows(c, is) => Shows(c, is)'
  BY <1>1, StillShows
<1>4. ASSUME ~Raced(c)' PROVE KeepsEffect(c)'
  <2>1. KeepsEffect(c)
    BY <1>1, <1>2, <1>4 DEF KeptInv
  <2>2. \A d \in Calls : status'[d] = "read" /\ request'[d].order_id = request[c].order_id =>
            Shows(c, copy'[d])
    BY <1>1, <2>1 DEF KeepsEffect
  <2>3. QED
    BY <1>1, <1>3, <2>1, <2>2 DEF KeepsEffect
<1>5. Accepted(request[c].order_id, request[c].action_type)' =
      Accepted(request[c].order_id, request[c].action_type)
  <2>1. \A o, a : Accepted(o, a)' = {d \in Calls : /\ status'[d] = "accepted"
                                                  /\ request'[d].order_id = o
                                                  /\ request'[d].action_type = a}
    BY DEF Accepted
  <2>2. QED
    BY <1>1, <2>1 DEF Accepted
<1>6. QED
  BY <1>1, <1>2, <1>4, <1>5 DEF KeptInv

LEMMA WriteKeeps ==
    ASSUME TypeInv, OverlapInv, KeptInv, NEW w \in Calls, Write(w)
    PROVE  KeptInv'
<1> DEFINE r == request[w]
           o == r.order_id
<1>1. /\ r \in StoreRequests /\ o \in Orders /\ r.action_type \in ActionTypes
      /\ store \in Stores /\ UNCHANGED <<request, copy, overlaps>>
      /\ status[w] = "read" /\ Acceptable(r, copy[w])
      /\ \A d \in Calls : status'[d] = IF d = w THEN "accepted" ELSE status[d]
  BY DEF Write, TypeInv, TypeOK, InHand, StoreRequests
<1>2. \A p, a : Accepted(p, a)' =
          IF p = o /\ a = r.action_type THEN Accepted(p, a) \cup {w} ELSE Accepted(p, a)
  BY OneAccepted DEF Write
<1>3. \A c : Raced(c)' <=> Raced(c)
  BY <1>1 DEF Raced
<1>4. ASSUME NEW c \in Calls, ~Raced(c), status[c] = "accepted" \/ c = w
      PROVE  KeepsEffect(c)'
  <2>1. \A is : Shows(c, is) => Shows(c, is)'
    BY <1>1, <1>2 DEF Shows
  <2>2. status[c] = "accepted" => KeepsEffect(c)
    BY <1>4 DEF KeptInv
  <2>3. ASSUME NEW d \in Calls, status'[d] = "read", request[d].order_id = request[c].order_id
        PROVE  Shows(c, copy[d])'
    <3>1. status[d] = "read" /\ d # w
      BY <1>1, <2>3
    <3>2. c # w
      BY <1>1, <1>4, <2>3, <3>1 DEF OverlapInv, UnderWay, Raced
    <3>3. QED
      BY <1>1, <1>4, <2>1, <2>2, <2>3, <3>1, <3>2 DEF KeepsEffect
  <2>4. ASSUME request[c].order_id \in Orders
        PROVE  Shows(c, store.orders[request[c].order_id])'
    <3>1. CASE request[c].order_id = o /\
               r.action_type \notin {"investigate_billing", "investigate_product_issue"}
      <4>1. Shows(c, copy[w]) \/ c = w
        BY <1>1, <1>4, <2>2, <3>1 DEF KeepsEffect
      <4>2. Shows(c, Updated(r, copy[w]))'
        BY <3>1, <4>1, UpdateShows
      <4>3. store'.orders[o] = Updated(r, copy[w])
        BY <1>1, <3>1 DEF Write, Stores
      <4>4. QED
        BY <1>1, <3>1, <4>2, <4>3
    <3>2. CASE request[c].order_id # o \/
               r.action_type \in {"investigate_billing", "investigate_product_issue"}
      <4>1. store'.orders[request[c].order_id] = store.orders[request[c].order_id]
        BY <1>1, <2>4, <3>2
           DEF Write, Stores, CreateBillingInvestigation, CreateProductInvestigation
      <4>2. Shows(c, store.orders[request[c].order_id])
        <5>1. CASE c = w
          BY <3>2, <5>1 DEF Shows
        <5>2. CASE c # w
          BY <1>4, <2>2, <2>4, <5>2 DEF KeepsEffect
        <5>3. QED
          BY <5>1, <5>2
      <4>3. QED
        BY <1>1, <2>1, <4>1, <4>2
    <3>3. QED
      BY <3>1, <3>2
  <2>5. QED
    BY <1>1, <2>3, <2>4 DEF KeepsEffect
\* What an accepted call did is on the copy of w, unless that call was raced.
<1>5. ASSUME NEW c \in Calls, status[c] = "accepted", request[c].order_id = o,
             request[c].action_type = r.action_type, r.action_type \in OnceTypes
      PROVE  Raced(c)
  <2>1. SUFFICES ASSUME ~Raced(c) PROVE FALSE
    OBVIOUS
  <2>2. Shows(c, copy[w])
    BY <1>1, <1>5, <2>1 DEF KeptInv, KeepsEffect
  <2>3. QED
    BY <1>1, <1>5, <2>2 DEF Shows, Acceptable, OnceTypes, CancellableStatuses
<1>6. SUFFICES ASSUME NEW c \in Calls, status'[c] = "accepted"
               PROVE  /\ request[c].order_id \in Orders
                      /\ ~Raced(c) => KeepsEffect(c)'
                      /\ request[c].action_type \in OnceTypes =>
                             \A d \in Accepted(request[c].order_id,
                                               request[c].action_type)' \ {c} :
                                 Raced(c) \/ Raced(d)
  BY <1>1, <1>3 DEF KeptInv
<1>7. status[c] = "accepted" \/ c = w
  BY <1>1, <1>6
<1>8. request[c].order_id \in Orders
  BY <1>1, <1>7 DEF KeptInv
<1>9. ASSUME request[c].action_type \in OnceTypes,
             NEW d \in Accepted(request[c].order_id, request[c].action_type)' \ {c}
      PROVE  Raced(c) \/ Raced(d)
  <2>1. CASE c = w
    <3>1. d \in Accepted(o, r.action_type)
      BY <1>1, <1>2, <1>9, <2>1
    <3>2. QED
      BY <1>5, <1>9, <2>1, <3>1 DEF Accepted
  <2>2. CASE c # w /\ d = w
    <3>1. request[c].order_id = o /\ request[c].action_type = r.action_type
      BY <1>1, <1>9, <2>2 DEF Accepted
    <3>2. QED
      BY <1>5, <1>7, <1>9, <2>2, <3>1
  <2>3. CASE c # w /\ d # w
    <3>1. d \in Accepted(request[c].order_id, request[c].action_type) \ {c}
      BY <1>1, <1>2, <1>9, <2>3
    <3>2. QED
      BY <1>7, <1>9, <2>3, <3>1 DEF KeptInv
  <2>4. QED
    BY <2>1, <2>2, <2>3
<1>10. QED
  BY <1>4, <1>7, <1>8, <1>9

LEMMA KeepsKept == TypeInv /\ OverlapInv /\ KeptInv /\ [Next]_vars => KeptInv'
<1> SUFFICES ASSUME TypeInv, OverlapInv, KeptInv, [Next]_vars PROVE KeptInv'
  OBVIOUS
<1>1. ASSUME NEW c \in Calls, NEW r \in StoreRequests, Begin(c, r) PROVE KeptInv'
  <2>1. /\ status[c] = "new" /\ UNCHANGED <<store, copy>> /\ overlaps \subseteq overlaps'
        /\ status' = [status EXCEPT ![c] = "called"]
    BY <1>1 DEF Begin
  <2>2. \A d \in Calls : /\ status'[d] = IF d = c THEN "called" ELSE status[d]
                         /\ d # c => request'[d] = request[d]
    BY <1>1 DEF Begin, TypeInv, TypeOK
  <2>3. \A o, a : /\ Accepted(o, a)' = Accepted(o, a)
                  /\ \A d \in Accepted(o, a) : request'[d] = request[d]
    BY <2>1, <2>2, NoneAccepted
  <2>4. QED
    BY <2>1, <2>2, <2>3, QuietKeeps
<1>2. ASSUME NEW c \in Calls, GetOrder(c) PROVE KeptInv'
  <2>1. \E s \in {"read", "refused"} :
            /\ status' = [status EXCEPT ![c] = s]
            /\ s = "read" => copy'[c] = store.orders[request[c].order_id]
    BY <1>2 DEF GetOrder, KnownOrder, TypeInv, TypeOK, Stores
  <2>2. /\ status[c] = "called" /\ UNCHANGED <<store, request, overlaps>>
        /\ \A d \in Calls \ {c} : UNCHANGED <<status[d], copy[d]>>
    BY <1>2 DEF GetOrder, TypeInv, TypeOK
  <2>3. \A o, a : /\ Accepted(o, a)' = Accepted(o, a)
                  /\ \A d \in Accepted(o, a) : request'[d] = request[d]
    BY <2>1, <2>2, NoneAccepted
  <2>4. \A d \in Calls : status'[d] = "read" =>
            \/ copy'[d] = store.orders[request[d].order_id]
            \/ status[d] = "read" /\ copy'[d] = copy[d]
    BY <2>1, <2>2 DEF TypeInv, TypeOK
  <2>5. \A d \in Calls : status'[d] = "accepted" => status[d] = "accepted"
    BY <2>1, <2>2 DEF TypeInv, TypeOK
  <2>6. QED
    BY <2>2, <2>3, <2>4, <2>5, QuietKeeps
<1>3. ASSUME NEW c \in Calls, Reject(c) PROVE KeptInv'
  <2>1. /\ status[c] = "read" /\ UNCHANGED <<store, request, copy, overlaps>>
        /\ status' = [status EXCEPT ![c] = "refused"]
        /\ \A d \in Calls : status'[d] = IF d = c THEN "refused" ELSE status[d]
    BY <1>3 DEF Reject, TypeInv, TypeOK
  <2>2. \A o, a : /\ Accepted(o, a)' = Accepted(o, a)
                  /\ \A d \in Accepted(o, a) : request'[d] = request[d]
    BY <2>1, NoneAccepted
  <2>3. QED
    BY <2>1, <2>2, QuietKeeps
<1>4. ASSUME NEW c \in Calls, Write(c) PROVE KeptInv'
  BY <1>4, WriteKeeps
<1>5. CASE UNCHANGED vars
  BY <1>5 DEF vars, KeptInv, KeepsEffect, Shows, Raced, Accepted
<1>6. QED
  BY <1>1, <1>2, <1>3, <1>4, <1>5 DEF Next, CallStep

\* For any number of calls: an acknowledged operation disappears from the store
\* only if its call overlapped another one on its order, and a cancellation or
\* a refund is acknowledged twice only if one of the two calls did.
THEOREM StoreLosesOnlyToOverlap == Spec => []LostOnlyToOverlap
<1>1. Init => KeptInv
  BY DEF Init, KeptInv
<1>2. KeptInv => LostOnlyToOverlap
  <2> SUFFICES ASSUME KeptInv, NEW c \in Calls, status[c] = "accepted"
               PROVE  /\ ~Visible(c) => Raced(c)
                      /\ request[c].action_type \in {"cancel_order", "issue_refund"} =>
                             \A d \in Accepted(request[c].order_id, request[c].action_type)
                                      \ {c} : Raced(c) \/ Raced(d)
    BY DEF LostOnlyToOverlap
  <2>1. ~Raced(c) => Shows(c, store.orders[request[c].order_id])
    BY DEF KeptInv, KeepsEffect
  <2>2. Visible(c) <=> Shows(c, store.orders[request[c].order_id])
    BY DEF Visible, Shows
  <2>3. QED
    BY <2>1, <2>2 DEF KeptInv, OnceTypes
<1>3. QED
  BY <1>1, <1>2, InitType, NextType, OverlapInvHolds, KeepsKept, PTL DEF Spec

=============================================================================
