--------------------------- MODULE BillingProofs ---------------------------
(***************************************************************************)
(* Proofs about Billing, for any number of subscriptions, Stripe customer  *)
(* ids, concurrent handlers, events and failed deliveries: type            *)
(* correctness, who may pay for what, and that the customer's row catches  *)
(* up with Stripe when nothing overlapped.                                 *)
(***************************************************************************)
EXTENDS Billing, FiniteSetTheorems, TLAPS

CheckoutPcs == {"getcustomer", "mint", "link", "session"}
WebhookPcs == {"read", "write", "push"}
Proc == {Idle} \cup [pc : {"getcustomer", "mint"}]
          \cup [pc : {"link", "session"}, owner : StripeIds]
          \cup [pc : {"read", "push"}, e : Event]
          \cup [pc : {"write"}, e : Event, row : Account]

(* The events that may still be applied: unacknowledged, or in a handler.  *)
Handlers == {w \in Workers : proc[w].pc \in WebhookPcs}
Known == events \cup {proc[w].e : w \in Handlers}
Numbered == \A e \in Known : e.n \in 1 .. sent

BillingTypeInv == TypeOK /\ proc \in [Workers -> Proc] /\ Numbered

(* Without a second checkout there is one purchase at a time.              *)
Alive(s) == sub[s] # None /\ sub[s].status # "canceled"
CheckingOut(w) == proc[w].pc \in CheckoutPcs
OnePurchase ==
  /\ \A v, w \in Workers : CheckingOut(v) /\ CheckingOut(w) => v = w
  /\ \A w \in Workers, s \in Subs : CheckingOut(w) => ~Alive(s)
  /\ \A r, s \in Subs : Alive(r) /\ Alive(s) => r = s

(* Without a second first checkout there is one Stripe customer.           *)
OneCustomer ==
  /\ \A s \in Subs : sub[s] # None => sub[s].owner = account.stripe
  /\ \A w \in Workers : proc[w].pc = "session" => proc[w].owner = account.stripe
  /\ \A e \in Known : e.owner = account.stripe

(* What Stripe knows of a subscription that was paid once.                 *)
Sold(s) == sub[s] # None /\ sub[s].status # "open"
Reflects(e) ==
  IF sub[e.s].status = "canceled" THEN e.kind = "deleted"
  ELSE e.kind = "updated" /\ e.status = sub[e.s].status /\ e.price = sub[e.s].price
Matches(s) ==
  /\ account.status = sub[s].status
  /\ account.plan = IF Paying(s) THEN PlanForPrice(sub[s].price) ELSE "free"

(* No event of s that may still be applied is newer than n, and one that   *)
(* is n's says what Stripe says now.                                       *)
Newest(s, n) == \A e \in Known : e.s = s => e.n <= n /\ (e.n = n => Reflects(e))
(* Stripe still has an event to deliver that brings the row up to date, or *)
(* the row is up to date.                                                  *)
Pending(s) == \E e \in events : e.s = s /\ Reflects(e) /\ Newest(s, e.n)
Done(s) == (account.sub = s => Matches(s)) /\ Newest(s, applied)

InStep ==
  /\ \A e \in Known : Sold(e.s)
  /\ \A s \in Subs : account.sub = s => Sold(s)
  /\ \A s \in Subs : Sold(s) => Pending(s) \/ Done(s)
  /\ \A w \in Workers : proc[w].pc = "push" =>
       LET e == proc[w].e IN
         e.n <= applied /\ (Reflects(e) /\ Newest(e.s, e.n) => Done(e.s))
  /\ \A s \in Subs : Paying(s) => \A d, e \in Known : d.s # s /\ e.s = s => d.n < e.n
  /\ \A s \in Subs : Paying(s) /\ account.sub = s => \A d \in Known : d.s # s => d.n < applied

(* The inductive invariant.                                                *)
BillingInv ==
  /\ BillingTypeInv
  /\ Without({"second"}) => OnePurchase
  /\ Without({"raced"}) => OneCustomer
  /\ Without({"disordered", "second", "raced"}) => InStep
----------------------------------------------------------------------------
(* Shapes.                                                                 *)

LEMMA ProcShape ==
  ASSUME proc \in [Workers -> Proc], NEW w \in Workers
  PROVE  /\ proc[w].pc \in {"idle"} \cup CheckoutPcs \cup WebhookPcs
         /\ proc[w] = Idle => proc[w].pc = "idle"
         /\ proc[w].pc \in {"link", "session"} =>
              proc[w] \in [pc : {"link", "session"}, owner : StripeIds]
         /\ proc[w].pc \in WebhookPcs => proc[w].e \in Event
         /\ proc[w].pc = "write" => proc[w].row \in Account
  <1>1. proc[w] \in Proc
    OBVIOUS
  <1>2. CASE proc[w] = Idle
    BY <1>2 DEF Idle, CheckoutPcs, WebhookPcs
  <1>3. CASE proc[w] \in [pc : {"getcustomer", "mint"}]
    BY <1>3 DEF Idle, CheckoutPcs, WebhookPcs
  <1>4. CASE proc[w] \in [pc : {"link", "session"}, owner : StripeIds]
    BY <1>4 DEF Idle, CheckoutPcs, WebhookPcs
  <1>5. CASE proc[w] \in [pc : {"read", "push"}, e : Event]
    BY <1>5 DEF Idle, CheckoutPcs, WebhookPcs
  <1>6. CASE proc[w] \in [pc : {"write"}, e : Event, row : Account]
    BY <1>6 DEF Idle, CheckoutPcs, WebhookPcs
  <1>7. QED
    BY <1>1, <1>2, <1>3, <1>4, <1>5, <1>6 DEF Proc

LEMMA ProcChange ==
  ASSUME proc \in [Workers -> Proc], NEW w \in Workers, NEW r \in Proc,
         proc' = [proc EXCEPT ![w] = r]
  PROVE  /\ proc' \in [Workers -> Proc] /\ proc'[w] = r
         /\ \A v \in Workers \ {w} : proc'[v] = proc[v]
  OBVIOUS

LEMMA KnownShape ==
  ASSUME BillingTypeInv, NEW e \in Known
  PROVE  e \in Event /\ e.s \in Subs /\ e.owner \in StripeIds /\ e.n \in Nat /\ e.n <= sent
  <1>1. e \in Event
    <2>1. \A w \in Handlers : proc[w].e \in Event
      BY ProcShape DEF BillingTypeInv, Handlers
    <2>2. QED
      BY <2>1 DEF BillingTypeInv, TypeOK, Known
  <1>2. e.n \in 1 .. sent
    BY DEF BillingTypeInv, Numbered
  <1>3. sent \in Nat
    BY BillingAssumption DEF BillingTypeInv, TypeOK
  <1>4. QED
    BY <1>1, <1>2, <1>3 DEF Event

LEMMA Limited ==
  ASSUME BillingTypeInv
  PROVE  /\ limit.events \in Nat /\ limit.subs \subseteq Subs /\ limit.failures \in Nat
         /\ sent \in Nat /\ applied \in Nat /\ applied <= sent /\ sent <= limit.events
  <1>1. limit \in [subs : SUBSET Subs, events : Nat, failures : Nat]
    BY BillingAssumption DEF BillingTypeInv, TypeOK
  <1>2. limit.events \in Nat /\ limit.subs \subseteq Subs /\ limit.failures \in Nat
    BY <1>1
  <1>3. sent \in Nat /\ sent <= limit.events
    BY <1>2 DEF BillingTypeInv, TypeOK
  <1>4. QED
    BY <1>2, <1>3 DEF BillingTypeInv, TypeOK

----------------------------------------------------------------------------
(* What Stripe does: one live subscription changes and events tell of it,  *)
(* the last of them with what it is now.                                   *)

Tells(s) ==
  /\ sub' \in [Subs -> Subscription \cup {None}]
  /\ \A x \in Subs : x # s => sub'[x] = sub[x]
  /\ Alive(s) /\ sub'[s] \in Subscription /\ sub'[s].status # "open"
  /\ sub'[s].owner = sub[s].owner
  /\ sent < sent' /\ sent' \in 0 .. limit.events
  /\ \E new \in SUBSET Event :
       /\ events' = events \cup new
       /\ \E f \in new : f.n = sent'
       /\ \A e \in new : /\ e.s = s /\ e.owner = sub[s].owner /\ sent < e.n /\ e.n <= sent'
                         /\ e.n = sent' => Reflects(e)'
  /\ StripeOnly

LEMMA OneEvent ==
  ASSUME BillingTypeInv, NEW s \in Subs, NEW kind \in {"updated", "deleted"},
         sub[s] \in Subscription, NEW new \in Subscription, sub' = [sub EXCEPT ![s] = new],
         new.owner = sub[s].owner, new.status \in Statuses, Alive(s),
         kind = "deleted" <=> new.status = "canceled",
         Emit(s, {kind}), StripeOnly
  PROVE  Tells(s)
  <1> DEFINE e == [n |-> sent', kind |-> kind, s |-> s, owner |-> sub[s].owner,
                   status |-> sub'[s].status, price |-> sub'[s].price]
  <1>1. sent' = sent + 1 /\ sent' <= limit.events
    BY FS_Singleton DEF Emit
  <1>2. /\ sub' \in [Subs -> Subscription \cup {None}] /\ sub'[s] = new
        /\ \A x \in Subs : x # s => sub'[x] = sub[x]
    BY DEF BillingTypeInv, TypeOK
  <1>3. sent' \in 0 .. limit.events /\ sent < sent' /\ sent' \in Nat
    BY <1>1, Limited
  <1>4. events' = events \cup {e}
    BY DEF Emit
  <1>5. e \in Event
    BY <1>2, <1>3 DEF Event, Subscription
  <1>6. /\ {e} \in SUBSET Event /\ \E f \in {e} : f.n = sent'
        /\ \A d \in {e} : /\ d.s = s /\ d.owner = sub[s].owner /\ sent < d.n /\ d.n <= sent'
                          /\ d.n = sent' => Reflects(d)'
    <2>1. \A d \in {e} : d = e
      OBVIOUS
    <2>2. e.s = s /\ e.owner = sub[s].owner /\ e.n = sent'
      OBVIOUS
    <2>3. \A d \in {e} : Reflects(d)'
      BY <1>2 DEF Reflects
    <2>4. QED
      BY <1>3, <1>5, <2>1, <2>2, <2>3
  <1> HIDE DEF e
  <1>7. QED
    BY <1>2, <1>3, <1>4, <1>6 DEF Tells, Statuses
LEMMA StripeTells ==
  ASSUME BillingTypeInv, NEW s \in Subs, Pay(s) \/ Change(s) \/ Cancel(s)
  PROVE  Tells(s)
  <1>1. sub[s] \in Subscription /\ Alive(s)
    BY NoneAssumption DEF BillingTypeInv, TypeOK, Pay, Change, Cancel, Paying, Alive
  <1>2. CASE Change(s)
    <2>1. PICK status \in {"active", "past_due"}, price \in Prices :
            sub' = [sub EXCEPT ![s].status = status, ![s].price = price]
      BY <1>2 DEF Change
    <2> DEFINE new == [sub[s] EXCEPT !.status = status, !.price = price]
    <2>2. new \in Subscription /\ new.owner = sub[s].owner /\ new.status = status
      BY <1>1 DEF Subscription, Statuses
    <2>3. sub' = [sub EXCEPT ![s] = new]
      BY <2>1 DEF BillingTypeInv, TypeOK
    <2> HIDE DEF new
    <2>4. Emit(s, {"updated"}) /\ StripeOnly
      BY <1>2 DEF Change
    <2>5. QED
      BY <1>1, <2>2, <2>3, <2>4, OneEvent DEF Statuses
  <1>3. CASE Cancel(s)
    <2> DEFINE new == [sub[s] EXCEPT !.status = "canceled"]
    <2>1. new \in Subscription /\ new.owner = sub[s].owner /\ new.status = "canceled"
      BY <1>1 DEF Subscription, Statuses
    <2>2. sub' = [sub EXCEPT ![s] = new]
      BY <1>3 DEF Cancel, BillingTypeInv, TypeOK
    <2> HIDE DEF new
    <2>3. Emit(s, {"deleted"}) /\ StripeOnly
      BY <1>3 DEF Cancel
    <2>4. QED
      BY <1>1, <2>1, <2>2, <2>3, OneEvent DEF Statuses
  <1>4. CASE Pay(s)
    <2> DEFINE new == [sub[s] EXCEPT !.status = "active"]
    <2>1. /\ new \in Subscription /\ new.owner = sub[s].owner /\ new.status = "active"
          /\ new.price \in Prices
      BY <1>1 DEF Subscription, Statuses
    <2>2. sub' = [sub EXCEPT ![s] = new]
      BY <1>4 DEF Pay, BillingTypeInv, TypeOK
    <2> HIDE DEF new
    <2>3. /\ sub' \in [Subs -> Subscription \cup {None}] /\ sub'[s] = new
          /\ \A x \in Subs : x # s => sub'[x] = sub[x]
      BY <2>1, <2>2 DEF BillingTypeInv, TypeOK
    <2>4. Emit(s, {"completed", "updated"}) /\ StripeOnly
      BY <1>4 DEF Pay
    <2>5. Cardinality({"completed", "updated"}) = 2
      <3>1. Cardinality({"completed"}) = 1 /\ IsFiniteSet({"completed"})
        BY FS_Singleton
      <3>2. {"completed", "updated"} = {"completed"} \cup {"updated"}
        OBVIOUS
      <3>3. Cardinality({"completed"} \cup {"updated"}) = Cardinality({"completed"}) + 1
        BY <3>1, FS_AddElement
      <3>4. QED
        BY <3>1, <3>2, <3>3
    <2>6. sent' = sent + 2 /\ sent' <= limit.events
      BY <2>4, <2>5 DEF Emit
    <2>7. sent' \in 0 .. limit.events /\ sent < sent' /\ sent' \in Nat
      BY <2>6, Limited
    <2> DEFINE Told(n, kind) ==
                 [n |-> n, kind |-> kind, s |-> s, owner |-> sub[s].owner,
                  status |-> new.status, price |-> new.price]
               first == Told(sent + 1, "completed")
               last == Told(sent', "updated")
               told == {first, last}
    <2>8. events' = events \cup told
      BY <2>3, <2>4 DEF Emit
    <2>9. first \in Event /\ last \in Event
      BY <1>1, <2>1, <2>7, Limited DEF Event, Subscription, Statuses
    <2>10. \A e \in told : /\ e.s = s /\ e.owner = sub[s].owner /\ sent < e.n /\ e.n <= sent'
      BY <2>6, <2>7, Limited
    <2>11. \A e \in told : e.n = sent' => e = last
      BY <2>6, Limited
    <2>12. \A e : e = last => Reflects(e)'
      BY <2>1, <2>3 DEF Reflects
    <2>13. told \in SUBSET Event /\ \E f \in told : f.n = sent'
      BY <2>9
    <2> HIDE DEF told, last, first
    <2>14. QED
      BY <1>1, <2>1, <2>3, <2>4, <2>7, <2>8, <2>10, <2>11, <2>12, <2>13 DEF Tells
  <1>5. QED
    BY <1>2, <1>3, <1>4

LEMMA TellsType ==
  ASSUME BillingTypeInv, NEW s \in Subs, Tells(s)
  PROVE  /\ BillingTypeInv' /\ Known \subseteq Known'
         /\ \A e \in Known' : \/ e \in Known
                              \/ /\ e \in events' /\ e.s = s /\ e.owner = sub[s].owner
                                 /\ sent < e.n /\ e.n <= sent'
                                 /\ e.n = sent' => Reflects(e)'
         /\ \E f \in events' : f.n = sent' /\ f.s = s /\ Reflects(f)'
  <1>1. PICK new \in SUBSET Event :
          /\ events' = events \cup new
          /\ \E f \in new : f.n = sent'
          /\ \A e \in new : /\ e.s = s /\ e.owner = sub[s].owner /\ sent < e.n /\ e.n <= sent'
                            /\ e.n = sent' => Reflects(e)'
    BY DEF Tells
  <1>2. /\ sent < sent' /\ sent' \in 0 .. limit.events
        /\ UNCHANGED <<account, instance, minted, applied, proc, limit, failures, mishaps>>
        /\ sub' \in [Subs -> Subscription \cup {None}]
    BY DEF Tells, StripeOnly
  <1>3. Known' = Known \cup new
    BY <1>1, <1>2 DEF Known, Handlers
  <1>4. \A e \in new : e.n \in Nat
    BY <1>1 DEF Event
  <1>5. sent \in Nat /\ sent' \in Nat /\ applied \in 0 .. sent'
    BY <1>2, Limited
  <1>6. \A e \in Known : e.n \in 1 .. sent
    BY DEF BillingTypeInv, Numbered
  <1>7. \A e \in Known' : e.n \in 1 .. sent'
    BY <1>1, <1>2, <1>3, <1>4, <1>5, <1>6
  <1>8. TypeOK'
    BY <1>1, <1>2, <1>5 DEF BillingTypeInv, TypeOK
  <1>9. QED
    BY <1>1, <1>2, <1>3, <1>7, <1>8 DEF BillingTypeInv, Numbered
LEMMA TellsPurchases ==
  ASSUME BillingTypeInv, NEW s \in Subs, Tells(s)
  PROVE  /\ OnePurchase => OnePurchase'
         /\ OneCustomer => OneCustomer'
  <1>1. /\ proc' = proc /\ account' = account
        /\ \A x \in Subs : x # s => sub'[x] = sub[x]
        /\ Alive(s) /\ sub'[s].owner = sub[s].owner
    BY DEF Tells, StripeOnly
  <1>2. \A x \in Subs : Alive(x)' => Alive(x)
    BY <1>1 DEF Alive
  <1>3. OnePurchase => OnePurchase'
    BY <1>1, <1>2 DEF OnePurchase, CheckingOut
  <1>4. \A x \in Subs : sub'[x] # None => sub[x] # None /\ sub'[x].owner = sub[x].owner
    BY <1>1 DEF Alive
  <1>5. \A e \in Known' : e \in Known \/ e.owner = sub[s].owner
    BY TellsType
  <1>6. sub[s] # None
    BY <1>1 DEF Alive
  <1>7. OneCustomer => OneCustomer'
    BY <1>1, <1>4, <1>5, <1>6 DEF OneCustomer
  <1>8. QED
    BY <1>3, <1>7

LEMMA TellsInStep ==
  ASSUME BillingTypeInv, OnePurchase, InStep, NEW s \in Subs, Tells(s)
  PROVE  InStep'
  <1>1. /\ proc' = proc /\ account' = account /\ applied' = applied /\ sent < sent'
        /\ \A x \in Subs : x # s => sub'[x] = sub[x]
        /\ Alive(s) /\ sub'[s] \in Subscription /\ sub'[s].status # "open"
        /\ events \subseteq events'
    BY DEF Tells, StripeOnly
  <1>2. BillingTypeInv' /\ Known \subseteq Known'
    BY TellsType
  <1>3. \A e \in Known' : \/ e \in Known
                          \/ e.s = s /\ sent < e.n /\ e.n <= sent' /\ (e.n = sent' => Reflects(e)')
    BY TellsType
  <1>4. PICK f \in events' : f.n = sent' /\ f.s = s /\ Reflects(f)'
    BY TellsType
  <1>5. sub[s] \in Subscription /\ sub[s].status \in {"open", "active", "past_due"}
    BY <1>1 DEF Alive, BillingTypeInv, TypeOK, Subscription, Statuses
  <1>6. \A x \in Subs : x # s => (Sold(x)' <=> Sold(x)) /\ (Paying(x)' <=> Paying(x))
                                 /\ (Matches(x)' <=> Matches(x))
    BY <1>1 DEF Sold, Paying, Matches
  <1>7. Sold(s)'
    BY <1>1, NoneAssumption DEF Sold
  <1>8. Sold(s) => Paying(s)
    BY <1>5 DEF Sold, Paying
  <1>9. \A e \in Known : e.s \in Subs /\ e.n \in Nat /\ e.n <= sent
    BY KnownShape
  <1>10. sent \in Nat /\ sent' \in Nat /\ applied \in Nat
    BY <1>2, Limited DEF Tells
  <1>11. \A e \in Known' : e.s \in Subs
    BY <1>3, <1>9
  <1>12. \A x \in Subs : x # s => \A e : e.s = x => (Reflects(e)' <=> Reflects(e))
    BY <1>1 DEF Reflects
  <1>13. ASSUME NEW x \in Subs, x # s, NEW n
         PROVE  Newest(x, n) => \A e \in Known' : e.s = x => e.n <= n /\ (e.n = n => Reflects(e)')
    BY <1>3, <1>12, <1>13 DEF Newest
  <1>14. \A e \in Known' : Sold(e.s)'
    <2>1. ASSUME NEW e \in Known', NEW x \in Subs, x = e.s
          PROVE  Sold(x)'
      BY <1>3, <1>6, <1>7, <1>9, <2>1 DEF InStep
    <2>2. QED
      BY <1>11, <2>1
  <1>15. \A x \in Subs : account'.sub = x => Sold(x)'
    BY <1>1, <1>6, <1>7 DEF InStep
  <1>16. ASSUME NEW x \in Subs, Sold(x)'
         PROVE  Pending(x)' \/ Done(x)'
    <2>1. CASE x = s
      <3>1. \A e \in Known' : e.s = s => e.n <= sent' /\ (e.n = sent' => Reflects(e)')
        BY <1>1, <1>3, <1>9, <1>10
      <3>2. Newest(x, f.n)'
        BY <1>4, <2>1, <3>1 DEF Newest
      <3>3. QED
        BY <1>4, <2>1, <3>2 DEF Pending
    <2>2. CASE x # s
      <3>1. CASE Pending(x)
        <4>1. PICK e \in events : e.s = x /\ Reflects(e) /\ Newest(x, e.n)
          BY <3>1 DEF Pending
        <4>2. e \in events' /\ Reflects(e)'
          BY <1>1, <1>12, <2>2, <4>1
        <4>3. Newest(x, e.n)'
          BY <1>13, <2>2, <4>1 DEF Newest
        <4>4. QED
          BY <4>1, <4>2, <4>3 DEF Pending
      <3>2. CASE Done(x)
        BY <1>1, <1>6, <1>13, <2>2, <3>2 DEF Done, Newest
      <3>3. QED
        BY <1>6, <1>16, <2>2, <3>1, <3>2 DEF InStep
    <2>3. QED
      BY <2>1, <2>2
  <1>17. ASSUME NEW w \in Workers, proc'[w].pc = "push"
         PROVE  LET e == proc[w].e IN
                  e.n <= applied /\ (Reflects(e)' /\ Newest(e.s, e.n)' => Done(e.s)')
    <2> DEFINE e == proc[w].e
    <2>1. e \in Known /\ e.s \in Subs
      BY <1>1, <1>9, <1>17 DEF Known, Handlers, WebhookPcs
    <2>2. e.n <= applied /\ (Reflects(e) /\ Newest(e.s, e.n) => Done(e.s))
      BY <1>1, <1>17 DEF InStep
    <2> SUFFICES ASSUME NEW x, x = e.s, NEW d, d = e, Reflects(d)', NEW n, n = e.n, Newest(x, n)'
                 PROVE  Done(x)'
      BY <1>1, <2>2
    <2>3. x # s
      <3>1. e.n < sent'
        BY <1>9, <1>10, <2>1, <1>1
      <3>2. f \in Known' /\ f.n = sent'
        BY <1>4 DEF Known
      <3>3. x = s => sent' <= n
        BY <1>4, <3>2 DEF Newest
      <3>4. QED
        BY <1>9, <1>10, <2>1, <3>1, <3>3
    <2>4. Reflects(e)
      BY <1>12, <2>1, <2>3
    <2>5. Newest(x, n)
      <3>1. \A c \in Known : c.s = x => c.n <= n /\ (c.n = n => Reflects(c)')
        BY <1>2 DEF Newest
      <3>2. QED
        BY <1>12, <2>1, <2>3, <3>1 DEF Newest
    <2>6. Done(x)
      BY <2>2, <2>4, <2>5
    <2>7. QED
      BY <1>1, <1>6, <1>13, <2>1, <2>3, <2>6 DEF Done, Newest
  <1>18. ASSUME NEW x \in Subs, Paying(x)'
         PROVE  /\ \A d, e \in Known' : d.s # x /\ e.s = x => d.n < e.n
                /\ account'.sub = x => \A d \in Known' : d.s # x => d.n < applied'
    <2>1. x = s
      <3>1. ASSUME x # s
            PROVE  FALSE
        <4>1. Alive(x)
          BY <1>6, <1>18, <3>1 DEF Paying, Alive
        <4>2. QED
          BY <1>1, <3>1, <4>1 DEF OnePurchase
      <3>2. QED
        BY <3>1
    <2>2. ASSUME NEW d \in Known', NEW e \in Known', d.s # s, e.s = s
          PROVE  d.n < e.n
      <3>1. d \in Known
        BY <1>3, <2>2
      <3>2. CASE e \in Known
        <4>1. Sold(s)
          BY <2>2, <3>2 DEF InStep
        <4>2. QED
          BY <1>8, <2>2, <3>1, <3>2, <4>1 DEF InStep
      <3>3. CASE e \notin Known
        <4>1. sent < e.n /\ d.n <= sent /\ d.n \in Nat
          BY <1>3, <1>9, <3>1, <3>3
        <4>2. e \in Event
          BY <1>2, KnownShape, <3>3, TellsType DEF BillingTypeInv, TypeOK
        <4>3. QED
          BY <1>10, <4>1, <4>2 DEF Event
      <3>4. QED
        BY <3>2, <3>3
    <2>3. account'.sub = s => Sold(s)
      BY <1>1 DEF InStep
    <2>4. ASSUME account'.sub = s, NEW d \in Known', d.s # s
          PROVE  d.n < applied'
      BY <1>1, <1>3, <1>8, <2>3, <2>4 DEF InStep
    <2>5. QED
      BY <2>1, <2>2, <2>4
  <1>19. QED
    BY <1>1, <1>14, <1>15, <1>16, <1>17, <1>18 DEF InStep
----------------------------------------------------------------------------
(* What the platform does but for the update of the customer's row: at     *)
(* most the row's Stripe id changes, a subscription is opened or an event  *)
(* acknowledged.                                                           *)

Serves(w) ==
  /\ proc' \in [Workers -> Proc] /\ \A v \in Workers \ {w} : proc'[v] = proc[v]
  /\ proc'[w].pc # "push" /\ (proc'[w].pc \in WebhookPcs => proc'[w].e \in Known)
  /\ account' \in Account /\ account'.sub = account.sub
  /\ account'.status = account.status /\ account'.plan = account.plan
  /\ sub' \in [Subs -> Subscription \cup {None}]
  /\ \A s \in Subs : sub'[s] = sub[s] \/ (sub[s] = None /\ sub'[s].status = "open")
  /\ events' \subseteq events
  /\ \A f \in events \ events' :
       /\ proc[w].pc \in WebhookPcs /\ f = proc[w].e
       /\ proc[w].pc = "push" \/ account.stripe # f.owner
  /\ mishaps \subseteq mishaps' /\ UNCHANGED <<sent, applied, limit>>

(* Nobody's checkout begins, and no row or subscription changes.           *)
Handles(w) ==
  /\ account' = account /\ sub' = sub /\ (CheckingOut(w)' => CheckingOut(w))
  /\ proc'[w].pc = "session" => proc'[w].owner = account.stripe

LEMMA ServesKnown ==
  ASSUME BillingTypeInv, NEW w \in Workers, Serves(w)
  PROVE  Known' \subseteq Known /\ Numbered'
  <1>1. ASSUME NEW e \in Known'
        PROVE  e \in Known
    <2>1. CASE e \in events'
      BY <2>1 DEF Serves, Known
    <2>2. ASSUME NEW v \in Handlers', e = proc'[v].e
          PROVE  e \in Known
      <3>1. CASE v = w
        BY <2>2, <3>1 DEF Serves, Handlers
      <3>2. CASE v # w
        BY <2>2, <3>2 DEF Serves, Handlers, Known
      <3>3. QED
        BY <3>1, <3>2
    <2>3. QED
      BY <2>1, <2>2 DEF Known
  <1>2. Numbered'
    BY <1>1 DEF BillingTypeInv, Numbered, Serves
  <1>3. QED
    BY <1>1, <1>2

LEMMA ServesInStep ==
  ASSUME BillingTypeInv, OneCustomer, InStep, NEW w \in Workers, Serves(w)
  PROVE  InStep'
  <1>1. /\ \A v \in Workers \ {w} : proc'[v] = proc[v]
        /\ proc'[w].pc # "push" /\ applied' = applied
        /\ account'.sub = account.sub /\ account'.status = account.status
        /\ account'.plan = account.plan /\ events' \subseteq events
    BY DEF Serves
  <1>2. Known' \subseteq Known
    BY ServesKnown
  <1>3. \A s \in Subs : Sold(s) <=> Sold(s)'
    BY DEF Serves, Sold
  <1>4. \A s \in Subs : Sold(s) => sub'[s] = sub[s]
    BY DEF Serves, Sold
  <1>5. \A s \in Subs : Sold(s) => (Paying(s)' <=> Paying(s)) /\ (Matches(s)' <=> Matches(s))
    BY <1>1, <1>4 DEF Paying, Matches
  <1>6. \A s \in Subs : Paying(s)' => Sold(s)'
    BY DEF Paying, Sold
  <1>7. \A e \in Known : e.s \in Subs /\ Sold(e.s)
    BY KnownShape DEF InStep
  <1>8. \A e \in Known : Reflects(e)' <=> Reflects(e)
    BY <1>4, <1>7 DEF Reflects
  <1>9. \A s, n : Newest(s, n) => \A e \in Known' : e.s = s => e.n <= n /\ (e.n = n => Reflects(e)')
    BY <1>2, <1>8 DEF Newest
  <1>10. ASSUME NEW s \in Subs, Sold(s), Done(s)
         PROVE  Done(s)'
    BY <1>1, <1>5, <1>9, <1>10 DEF Done, Newest
  <1>11. \A e \in Known' : Sold(e.s)'
    <2>1. ASSUME NEW e \in Known', NEW s, s = e.s
          PROVE  Sold(s)'
      BY <1>2, <1>3, <1>7, <2>1
    <2>2. QED
      BY <2>1
  <1>12. \A s \in Subs : account'.sub = s => Sold(s)'
    BY <1>1, <1>3 DEF InStep
  (* An event that is acknowledged was applied: its handler pushed.        *)
  <1>13. \A f \in events \ events' : proc[w].pc = "push" /\ proc[w].e = f
    <2>1. \A f \in events \ events' : f.owner = account.stripe
      BY DEF OneCustomer, Known
    <2>2. QED
      BY <2>1 DEF Serves
  <1>14. ASSUME NEW s \in Subs, Sold(s), Pending(s)
         PROVE  Pending(s)' \/ Done(s)
    <2>1. PICK f \in events : f.s = s /\ Reflects(f) /\ Newest(s, f.n)
      BY <1>14 DEF Pending
    <2>2. f \in Known
      BY DEF Known
    <2>3. CASE f \in events'
      <3>1. Newest(s, f.n)' /\ Reflects(f)'
        BY <1>8, <1>9, <2>1, <2>2 DEF Newest
      <3>2. QED
        BY <2>1, <2>3, <3>1 DEF Pending
    <2>4. CASE f \notin events'
      BY <1>13, <2>1, <2>4 DEF InStep
    <2>5. QED
      BY <2>3, <2>4
  <1>15. \A s \in Subs : Sold(s)' => Pending(s)' \/ Done(s)'
    BY <1>3, <1>10, <1>14 DEF InStep
  <1>16. ASSUME NEW v \in Workers, proc'[v].pc = "push"
         PROVE  LET e == proc[v].e IN
                  e.n <= applied' /\ (Reflects(e)' /\ Newest(e.s, e.n)' => Done(e.s)')
    <2> DEFINE e == proc[v].e
               s == e.s
    <2>1. proc'[v] = proc[v] /\ proc[v].pc = "push"
      BY <1>1, <1>16
    <2>2. e \in Known /\ s \in Subs /\ Sold(s) /\ e.n \in Nat
      BY <1>7, <2>1, KnownShape DEF Known, Handlers, WebhookPcs
    <2>3. e.n <= applied /\ (Reflects(e) /\ Newest(s, e.n) => Done(s))
      BY <2>1 DEF InStep
    <2> SUFFICES ASSUME NEW x, x = s, NEW d, d = e, Reflects(d)', NEW n, n = e.n, Newest(x, n)'
                 PROVE  Done(x)'
      BY <1>1, <2>1, <2>3
    <2>4. Reflects(e)
      BY <1>8, <2>2
    <2>5. Done(s)
      <3>1. CASE Pending(s)
        <4>1. \A y \in Subs : y = s => Pending(y)' \/ Done(y)
          BY <1>14, <2>2, <3>1
        <4>2. PICK f \in events : f.s = s /\ Reflects(f) /\ Newest(s, f.n)
          BY <3>1 DEF Pending
        <4>3. e.n <= f.n
          BY <2>2, <4>2 DEF Newest
        <4>4. CASE f \in events'
          <5>1. f \in Known' /\ f.n <= n /\ f \in Known
            BY <4>2, <4>4 DEF Newest, Known
          <5>2. f.n = e.n
            BY <2>2, <4>3, <5>1, KnownShape
          <5>3. QED
            BY <2>3, <2>4, <4>2, <5>2
        <4>5. CASE f \notin events'
          BY <1>13, <4>2, <4>5 DEF InStep
        <4>6. QED
          BY <4>4, <4>5
      <3>2. QED
        BY <2>2, <3>1 DEF InStep
    <2>6. \A y \in Subs : y = s => Done(y)'
      BY <1>10, <2>2, <2>5
    <2>7. QED
      BY <2>2, <2>6
  <1>17. ASSUME NEW s \in Subs, Paying(s)'
         PROVE  /\ \A d, e \in Known' : d.s # s /\ e.s = s => d.n < e.n
                /\ account'.sub = s => \A d \in Known' : d.s # s => d.n < applied'
    BY <1>1, <1>2, <1>3, <1>5, <1>6, <1>17 DEF InStep
  <1>18. QED
    BY <1>1, <1>11, <1>12, <1>15, <1>16, <1>17 DEF InStep
----------------------------------------------------------------------------
(* The update of the customer's row.                                       *)

(* In order, it is made of the row as it is and of an event not older than *)
(* those applied before.                                                   *)
Applies(w, e) ==
  /\ proc[w].pc = "write" /\ e = proc[w].e /\ e \in Known
  /\ account' \in Account /\ account'.stripe = account.stripe
  /\ account'.sub = IF e.kind = "deleted" THEN account.sub ELSE e.s
  /\ account'.status = IF e.kind = "deleted" THEN "canceled"
                       ELSE IF e.kind = "updated" THEN e.status ELSE "active"
  /\ account'.plan = IF e.kind = "deleted" THEN "free"
                     ELSE IF e.kind = "updated" THEN PlanForPrice(e.price) ELSE "pro"
  /\ applied <= e.n /\ applied' = e.n
  /\ proc' = [proc EXCEPT ![w] = [pc |-> "push", e |-> e]]
  /\ UNCHANGED <<sub, events, sent, limit>>

LEMMA WriteType ==
  ASSUME BillingTypeInv, NEW w \in Workers, WriteCustomer(w)
  PROVE  /\ BillingTypeInv' /\ mishaps \subseteq mishaps' /\ Known' = Known
         /\ account'.stripe = account.stripe
         /\ "disordered" \notin mishaps' => Applies(w, proc[w].e)
  <1> DEFINE e == proc[w].e
             r == [pc |-> "push", e |-> e]
  <1>1. proc[w].pc = "write" /\ e \in Event /\ proc[w].row \in Account /\ account \in Account
    BY ProcShape DEF WriteCustomer, BillingTypeInv, WebhookPcs, TypeOK
  <1>2. e \in Known /\ e.n \in 1 .. sent
    BY <1>1 DEF Known, Handlers, WebhookPcs, BillingTypeInv, Numbered
  <1>3. r \in Proc
    BY <1>1 DEF Proc
  <1>4. proc' = [proc EXCEPT ![w] = r] /\ proc \in [Workers -> Proc]
    BY DEF WriteCustomer, BillingTypeInv
  <1>5. /\ proc' \in [Workers -> Proc] /\ proc'[w] = r
        /\ \A v \in Workers \ {w} : proc'[v] = proc[v]
    BY <1>3, <1>4, ProcChange
  <1>6. UNCHANGED <<instance, sub, minted, events, sent, limit, failures>>
    BY DEF WriteCustomer, stripe
  <1>7. \A v \in Workers : (v \in Handlers' <=> v \in Handlers) /\ proc'[v].e = IF v = w THEN e ELSE proc[v].e
    BY <1>1, <1>5 DEF Handlers, WebhookPcs
  <1>8. Known' = Known
    <2>1. Handlers' = Handlers /\ w \in Handlers
      BY <1>1, <1>7 DEF Handlers, WebhookPcs
    <2>2. \A v \in Handlers : proc'[v].e = proc[v].e
      BY <1>7 DEF Handlers
    <2>3. QED
      BY <1>6, <2>1, <2>2 DEF Known
  <1>9. account' = [Synced(e, proc[w].row) EXCEPT !.stripe = account.stripe]
    BY DEF WriteCustomer
  <1>10. ASSUME NEW row \in Account
         PROVE  /\ Synced(e, row) \in Account
                /\ Synced(e, row).sub = IF e.kind = "deleted" THEN row.sub ELSE e.s
                /\ Synced(e, row).status = IF e.kind = "deleted" THEN "canceled"
                       ELSE IF e.kind = "updated" THEN e.status ELSE "active"
                /\ Synced(e, row).plan = IF e.kind = "deleted" THEN "free"
                     ELSE IF e.kind = "updated" THEN PlanForPrice(e.price) ELSE "pro"
    <2>1. CASE e.kind = "completed"
      BY <1>1, <2>1 DEF Synced, Account, Event, Plans, Statuses
    <2>2. CASE e.kind = "updated"
      BY <1>1, <2>2 DEF Synced, Account, Event, Plans, PlanForPrice
    <2>3. CASE e.kind = "deleted"
      BY <1>1, <2>3 DEF Synced, Account, Event, Plans, Statuses
    <2>4. QED
      BY <1>1, <2>1, <2>2, <2>3 DEF Event
  <1> DEFINE made == Synced(e, proc[w].row)
  <1>11. made \in Account
    BY <1>1, <1>10
  <1>12. /\ account' \in Account /\ account'.stripe = account.stripe
         /\ account'.sub = made.sub /\ account'.status = made.status /\ account'.plan = made.plan
    <2>1. account' = [made EXCEPT !.stripe = account.stripe]
      BY <1>9
    <2> HIDE DEF made
    <2>2. QED
      BY <1>1, <1>11, <2>1 DEF Account
  <1>13. applied' = Greater(applied, e.n)
    BY DEF WriteCustomer
  <1>14. applied' \in 0 .. sent' /\ (applied <= e.n => applied' = e.n)
    BY <1>1, <1>2, <1>6, <1>13, Limited DEF Greater, Event
  <1>15. /\ mishaps \subseteq mishaps' /\ mishaps' \subseteq mishaps \cup {"disordered"}
         /\ "disordered" \notin mishaps' => proc[w].row = account /\ ~(e.n < applied)
    BY DEF WriteCustomer, Note
  <1>16. TypeOK'
    BY <1>6, <1>12, <1>14, <1>15 DEF BillingTypeInv, TypeOK
  <1>17. Numbered'
    BY <1>6, <1>8 DEF Numbered, BillingTypeInv
  <1>18. ASSUME "disordered" \notin mishaps'
         PROVE  Applies(w, e)
    <2>1. proc[w].row = account /\ applied <= e.n
      BY <1>1, <1>15, <1>18, Limited DEF Event
    <2>2. QED
      BY <1>1, <1>2, <1>4, <1>6, <1>10, <1>12, <1>14, <2>1 DEF Applies
  <1>19. QED
    BY <1>5, <1>8, <1>12, <1>15, <1>16, <1>17, <1>18 DEF BillingTypeInv
LEMMA AppliesInStep ==
  ASSUME BillingTypeInv, OnePurchase, InStep, Known' = Known,
         NEW w \in Workers, NEW e, Applies(w, e)
  PROVE  InStep'
  <1>1. /\ proc[w].pc = "write" /\ e = proc[w].e /\ e \in Known /\ e \in Event
        /\ applied <= e.n /\ applied' = e.n /\ sub' = sub /\ events' = events
    BY KnownShape DEF Applies
  <1>2. proc'[w] = [pc |-> "push", e |-> e] /\ \A v \in Workers \ {w} : proc'[v] = proc[v]
    BY DEF Applies, BillingTypeInv
  <1>3. /\ e.s \in Subs /\ e.n \in Nat /\ applied \in Nat /\ Sold(e.s)
        /\ \A d \in Known : d.n \in Nat /\ d.s \in Subs /\ Sold(d.s)
    BY <1>1, KnownShape, Limited DEF InStep
  <1>4. \A s : (Sold(s)' <=> Sold(s)) /\ (Paying(s)' <=> Paying(s))
    BY <1>1 DEF Sold, Paying
  <1>5. \A d : Reflects(d)' <=> Reflects(d)
    BY <1>1 DEF Reflects
  <1>6. \A s, n : Newest(s, n)' <=> Newest(s, n)
    BY <1>5 DEF Newest
  <1>7. \A s : Pending(s)' <=> Pending(s)
    BY <1>1, <1>5, <1>6 DEF Pending
  (* The event that Stripe's record is reflected by brings the row to it.  *)
  <1>8. ASSUME Reflects(e)
        PROVE  account'.sub = e.s => Matches(e.s)'
    <2>1. sub[e.s] \in Subscription /\ sub[e.s].status \in Statuses
      BY <1>3 DEF Sold, BillingTypeInv, TypeOK, Subscription
    <2>2. CASE sub[e.s].status = "canceled"
      <3>1. e.kind = "deleted" /\ ~Paying(e.s)
        BY <1>8, <2>2 DEF Reflects, Paying
      <3>2. account'.status = "canceled" /\ account'.plan = "free"
        BY <3>1 DEF Applies
      <3>3. \A s : s = e.s => Matches(s)'
        BY <1>1, <1>4, <2>2, <3>1, <3>2 DEF Matches
      <3>4. QED
        BY <1>1, <1>2, <3>3 DEF Matches
    <2>3. CASE sub[e.s].status # "canceled"
      <3>1. e.kind = "updated" /\ e.status = sub[e.s].status /\ e.price = sub[e.s].price
        BY <1>8, <2>3 DEF Reflects
      <3>2. Paying(e.s)
        BY <1>3, <2>1, <2>3 DEF Paying, Sold, Statuses
      <3>3. account'.status = e.status /\ account'.plan = PlanForPrice(e.price)
        BY <3>1 DEF Applies
      <3>4. \A s : s = e.s => Matches(s)'
        BY <1>1, <1>4, <3>1, <3>2, <3>3 DEF Matches
      <3>5. QED
        BY <1>1, <3>4
    <2>4. QED
      BY <2>2, <2>3
  (* A row that belongs to another subscription is left as it is, or that  *)
  (* one was cancelled too: a live one's events are newer.                 *)
  <1>9. ASSUME NEW s \in Subs, s # e.s, account'.sub = s
        PROVE  e.kind = "deleted" /\ account.sub = s /\ Matches(s)'
    <2>1. e.kind = "deleted" /\ account.sub = s
      BY <1>9 DEF Applies
    <2>2. Sold(s)
      BY <2>1 DEF InStep
    <2>3. ~Paying(s)
      <3>1. Paying(s) => e.n < applied
        BY <1>1, <1>9, <2>1 DEF InStep
      <3>2. QED
        BY <1>1, <1>3, <3>1
    <2>4. sub[s].status = "canceled"
      BY <2>2, <2>3 DEF Sold, Paying, BillingTypeInv, TypeOK, Subscription, Statuses
    <2>5. account'.status = "canceled" /\ account'.plan = "free"
      BY <2>1 DEF Applies
    <2>6. QED
      BY <1>1, <1>4, <2>1, <2>3, <2>4, <2>5 DEF Matches
  <1>10. ASSUME NEW s \in Subs, Newest(s, applied)
         PROVE  Newest(s, e.n)
    <2>1. ASSUME NEW d \in Known, d.s = s
          PROVE  d.n <= e.n /\ (d.n = e.n => Reflects(d))
      <3>1. d.n <= applied /\ (d.n = applied => Reflects(d))
        BY <1>10, <2>1 DEF Newest
      <3>2. QED
        BY <1>1, <1>3, <3>1
    <2>2. QED
      BY <2>1 DEF Newest
  <1>11. ASSUME NEW s \in Subs, Done(s)
         PROVE  Done(s)'
    <2>1. \A n : n = e.n => Newest(s, n)'
      BY <1>6, <1>10, <1>11 DEF Done
    <2>2. Newest(s, applied)'
      BY <1>1, <2>1
    <2>3. ASSUME account'.sub = s
          PROVE  Matches(s)'
      <3>1. CASE s = e.s
        <4>1. e.n <= applied /\ (e.n = applied => Reflects(e))
          BY <1>1, <1>11, <3>1 DEF Done, Newest
        <4>2. Reflects(e)
          BY <1>1, <1>3, <4>1
        <4>3. account'.sub = e.s => Matches(e.s)'
          BY <1>8, <4>2
        <4>4. QED
          BY <2>3, <3>1, <4>3
      <3>2. CASE s # e.s
        BY <1>9, <2>3, <3>2
      <3>3. QED
        BY <3>1, <3>2
    <2>4. QED
      BY <2>2, <2>3 DEF Done
  <1>12. ASSUME NEW v \in Workers, proc'[v].pc = "push", NEW d, d = proc'[v].e,
                NEW s \in Subs, s = d.s
         PROVE  d.n <= applied' /\ (Reflects(d) /\ Newest(s, d.n) => Done(s)')
    <2>1. CASE v = w
      <3>1. d = e
        BY <1>2, <1>12, <2>1
      <3>2. ASSUME Reflects(e), Newest(s, e.n)
            PROVE  Done(s)'
        <4>1. \A n : n = e.n => Newest(s, n)'
          BY <1>6, <3>2
        <4>2. account'.sub = e.s => Matches(e.s)'
          BY <1>8, <3>2
        <4>3. QED
          BY <1>1, <1>12, <3>1, <4>1, <4>2 DEF Done
      <3>3. QED
        BY <1>1, <1>3, <3>1, <3>2
    <2>2. CASE v # w
      <3>1. proc'[v] = proc[v] /\ proc[v].pc = "push"
        BY <1>2, <1>12, <2>2
      <3>2. d \in Known /\ d.n <= applied /\ (Reflects(d) /\ Newest(s, d.n) => Done(s))
        BY <1>12, <3>1 DEF InStep, Known, Handlers, WebhookPcs
      <3>3. QED
        BY <1>1, <1>3, <1>11, <3>2
    <2>3. QED
      BY <2>1, <2>2
  <1>13. \A d \in Known' : \A s : s = d.s => Sold(s)'
    BY <1>3, <1>4
  <1>14. \A s \in Subs : account'.sub = s => Sold(s)'
    <2>1. \A s \in Subs : account'.sub = s => account.sub = s \/ s = e.s
      BY DEF Applies
    <2>2. QED
      BY <1>3, <1>4, <2>1 DEF InStep
  <1>15. \A s \in Subs : Sold(s)' => Pending(s)' \/ Done(s)'
    BY <1>4, <1>7, <1>11 DEF InStep
  <1>16. ASSUME NEW s \in Subs, Paying(s)'
         PROVE  /\ \A c, d \in Known' : c.s # s /\ d.s = s => c.n < d.n
                /\ account'.sub = s => \A d \in Known' : d.s # s => d.n < applied'
    <2>1. Paying(s) /\ \A c, d \in Known : c.s # s /\ d.s = s => c.n < d.n
      BY <1>4, <1>16 DEF InStep
    <2>2. ASSUME account'.sub = s, NEW d \in Known, d.s # s
          PROVE  d.n < applied'
      <3>1. CASE s = e.s
        BY <1>1, <2>1, <2>2, <3>1
      <3>2. CASE s # e.s
        <4>1. account.sub = s
          BY <1>9, <2>2, <3>2
        <4>2. d.n < applied
          BY <2>1, <2>2, <4>1 DEF InStep
        <4>3. QED
          BY <1>1, <1>3, <4>2
      <3>3. QED
        BY <3>1, <3>2
    <2>3. QED
      BY <2>1, <2>2
  <1>17. \A v \in Workers : proc'[v].pc = "push" => proc'[v].e \in Known
    BY <1>1, <1>2 DEF Known, Handlers, WebhookPcs
  <1>18. \A v \in Workers : proc'[v].pc = "push" =>
           \A d : d = proc'[v].e => d.n <= applied' /\
             \A s : s = d.s => (Reflects(d)' /\ (\A n : n = d.n => Newest(s, n)') => Done(s)')
    BY <1>3, <1>5, <1>6, <1>12, <1>17
  <1>19. QED
    BY <1>13, <1>14, <1>15, <1>16, <1>18 DEF InStep
----------------------------------------------------------------------------
(* The other requests of the platform.                                     *)

Rest ==
  /\ instance' \in Instance /\ minted' \subseteq StripeIds
  /\ failures' \in 0 .. limit.failures
  /\ mishaps' \subseteq {"second", "raced", "disordered"}

LEMMA ServesType ==
  ASSUME BillingTypeInv, NEW w \in Workers, Serves(w), Rest
  PROVE  BillingTypeInv'
  <1>1. Numbered'
    BY ServesKnown
  <1>2. TypeOK'
    BY DEF BillingTypeInv, TypeOK, Serves, Rest
  <1>3. QED
    BY <1>1, <1>2 DEF BillingTypeInv, Serves

LEMMA HandlesPurchases ==
  ASSUME BillingTypeInv, NEW w \in Workers, Serves(w), Handles(w)
  PROVE  /\ OnePurchase => OnePurchase'
         /\ OneCustomer => OneCustomer'
  <1>1. /\ \A v \in Workers \ {w} : proc'[v] = proc[v]
        /\ account' = account /\ sub' = sub /\ (CheckingOut(w)' => CheckingOut(w))
        /\ proc'[w].pc = "session" => proc'[w].owner = account.stripe
    BY DEF Serves, Handles
  <1>2. \A v \in Workers : CheckingOut(v)' => CheckingOut(v)
    BY <1>1 DEF CheckingOut
  <1>3. \A s \in Subs : Alive(s)' <=> Alive(s)
    BY <1>1 DEF Alive
  <1>4. OnePurchase => OnePurchase'
    BY <1>2, <1>3 DEF OnePurchase
  <1>5. OneCustomer => OneCustomer'
    BY <1>1, ServesKnown DEF OneCustomer
  <1>6. QED
    BY <1>4, <1>5

LEMMA WebhookServes ==
  ASSUME BillingTypeInv, NEW w \in Workers,
         (\E e \in events : Deliver(w, e)) \/ ReadCustomer(w) \/ PushQuota(w) \/ DeliveryFails(w)
  PROVE  Serves(w) /\ Rest /\ Handles(w) /\ mishaps' = mishaps
  <1> USE ProcShape DEF BillingTypeInv
  <1>1. /\ proc \in [Workers -> Proc] /\ account \in Account /\ instance \in Instance
        /\ sub \in [Subs -> Subscription \cup {None}] /\ minted \subseteq StripeIds
        /\ mishaps \subseteq {"second", "raced", "disordered"}
        /\ failures \in 0 .. limit.failures /\ Idle \in Proc
    BY DEF TypeOK, Proc
  <1> DEFINE ProcTo(r) == proc' = [proc EXCEPT ![w] = r]
  <1>2. ASSUME ProcTo(Idle)
        PROVE  /\ proc' \in [Workers -> Proc] /\ \A v \in Workers \ {w} : proc'[v] = proc[v]
               /\ proc'[w].pc = "idle" /\ ~CheckingOut(w)'
    BY <1>1, <1>2, ProcChange DEF Idle, CheckingOut, CheckoutPcs
  <1>3. ASSUME NEW r \in Proc, ProcTo(r), r.pc \in {"read", "write"}
        PROVE  /\ proc' \in [Workers -> Proc] /\ \A v \in Workers \ {w} : proc'[v] = proc[v]
               /\ proc'[w] = r /\ proc'[w].pc \notin {"push", "session"} /\ ~CheckingOut(w)'
    BY <1>1, <1>3, ProcChange DEF CheckingOut, CheckoutPcs
  <1>4. ASSUME NEW e \in events, Deliver(w, e)
        PROVE  Serves(w) /\ Rest /\ Handles(w) /\ mishaps' = mishaps
    <2> DEFINE r == [pc |-> "read", e |-> e]
    <2>1. r \in Proc /\ r.pc = "read" /\ r.e = e /\ e \in Known
      BY DEF TypeOK, Proc, Known
    <2>2. ProcTo(r) /\ UNCHANGED <<account, instance, stripe, applied, failures, mishaps>>
      BY <1>4 DEF Deliver
    <2> HIDE DEF r
    <2>3. QED
      BY <1>1, <1>3, <2>1, <2>2 DEF Serves, Rest, Handles, stripe
  <1>5. CASE ReadCustomer(w)
    <2>1. /\ proc[w].pc = "read" /\ proc[w].e \in Event /\ proc[w].e \in Known
          /\ UNCHANGED <<account, instance, sub, minted, sent, applied, limit, failures, mishaps>>
      BY <1>1, <1>5 DEF ReadCustomer, WebhookPcs, Known, Handlers
    <2>2. CASE account.stripe # proc[w].e.owner
      <3>1. ProcTo(Idle) /\ events' = events \ {proc[w].e}
        BY <1>5, <2>2 DEF ReadCustomer, Answer, Finish
      <3>2. QED
        BY <1>1, <1>2, <2>1, <2>2, <3>1 DEF Serves, Rest, Handles, WebhookPcs
    <2>3. CASE account.stripe = proc[w].e.owner
      <3> DEFINE r == [pc |-> "write", e |-> proc[w].e, row |-> account]
      <3>1. r \in Proc /\ r.pc = "write" /\ r.e = proc[w].e
        BY <1>1, <2>1 DEF Proc
      <3>2. ProcTo(r) /\ events' = events
        BY <1>1, <1>5, <2>3 DEF ReadCustomer
      <3> HIDE DEF r
      <3>3. QED
        BY <1>1, <1>3, <2>1, <3>1, <3>2 DEF Serves, Rest, Handles
    <2>4. QED
      BY <2>2, <2>3
  <1>6. CASE PushQuota(w)
    <2>1. /\ proc[w].pc = "push" /\ ProcTo(Idle) /\ events' = events \ {proc[w].e}
          /\ UNCHANGED <<account, sub, minted, sent, applied, limit, mishaps>>
      BY <1>6 DEF PushQuota, Answer, Finish
    <2>2. instance' \in Instance
      BY <1>1, <1>6 DEF PushQuota, Instance
    <2>3. failures' \in 0 .. limit.failures
      BY <1>1, <1>6, Limited DEF PushQuota
    <2>4. QED
      BY <1>1, <1>2, <2>1, <2>2, <2>3 DEF Serves, Rest, Handles, WebhookPcs
  <1>7. CASE DeliveryFails(w)
    <2>1. /\ ProcTo(Idle)
          /\ UNCHANGED <<account, instance, sub, minted, events, sent, limit, applied, mishaps>>
      BY <1>7 DEF DeliveryFails, Finish, stripe
    <2>2. failures' \in 0 .. limit.failures
      BY <1>1, <1>7, Limited DEF DeliveryFails
    <2>3. Rest
      BY <1>1, <2>1, <2>2 DEF Rest
    <2>4. /\ proc' \in [Workers -> Proc] /\ \A v \in Workers \ {w} : proc'[v] = proc[v]
          /\ proc'[w].pc = "idle" /\ ~CheckingOut(w)'
      BY <1>2, <2>1
    <2>5. Serves(w)
      BY <1>1, <2>1, <2>4 DEF Serves, WebhookPcs
    <2>6. QED
      BY <2>1, <2>3, <2>4, <2>5 DEF Handles
  <1>8. QED
    BY <1>4, <1>5, <1>6, <1>7
LEMMA CheckoutServes ==
  ASSUME BillingTypeInv, NEW w \in Workers,
         \/ CheckoutBegin(w) \/ GetCustomer(w) \/ MintCustomer(w) \/ LinkCustomer(w)
         \/ OpenSession(w)
  PROVE  /\ Serves(w) /\ Rest
         /\ "second" \notin mishaps' /\ OnePurchase => OnePurchase'
         /\ "raced" \notin mishaps' /\ OneCustomer => OneCustomer'
  <1> USE DEF BillingTypeInv
  <1>1. /\ proc \in [Workers -> Proc] /\ account \in Account /\ instance \in Instance
        /\ sub \in [Subs -> Subscription \cup {None}] /\ minted \subseteq StripeIds
        /\ mishaps \subseteq {"second", "raced", "disordered"}
        /\ failures \in 0 .. limit.failures /\ Idle \in Proc /\ limit.subs \subseteq Subs
    BY Limited DEF TypeOK, Proc
  <1> DEFINE ProcTo(r) == proc' = [proc EXCEPT ![w] = r]
  <1>2. ASSUME NEW r \in Proc, ProcTo(r), r.pc \in {"idle"} \cup CheckoutPcs
        PROVE  /\ proc' \in [Workers -> Proc] /\ \A v \in Workers \ {w} : proc'[v] = proc[v]
               /\ proc'[w] = r /\ proc'[w].pc \notin WebhookPcs /\ proc'[w].pc # "push"
    BY <1>1, <1>2, ProcChange DEF CheckoutPcs, WebhookPcs
  <1>3. ASSUME proc[w].pc \in CheckoutPcs, Serves(w), account' = account, sub' = sub,
               proc'[w].pc = "session" => proc'[w].owner = account.stripe
        PROVE  /\ OnePurchase => OnePurchase'
               /\ OneCustomer => OneCustomer'
    BY <1>3, HandlesPurchases DEF Handles, CheckingOut
  <1>4. CASE CheckoutBegin(w)
    <2> DEFINE r == [pc |-> "getcustomer"]
    <2>1. r \in Proc /\ r.pc = "getcustomer"
      BY DEF Proc
    <2>2. /\ proc[w] = Idle /\ ProcTo(r) /\ Note("second", Ongoing)
          /\ UNCHANGED <<account, instance, sub, minted, events, sent, limit, applied, failures>>
      BY <1>4 DEF CheckoutBegin, stripe
    <2>3. /\ mishaps \subseteq mishaps' /\ mishaps' \subseteq mishaps \cup {"second"}
          /\ "second" \notin mishaps' => ~Ongoing
      BY <2>2 DEF Note
    <2> HIDE DEF r
    <2>4. /\ proc' \in [Workers -> Proc] /\ \A v \in Workers \ {w} : proc'[v] = proc[v]
          /\ proc'[w].pc = "getcustomer" /\ proc'[w].pc \notin WebhookPcs
      BY <1>2, <2>1, <2>2 DEF CheckoutPcs
    <2>5. Serves(w) /\ Rest
      BY <1>1, <2>2, <2>3, <2>4 DEF Serves, Rest
    <2>6. ASSUME "second" \notin mishaps'
          PROVE  OnePurchase'
      <3>1. /\ \A v \in Workers : ~CheckingOut(v)
            /\ \A s \in Subs : ~Alive(s)
        BY <2>3, <2>6 DEF Ongoing, CheckingOut, CheckoutPcs, Alive
      <3>2. \A v \in Workers : CheckingOut(v)' => v = w
        BY <2>4, <3>1 DEF CheckingOut
      <3>3. \A s \in Subs : ~Alive(s)'
        BY <2>2, <3>1 DEF Alive
      <3>4. QED
        BY <3>2, <3>3 DEF OnePurchase
    <2>7. OneCustomer => OneCustomer'
      BY <2>2, <2>4, <2>5, ServesKnown DEF OneCustomer
    <2>8. QED
      BY <2>5, <2>6, <2>7
  <1>5. CASE GetCustomer(w)
    <2>1. /\ proc[w].pc = "getcustomer"
          /\ UNCHANGED <<account, instance, sub, minted, events, sent, limit, applied, failures,
                         mishaps>>
      BY <1>5 DEF GetCustomer, stripe
    <2>2. PICK r : ProcTo(r) /\ \/ account.stripe = None /\ r = [pc |-> "mint"]
                                \/ account.stripe # None /\ r = [pc |-> "session", owner |-> account.stripe]
      BY <1>5 DEF GetCustomer
    <2>3. /\ r \in Proc /\ r.pc \in {"mint", "session"}
          /\ r.pc = "session" => r.owner = account.stripe
      BY <1>1, <2>2 DEF Proc, Account
    <2>4. /\ proc' \in [Workers -> Proc] /\ \A v \in Workers \ {w} : proc'[v] = proc[v]
          /\ proc'[w] = r /\ proc'[w].pc \notin WebhookPcs /\ proc'[w].pc # "push"
      BY <1>2, <2>2, <2>3 DEF CheckoutPcs
    <2>5. Serves(w) /\ Rest
      BY <1>1, <2>1, <2>4 DEF Serves, Rest
    <2>6. QED
      BY <1>3, <2>1, <2>3, <2>4, <2>5 DEF CheckoutPcs
  <1>6. CASE MintCustomer(w)
    <2>1. /\ proc[w].pc = "mint"
          /\ UNCHANGED <<account, instance, sub, events, sent, applied, limit, failures, mishaps>>
      BY <1>6 DEF MintCustomer
    <2>2. \E r \in Proc : ProcTo(r) /\ r.pc \in {"idle", "link"} /\ minted' \subseteq StripeIds
      <3>1. CASE Finish(w) /\ UNCHANGED minted
        BY <1>1, <3>1 DEF Finish, Idle
      <3>2. ASSUME StripeIds # minted, NEW id, id = CHOOSE x \in StripeIds : x \notin minted,
                   minted' = minted \cup {id},
                   proc' = [proc EXCEPT ![w] = [pc |-> "link", owner |-> id]]
            PROVE  \E r \in Proc : ProcTo(r) /\ r.pc \in {"idle", "link"} /\ minted' \subseteq StripeIds
        <4>1. id \in StripeIds
          BY <1>1, <3>2
        <4>2. [pc |-> "link", owner |-> id] \in Proc
          BY <4>1 DEF Proc
        <4>3. QED
          BY <1>1, <3>2, <4>1, <4>2
      <3>3. QED
        BY <1>6, <3>1, <3>2 DEF MintCustomer
    <2>3. PICK r \in Proc : ProcTo(r) /\ r.pc \in {"idle", "link"} /\ minted' \subseteq StripeIds
      BY <2>2
    <2>4. /\ proc' \in [Workers -> Proc] /\ \A v \in Workers \ {w} : proc'[v] = proc[v]
          /\ proc'[w] = r /\ proc'[w].pc \notin WebhookPcs /\ proc'[w].pc # "push"
      BY <1>2, <2>3 DEF CheckoutPcs
    <2>5. Serves(w) /\ Rest
      BY <1>1, <2>1, <2>3, <2>4 DEF Serves, Rest
    <2>6. QED
      BY <1>3, <2>1, <2>3, <2>4, <2>5 DEF CheckoutPcs
  <1>7. CASE LinkCustomer(w)
    <2>1. proc[w] \in [pc : {"link", "session"}, owner : StripeIds] /\ proc[w].pc = "link"
      BY <1>1, <1>7, ProcShape DEF LinkCustomer
    <2> DEFINE r == [proc[w] EXCEPT !.pc = "session"]
    <2>2. r \in Proc /\ r.pc = "session" /\ r.owner = proc[w].owner
      BY <2>1 DEF Proc
    <2>3. /\ ProcTo(r) /\ account' = [account EXCEPT !.stripe = proc[w].owner]
          /\ Note("raced", account.stripe # None)
          /\ UNCHANGED <<instance, sub, minted, events, sent, limit, applied, failures>>
      BY <1>1, <1>7 DEF LinkCustomer, stripe, Goto
    <2>4. /\ account' \in Account /\ account'.stripe = proc[w].owner
          /\ account'.sub = account.sub /\ account'.status = account.status
          /\ account'.plan = account.plan
      BY <1>1, <2>1, <2>3 DEF Account
    <2>5. /\ mishaps \subseteq mishaps' /\ mishaps' \subseteq mishaps \cup {"raced"}
          /\ "raced" \notin mishaps' => account.stripe = None
      BY <2>3 DEF Note
    <2> HIDE DEF r
    <2>6. /\ proc' \in [Workers -> Proc] /\ \A v \in Workers \ {w} : proc'[v] = proc[v]
          /\ proc'[w] = r /\ proc'[w].pc \notin WebhookPcs /\ proc'[w].pc # "push"
      BY <1>2, <2>2, <2>3 DEF CheckoutPcs
    <2>7. Serves(w) /\ Rest
      BY <1>1, <2>3, <2>4, <2>5, <2>6 DEF Serves, Rest
    <2>8. OnePurchase => OnePurchase'
      <3>1. \A v \in Workers : CheckingOut(v)' => CheckingOut(v)
        BY <2>1, <2>6 DEF CheckingOut, CheckoutPcs
      <3>2. \A s \in Subs : Alive(s)' <=> Alive(s)
        BY <2>3 DEF Alive
      <3>3. QED
        BY <3>1, <3>2 DEF OnePurchase
    <2>9. ASSUME "raced" \notin mishaps', OneCustomer
          PROVE  OneCustomer'
      <3>1. account.stripe = None /\ None \notin StripeIds
        BY <2>5, <2>9, NoneAssumption
      <3>2. \A s \in Subs : sub[s] = None
        BY <1>1, <2>9, <3>1 DEF OneCustomer, Subscription
      <3>3. \A v \in Workers : proc[v].pc # "session"
        BY <1>1, <2>9, <3>1, ProcShape DEF OneCustomer
      <3>4. \A e \in Known : FALSE
        BY <2>9, <3>1, KnownShape DEF OneCustomer
      <3>5. \A v \in Workers : proc'[v].pc = "session" => proc'[v].owner = account'.stripe
        BY <2>2, <2>4, <2>6, <3>3
      <3>6. QED
        BY <2>3, <2>7, <3>2, <3>4, <3>5, ServesKnown DEF OneCustomer
    <2>10. QED
      BY <2>7, <2>8, <2>9
  <1>8. CASE OpenSession(w)
    <2>1. /\ proc[w].pc = "session" /\ proc[w].owner \in StripeIds /\ ProcTo(Idle)
          /\ UNCHANGED <<account, instance, minted, events, sent, applied, limit, failures, mishaps>>
      BY <1>1, <1>8, ProcShape DEF OpenSession, Finish
    <2>2. /\ proc' \in [Workers -> Proc] /\ \A v \in Workers \ {w} : proc'[v] = proc[v]
          /\ proc'[w] = Idle /\ proc'[w].pc \notin WebhookPcs /\ proc'[w].pc # "push"
      BY <1>1, <1>2, <2>1 DEF Idle
    <2>3. CASE sub' = sub
      <3>1. Serves(w) /\ Rest
        BY <1>1, <2>1, <2>2, <2>3 DEF Serves, Rest
      <3>2. QED
        BY <1>3, <2>1, <2>2, <2>3, <3>1 DEF CheckoutPcs, Idle
    <2>4. ASSUME NEW s \in Subs, sub[s] = None,
                 sub' = [sub EXCEPT ![s] = [owner |-> proc[w].owner, status |-> "open",
                                            price |-> "pro"]]
          PROVE  /\ Serves(w) /\ Rest
                 /\ OnePurchase => OnePurchase'
                 /\ OneCustomer => OneCustomer'
      <3> DEFINE new == [owner |-> proc[w].owner, status |-> "open", price |-> "pro"]
      <3>1. new \in Subscription /\ new.status = "open" /\ new.owner = proc[w].owner
        BY <2>1 DEF Subscription, Prices
      <3> HIDE DEF new
      <3>2. /\ sub' \in [Subs -> Subscription \cup {None}] /\ sub'[s] = new
            /\ \A x \in Subs : x # s => sub'[x] = sub[x]
        BY <1>1, <2>4, <3>1 DEF new
      <3>3. Serves(w) /\ Rest
        BY <1>1, <2>1, <2>2, <2>4, <3>1, <3>2 DEF Serves, Rest
      <3>4. ASSUME OnePurchase
            PROVE  OnePurchase'
        <4>1. CheckingOut(w) /\ ~CheckingOut(w)'
          BY <2>1, <2>2 DEF CheckingOut, CheckoutPcs, Idle
        <4>2. \A v \in Workers : ~CheckingOut(v)'
          BY <2>2, <3>4, <4>1 DEF OnePurchase, CheckingOut
        <4>3. \A x \in Subs : Alive(x)' => x = s
          BY <3>2, <3>4, <4>1 DEF OnePurchase, Alive
        <4>4. QED
          BY <4>2, <4>3 DEF OnePurchase
      <3>5. ASSUME OneCustomer
            PROVE  OneCustomer'
        <4>1. proc[w].owner = account.stripe
          BY <2>1, <3>5 DEF OneCustomer
        <4>2. \A v \in Workers : proc'[v].pc = "session" => proc'[v] = proc[v]
          BY <2>2 DEF Idle
        <4>3. QED
          BY <2>1, <3>1, <3>2, <3>3, <3>5, <4>1, <4>2, ServesKnown DEF OneCustomer
      <3>6. QED
        BY <3>3, <3>4, <3>5
    <2>5. QED
      BY <1>1, <1>8, <2>3, <2>4 DEF OpenSession
  <1>9. QED
    BY <1>4, <1>5, <1>6, <1>7, <1>8
LEMMA WritePurchases ==
  ASSUME BillingTypeInv, NEW w \in Workers, WriteCustomer(w)
  PROVE  /\ OnePurchase => OnePurchase'
         /\ OneCustomer => OneCustomer'
  <1>1. proc' = [proc EXCEPT ![w] = [pc |-> "push", e |-> proc[w].e]] /\ sub' = sub
    BY DEF WriteCustomer, stripe, BillingTypeInv
  <1>2. proc'[w].pc = "push" /\ \A v \in Workers \ {w} : proc'[v] = proc[v]
    BY <1>1 DEF BillingTypeInv
  <1>3. Known' = Known /\ account'.stripe = account.stripe
    BY WriteType
  <1>4. \A v \in Workers : CheckingOut(v)' => CheckingOut(v)
    BY <1>2 DEF CheckingOut, CheckoutPcs
  <1>5. \A s \in Subs : Alive(s)' <=> Alive(s)
    BY <1>1 DEF Alive
  <1>6. OnePurchase => OnePurchase'
    BY <1>4, <1>5 DEF OnePurchase
  <1>7. OneCustomer => OneCustomer'
    BY <1>1, <1>2, <1>3 DEF OneCustomer
  <1>8. QED
    BY <1>6, <1>7

----------------------------------------------------------------------------

LEMMA BillingInit ==
  ASSUME Init
  PROVE  BillingInv
  <1>1. limit \in Limits /\ limit.events \in Nat /\ limit.failures \in Nat
    BY BillingAssumption DEF Init
  <1>2. proc \in [Workers -> Proc] /\ \A w \in Workers : proc[w].pc = "idle"
    BY DEF Init, Proc, Idle
  <1>3. Known = {}
    BY <1>2 DEF Init, Known, Handlers, WebhookPcs
  <1>4. TypeOK
    BY <1>1 DEF Init, TypeOK, Account, Instance, Plans
  <1>5. OnePurchase
    BY <1>2 DEF Init, OnePurchase, CheckingOut, CheckoutPcs, Alive
  <1>6. OneCustomer
    BY <1>2, <1>3 DEF Init, OneCustomer
  <1>7. InStep
    BY <1>2, <1>3, NoneAssumption DEF Init, InStep, Sold, Paying
  <1>8. QED
    BY <1>2, <1>3, <1>4, <1>5, <1>6, <1>7 DEF BillingInv, BillingTypeInv, Numbered

LEMMA BillingStep ==
  ASSUME BillingInv, [Next]_vars
  PROVE  BillingInv'
  <1>1. BillingTypeInv
    BY DEF BillingInv
  <1> DEFINE Kept ==
        /\ BillingTypeInv' /\ mishaps \subseteq mishaps'
        /\ "second" \notin mishaps' /\ OnePurchase => OnePurchase'
        /\ "raced" \notin mishaps' /\ OneCustomer => OneCustomer'
        /\ Without({"disordered", "second", "raced"})' /\ OnePurchase /\ OneCustomer /\ InStep
             => InStep'
  <1>2. ASSUME Kept
        PROVE  BillingInv'
    <2>1. /\ Without({"second"})' => "second" \notin mishaps' /\ Without({"second"})
          /\ Without({"raced"})' => "raced" \notin mishaps' /\ Without({"raced"})
          /\ Without({"disordered", "second", "raced"})' =>
               /\ Without({"disordered", "second", "raced"})
               /\ Without({"second"}) /\ Without({"raced"})
      BY <1>2 DEF Without
    <2>2. QED
      BY <1>2, <2>1 DEF BillingInv
  <1>3. ASSUME NEW s \in Subs, Pay(s) \/ Change(s) \/ Cancel(s)
        PROVE  Kept
    <2>1. Tells(s) /\ mishaps' = mishaps
      BY <1>1, <1>3, StripeTells DEF Tells, StripeOnly
    <2>2. QED
      BY <1>1, <2>1, TellsType, TellsPurchases, TellsInStep
  <1>4. ASSUME NEW w \in Workers,
               \/ CheckoutBegin(w) \/ GetCustomer(w) \/ MintCustomer(w) \/ LinkCustomer(w)
               \/ OpenSession(w)
        PROVE  Kept
    <2>1. /\ Serves(w) /\ Rest
          /\ "second" \notin mishaps' /\ OnePurchase => OnePurchase'
          /\ "raced" \notin mishaps' /\ OneCustomer => OneCustomer'
      BY <1>1, <1>4, CheckoutServes
    <2>2. BillingTypeInv' /\ (OneCustomer /\ InStep => InStep') /\ mishaps \subseteq mishaps'
      BY <1>1, <2>1, ServesType, ServesInStep DEF Serves
    <2>3. QED
      BY <2>1, <2>2
  <1>5. ASSUME NEW w \in Workers,
               \/ \E e \in events : Deliver(w, e)
               \/ ReadCustomer(w) \/ PushQuota(w) \/ DeliveryFails(w)
        PROVE  Kept
    <2>1. Serves(w) /\ Rest /\ Handles(w)
      BY <1>1, <1>5, WebhookServes
    <2>2. BillingTypeInv' /\ (OneCustomer /\ InStep => InStep') /\ mishaps \subseteq mishaps'
      BY <1>1, <2>1, ServesType, ServesInStep DEF Serves
    <2>3. QED
      BY <1>1, <2>1, <2>2, HandlesPurchases
  <1>6. ASSUME NEW w \in Workers, WriteCustomer(w)
        PROVE  Kept
    <2>1. /\ BillingTypeInv' /\ mishaps \subseteq mishaps' /\ Known' = Known
          /\ "disordered" \notin mishaps' => Applies(w, proc[w].e)
      BY <1>1, <1>6, WriteType
    <2>2. ASSUME Without({"disordered", "second", "raced"})', OnePurchase, OneCustomer, InStep
          PROVE  InStep'
      <3>1. \A e : e = proc[w].e => Applies(w, e)
        BY <2>1, <2>2 DEF Without
      <3>2. QED
        BY <1>1, <2>1, <2>2, <3>1, AppliesInStep
    <2>3. QED
      BY <1>1, <1>6, <2>1, <2>2, WritePurchases
  <1>7. ASSUME UNCHANGED vars
        PROVE  BillingInv'
    <2>1. Known' = Known
      BY <1>7 DEF vars, Known, Handlers
    <2>2. \A e : Reflects(e)' <=> Reflects(e)
      BY <1>7 DEF vars, Reflects
    <2>3. \A s, n : Newest(s, n)' <=> Newest(s, n)
      BY <2>1, <2>2 DEF Newest
    <2>4. \A s : /\ Sold(s)' <=> Sold(s)
                 /\ Paying(s)' <=> Paying(s)
                 /\ Alive(s)' <=> Alive(s)
      BY <1>7 DEF vars, Sold, Paying, Alive
    <2>5. \A s : Matches(s)' <=> Matches(s)
      BY <1>7, <2>4 DEF vars, Matches
    <2>6. \A s : (Pending(s)' <=> Pending(s)) /\ (Done(s)' <=> Done(s))
      <3>1. \A s : Pending(s)' <=> Pending(s)
        BY <1>7, <2>2, <2>3 DEF vars, Pending
      <3>2. \A s, n : n = applied => (Newest(s, n)' <=> Newest(s, n))
        BY <2>3
      <3>3. \A s : Newest(s, applied)' <=> Newest(s, applied)
        BY <1>7, <3>2 DEF vars
      <3>4. \A s : Done(s)' <=> Done(s)
        BY <1>7, <2>5, <3>3 DEF vars, Done
      <3>5. QED
        BY <3>1, <3>4
    <2>7. BillingTypeInv'
      BY <1>1, <1>7, <2>1 DEF vars, BillingTypeInv, TypeOK, Numbered
    <2>8. OnePurchase' <=> OnePurchase
      BY <1>7, <2>4 DEF vars, OnePurchase, CheckingOut
    <2>9. OneCustomer' <=> OneCustomer
      BY <1>7, <2>1 DEF vars, OneCustomer
    <2>10. InStep => InStep'
      <3> SUFFICES ASSUME InStep
                   PROVE  InStep'
        OBVIOUS
      <3>1. proc' = proc /\ account' = account /\ applied' = applied
        BY <1>7 DEF vars
      <3>2. \A e \in Known' : Sold(e.s)'
        BY <1>7, <2>1, <2>4 DEF InStep, vars
      <3>3. \A s \in Subs : account.sub = s => Sold(s)'
        BY <2>4 DEF InStep
      <3>4. \A s \in Subs : Sold(s)' => Pending(s)' \/ Done(s)'
        BY <2>4, <2>6 DEF InStep
      <3>5. ASSUME NEW w \in Workers, proc[w].pc = "push"
            PROVE  LET e == proc[w].e IN
                     e.n <= applied /\ (Reflects(e)' /\ Newest(e.s, e.n)' => Done(e.s)')
        <4>1. \A e, s, n : e = proc[w].e /\ s = e.s /\ n = e.n =>
                 n <= applied /\ (Reflects(e)' /\ Newest(s, n)' => Done(s)')
          BY <2>2, <2>3, <2>6, <3>5 DEF InStep
        <4>2. QED
          BY <3>1, <4>1
      <3>6. \A s \in Subs : Paying(s)' =>
               /\ \A d, e \in Known : d.s # s /\ e.s = s => d.n < e.n
               /\ account.sub = s => \A d \in Known : d.s # s => d.n < applied
        BY <2>4 DEF InStep
      <3>7. QED
        BY <2>1, <3>1, <3>2, <3>3, <3>4, <3>5, <3>6 DEF InStep
    <2>11. \A kinds : Without(kinds)' <=> Without(kinds)
      BY <1>7 DEF vars, Without
    <2>12. QED
      BY <2>7, <2>8, <2>9, <2>10, <2>11 DEF BillingInv
  <1> HIDE DEF Kept
  <1>8. QED
    BY <1>2, <1>3, <1>4, <1>5, <1>6, <1>7 DEF Next, Handle

LEMMA BillingInvariant == Spec => []BillingInv
  BY BillingInit, BillingStep, PTL DEF Spec

----------------------------------------------------------------------------
(* What the billing code keeps.                                            *)

(* Rows, subscriptions and events always have the shapes the code and      *)
(* Stripe give them, and no event is applied that was never sent.          *)
THEOREM BillingTypeCorrect == Spec => []TypeOK
  <1>1. BillingInv => TypeOK
    BY DEF BillingInv, BillingTypeInv
  <1>2. QED
    BY <1>1, BillingInvariant, PTL

(* Nobody pays for a subscription whose events find no customer, unless    *)
(* two first checkouts each created a Stripe customer (getOrCreate between *)
(* the read of the row and its update).                                    *)
THEOREM PaidCustomersAreKnown == Spec => []PaidCustomerKnown
  <1>1. BillingInv => PaidCustomerKnown
    BY DEF BillingInv, OneCustomer, PaidCustomerKnown, Paying
  <1>2. QED
    BY <1>1, BillingInvariant, PTL

(* Nobody pays twice, unless a checkout began while another was under way  *)
(* or its outcome had not reached the row (the test of POST /checkout).    *)
THEOREM NobodyPaysTwice == Spec => []OneSubscription
  <1>1. ASSUME BillingInv, Without({"second"})
        PROVE  Cardinality({s \in Subs : Paying(s)}) <= 1
    <2> DEFINE P == {s \in Subs : Paying(s)}
    <2>1. \A r, s \in P : r = s
      BY <1>1 DEF BillingInv, OnePurchase, Alive, Paying
    <2>2. CASE P = {}
      BY <2>2, FS_EmptySet
    <2>3. ASSUME NEW s \in P
          PROVE  Cardinality(P) <= 1
      <3>1. P = {s}
        BY <2>1
      <3>2. QED
        BY <3>1, FS_Singleton
    <2>4. QED
      BY <2>2, <2>3
  <1>2. BillingInv => OneSubscription
    BY <1>1 DEF OneSubscription
  <1>3. QED
    BY <1>2, BillingInvariant, PTL

(* Once every event is acknowledged, whatever was repeated, lost or failed *)
(* on the way, the row says what Stripe says of its subscription, unless   *)
(* events were applied out of order or handlers or checkouts overlapped.   *)
THEOREM RowCatchesUp == Spec => []RowMatchesStripe
  <1>1. ASSUME BillingInv, Settled, Without({"disordered", "second", "raced"}),
               NEW s \in Subs, sub[s] # None, sub[s].status # "open", account.sub = s
        PROVE  Matches(s)
    <2>1. Sold(s) /\ InStep
      BY <1>1 DEF Sold, BillingInv
    <2>2. ~Pending(s)
      BY <1>1 DEF Settled, Pending
    <2>3. QED
      BY <1>1, <2>1, <2>2 DEF InStep, Done
  <1>2. BillingInv => RowMatchesStripe
    BY <1>1 DEF RowMatchesStripe, Matches
  <1>3. QED
    BY <1>2, BillingInvariant, PTL

=============================================================================
