------------------------------ MODULE Billing ------------------------------
(***************************************************************************)
(* One customer's subscription: checkout, Stripe's webhooks and the tenant *)
(* quota they are to set.                                                  *)
(*                                                                         *)
(* Stripe is external: it keeps the subscriptions and sends an event for   *)
(* every change, numbered here by the order of the changes.  It delivers   *)
(* events in any order and repeats one until it is acknowledged.  Two      *)
(* handlers interleave between the read of the customer's row, its update  *)
(* and the push to the tenant; `mishaps` remembers when they got in each   *)
(* other's way.                                                            *)
(***************************************************************************)
EXTENDS Integers, FiniteSets

CONSTANTS
  StripeIds,     \* Stripe's customer ids
  Subs,          \* checkout sessions and the subscriptions they become
  Workers,       \* slots for concurrent requests
  None,
  Limits         \* bounds: the subscriptions there may be, the events Stripe
                 \* sends and the deliveries that fail or go unanswered

ASSUME BillingAssumption ==
  Limits \subseteq [subs : SUBSET Subs, events : Nat, failures : Nat]

VARIABLES
  account,    \* the customer row
  instance,   \* the instance row's plan and its tenant's quota
  sub,        \* sub[s]: Stripe's record of the subscription, or None
  minted,     \* Stripe customer ids handed out
  events,     \* events Stripe has not seen acknowledged
  sent,       \* number of events sent
  applied,    \* history: the latest event applied
  proc,       \* proc[w]: the request in slot w
  limit,      \* the limits of this behaviour, chosen once
  failures, mishaps

vars == <<account, instance, sub, minted, events, sent, applied, proc, limit, failures,
          mishaps>>
stripe == <<sub, minted, events, sent, limit>>

----------------------------------------------------------------------------

Plans == {"free", "pro"}
Prices == {"pro", "other"}      \* "other": a price of Stripe's no plan has
Statuses == {"active", "past_due", "canceled"}

PlanForPrice(price) == IF price = "pro" THEN "pro" ELSE "free"

Account == [stripe : StripeIds \cup {None}, sub : Subs \cup {None},
            status : Statuses \cup {None}, plan : Plans]
Subscription == [owner : StripeIds, status : Statuses \cup {"open"}, price : Prices]
Event == [n : Nat, kind : {"completed", "updated", "deleted"}, s : Subs,
          owner : StripeIds, status : Statuses, price : Prices]
Instance == [plan : Plans, quota : Plans]

ASSUME NoneAssumption == None \notin StripeIds \cup Subs /\ None \notin Subscription

Idle == [pc |-> "idle"]
Goto(w, pc) == proc' = [proc EXCEPT ![w].pc = pc]
Finish(w) == proc' = [proc EXCEPT ![w] = Idle]
Note(kind, condition) == mishaps' = IF condition THEN mishaps \cup {kind} ELSE mishaps

Greater(m, n) == IF m >= n THEN m ELSE n
Paying(s) == sub[s] # None /\ sub[s].status \in {"active", "past_due"}

----------------------------------------------------------------------------
(* Stripe.                                                                 *)

Emit(s, kinds) ==
  LET first == sent + 1 IN
    /\ sent + Cardinality(kinds) <= limit.events
    /\ sent' = sent + Cardinality(kinds)
    /\ events' = events \cup
         {[n |-> IF k = "completed" THEN first ELSE sent', kind |-> k, s |-> s,
           owner |-> sub[s].owner, status |-> sub'[s].status, price |-> sub'[s].price] :
          k \in kinds}

StripeOnly == UNCHANGED <<account, instance, minted, applied, proc, limit, failures, mishaps>>

Pay(s) ==
  /\ sub[s] # None /\ sub[s].status = "open"
  /\ sub' = [sub EXCEPT ![s].status = "active"]
  /\ Emit(s, {"completed", "updated"})
  /\ StripeOnly

(* A failed or a recovered payment, or another price chosen in the portal. *)
Change(s) ==
  /\ Paying(s)
  /\ \E status \in {"active", "past_due"}, price \in Prices :
       sub' = [sub EXCEPT ![s].status = status, ![s].price = price]
  /\ sub' # sub
  /\ Emit(s, {"updated"})
  /\ StripeOnly

Cancel(s) ==
  /\ Paying(s)
  /\ sub' = [sub EXCEPT ![s].status = "canceled"]
  /\ Emit(s, {"deleted"})
  /\ StripeOnly

----------------------------------------------------------------------------
(* POST /api/billing/checkout.                                             *)

Ongoing ==
  \/ \E v \in Workers : proc[v].pc \in {"getcustomer", "mint", "link", "session"}
  \/ \E s \in Subs : sub[s] # None /\ sub[s].status # "canceled"

(* Mutant: every customer may check out.                                   *)
CheckoutUnguarded(w) ==
  /\ proc[w] = Idle /\ \E s \in limit.subs : sub[s] = None
  /\ proc' = [proc EXCEPT ![w] = [pc |-> "getcustomer"]]
  /\ Note("second", ~(account.sub # None /\ account.status = "active") /\ Ongoing)
  /\ UNCHANGED <<account, instance, stripe, applied, failures>>

(* A second checkout is let through while the first is under way, while    *)
(* its events are, and while the subscription is not "active".             *)
CheckoutBegin(w) ==
  /\ proc[w] = Idle /\ \E s \in limit.subs : sub[s] = None
  /\ ~(account.sub # None /\ account.status = "active")
  /\ proc' = [proc EXCEPT ![w] = [pc |-> "getcustomer"]]
  /\ Note("second", Ongoing)
  /\ UNCHANGED <<account, instance, stripe, applied, failures>>

GetCustomer(w) ==
  /\ proc[w].pc = "getcustomer"
  /\ proc' = [proc EXCEPT ![w] =
       IF account.stripe = None THEN [pc |-> "mint"]
       ELSE [pc |-> "session", owner |-> account.stripe]]
  /\ UNCHANGED <<account, instance, stripe, applied, failures, mishaps>>

(* Stripe may refuse, or have no answer.  Ids are made up by Stripe, so     *)
(* which of the unused ones it picks makes no difference.                  *)
MintCustomer(w) ==
  /\ proc[w].pc = "mint"
  /\ \/ Finish(w) /\ UNCHANGED minted
     \/ /\ StripeIds # minted
        /\ LET id == CHOOSE x \in StripeIds : x \notin minted IN
             /\ minted' = minted \cup {id}
             /\ proc' = [proc EXCEPT ![w] = [pc |-> "link", owner |-> id]]
  /\ UNCHANGED <<account, instance, sub, events, sent, applied, limit, failures, mishaps>>

(* Mutant: the id is returned and never stored.                            *)
LinkNothing(w) ==
  /\ proc[w].pc = "link"
  /\ Goto(w, "session")
  /\ UNCHANGED <<account, instance, stripe, applied, failures, mishaps>>

LinkCustomer(w) ==
  /\ proc[w].pc = "link"
  /\ account' = [account EXCEPT !.stripe = proc[w].owner]
  /\ Note("raced", account.stripe # None)
  /\ Goto(w, "session")
  /\ UNCHANGED <<instance, stripe, applied, failures>>

OpenSession(w) ==
  /\ proc[w].pc = "session"
  /\ \/ UNCHANGED sub
     \/ \E s \in limit.subs :
          /\ sub[s] = None /\ s = CHOOSE r \in limit.subs : sub[r] = None
          /\ sub' = [sub EXCEPT ![s] = [owner |-> proc[w].owner, status |-> "open",
                                        price |-> "pro"]]
  /\ Finish(w)
  /\ UNCHANGED <<account, instance, minted, events, sent, applied, limit, failures, mishaps>>

----------------------------------------------------------------------------
(* POST /api/billing/webhook.                                              *)

Deliver(w, e) ==
  /\ proc[w] = Idle /\ e \in events
  /\ proc' = [proc EXCEPT ![w] = [pc |-> "read", e |-> e]]
  /\ UNCHANGED <<account, instance, stripe, applied, failures, mishaps>>

Answer(w) == events' = events \ {proc[w].e} /\ Finish(w)

(* Mutant: an unknown customer is an error, and Stripe tries again.        *)
ReadCustomerThrows(w) ==
  /\ proc[w].pc = "read"
  /\ IF account.stripe # proc[w].e.owner THEN Finish(w)
     ELSE proc' = [proc EXCEPT ![w] = [pc |-> "write", e |-> @.e, row |-> account]]
  /\ UNCHANGED <<account, instance, sub, minted, events, sent, applied, limit, failures, mishaps>>

ReadCustomer(w) ==
  /\ proc[w].pc = "read"
  /\ IF account.stripe # proc[w].e.owner THEN Answer(w)
     ELSE /\ proc' = [proc EXCEPT ![w] = [pc |-> "write", e |-> @.e, row |-> account]]
          /\ UNCHANGED events
  /\ UNCHANGED <<account, instance, sub, minted, sent, applied, limit, failures, mishaps>>

(* What syncSubscription makes of an event and the row it read.  `??` keeps *)
(* the row's subscription where the event has none.                        *)
(* Mutant: the plan of a cancelled subscription stays.                     *)
SyncedKeepsPlan(e, row) ==
  CASE e.kind = "completed" ->
         [row EXCEPT !.plan = "pro", !.sub = e.s, !.status = "active"]
    [] e.kind = "updated" ->
         [row EXCEPT !.plan = PlanForPrice(e.price), !.sub = e.s, !.status = e.status]
    [] e.kind = "deleted" -> [row EXCEPT !.status = "canceled"]

Synced(e, row) ==
  CASE e.kind = "completed" ->
         [row EXCEPT !.plan = "pro", !.sub = e.s, !.status = "active"]
    [] e.kind = "updated" ->
         [row EXCEPT !.plan = PlanForPrice(e.price), !.sub = e.s, !.status = e.status]
    [] e.kind = "deleted" -> [row EXCEPT !.plan = "free", !.status = "canceled"]

(* Mutant: a status the row was never meant to hold.                       *)
WriteCustomerRaw(w) ==
  /\ proc[w].pc = "write"
  /\ account' = [Synced(proc[w].e, proc[w].row) EXCEPT !.status = proc[w].e.kind]
  /\ UNCHANGED mishaps
  /\ applied' = Greater(applied, proc[w].e.n)
  /\ proc' = [proc EXCEPT ![w] = [pc |-> "push", e |-> @.e]]
  /\ UNCHANGED <<instance, stripe, failures>>

(* The update names every field, so it also writes back what it read.      *)
WriteCustomer(w) ==
  /\ proc[w].pc = "write"
  /\ account' = [Synced(proc[w].e, proc[w].row) EXCEPT !.stripe = account.stripe]
  /\ Note("disordered", proc[w].e.n < applied \/ proc[w].row # account)
  /\ applied' = Greater(applied, proc[w].e.n)
  /\ proc' = [proc EXCEPT ![w] = [pc |-> "push", e |-> @.e]]
  /\ UNCHANGED <<instance, stripe, failures>>

(* applyPlanToInstance: the tenant is sent the plan of its instance's row; *)
(* no push happens if the instance is not active, and a failed one is only *)
(* logged.                                                                 *)
PushQuota(w) ==
  /\ proc[w].pc = "push"
  /\ \/ instance' = [instance EXCEPT !.quota = instance.plan] /\ UNCHANGED failures
     \/ UNCHANGED instance /\ failures < limit.failures /\ failures' = failures + 1
  /\ Answer(w)
  /\ UNCHANGED <<account, sub, minted, sent, applied, limit, mishaps>>

(* The handler answers 500 or its answer is lost: Stripe delivers again.   *)
DeliveryFails(w) ==
  /\ proc[w].pc \in {"read", "write", "push"} /\ failures < limit.failures
  /\ failures' = failures + 1
  /\ Finish(w)
  /\ UNCHANGED <<account, instance, stripe, applied, mishaps>>

----------------------------------------------------------------------------

Init ==
  /\ account = [stripe |-> None, sub |-> None, status |-> None, plan |-> "free"]
  /\ instance = [plan |-> "free", quota |-> "free"]
  /\ sub = [s \in Subs |-> None]
  /\ minted = {} /\ events = {} /\ sent = 0 /\ applied = 0
  /\ proc = [w \in Workers |-> Idle]
  /\ limit \in Limits /\ failures = 0 /\ mishaps = {}

Handle(w) == ReadCustomer(w) \/ WriteCustomer(w) \/ PushQuota(w)

Next ==
  \/ \E s \in Subs : Pay(s) \/ Change(s) \/ Cancel(s)
  \/ \E w \in Workers :
       \/ CheckoutBegin(w) \/ GetCustomer(w) \/ MintCustomer(w) \/ LinkCustomer(w)
       \/ OpenSession(w)
       \/ \E e \in events : Deliver(w, e)
       \/ Handle(w) \/ DeliveryFails(w)

Spec == Init /\ [][Next]_vars

(* Stripe goes on delivering what was not acknowledged, a handler's calls  *)
(* return, and so do those of the other requests.                          *)
FairSpec ==
  /\ Spec
  /\ \A w \in Workers :
       /\ WF_vars(Handle(w))
       /\ WF_vars(GetCustomer(w) \/ MintCustomer(w) \/ LinkCustomer(w) \/ OpenSession(w))
  /\ SF_vars(\E w \in Workers, e \in events : Deliver(w, e))

----------------------------------------------------------------------------
(* Properties.                                                             *)

Without(kinds) == mishaps \cap kinds = {}
Settled == events = {} /\ \A w \in Workers : proc[w] = Idle

(* Rows, subscriptions and events have the shapes the code and Stripe give *)
(* them.                                                                   *)
TypeOK ==
  /\ account \in Account
  /\ instance \in Instance
  /\ sub \in [Subs -> Subscription \cup {None}]
  /\ minted \subseteq StripeIds
  /\ events \subseteq Event
  /\ sent \in 0 .. limit.events /\ applied \in 0 .. sent
  /\ limit \in Limits /\ failures \in 0 .. limit.failures
  /\ mishaps \subseteq {"second", "raced", "disordered"}

(* Once every event is acknowledged, whatever was repeated or failed, the  *)
(* row says what Stripe says of the subscription, unless an older event    *)
(* was applied after a newer, two handlers overlapped or there was a       *)
(* second checkout.                                                        *)
RowMatchesStripe ==
  Settled /\ Without({"disordered", "second", "raced"}) =>
    \A s \in Subs : sub[s] # None /\ sub[s].status # "open" /\ account.sub = s =>
      /\ account.status = sub[s].status
      /\ account.plan = IF Paying(s) THEN PlanForPrice(sub[s].price) ELSE "free"

(* Nobody pays for a subscription whose events find no customer, unless    *)
(* two first checkouts each created a Stripe customer.                     *)
PaidCustomerKnown ==
  Without({"raced"}) => \A s \in Subs : Paying(s) => sub[s].owner = account.stripe

(* Nobody pays twice, unless a checkout began while another was under way  *)
(* or its outcome had not reached the row.                                 *)
OneSubscription ==
  Without({"second"}) => Cardinality({s \in Subs : Paying(s)}) <= 1

(* Every event is acknowledged in the end, those of customers the platform *)
(* does not know too, so Stripe never retries one for ever.                *)
EventsAcknowledged == []<>(events = {})

(* "sets the plan + pushes the new storage quota into the tenant".         *)
QuotaFollowsPlan ==
  Settled /\ failures = 0 /\ Without({"disordered", "second", "raced"})
    => instance.quota = account.plan

=============================================================================
