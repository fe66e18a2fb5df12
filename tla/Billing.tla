------------------------------- MODULE Billing -------------------------------
(***************************************************************************)
(* One customer's account and Stripe: registration, checkout of credit     *)
(* packs, monthly plans and add-ons, the webhook handlers, renewals and    *)
(* failed payments, cancellation, upgrade, the end of a subscription, and  *)
(* the two other writers of the balance, a job's reservation and an        *)
(* administrator's adjustment.                                             *)
(*                                                                         *)
(* A webhook handler is one database transaction. Those that read the row  *)
(* before they write it, without a lock, are two steps; so is an endpoint  *)
(* that calls Stripe and then writes the row. Stripe delivers an event     *)
(* until it is acknowledged, and an acknowledgement can be lost: in the    *)
(* model whatever was posted may be delivered at any time, any number of   *)
(* times, and in any order. A delivery that changes nothing is no step.    *)
(***************************************************************************)
EXTENDS Integers, FiniteSets

CONSTANTS
  Sessions,    \* Checkout Sessions; a monthly one names the subscription it creates
  Plans,       \* monthly plans, each the number of credits of its month
  Packs,       \* one-time packs, each its number of credits
  Rate,        \* credits_per_image of a monthly plan
  Trial,       \* REGISTRATION_CREDITS
  Cost,        \* credits of a generation job
  Adjustments, \* amounts an administrator may add or take
  MaxChanges,  \* bound: changes of subscriptions at Stripe, returns to normal apart
  MaxBusy,     \* bound: invocations that are in the middle of their work
  MaxGift,     \* bound: the balance above which no administrator adds credits
  None,        \* SQL NULL; no event
  Faults       \* which of FaultKinds may happen

FaultKinds == {
  "crash",        \* an invocation dies between its Stripe call and its write
  "createFails",  \* create_monthly_checkout raises
  "slowMonthly",  \* a monthly checkout is paid by a slow method (bank debit)
  "lateWebhook" } \* a paid session's event comes after the token has expired

ASSUME BillingConstants ==
  /\ Sessions \subseteq Nat /\ IsFiniteSet(Sessions)
  /\ Plans \subseteq Nat \ {0} /\ Packs \subseteq Nat \ {0}
  /\ Rate \in Nat \ {0} /\ Trial \in Nat /\ Cost \in Nat \ {0}
  /\ Adjustments \subseteq Int \ {0}
  /\ MaxChanges \in Nat /\ MaxBusy \in Nat /\ MaxGift \in Nat
  /\ None \notin Sessions
  /\ Faults \subseteq FaultKinds

VARIABLES
  user,      \* the users row
  session,   \* Stripe's Checkout Sessions
  stripe,    \* Stripe's subscriptions
  changes,   \* how often a subscription has changed; it numbers the events
  mail,      \* the events Stripe has posted
  claims,    \* processed_stripe_events
  grants,    \* how often each session's purchase was granted
  doing      \* what invocations have begun, by kind; at most one of each

vars == <<user, session, stripe, changes, mail, claims, grants, doing>>

\* checkout: the session create_subscription has reserved and is creating;
\* cancel: what cancel or reactivate has told Stripe and is to write;
\* sync: the event and balances _handle_subscription_updated has read;
\* topup: the event _handle_topup is granting; spend: the debits reserve_job_slot
\* has computed; adjust: the balance admin_adjust_credits has read, and the amount.
Idle == [k \in {"checkout", "cancel", "sync", "topup", "spend", "adjust"} |-> None]
Begin(k, what) ==
  /\ doing[k] = None
  /\ Cardinality({j \in DOMAIN doing : doing[j] # None}) < MaxBusy
  /\ doing' = [doing EXCEPT ![k] = what]
Finish(k) ==
  /\ doing[k] # None
  /\ doing' = [doing EXCEPT ![k] = None]

Types == {"absent", "none", "one_time", "monthly"}
Kinds == {"one_time", "monthly", "topup"}
SessionStates == {"none", "reserved", "open", "settling", "paid", "expired", "failed"}
SubStates == {"none", "active", "past_due", "canceled", "unpaid"}
EventKinds == {
  "paid", "unpaid",             \* checkout.session.completed, by payment_status
  "paidLater", "failedLater",   \* checkout.session.async_payment_succeeded, _failed
  "expired",                    \* checkout.session.expired
  "invoice", "upgradeInvoice",  \* invoice.paid, by billing_reason
  "refused",                    \* invoice.payment_failed
  "changed",                    \* customer.subscription.updated to active or past_due
  "over" }                      \* ... updated to unpaid, or deleted

\* plan and ending are what a "changed" event says of the subscription.
Event == [kind : EventKinds, of : Sessions, no : Nat, plan : Nat, ending : BOOLEAN]
Note(kind, s, no) == [kind |-> kind, of |-> s, no |-> no, plan |-> 0, ending |-> FALSE]
Changed(s, no, plan, ending) ==
  [kind |-> "changed", of |-> s, no |-> no, plan |-> plan, ending |-> ending]

\* Checkout grants are claimed by session, every other event by its own id.
CheckoutKinds == {"paid", "paidLater"}
ClaimOf(e) == IF e.kind \in CheckoutKinds THEN Note("paid", e.of, 0) ELSE e

Live == {"active", "past_due"}
ActiveMonthly == user.type = "monthly" /\ user.sub # None

Init ==
  /\ user = [type |-> "absent", sub |-> None, limit |-> 0, total |-> 0,
             oneTime |-> 0, monthly |-> 0, token |-> None, fresh |-> FALSE,
             cancelAt |-> FALSE, overdue |-> FALSE]
  /\ session = [s \in Sessions |-> [state |-> "none", kind |-> "one_time", amount |-> 0]]
  /\ stripe = [s \in Sessions |-> [status |-> "none", plan |-> 0, ending |-> FALSE]]
  /\ changes = 0 /\ mail = {} /\ claims = {}
  /\ grants = [s \in Sessions |-> 0]
  /\ doing = Idle

-----------------------------------------------------------------------------
(* Endpoints.                                                              *)

AtStripe == <<session, stripe, changes, mail>>

\* register_user: the first login creates the row with the trial credits.
Register ==
  /\ user.type = "absent"
  /\ user' = [user EXCEPT !.type = "none", !.total = Trial, !.oneTime = Trial]
  /\ UNCHANGED <<AtStripe, claims, grants, doing>>

\* Sessions are numbered in the order in which they are opened.
NewSession(s, state, kind, amount) ==
  /\ session[s].state = "none"
  /\ \A t \in Sessions : session[t].state = "none" => s <= t
  /\ session' = [session EXCEPT ![s] = [state |-> state, kind |-> kind, amount |-> amount]]
  /\ UNCHANGED <<stripe, changes, mail>>

\* create_subscription for a pack. The gate reads the row, not the other sessions.
OpenPack(s, pack) ==
  /\ ~ActiveMonthly
  /\ NewSession(s, "open", "one_time", pack)
  /\ UNCHANGED <<user, claims, grants, doing>>

\* topup_credits: add-ons are sold to an active monthly plan only.
OpenTopup(s, pack) ==
  /\ ActiveMonthly
  /\ NewSession(s, "open", "topup", pack)
  /\ UNCHANGED <<user, claims, grants, doing>>

\* _reserve_monthly_checkout: the account's one token, taken if free or expired.
Reserve(s, plan) ==
  /\ user.type # "absent" /\ ~ActiveMonthly
  /\ user.token = None \/ ~user.fresh
  /\ user' = [user EXCEPT !.token = s, !.fresh = TRUE]
  /\ NewSession(s, "reserved", "monthly", plan)
  /\ Begin("checkout", s)
  /\ UNCHANGED <<claims, grants>>

SetState(s, state) == session' = [session EXCEPT ![s].state = state]

\* _release_monthly_checkout: only the token it was given.
Release(s) ==
  user' = IF user.token = s THEN [user EXCEPT !.token = None, !.fresh = FALSE] ELSE user

\* The second half of create_subscription for a plan.
CreateSession ==
  /\ Finish("checkout")
  /\ SetState(doing.checkout, "open")
  /\ UNCHANGED <<user, stripe, changes, mail, claims, grants>>

\* Stripe refuses, or its answer is lost: nobody has the session's address.
CreateFails ==
  /\ "createFails" \in Faults /\ Finish("checkout")
  /\ SetState(doing.checkout, "failed")
  /\ Release(doing.checkout)
  /\ UNCHANGED <<stripe, changes, mail, claims, grants>>

CheckoutDies ==
  /\ "crash" \in Faults /\ Finish("checkout")
  /\ SetState(doing.checkout, "failed")
  /\ UNCHANGED <<user, stripe, changes, mail, claims, grants>>

\* _recover_stale_monthly_checkout: create_subscription has found the token taken.
Recover ==
  /\ user.type # "absent" /\ ~ActiveMonthly
  /\ user.token # None /\ user.fresh
  /\ \/ session[user.token].state = "expired"
     \/ session[user.token].state = "paid" /\ stripe[user.token].status \notin Live
  /\ Release(user.token)
  /\ UNCHANGED <<AtStripe, claims, grants, doing>>

\* A subscription changes at Stripe, which posts events about it. The bound is on
\* changes other than a return to normal, from a cancellation or a failed payment.
Troubled(fields) == fields.ending \/ fields.status = "past_due"
Subscription(s, fields) ==
  /\ changes < MaxChanges \/ (Troubled(stripe[s]) /\ ~Troubled(fields))
  /\ changes' = changes + 1
  /\ stripe' = [stripe EXCEPT ![s] = fields]
Posts(events) == mail' = mail \cup events

\* What customer.subscription.updated tells of the subscription in its new form.
ChangedTo(s, fields) == Changed(s, changes + 1, fields.plan, fields.ending)

\* cancel_user_subscription and reactivate_user_subscription call Stripe ...
SetEnding(ending) ==
  LET fields == [stripe[user.sub] EXCEPT !.ending = ending]
  IN /\ stripe[user.sub].status \in Live
     /\ IF stripe[user.sub].ending = ending
        THEN UNCHANGED <<stripe, changes, mail>>
        ELSE /\ Subscription(user.sub, fields)
             /\ Posts({ChangedTo(user.sub, fields)})
     /\ UNCHANGED <<user, session, claims, grants>>

Cancel ==
  /\ ActiveMonthly
  /\ SetEnding(TRUE) /\ Begin("cancel", "cancel")

Reactivate ==
  /\ ActiveMonthly /\ user.cancelAt
  /\ SetEnding(FALSE) /\ Begin("cancel", "resume")

\* ... and then write the row, whatever it says by then.
WriteCancel ==
  /\ Finish("cancel")
  /\ user' = [user EXCEPT !.cancelAt = (doing.cancel = "cancel")]
  /\ UNCHANGED <<AtStripe, claims, grants>>

CancelDies ==
  /\ "crash" \in Faults /\ Finish("cancel")
  /\ UNCHANGED <<user, AtStripe, claims, grants>>

\* upgrade_user_subscription: Stripe charges the difference at once.
Upgrade(plan) ==
  /\ ActiveMonthly /\ ~user.cancelAt /\ plan > user.limit
  /\ stripe[user.sub].status = "active"
  /\ LET s == user.sub
         fields == [stripe[s] EXCEPT !.plan = plan]
     IN /\ Subscription(s, fields)
        /\ Posts({ChangedTo(s, fields), Note("upgradeInvoice", s, changes + 1)})
  /\ UNCHANGED <<user, session, claims, grants, doing>>

-----------------------------------------------------------------------------
(* Stripe and the customer's bank.                                         *)

Elsewhere == UNCHANGED <<user, claims, grants, doing>>

Paid(s, kind) ==
  /\ SetState(s, "paid")
  /\ IF session[s].kind # "monthly"
     THEN Posts({Note(kind, s, 0)}) /\ UNCHANGED stripe
     ELSE /\ stripe' = [stripe EXCEPT ![s] = [status |-> "active", ending |-> FALSE,
                                              plan |-> session[s].amount]]
          /\ Posts({Note(kind, s, 0), Note("invoice", s, 0)})
  /\ UNCHANGED changes /\ Elsewhere

Pay(s) == session[s].state = "open" /\ Paid(s, "paid")

\* The session completes with a payment that is still to arrive.
PayLater(s) ==
  /\ session[s].state = "open"
  /\ session[s].kind = "monthly" => "slowMonthly" \in Faults
  /\ SetState(s, "settling")
  /\ Posts({Note("unpaid", s, 0)})
  /\ UNCHANGED <<stripe, changes>> /\ Elsewhere

Arrives(s) == session[s].state = "settling" /\ Paid(s, "paidLater")

Bounces(s) ==
  /\ session[s].state = "settling"
  /\ SetState(s, "failed")
  /\ Posts({Note("failedLater", s, 0)})
  /\ UNCHANGED <<stripe, changes>> /\ Elsewhere

\* An open session expires; for a monthly one that is after 31 minutes.
SessionExpires(s) ==
  /\ session[s].state = "open"
  /\ SetState(s, "expired")
  /\ Posts({Note("expired", s, 0)})
  /\ UNCHANGED <<stripe, changes>> /\ Elsewhere

\* Mutated form of TokenExpires: the token expires before its session does.
TokenExpiresEarly ==
  /\ user.token # None /\ user.fresh
  /\ user' = [user EXCEPT !.fresh = FALSE]
  /\ UNCHANGED <<AtStripe, claims, grants, doing>>

\* The token expires after 32 minutes: its request and its session are over by then.
\* That a paid session's event has been handled by then is an assumption.
TokenExpires ==
  /\ user.token # None /\ user.fresh
  /\ session[user.token].state \in {"paid", "settling"} => "lateWebhook" \in Faults
  /\ session[user.token].state \notin {"reserved", "open"}
  /\ user' = [user EXCEPT !.fresh = FALSE]
  /\ UNCHANGED <<AtStripe, claims, grants, doing>>

\* A month begins, or a failed payment is tried again, and is paid.
InvoicePaid(s) ==
  /\ stripe[s].status \in Live
  /\ stripe[s].status = "active" => ~stripe[s].ending
  /\ LET fields == [stripe[s] EXCEPT !.status = "active"]
     IN /\ Subscription(s, fields)
        /\ Posts({Note("invoice", s, changes + 1)} \cup
                 IF stripe[s].status = "active" THEN {} ELSE {ChangedTo(s, fields)})
  /\ UNCHANGED session /\ Elsewhere

InvoiceFails(s) ==
  /\ stripe[s].status = "active" /\ ~stripe[s].ending
  /\ LET fields == [stripe[s] EXCEPT !.status = "past_due"]
     IN /\ Subscription(s, fields)
        /\ Posts({Note("refused", s, changes + 1), ChangedTo(s, fields)})
  /\ UNCHANGED session /\ Elsewhere

\* The period a cancellation waited for ends, or Stripe gives up on the card.
SubscriptionEnds(s, status) ==
  /\ \/ stripe[s].ending /\ stripe[s].status \in Live /\ status = "canceled"
     \/ stripe[s].status = "past_due" /\ status \in {"canceled", "unpaid"}
  /\ stripe' = [stripe EXCEPT ![s].status = status]
  /\ Posts({Note("over", s, 0)})
  /\ UNCHANGED <<session, changes>> /\ Elsewhere

-----------------------------------------------------------------------------
(* Webhooks. A handler that finds its claim taken does nothing more; one   *)
(* whose update matches no row rolls its claim back.                       *)

Arrived(e, kind) == e \in mail /\ e.kind = kind
Claimed(e) == ClaimOf(e) \in claims
Claims(e) == ~Claimed(e) /\ claims' = claims \cup {ClaimOf(e)}

\* Mutated form of PaidFor: checkout.session.async_payment_succeeded is not handled.
PaidForAtOnce(e, kind) == Arrived(e, "paid") /\ session[e.of].kind = kind

\* A paid checkout of this kind; _fulfill_paid_checkout ignores one that is not paid.
PaidFor(e, kind) == e \in mail /\ e.kind \in CheckoutKinds /\ session[e.of].kind = kind

Granted(s) == grants' = [grants EXCEPT ![s] = @ + 1]

\* A session that expired, or a monthly one whose payment bounced, frees its token.
FreesToken(e) ==
  /\ Arrived(e, "expired") \/ Arrived(e, "failedLater")
  /\ session[e.of].kind = "monthly" /\ Release(e.of)
  /\ UNCHANGED <<AtStripe, claims, grants, doing>>

\* What the row becomes when a pack of n credits is granted.
WithPack(n) ==
  [user EXCEPT !.type = "one_time", !.total = user.oneTime + n, !.oneTime = @ + n,
               !.monthly = 0, !.limit = 0, !.cancelAt = FALSE, !.overdue = FALSE]

\* Mutated form of GrantPack: granted again at every delivery.
GrantPackAgain(e) ==
  /\ PaidFor(e, "one_time")
  /\ user.type # "absent" /\ ~ActiveMonthly
  /\ claims' = claims \cup {ClaimOf(e)} /\ Granted(e.of)
  /\ user' = WithPack(session[e.of].amount)
  /\ UNCHANGED <<AtStripe, doing>>

\* _handle_onetime_payment: refused, and retried by Stripe, while a plan is active.
GrantPack(e) ==
  /\ PaidFor(e, "one_time")
  /\ user.type # "absent" /\ ~ActiveMonthly
  /\ Claims(e) /\ Granted(e.of)
  /\ user' = WithPack(session[e.of].amount)
  /\ UNCHANGED <<AtStripe, doing>>

\* Mutated form of Carried: a new plan starts from nothing.
CarriedNothing == 0

\* What _handle_monthly_checkout keeps as the one-time balance: all the account had.
Carried == IF user.type = "monthly" THEN user.oneTime ELSE user.total

\* _handle_monthly_checkout, for the account's own checkout and subscription only.
GrantMonthly(e) ==
  LET n == session[e.of].amount IN
  /\ PaidFor(e, "monthly")
  /\ user.type # "absent"
  /\ user.sub \in {None, e.of} /\ user.token \in {None, e.of}
  /\ Claims(e) /\ Granted(e.of)
  /\ user' = [user EXCEPT !.type = "monthly", !.sub = e.of, !.limit = n,
                          !.total = n + Carried, !.oneTime = Carried, !.monthly = n,
                          !.token = None, !.fresh = FALSE]
  /\ UNCHANGED <<AtStripe, doing>>

\* _handle_topup claims the session and reads the plan ...
ReadTopup(e) ==
  /\ PaidFor(e, "topup") /\ ~Claimed(e)
  /\ user.type = "monthly"
  /\ Begin("topup", e)
  /\ UNCHANGED <<user, AtStripe, claims, grants>>

\* ... and adds the credits, to a monthly account; it does not look how many rows it hit.
WriteTopup ==
  LET e == doing.topup
      n == session[e.of].amount * Rate
  IN
  /\ Finish("topup")
  /\ IF user.type = "monthly"
     THEN /\ user' = [user EXCEPT !.total = @ + n, !.oneTime = @ + n]
          /\ Granted(e.of)
     ELSE UNCHANGED <<user, grants>>
  /\ claims' = claims \cup {ClaimOf(e)}
  /\ UNCHANGED AtStripe

\* _handle_invoice_paid: the invoice of an upgrade only clears the warning.
UpgradeInvoice(e) ==
  /\ Arrived(e, "upgradeInvoice") /\ Claims(e)
  /\ user' = IF user.sub = e.of THEN [user EXCEPT !.overdue = FALSE] ELSE user
  /\ UNCHANGED <<AtStripe, grants, doing>>

\* Mutated form of Renewed: the total forgets the one-time balance.
RenewedAlone == [user EXCEPT !.monthly = user.limit, !.total = user.limit, !.overdue = FALSE]

\* The row at the beginning of a month.
Renewed ==
  [user EXCEPT !.monthly = user.limit, !.total = user.limit + user.oneTime, !.overdue = FALSE]

\* Any other invoice fills the month's allowance up to its limit.
Invoice(e) ==
  /\ Arrived(e, "invoice") /\ user.sub = e.of /\ Claims(e)
  /\ user' = Renewed
  /\ UNCHANGED <<AtStripe, grants, doing>>

\* _handle_payment_failed.
Refused(e) ==
  /\ Arrived(e, "refused") /\ Claims(e)
  /\ user' = IF user.sub = e.of THEN [user EXCEPT !.overdue = TRUE] ELSE user
  /\ UNCHANGED <<AtStripe, grants, doing>>

\* _handle_subscription_ended: what is left is the one-time balance.
Ended(e) ==
  /\ Arrived(e, "over") /\ Claims(e)
  /\ user' = IF user.sub # e.of THEN user
             ELSE [user EXCEPT !.type = IF user.oneTime > 0 THEN "one_time" ELSE "none",
                               !.sub = None, !.limit = 0, !.total = user.oneTime,
                               !.monthly = 0, !.cancelAt = FALSE, !.overdue = FALSE]
  /\ UNCHANGED <<AtStripe, grants, doing>>

\* _handle_subscription_updated reads the balances; it leaves an event of a
\* subscription it does not know unclaimed ...
ReadChanged(e) ==
  /\ Arrived(e, "changed") /\ ~Claimed(e) /\ user.sub = e.of
  /\ Begin("sync", [event |-> e, limit |-> user.limit, monthly |-> user.monthly,
                    oneTime |-> user.oneTime])
  /\ UNCHANGED <<user, AtStripe, claims, grants>>

\* The allowance of the month after a change of plan.
Prorated(plan, limit, monthly) ==
  IF plan > limit THEN monthly + (plan - limit)
  ELSE IF plan < limit /\ plan < monthly THEN plan ELSE monthly

\* ... and writes plan, allowance and total as they follow from what it read.
WriteChanged ==
  LET read == doing.sync
      e == read.event
      m == Prorated(e.plan, read.limit, read.monthly)
  IN
  /\ Finish("sync")
  /\ IF user.sub = e.of
     THEN /\ user' = [user EXCEPT !.type = "monthly", !.limit = e.plan, !.monthly = m,
                                  !.total = m + read.oneTime, !.cancelAt = e.ending]
          /\ claims' = claims \cup {ClaimOf(e)}
     ELSE UNCHANGED <<user, claims>>
  /\ UNCHANGED <<AtStripe, grants>>

-----------------------------------------------------------------------------
(* Time, jobs and administrators.                                          *)

\* failed_payment_grace_cleanup, some days after the first failure.
GraceCleanup ==
  /\ user.type = "monthly" /\ user.overdue /\ user.monthly > 0
  /\ user' = [user EXCEPT !.monthly = 0, !.total = user.oneTime]
  /\ UNCHANGED <<AtStripe, claims, grants, doing>>

Smaller(a, b) == IF a < b THEN a ELSE b

\* reserve_job_slot reads the balance the plan's jobs are paid from ...
ReadBalance ==
  LET m == IF user.type = "monthly" THEN Smaller(user.monthly, Cost) ELSE 0 IN
  /\ user.type # "absent" /\ Cost - m <= user.oneTime
  /\ Begin("spend", [monthly |-> m, oneTime |-> Cost - m])
  /\ UNCHANGED <<user, AtStripe, claims, grants>>

\* ... and takes the debits off it.
Spend ==
  /\ Finish("spend")
  /\ user' = [user EXCEPT !.monthly = @ - doing.spend.monthly,
                          !.oneTime = @ - doing.spend.oneTime,
                          !.total = @ - doing.spend.monthly - doing.spend.oneTime]
  /\ UNCHANGED <<AtStripe, claims, grants>>

\* admin_adjust_credits reads the one-time balance ...
ReadAdjust(amount) ==
  /\ user.type # "absent"
  /\ user.oneTime + amount <= MaxGift
  /\ Begin("adjust", [read |-> user.oneTime, amount |-> amount])
  /\ UNCHANGED <<user, AtStripe, claims, grants>>

Larger(a, b) == IF a > b THEN a ELSE b

\* ... and writes it with the amount applied, never below zero; the total moves by it.
Adjust ==
  LET old == doing.adjust.read
      sum == old + doing.adjust.amount
      new == IF doing.adjust.amount > 0 THEN sum ELSE Larger(0, sum)
  IN
  /\ Finish("adjust")
  /\ user' = [user EXCEPT !.oneTime = new, !.total = @ + (new - old)]
  /\ UNCHANGED <<AtStripe, claims, grants>>

-----------------------------------------------------------------------------
Customer ==
  \/ Register \/ Recover \/ Cancel \/ Reactivate
  \/ \E s \in Sessions :
       \/ \E p \in Packs : OpenPack(s, p) \/ OpenTopup(s, p)
       \/ \E p \in Plans : Reserve(s, p)
  \/ \E p \in Plans : Upgrade(p)
  \/ ReadBalance \/ \E n \in Adjustments : ReadAdjust(n)

Stripe(s) ==
  \/ Pay(s) \/ PayLater(s) \/ Arrives(s) \/ Bounces(s) \/ SessionExpires(s)
  \/ InvoicePaid(s) \/ InvoiceFails(s)
  \/ \E status \in {"canceled", "unpaid"} : SubscriptionEnds(s, status)

\* What Stripe delivers to stripe_webhook.
Webhook(e) ==
  \/ FreesToken(e) \/ GrantPack(e) \/ GrantMonthly(e) \/ ReadTopup(e)
  \/ UpgradeInvoice(e) \/ Invoice(e) \/ Refused(e) \/ Ended(e)
  \/ ReadChanged(e)

\* The second halves of what has been started.
Continue ==
  \/ CreateSession \/ WriteCancel \/ WriteTopup \/ WriteChanged \/ Spend \/ Adjust

Next ==
  \/ Customer
  \/ \E s \in Sessions : Stripe(s)
  \/ \E e \in mail : Webhook(e)
  \/ Continue \/ CreateFails \/ CheckoutDies \/ CancelDies
  \/ TokenExpires \/ GraceCleanup

Spec == Init /\ [][Next]_vars

\* Stripe keeps delivering a paid checkout until it is acknowledged, and what was begun
\* is finished. Delivery is strongly fair: the bound MaxBusy, which no server has, can
\* disable it again and again.
Fairness ==
  /\ \A s \in Sessions : \A k \in CheckoutKinds : SF_vars(Webhook(Note(k, s, 0)))
  /\ WF_vars(CreateSession) /\ WF_vars(WriteCancel) /\ WF_vars(WriteTopup)
  /\ WF_vars(WriteChanged) /\ WF_vars(Spend) /\ WF_vars(Adjust)

FairSpec == Spec /\ Fairness

-----------------------------------------------------------------------------
(* Properties.                                                             *)

\* Types of the row, of Stripe's objects, of the events and of what is in progress.
TypeOK ==
  /\ user \in [type : Types, sub : Sessions \cup {None}, limit : Nat, total : Int,
               oneTime : Int, monthly : Int, token : Sessions \cup {None},
               fresh : BOOLEAN, cancelAt : BOOLEAN, overdue : BOOLEAN]
  /\ session \in [Sessions -> [state : SessionStates, kind : Kinds, amount : Nat]]
  /\ stripe \in [Sessions -> [status : SubStates, plan : Nat, ending : BOOLEAN]]
  /\ mail \subseteq Event /\ claims \subseteq Event
  /\ grants \in [Sessions -> Nat] /\ changes \in Nat
  /\ doing \in [checkout : Sessions \cup {None}, cancel : {"cancel", "resume", None},
               sync : [event : Event, limit : Nat, monthly : Int, oneTime : Int] \cup {None},
               topup : Event \cup {None},
               spend : [monthly : Int, oneTime : Int] \cup {None},
               adjust : [read : Int, amount : Int] \cup {None}]

\* _reserve_monthly_checkout's promise, and what it is for: however requests, expiries,
\* recoveries and webhooks interleave, the customer has one monthly checkout that can
\* still be paid or one subscription that is charged, never two.
OneSubscription ==
  Cardinality({s \in Sessions :
    session[s].kind = "monthly" /\ (session[s].state \in {"reserved", "open", "settling"}
                                    \/ stripe[s].status \in Live)}) <= 1

\* The total every screen shows is the sum of the two balances jobs are paid from. Only a
\* handler that writes back a balance which has changed since it read it can end that.
Split == user.total = user.oneTime + user.monthly
Writes(k) == doing[k] # None /\ doing'[k] = None
StaleSync == Writes("sync") /\ doing.sync.oneTime # user.oneTime
StaleAdjust == Writes("adjust") /\ doing.adjust.read # user.oneTime
SplitKept == [][Split => (Split' \/ StaleSync \/ StaleAdjust)]_vars

\* Bought credits do not expire: no renewal, failed payment, grace cleanup, change or end
\* of a plan takes any of them; a job or an administrator does.
AddOnsSurvive ==
  [][Split /\ user.monthly >= 0 /\ user'.oneTime < user.oneTime =>
       Writes("spend") \/ Writes("adjust")]_vars

\* How far the purchase of every session is.
Phase == [s \in Sessions |->
  IF grants[s] > 0 THEN IF grants[s] = 1 THEN "granted" ELSE "twice"
  ELSE IF session[s].state \in {"reserved", "open", "settling"} THEN "offered"
  ELSE IF session[s].state \in {"expired", "failed"} THEN "void"
  ELSE IF session[s].state = "paid" THEN "paid" ELSE "none"]

\* Every purchase is granted once, after it was paid, however often and through
\* whichever events Stripe reports it.
Bought == INSTANCE Purchases WITH phase <- Phase
SoldOnce == Bought!Spec

\* A paid checkout does not stay ungranted: Stripe's retries apply it as soon as the
\* account can take it (a pack waits for the end of a plan, an add-on needs one).
Owed(s) ==
  /\ session[s].state = "paid" /\ Note("paid", s, 0) \notin claims
  /\ session[s].kind = "monthly" => stripe[s].status \in Live
Suits(s) ==
  CASE session[s].kind = "one_time" -> user.type # "absent" /\ ~ActiveMonthly
    [] session[s].kind = "topup"    -> user.type = "monthly"
    [] session[s].kind = "monthly"  -> TRUE
PaidIsGranted == \A s \in Sessions : []<>(Owed(s) => ~Suits(s))
=============================================================================
