---------------------------- MODULE Billing_proofs ----------------------------
(***************************************************************************)
(* Theorems about Billing, for any number of Checkout Sessions, plans,     *)
(* packs, changes of subscriptions and invocations at work.                *)
(***************************************************************************)
EXTENDS Billing, FiniteSetTheorems, TLAPS

Account == [type : Types, sub : Sessions \cup {None}, limit : Nat, total : Int,
            oneTime : Int, monthly : Int, token : Sessions \cup {None},
            fresh : BOOLEAN, cancelAt : BOOLEAN, overdue : BOOLEAN]
CheckoutSession == [state : SessionStates, kind : Kinds, amount : Nat]
Subscribed == [status : SubStates, plan : Nat, ending : BOOLEAN]
SyncRead == [event : Event, limit : Nat, monthly : Int, oneTime : Int]
Debits == [monthly : Int, oneTime : Int]
Adjustment == [read : Int, amount : Int]
Work == [checkout : Sessions \cup {None}, cancel : {"cancel", "resume", None},
         sync : SyncRead \cup {None}, topup : Event \cup {None},
         spend : Debits \cup {None}, adjust : Adjustment \cup {None}]

USE BillingConstants

-----------------------------------------------------------------------------
(* Types.                                                                  *)

TypeInv ==
  /\ user \in Account /\ session \in [Sessions -> CheckoutSession]
  /\ stripe \in [Sessions -> Subscribed]
  /\ mail \subseteq Event /\ claims \subseteq Event
  /\ grants \in [Sessions -> Nat] /\ changes \in Nat
  /\ doing \in Work

LEMMA TypeInvIsTypeOK == TypeInv <=> TypeOK
BY DEF TypeInv, TypeOK, Account, CheckoutSession, Subscribed, SyncRead, Debits, Adjustment, Work

LEMMA NoteType ==
  ASSUME NEW k \in EventKinds, NEW s \in Sessions, NEW n \in Nat
  PROVE  Note(k, s, n) \in Event
BY DEF Note, Event

LEMMA ChangedType ==
  ASSUME NEW s \in Sessions, NEW n \in Nat, NEW p \in Nat, NEW b \in BOOLEAN
  PROVE  Changed(s, n, p, b) \in Event
BY DEF Changed, Event, EventKinds

LEMMA ClaimType ==
  ASSUME NEW e \in Event
  PROVE  ClaimOf(e) \in Event /\ e.of \in Sessions /\ e.kind \in EventKinds
         /\ e.plan \in Nat /\ e.ending \in BOOLEAN
<1>1. e.of \in Sessions /\ e.kind \in EventKinds /\ e.plan \in Nat /\ e.ending \in BOOLEAN
  BY DEF Event
<1>2. Note("paid", e.of, 0) \in Event  BY <1>1, NoteType DEF EventKinds
<1> QED  BY <1>1, <1>2 DEF ClaimOf

\* The row with some of its columns written.
LEMMA AccountWithFlags ==
  ASSUME NEW a \in Account, NEW b \in BOOLEAN
  PROVE  /\ [a EXCEPT !.fresh = b] \in Account
         /\ [a EXCEPT !.cancelAt = b] \in Account
         /\ [a EXCEPT !.overdue = b] \in Account
BY DEF Account

LEMMA AccountWithToken ==
  ASSUME NEW a \in Account, NEW s \in Sessions \cup {None}, NEW b \in BOOLEAN
  PROVE  [a EXCEPT !.token = s, !.fresh = b] \in Account
BY DEF Account

LEMMA AccountWithTrial ==
  ASSUME NEW a \in Account, NEW t \in Types, NEW n \in Int, NEW k \in Int
  PROVE  [a EXCEPT !.type = t, !.total = n, !.oneTime = k] \in Account
BY DEF Account

LEMMA AccountWithPack ==
  ASSUME NEW a \in Account, NEW t \in Types, NEW n \in Int, NEW k \in Int, NEW m \in Int,
         NEW limit \in Nat, NEW b \in BOOLEAN, NEW c \in BOOLEAN
  PROVE  [a EXCEPT !.type = t, !.total = n, !.oneTime = k, !.monthly = m, !.limit = limit,
                   !.cancelAt = b, !.overdue = c] \in Account
BY DEF Account

LEMMA AccountWithPlan ==
  ASSUME NEW a \in Account, NEW t \in Types, NEW s \in Sessions \cup {None}, NEW n \in Int,
         NEW k \in Int, NEW m \in Int, NEW limit \in Nat,
         NEW token \in Sessions \cup {None}, NEW b \in BOOLEAN
  PROVE  [a EXCEPT !.type = t, !.sub = s, !.limit = limit, !.total = n, !.oneTime = k,
                   !.monthly = m, !.token = token, !.fresh = b] \in Account
BY DEF Account

LEMMA AccountRenewed ==
  ASSUME NEW a \in Account, NEW n \in Int, NEW m \in Int, NEW b \in BOOLEAN
  PROVE  [a EXCEPT !.monthly = m, !.total = n, !.overdue = b] \in Account
BY DEF Account

LEMMA AccountEnded ==
  ASSUME NEW a \in Account, NEW t \in Types, NEW s \in Sessions \cup {None}, NEW n \in Int,
         NEW m \in Int, NEW limit \in Nat, NEW b \in BOOLEAN, NEW c \in BOOLEAN
  PROVE  [a EXCEPT !.type = t, !.sub = s, !.limit = limit, !.total = n, !.monthly = m,
                   !.cancelAt = b, !.overdue = c] \in Account
BY DEF Account

LEMMA AccountChanged ==
  ASSUME NEW a \in Account, NEW t \in Types, NEW n \in Int, NEW m \in Int,
         NEW limit \in Nat, NEW b \in BOOLEAN
  PROVE  [a EXCEPT !.type = t, !.limit = limit, !.monthly = m, !.total = n, !.cancelAt = b]
           \in Account
BY DEF Account

LEMMA AccountSpent ==
  ASSUME NEW a \in Account, NEW n \in Int, NEW k \in Int, NEW m \in Int
  PROVE  /\ [a EXCEPT !.monthly = m, !.oneTime = k, !.total = n] \in Account
         /\ [a EXCEPT !.total = n, !.oneTime = k] \in Account
         /\ [a EXCEPT !.oneTime = k, !.total = n] \in Account
         /\ [a EXCEPT !.monthly = m, !.total = n] \in Account
BY DEF Account

\* What is begun and what is finished, of every kind of work.
LEMMA BeginType ==
  ASSUME doing \in Work
  PROVE  /\ \A s \in Sessions : Begin("checkout", s) => doing' \in Work
         /\ \A c \in {"cancel", "resume"} : Begin("cancel", c) => doing' \in Work
         /\ \A r \in SyncRead : Begin("sync", r) => doing' \in Work
         /\ \A e \in Event : Begin("topup", e) => doing' \in Work
         /\ \A d \in Debits : Begin("spend", d) => doing' \in Work
         /\ \A a \in Adjustment : Begin("adjust", a) => doing' \in Work
<1> DEFINE D(k, what) == [doing EXCEPT ![k] = what]
<1>1. \A s \in Sessions : D("checkout", s) \in Work  BY DEF Work
<1>2. \A c \in {"cancel", "resume"} : D("cancel", c) \in Work  BY DEF Work
<1>3. \A r \in SyncRead : D("sync", r) \in Work  BY DEF Work
<1>4. \A e \in Event : D("topup", e) \in Work  BY DEF Work
<1>5. \A d \in Debits : D("spend", d) \in Work  BY DEF Work
<1>6. \A a \in Adjustment : D("adjust", a) \in Work  BY DEF Work
<1> QED  BY <1>1, <1>2, <1>3, <1>4, <1>5, <1>6 DEF Begin

LEMMA FinishType ==
  ASSUME doing \in Work, NEW k \in {"checkout", "cancel", "sync", "topup", "spend", "adjust"},
         Finish(k)
  PROVE  doing' \in Work
BY DEF Work, Finish

LEMMA StateType ==
  ASSUME TypeInv, NEW s \in Sessions, NEW st \in SessionStates, SetState(s, st)
  PROVE  session' \in [Sessions -> CheckoutSession]
<1>1. [session[s] EXCEPT !.state = st] \in CheckoutSession  BY DEF TypeInv, CheckoutSession
<1>2. session' = [session EXCEPT ![s] = [session[s] EXCEPT !.state = st]]  BY DEF SetState
<1> QED  BY <1>1, <1>2 DEF TypeInv

LEMMA NewSessionType ==
  ASSUME TypeInv, NEW s \in Sessions, NEW st \in SessionStates, NEW k \in Kinds, NEW n \in Nat,
         NewSession(s, st, k, n)
  PROVE  session' \in [Sessions -> CheckoutSession]
<1>1. [state |-> st, kind |-> k, amount |-> n] \in CheckoutSession  BY DEF CheckoutSession
<1> QED  BY <1>1 DEF NewSession, TypeInv

LEMMA ReleaseType ==
  ASSUME TypeInv, NEW s, Release(s)
  PROVE  user' \in Account
<1>1. [user EXCEPT !.token = None, !.fresh = FALSE] \in Account
  BY AccountWithToken DEF TypeInv
<1> QED  BY <1>1 DEF Release, TypeInv

\* A subscription in a new form, and the events about it.
LEMMA SubscriptionType ==
  ASSUME TypeInv, NEW s \in Sessions, NEW fields \in Subscribed, Subscription(s, fields)
  PROVE  /\ stripe' \in [Sessions -> Subscribed] /\ changes' \in Nat
         /\ ChangedTo(s, fields) \in Event
         /\ \A k \in EventKinds : Note(k, s, changes + 1) \in Event
<1>1. stripe' \in [Sessions -> Subscribed] /\ changes' \in Nat
  BY DEF Subscription, TypeInv
<1>2. fields.plan \in Nat /\ fields.ending \in BOOLEAN /\ changes + 1 \in Nat
  BY DEF Subscribed, TypeInv
<1>3. ChangedTo(s, fields) \in Event  BY <1>2, ChangedType DEF ChangedTo
<1>4. \A k \in EventKinds : Note(k, s, changes + 1) \in Event  BY <1>2, NoteType
<1> QED  BY <1>1, <1>3, <1>4

LEMMA SubscribedWith ==
  ASSUME NEW f \in Subscribed
  PROVE  /\ \A st \in SubStates : [f EXCEPT !.status = st] \in Subscribed
         /\ \A p \in Nat : [f EXCEPT !.plan = p] \in Subscribed
         /\ \A b \in BOOLEAN : [f EXCEPT !.ending = b] \in Subscribed
BY DEF Subscribed

-----------------------------------------------------------------------------
(* Types: the endpoints.                                                   *)

LEMMA CustomerType ==
  ASSUME TypeInv, Customer
  PROVE  TypeInv'
<1> USE DEF TypeInv, AtStripe
<1>1. CASE Register
  <2>1. [user EXCEPT !.type = "none", !.total = Trial, !.oneTime = Trial] \in Account
    <3>1. Trial \in Int /\ "none" \in Types  BY DEF Types
    <3> QED  BY <3>1, AccountWithTrial
  <2> QED  BY <1>1, <2>1 DEF Register
<1>2. CASE Recover
  BY <1>2, ReleaseType DEF Recover
<1>3. ASSUME NEW b \in BOOLEAN, ActiveMonthly, SetEnding(b)
      PROVE  /\ user' \in Account /\ session' \in [Sessions -> CheckoutSession]
             /\ stripe' \in [Sessions -> Subscribed] /\ mail' \subseteq Event
             /\ claims' \subseteq Event /\ grants' \in [Sessions -> Nat] /\ changes' \in Nat
  <2> DEFINE fields == [stripe[user.sub] EXCEPT !.ending = b]
  <2>1. user.sub \in Sessions  BY <1>3 DEF ActiveMonthly, Account
  <2>2. fields \in Subscribed  BY <2>1, SubscribedWith DEF SubStates
  <2>3. CASE Subscription(user.sub, fields) /\ Posts({ChangedTo(user.sub, fields)})
    <3> HIDE DEF fields
    <3>1. stripe' \in [Sessions -> Subscribed] /\ changes' \in Nat
          /\ ChangedTo(user.sub, fields) \in Event
      BY <2>1, <2>2, <2>3, SubscriptionType
    <3> QED  BY <1>3, <2>3, <3>1 DEF SetEnding, Posts
  <2> QED  BY <1>3, <2>3 DEF SetEnding
<1>4. CASE Cancel
  <2>1. doing' \in Work  BY <1>4, BeginType DEF Cancel
  <2> QED  BY <1>3, <1>4, <2>1 DEF Cancel
<1>5. CASE Reactivate
  <2>1. doing' \in Work  BY <1>5, BeginType DEF Reactivate
  <2> QED  BY <1>3, <1>5, <2>1 DEF Reactivate
<1>6. ASSUME NEW s \in Sessions, NEW p \in Packs, OpenPack(s, p) \/ OpenTopup(s, p)
      PROVE  TypeInv'
  <2>1. session' \in [Sessions -> CheckoutSession]
    <3>1. NewSession(s, "open", "one_time", p) \/ NewSession(s, "open", "topup", p)
      BY <1>6 DEF OpenPack, OpenTopup
    <3>2. p \in Nat  OBVIOUS
    <3> QED  BY <3>1, <3>2, NewSessionType DEF SessionStates, Kinds
  <2> QED  BY <1>6, <2>1 DEF OpenPack, OpenTopup, NewSession
<1>7. ASSUME NEW s \in Sessions, NEW p \in Plans, Reserve(s, p)
      PROVE  TypeInv'
  <2>1. session' \in [Sessions -> CheckoutSession]
    <3>1. p \in Nat  OBVIOUS
    <3> QED  BY <1>7, <3>1, NewSessionType DEF Reserve, SessionStates, Kinds
  <2>2. doing' \in Work  BY <1>7, BeginType DEF Reserve
  <2>3. [user EXCEPT !.token = s, !.fresh = TRUE] \in Account  BY AccountWithToken
  <2> QED  BY <1>7, <2>1, <2>2, <2>3 DEF Reserve, NewSession
<1>8. ASSUME NEW p \in Plans, Upgrade(p)
      PROVE  TypeInv'
  <2> DEFINE s == user.sub
             fields == [stripe[s] EXCEPT !.plan = p]
  <2>1. s \in Sessions  BY <1>8 DEF Upgrade, ActiveMonthly, Account
  <2>2. fields \in Subscribed
    <3>1. p \in Nat /\ stripe[s] \in Subscribed  BY <2>1
    <3> QED  BY <3>1 DEF Subscribed
  <2>3. Subscription(s, fields)
        /\ Posts({ChangedTo(s, fields), Note("upgradeInvoice", s, changes + 1)})
    BY <1>8 DEF Upgrade
  <2> HIDE DEF fields
  <2>4. stripe' \in [Sessions -> Subscribed] /\ changes' \in Nat
        /\ ChangedTo(s, fields) \in Event /\ Note("upgradeInvoice", s, changes + 1) \in Event
    BY <2>1, <2>2, <2>3, SubscriptionType DEF EventKinds
  <2> QED  BY <1>8, <2>3, <2>4 DEF Upgrade, Posts
<1>9. CASE ReadBalance
  <2> DEFINE m == IF user.type = "monthly" THEN Smaller(user.monthly, Cost) ELSE 0
  <2>1. m \in Int  BY DEF Smaller, Account
  <2>2. Begin("spend", [monthly |-> m, oneTime |-> Cost - m])  BY <1>9 DEF ReadBalance
  <2> HIDE DEF m
  <2>3. [monthly |-> m, oneTime |-> Cost - m] \in Debits  BY <2>1 DEF Debits
  <2>4. doing' \in Work  BY <2>2, <2>3, BeginType
  <2> QED  BY <1>9, <2>4 DEF ReadBalance
<1>10. ASSUME NEW n \in Adjustments, ReadAdjust(n)
       PROVE  TypeInv'
  <2>1. [read |-> user.oneTime, amount |-> n] \in Adjustment  BY DEF Adjustment, Account
  <2>2. doing' \in Work  BY <1>10, <2>1, BeginType DEF ReadAdjust
  <2> QED  BY <1>10, <2>2 DEF ReadAdjust
<1> QED
  BY <1>1, <1>2, <1>4, <1>5, <1>6, <1>7, <1>8, <1>9, <1>10 DEF Customer

-----------------------------------------------------------------------------
(* Types: Stripe.                                                          *)

LEMMA PaidType ==
  ASSUME TypeInv, NEW s \in Sessions, NEW k \in CheckoutKinds, Paid(s, k)
  PROVE  TypeInv'
<1> USE DEF TypeInv
<1>1. session' \in [Sessions -> CheckoutSession]
  BY StateType DEF Paid, SessionStates
<1>2. Note(k, s, 0) \in Event /\ Note("invoice", s, 0) \in Event
  BY NoteType DEF CheckoutKinds, EventKinds
<1>3. [status |-> "active", ending |-> FALSE, plan |-> session[s].amount] \in Subscribed
  BY DEF Subscribed, SubStates, CheckoutSession
<1>4. stripe' \in [Sessions -> Subscribed]  BY <1>3 DEF Paid
<1> QED  BY <1>1, <1>2, <1>4 DEF Paid, Posts, Elsewhere

LEMMA StripeType ==
  ASSUME TypeInv, NEW s \in Sessions, Stripe(s)
  PROVE  TypeInv'
<1> USE DEF TypeInv
<1>1. CASE Pay(s) \/ Arrives(s)
  BY <1>1, PaidType DEF Pay, Arrives, CheckoutKinds
<1>2. CASE PayLater(s) \/ Bounces(s) \/ SessionExpires(s)
  <2>1. session' \in [Sessions -> CheckoutSession]
    BY <1>2, StateType DEF PayLater, Bounces, SessionExpires, SessionStates
  <2>2. \A k \in EventKinds : Note(k, s, 0) \in Event  BY NoteType
  <2> QED
    BY <1>2, <2>1, <2>2 DEF PayLater, Bounces, SessionExpires, Posts, Elsewhere, EventKinds
<1>3. CASE InvoicePaid(s)
  <2> DEFINE fields == [stripe[s] EXCEPT !.status = "active"]
  <2>1. fields \in Subscribed  BY SubscribedWith DEF SubStates
  <2>2. Subscription(s, fields)
        /\ Posts({Note("invoice", s, changes + 1)} \cup
                 IF stripe[s].status = "active" THEN {} ELSE {ChangedTo(s, fields)})
    BY <1>3 DEF InvoicePaid
  <2> HIDE DEF fields
  <2>3. stripe' \in [Sessions -> Subscribed] /\ changes' \in Nat
        /\ ChangedTo(s, fields) \in Event /\ Note("invoice", s, changes + 1) \in Event
    BY <2>1, <2>2, SubscriptionType DEF EventKinds
  <2> QED  BY <1>3, <2>2, <2>3 DEF InvoicePaid, Posts, Elsewhere
<1>4. CASE InvoiceFails(s)
  <2> DEFINE fields == [stripe[s] EXCEPT !.status = "past_due"]
  <2>1. fields \in Subscribed  BY SubscribedWith DEF SubStates
  <2>2. Subscription(s, fields)
        /\ Posts({Note("refused", s, changes + 1), ChangedTo(s, fields)})
    BY <1>4 DEF InvoiceFails
  <2> HIDE DEF fields
  <2>3. stripe' \in [Sessions -> Subscribed] /\ changes' \in Nat
        /\ ChangedTo(s, fields) \in Event /\ Note("refused", s, changes + 1) \in Event
    BY <2>1, <2>2, SubscriptionType DEF EventKinds
  <2> QED  BY <1>4, <2>2, <2>3 DEF InvoiceFails, Posts, Elsewhere
<1>5. ASSUME NEW st \in {"canceled", "unpaid"}, SubscriptionEnds(s, st)
      PROVE  TypeInv'
  <2>1. [stripe[s] EXCEPT !.status = st] \in Subscribed
    BY SubscribedWith DEF SubStates
  <2>2. stripe' = [stripe EXCEPT ![s] = [stripe[s] EXCEPT !.status = st]]
    BY <1>5 DEF SubscriptionEnds
  <2>3. Note("over", s, 0) \in Event  BY NoteType DEF EventKinds
  <2> QED  BY <1>5, <2>1, <2>2, <2>3 DEF SubscriptionEnds, Posts, Elsewhere
<1> QED  BY <1>1, <1>2, <1>3, <1>4, <1>5 DEF Stripe

-----------------------------------------------------------------------------
(* Types: webhooks, and what was begun.                                    *)

LEMMA GrantedType ==
  ASSUME TypeInv, NEW s \in Sessions, Granted(s)
  PROVE  grants' \in [Sessions -> Nat]
BY DEF TypeInv, Granted

LEMMA CarriedType ==
  ASSUME TypeInv
  PROVE  Carried \in Int
BY DEF TypeInv, Carried, Account

LEMMA WebhookType ==
  ASSUME TypeInv, NEW e \in mail, Webhook(e)
  PROVE  TypeInv'
<1> USE DEF TypeInv, AtStripe
<1>0. e \in Event /\ ClaimOf(e) \in Event /\ e.of \in Sessions /\ user \in Account
  BY ClaimType
<1>1. CASE FreesToken(e)
  BY <1>1, ReleaseType DEF FreesToken
<1>2. CASE GrantPack(e)
  <2>1. session[e.of].amount \in Nat /\ user.oneTime \in Int
    BY <1>0 DEF CheckoutSession, Account
  <2>2. user.oneTime + session[e.of].amount \in Int  BY <2>1
  <2>3. WithPack(session[e.of].amount) \in Account
    <3>1. "one_time" \in Types /\ 0 \in Int  BY DEF Types
    <3> QED  BY <1>0, <2>2, <3>1, AccountWithPack DEF WithPack
  <2> QED  BY <1>0, <1>2, <2>3, GrantedType DEF GrantPack, Claims
<1>3. CASE GrantMonthly(e)
  <2> DEFINE n == session[e.of].amount
  <2>1. n \in Nat /\ Carried \in Int  BY <1>0, CarriedType DEF CheckoutSession
  <2>2. n + Carried \in Int /\ n \in Int  BY <2>1
  <2>3. user' = [user EXCEPT !.type = "monthly", !.sub = e.of, !.limit = n,
                             !.total = n + Carried, !.oneTime = Carried, !.monthly = n,
                             !.token = None, !.fresh = FALSE]
    BY <1>3 DEF GrantMonthly
  <2>4. user' \in Account
    <3>1. "monthly" \in Types  BY DEF Types
    <3> HIDE DEF n
    <3> QED  BY <1>0, <2>1, <2>2, <2>3, <3>1, AccountWithPlan
  <2> QED  BY <1>0, <1>3, <2>4, GrantedType DEF GrantMonthly, Claims
<1>4. CASE ReadTopup(e)
  <2>1. doing' \in Work  BY <1>0, <1>4, BeginType DEF ReadTopup
  <2> QED  BY <1>4, <2>1 DEF ReadTopup
<1>5. CASE UpgradeInvoice(e) \/ Refused(e)
  <2>1. [user EXCEPT !.overdue = FALSE] \in Account /\ [user EXCEPT !.overdue = TRUE] \in Account
    BY <1>0, AccountWithFlags
  <2> QED  BY <1>0, <1>5, <2>1 DEF UpgradeInvoice, Refused, Claims
<1>6. CASE Invoice(e)
  <2>1. user.limit \in Int /\ user.limit + user.oneTime \in Int  BY <1>0 DEF Account
  <2>2. Renewed \in Account  BY <1>0, <2>1, AccountRenewed DEF Renewed
  <2> QED  BY <1>0, <1>6, <2>2 DEF Invoice, Claims
<1>7. CASE Ended(e)
  <2>1. user.oneTime \in Int  BY <1>0 DEF Account
  <2> DEFINE t == IF user.oneTime > 0 THEN "one_time" ELSE "none"
             row == [user EXCEPT !.type = t, !.sub = None, !.limit = 0, !.total = user.oneTime,
                                 !.monthly = 0, !.cancelAt = FALSE, !.overdue = FALSE]
  <2>2. user' = row \/ user' = user  BY <1>7 DEF Ended
  <2>3. row \in Account
    <3>1. t \in Types /\ 0 \in Int  BY DEF Types
    <3> HIDE DEF t
    <3> QED  BY <1>0, <2>1, <3>1, AccountEnded
  <2> HIDE DEF row
  <2>4. user' \in Account  BY <1>0, <2>2, <2>3
  <2> QED  BY <1>0, <1>7, <2>4 DEF Ended, Claims
<1>8. CASE ReadChanged(e)
  <2>1. [event |-> e, limit |-> user.limit, monthly |-> user.monthly,
         oneTime |-> user.oneTime] \in SyncRead
    BY <1>0 DEF SyncRead, Account
  <2>2. doing' \in Work  BY <1>8, <2>1, BeginType DEF ReadChanged
  <2> QED  BY <1>8, <2>2 DEF ReadChanged
<1> QED  BY <1>1, <1>2, <1>3, <1>4, <1>5, <1>6, <1>7, <1>8 DEF Webhook

LEMMA ProratedType ==
  ASSUME NEW p \in Nat, NEW limit \in Nat, NEW m \in Int
  PROVE  Prorated(p, limit, m) \in Int
BY DEF Prorated

LEMMA ContinueType ==
  ASSUME TypeInv, Continue
  PROVE  TypeInv'
<1> USE DEF TypeInv, AtStripe
<1>1. doing' \in Work
  BY FinishType DEF Continue, CreateSession, WriteCancel, WriteTopup, WriteChanged, Spend, Adjust
<1>2. CASE CreateSession
  <2>1. doing.checkout \in Sessions  BY <1>2 DEF CreateSession, Finish, Work
  <2>2. session' \in [Sessions -> CheckoutSession]
    BY <1>2, <2>1, StateType DEF CreateSession, SessionStates
  <2> QED  BY <1>1, <1>2, <2>2 DEF CreateSession
<1>3. CASE WriteCancel
  <2> DEFINE b == doing.cancel = "cancel"
  <2>1. b \in BOOLEAN  OBVIOUS
  <2>2. user' = [user EXCEPT !.cancelAt = b]  BY <1>3 DEF WriteCancel
  <2> HIDE DEF b
  <2>3. user' \in Account  BY <2>1, <2>2, AccountWithFlags
  <2> QED  BY <1>1, <1>3, <2>3 DEF WriteCancel
<1>4. CASE WriteTopup
  <2> DEFINE e == doing.topup
             n == session[e.of].amount * Rate
  <2>1. e \in Event  BY <1>4 DEF WriteTopup, Finish, Work
  <2>2. e.of \in Sessions /\ ClaimOf(e) \in Event  BY <2>1, ClaimType
  <2>3. n \in Int
    <3>1. session[e.of] \in CheckoutSession  BY <2>2, Zenon
    <3> HIDE DEF e
    <3>2. session[e.of].amount \in Nat /\ Rate \in Nat  BY <3>1 DEF CheckoutSession
    <3> QED  BY <3>2
  <2>4. /\ claims' = claims \cup {ClaimOf(e)}
        /\ \/ user' = [user EXCEPT !.total = user.total + n, !.oneTime = user.oneTime + n]
              /\ Granted(e.of)
           \/ UNCHANGED <<user, grants>>
    BY <1>4 DEF WriteTopup
  <2> HIDE DEF e, n
  <2>5. user' \in Account
    <3>1. user \in Account /\ user.total + n \in Int /\ user.oneTime + n \in Int
      BY <2>3 DEF Account
    <3>2. [user EXCEPT !.total = user.total + n, !.oneTime = user.oneTime + n] \in Account
      BY ONLY <3>1, AccountSpent, Zenon
    <3> QED  BY <3>1, <3>2, <2>4
  <2>6. grants' \in [Sessions -> Nat]  BY <2>2, <2>4, GrantedType
  <2> QED  BY <1>1, <1>4, <2>2, <2>4, <2>5, <2>6 DEF WriteTopup
<1>5. CASE WriteChanged
  <2> DEFINE read == doing.sync
             e == read.event
             m == Prorated(e.plan, read.limit, read.monthly)
  <2>1. read \in SyncRead  BY <1>5 DEF WriteChanged, Finish, Work
  <2>2. e \in Event /\ read.limit \in Nat /\ read.monthly \in Int /\ read.oneTime \in Int
    BY <2>1 DEF SyncRead
  <2>3. e.plan \in Nat /\ e.ending \in BOOLEAN /\ ClaimOf(e) \in Event  BY <2>2, ClaimType
  <2>4. m \in Int  BY <2>2, <2>3, ProratedType
  <2>5. \/ /\ user' = [user EXCEPT !.type = "monthly", !.limit = e.plan, !.monthly = m,
                                   !.total = m + read.oneTime, !.cancelAt = e.ending]
           /\ claims' = claims \cup {ClaimOf(e)}
        \/ UNCHANGED <<user, claims>>
    BY <1>5 DEF WriteChanged
  <2> HIDE DEF read, e, m
  <2>6. m + read.oneTime \in Int  BY <2>2, <2>4
  <2>7. "monthly" \in Types  BY DEF Types
  <2>8. user' \in Account
    <3>1. user \in Account /\ e.plan \in Nat  BY <2>3
    <3>2. [user EXCEPT !.type = "monthly", !.limit = e.plan, !.monthly = m,
                       !.total = m + read.oneTime, !.cancelAt = e.ending] \in Account
      BY ONLY <3>1, <2>3, <2>4, <2>6, <2>7, AccountChanged
    <3> QED  BY <3>1, <3>2, <2>5
  <2> QED  BY <1>1, <1>5, <2>3, <2>5, <2>8 DEF WriteChanged
<1>6. CASE Spend
  <2>1. doing.spend \in Debits  BY <1>6 DEF Spend, Finish, Work
  <2> DEFINE k == user.oneTime - doing.spend.oneTime
             m == user.monthly - doing.spend.monthly
             n == user.total - doing.spend.monthly - doing.spend.oneTime
  <2>2. k \in Int /\ m \in Int /\ n \in Int  BY <2>1 DEF Debits, Account
  <2>3. user' = [user EXCEPT !.monthly = m, !.oneTime = k, !.total = n]  BY <1>6 DEF Spend
  <2> HIDE DEF k, m, n
  <2>4. user' \in Account  BY <2>2, <2>3, AccountSpent, Zenon
  <2> QED  BY <1>1, <1>6, <2>4 DEF Spend
<1>7. CASE Adjust
  <2> DEFINE old == doing.adjust.read
             sum == old + doing.adjust.amount
             new == IF doing.adjust.amount > 0 THEN sum ELSE Larger(0, sum)
  <2>1. doing.adjust \in Adjustment  BY <1>7 DEF Adjust, Finish, Work
  <2>2. old \in Int /\ sum \in Int  BY <2>1 DEF Adjustment
  <2>3. new \in Int  BY <2>2 DEF Larger
  <2>4. user' = [user EXCEPT !.oneTime = new, !.total = user.total + (new - old)]
    <3>1. Adjust  BY <1>7
    <3> QED  BY ONLY <3>1 DEF Adjust
  <2> HIDE DEF old, sum, new
  <2>5. user' \in Account
    <3>1. user \in Account /\ user.total + (new - old) \in Int  BY <2>2, <2>3 DEF Account
    <3> QED  BY ONLY <3>1, <2>3, <2>4, AccountSpent, Zenon
  <2> QED  BY <1>1, <1>7, <2>5 DEF Adjust
<1> QED  BY <1>2, <1>3, <1>4, <1>5, <1>6, <1>7 DEF Continue

LEMMA OtherType ==
  ASSUME TypeInv, CreateFails \/ CheckoutDies \/ CancelDies \/ TokenExpires \/ GraceCleanup
  PROVE  TypeInv'
<1> USE DEF TypeInv, AtStripe
<1>1. CASE CreateFails \/ CheckoutDies
  <2>1. doing.checkout \in Sessions /\ doing' \in Work
    BY <1>1, FinishType DEF CreateFails, CheckoutDies, Finish, Work
  <2>2. session' \in [Sessions -> CheckoutSession]
    BY <1>1, <2>1, StateType DEF CreateFails, CheckoutDies, SessionStates
  <2>3. user' \in Account  BY <1>1, <2>1, ReleaseType DEF CreateFails, CheckoutDies
  <2> QED  BY <1>1, <2>1, <2>2, <2>3 DEF CreateFails, CheckoutDies
<1>2. CASE CancelDies
  <2>1. doing' \in Work  BY <1>2, FinishType DEF CancelDies
  <2> QED  BY <1>2, <2>1 DEF CancelDies
<1>3. CASE TokenExpires
  <2>1. [user EXCEPT !.fresh = FALSE] \in Account  BY AccountWithFlags, Zenon
  <2> QED  BY <1>3, <2>1 DEF TokenExpires
<1>4. CASE GraceCleanup
  <2>1. user.oneTime \in Int /\ 0 \in Int /\ user \in Account  BY DEF Account
  <2>2. [user EXCEPT !.monthly = 0, !.total = user.oneTime] \in Account
    BY ONLY <2>1, AccountSpent, Zenon
  <2> QED  BY <1>4, <2>2 DEF GraceCleanup
<1> QED  BY <1>1, <1>2, <1>3, <1>4

LEMMA InitType ==
  ASSUME Init
  PROVE  TypeInv
<1>1. Idle \in Work  BY DEF Idle, Work
<1> QED  BY <1>1 DEF Init, TypeInv, Account, CheckoutSession, Subscribed, Types, SessionStates,
              Kinds, SubStates

LEMMA NextType ==
  ASSUME TypeInv, [Next]_vars
  PROVE  TypeInv'
<1>1. CASE UNCHANGED vars
  BY <1>1 DEF TypeInv, vars
<1>2. CASE Next
  BY <1>2, CustomerType, StripeType, WebhookType, ContinueType, OtherType DEF Next
<1> QED  BY <1>1, <1>2

LEMMA SpecType == Spec => []TypeInv
<1> QED  BY InitType, NextType, PTL DEF Spec

\* The row, Stripe's objects, the events and what is in progress keep their types through
\* every endpoint, webhook handler and timer of billing.
THEOREM TypeCorrect == Spec => []TypeOK
<1> QED  BY SpecType, TypeInvIsTypeOK, PTL

-----------------------------------------------------------------------------
(* Balances.                                                               *)

\* Columns of the row that most handlers leave alone.
SameCredits ==
  /\ user'.type = user.type /\ user'.total = user.total
  /\ user'.oneTime = user.oneTime /\ user'.monthly = user.monthly

\* The steps that move credits, or make an account of a kind it was not.
Moves ==
  \/ Register \/ WriteTopup \/ WriteChanged \/ Spend \/ Adjust \/ GraceCleanup
  \/ \E e \in mail : GrantPack(e) \/ GrantMonthly(e) \/ Invoice(e) \/ Ended(e)

LEMMA OthersMoveNothing ==
  ASSUME TypeInv, Next
  PROVE  Moves \/ SameCredits
<1> USE DEF SameCredits
<1>0. user \in Account  BY DEF TypeInv
<1>1. ASSUME NEW s, Release(s) PROVE SameCredits
  BY <1>0, <1>1 DEF Release, Account
<1>2. CASE Customer
  <2>1. CASE Register  BY <2>1 DEF Moves
  <2>2. CASE Recover  BY <1>1, <2>2 DEF Recover
  <2>3. ASSUME NEW s \in Sessions, NEW p \in Plans, Reserve(s, p) PROVE SameCredits
    BY <1>0, <2>3 DEF Reserve, Account
  <2> QED
    BY <1>2, <2>1, <2>2, <2>3 DEF Customer, Cancel, Reactivate, SetEnding, OpenPack, OpenTopup,
       Upgrade, ReadBalance, ReadAdjust
<1>3. ASSUME NEW s \in Sessions, Stripe(s) PROVE SameCredits
  BY <1>3 DEF Stripe, Pay, PayLater, Arrives, Bounces, SessionExpires, InvoicePaid,
     InvoiceFails, SubscriptionEnds, Paid, Elsewhere
<1>4. ASSUME NEW e \in mail, Webhook(e) PROVE Moves \/ SameCredits
  <2>1. CASE FreesToken(e)  BY <1>1, <2>1 DEF FreesToken
  <2>2. CASE UpgradeInvoice(e) \/ Refused(e)
    BY <1>0, <2>2 DEF UpgradeInvoice, Refused, Account
  <2>3. CASE ReadTopup(e) \/ ReadChanged(e)  BY <2>3 DEF ReadTopup, ReadChanged
  <2> QED  BY <1>4, <2>1, <2>2, <2>3 DEF Webhook, Moves
<1>5. CASE Continue
  <2>1. CASE CreateSession \/ WriteCancel
    BY <1>0, <2>1 DEF CreateSession, WriteCancel, Account
  <2> QED  BY <1>5, <2>1 DEF Continue, Moves
<1>6. CASE CreateFails  BY <1>1, <1>6 DEF CreateFails
<1>7. CASE CheckoutDies \/ CancelDies  BY <1>7 DEF CheckoutDies, CancelDies
<1>8. CASE TokenExpires  BY <1>0, <1>8 DEF TokenExpires, Account
<1>9. CASE GraceCleanup  BY <1>9 DEF Moves
<1> QED  BY <1>2, <1>3, <1>4, <1>5, <1>6, <1>7, <1>8, <1>9 DEF Next

\* Before the first login there is nothing.
NotYet == user.type = "absent" =>
  /\ user.monthly = 0 /\ user.oneTime = 0 /\ user.sub = None /\ user.token = None
  /\ doing = Idle

LEMMA NotYetStep ==
  ASSUME TypeInv, NotYet, [Next]_vars
  PROVE  NotYet'
<1> USE DEF NotYet, AtStripe
<1>0. user \in Account  BY DEF TypeInv
<1>1. CASE UNCHANGED vars  BY <1>1 DEF vars
<1>2. CASE Next /\ user.type # "absent"
  <2>1. user'.type # "absent"
    <3>1. CASE SameCredits  BY <1>2, <3>1 DEF SameCredits
    <3>2. CASE Register \/ WriteTopup \/ Spend \/ Adjust \/ GraceCleanup
      BY <1>0, <1>2, <3>2 DEF Register, WriteTopup, Spend, Adjust, GraceCleanup, Account
    <3>3. CASE WriteChanged  BY <1>0, <1>2, <3>3 DEF WriteChanged, Account
    <3>4. ASSUME NEW e \in mail, GrantPack(e) \/ GrantMonthly(e) \/ Invoice(e) \/ Ended(e)
          PROVE  user'.type # "absent"
      <4>1. CASE GrantPack(e)  BY <1>0, <4>1 DEF GrantPack, WithPack, Account
      <4>2. CASE GrantMonthly(e)  BY <1>0, <4>2 DEF GrantMonthly, Account
      <4>3. CASE Invoice(e)  BY <1>0, <1>2, <4>3 DEF Invoice, Renewed, Account
      <4>4. CASE Ended(e)  BY <1>0, <1>2, <4>4 DEF Ended, Account
      <4> QED  BY <3>4, <4>1, <4>2, <4>3, <4>4
    <3> QED  BY <1>2, <3>1, <3>2, <3>3, <3>4, OthersMoveNothing DEF Moves
  <2> QED  BY <2>1
<1>3. CASE Next /\ user.type = "absent"
  <2>1. user.sub = None /\ user.token = None /\ ~ActiveMonthly /\ ~(user.type = "monthly")
    BY <1>3 DEF ActiveMonthly
  <2>2. \A k \in {"checkout", "cancel", "sync", "topup", "spend", "adjust"} : ~Finish(k)
    BY <1>3 DEF Finish, Idle
  <2>3. ASSUME NEW s, Release(s)
        PROVE  user' = user \/ user' = [user EXCEPT !.token = None, !.fresh = FALSE]
    BY <2>3 DEF Release
  <2>4. ASSUME user' = user \/ user' = [user EXCEPT !.token = None, !.fresh = FALSE], doing' = doing
        PROVE  NotYet'
    BY <1>0, <1>3, <2>4 DEF Account
  <2>5. CASE Customer
    <3>1. CASE Register  BY <1>0, <3>1 DEF Register, Account
    <3>2. ASSUME NEW s \in Sessions, NEW p \in Packs, OpenPack(s, p) PROVE NotYet'
      BY <2>4, <3>2 DEF OpenPack
    <3> QED
      BY <1>3, <2>1, <2>5, <3>1, <3>2 DEF Customer, Recover, Cancel, Reactivate, OpenTopup, Reserve,
         Upgrade, ReadBalance, ReadAdjust
  <2>6. ASSUME NEW s \in Sessions, Stripe(s) PROVE NotYet'
    BY <2>4, <2>6 DEF Stripe, Pay, PayLater, Arrives, Bounces, SessionExpires, InvoicePaid,
       InvoiceFails, SubscriptionEnds, Paid, Elsewhere
  <2>7. ASSUME NEW e \in mail, Webhook(e) PROVE NotYet'
    <3>1. e.of # None  BY ClaimType DEF TypeInv
    <3>2. CASE FreesToken(e)  BY <2>3, <2>4, <3>2 DEF FreesToken
    <3>3. CASE UpgradeInvoice(e) \/ Refused(e) \/ Ended(e)
      BY <2>1, <2>4, <3>1, <3>3 DEF UpgradeInvoice, Refused, Ended
    <3> QED
      BY <1>3, <2>1, <2>7, <3>1, <3>2, <3>3 DEF Webhook, GrantPack, GrantMonthly, ReadTopup,
         Invoice,
         ReadChanged
  <2>8. ~Continue /\ ~CreateFails /\ ~CheckoutDies /\ ~CancelDies
    BY <2>2 DEF Continue, CreateSession, WriteCancel, WriteTopup, WriteChanged, Spend, Adjust,
       CreateFails, CheckoutDies, CancelDies
  <2> QED
    BY <1>3, <2>1, <2>5, <2>6, <2>7, <2>8 DEF Next, TokenExpires, GraceCleanup
<1> QED  BY <1>1, <1>2, <1>3

LEMMA WorkEnds ==
  ASSUME doing \in Work
  PROVE  \A k \in {"checkout", "cancel", "sync", "topup", "spend", "adjust"} :
           Finish(k) => Writes(k)
BY DEF Finish, Writes, Work

\* The total stays the sum of the balances, but for a stale write.
LEMMA SplitStep ==
  ASSUME TypeInv, NotYet, [Next]_vars, Split
  PROVE  Split' \/ StaleSync \/ StaleAdjust
<1> USE DEF Split
<1>0. /\ user \in Account
      /\ user.total \in Int /\ user.oneTime \in Int /\ user.monthly \in Int /\ user.limit \in Nat
  BY DEF TypeInv, Account
<1>1. CASE UNCHANGED vars  BY <1>1 DEF vars
<1>2. CASE SameCredits  BY <1>2 DEF SameCredits
<1>3. CASE Register  BY <1>0, <1>3 DEF Register, NotYet, Account
<1>4. CASE WriteTopup
  <2> DEFINE e == doing.topup
             n == session[e.of].amount * Rate
  <2>1. n \in Int
    <3>1. e \in Event  BY <1>4 DEF WriteTopup, Finish, Work, TypeInv
    <3>2. session[e.of] \in CheckoutSession  BY <3>1, ClaimType DEF TypeInv
    <3> HIDE DEF e
    <3>3. session[e.of].amount \in Nat /\ Rate \in Nat  BY <3>2 DEF CheckoutSession
    <3> QED  BY <3>3
  <2>2. \/ user' = [user EXCEPT !.total = user.total + n, !.oneTime = user.oneTime + n]
        \/ user' = user
    BY <1>4 DEF WriteTopup
  <2> HIDE DEF n
  <2>3. \/ user'.total = user.total + n /\ user'.oneTime = user.oneTime + n
           /\ user'.monthly = user.monthly
        \/ user' = user
    BY <1>0, <2>2 DEF Account
  <2> QED  BY <1>0, <2>1, <2>3
<1>5. CASE WriteChanged
  <2> DEFINE read == doing.sync
             e == read.event
             m == Prorated(e.plan, read.limit, read.monthly)
  <2>1. m \in Int
    <3>1. read \in SyncRead  BY <1>5 DEF WriteChanged, Finish, Work, TypeInv
    <3> HIDE DEF read
    <3>2. e \in Event /\ read.limit \in Nat /\ read.monthly \in Int  BY <3>1 DEF SyncRead
    <3> HIDE DEF e
    <3> QED  BY <3>2, ClaimType, ProratedType
  <2>2. \/ user' = [user EXCEPT !.type = "monthly", !.limit = e.plan, !.monthly = m,
                                !.total = m + read.oneTime, !.cancelAt = e.ending]
        \/ user' = user
    BY <1>5 DEF WriteChanged
  <2>3. Writes("sync")
    <3>1. Finish("sync")  BY <1>5 DEF WriteChanged
    <3> QED  BY ONLY <3>1, TypeInv, WorkEnds DEF TypeInv
  <2>4. CASE read.oneTime = user.oneTime
    <3> DEFINE k == read.oneTime
    <3> HIDE DEF m, read, e
    <3>1. \/ user'.monthly = m /\ user'.total = m + k /\ user'.oneTime = user.oneTime
          \/ user' = user
      BY <1>0, <2>2 DEF Account
    <3>2. k = user.oneTime  BY <2>4
    <3> HIDE DEF k
    <3> QED  BY <1>0, <2>1, <3>1, <3>2
  <2>5. CASE read.oneTime # user.oneTime
    BY <2>3, <2>5 DEF StaleSync
  <2> QED  BY <2>4, <2>5
<1>6. CASE Spend
  <2>1. doing.spend \in Debits  BY <1>6 DEF Spend, Finish, Work, TypeInv
  <2>2. doing.spend.monthly \in Int /\ doing.spend.oneTime \in Int  BY <2>1 DEF Debits
  <2> DEFINE a == doing.spend.monthly
             b == doing.spend.oneTime
  <2>3. user' = [user EXCEPT !.monthly = user.monthly - a, !.oneTime = user.oneTime - b,
                             !.total = user.total - a - b]
    BY <1>6 DEF Spend
  <2> HIDE DEF a, b
  <2>4. user'.monthly = user.monthly - a /\ user'.oneTime = user.oneTime - b
        /\ user'.total = user.total - a - b
    BY <1>0, <2>3 DEF Account
  <2> QED  BY <1>0, <2>2, <2>4 DEF a, b
<1>7. CASE Adjust
  <2> DEFINE old == doing.adjust.read
             sum == old + doing.adjust.amount
             new == IF doing.adjust.amount > 0 THEN sum ELSE Larger(0, sum)
  <2>1. doing.adjust \in Adjustment  BY <1>7 DEF Adjust, Finish, Work, TypeInv
  <2>2. old \in Int /\ sum \in Int  BY <2>1 DEF Adjustment
  <2>3. new \in Int  BY <2>2 DEF Larger
  <2>4. user' = [user EXCEPT !.oneTime = new, !.total = user.total + (new - old)]
    BY <1>7 DEF Adjust
  <2>5. Writes("adjust")
    <3>1. Finish("adjust")  BY <1>7 DEF Adjust
    <3> QED  BY ONLY <3>1, TypeInv, WorkEnds DEF TypeInv
  <2>6. CASE old = user.oneTime
    <3> HIDE DEF old, sum, new
    <3>1. user'.oneTime = new /\ user'.total = user.total + (new - old)
          /\ user'.monthly = user.monthly
      BY <1>0, <2>4 DEF Account
    <3> QED  BY <1>0, <2>2, <2>3, <2>6, <3>1
  <2>7. CASE old # user.oneTime  BY <2>5, <2>7 DEF StaleAdjust
  <2> QED  BY <2>6, <2>7
<1>8. CASE GraceCleanup  BY <1>0, <1>8 DEF GraceCleanup, Account
<1>9. ASSUME NEW e \in mail, GrantPack(e) \/ GrantMonthly(e) \/ Invoice(e) \/ Ended(e)
      PROVE  Split'
  <2>0. session[e.of].amount \in Nat  BY ClaimType DEF TypeInv, CheckoutSession
  <2>1. CASE GrantPack(e)  BY <1>0, <2>0, <2>1 DEF GrantPack, WithPack, Account
  <2>2. CASE GrantMonthly(e)
    <3>1. user'.total = session[e.of].amount + Carried /\ user'.oneTime = Carried
          /\ user'.monthly = session[e.of].amount
      BY <1>0, <2>2 DEF GrantMonthly, Account
    <3> QED  BY <2>0, <3>1, CarriedType
  <2>3. CASE Invoice(e)  BY <1>0, <2>3 DEF Invoice, Renewed, Account
  <2>4. CASE Ended(e)
    <3> DEFINE t == IF user.oneTime > 0 THEN "one_time" ELSE "none"
    <3>1. \/ user' = user
          \/ user' = [user EXCEPT !.type = t, !.sub = None, !.limit = 0, !.total = user.oneTime,
                                  !.monthly = 0, !.cancelAt = FALSE, !.overdue = FALSE]
      BY <2>4 DEF Ended
    <3> HIDE DEF t
    <3>2. \/ user' = user
          \/ user'.total = user.oneTime /\ user'.oneTime = user.oneTime /\ user'.monthly = 0
      BY <1>0, <3>1 DEF Account
    <3> QED  BY <1>0, <3>2
  <2> QED  BY <1>9, <2>1, <2>2, <2>3, <2>4
<1> QED
  BY <1>1, <1>2, <1>3, <1>4, <1>5, <1>6, <1>7, <1>8, <1>9, OthersMoveNothing DEF Moves

\* Only a job or an administrator takes credits that were bought.
LEMMA AddOnsStep ==
  ASSUME TypeInv, NotYet, [Next]_vars, Split, user.monthly >= 0, user'.oneTime < user.oneTime
  PROVE  Writes("spend") \/ Writes("adjust")
<1>0. /\ user \in Account
      /\ user.total \in Int /\ user.oneTime \in Int /\ user.monthly \in Int
  BY DEF TypeInv, Account
<1>1. user' # user /\ ~SameCredits  BY <1>0 DEF SameCredits
<1>2. Moves  BY <1>1, OthersMoveNothing DEF vars
<1>3. CASE Spend \/ Adjust
  <2>1. Finish("spend") \/ Finish("adjust")  BY <1>3 DEF Spend, Adjust
  <2> QED  BY ONLY <2>1, TypeInv, WorkEnds DEF TypeInv
<1>4. CASE Register  BY <1>0, <1>4 DEF Register, NotYet, Account
<1>5. CASE WriteTopup
  <2> DEFINE e == doing.topup
             n == session[e.of].amount * Rate
  <2>1. n \in Nat
    <3>1. e \in Event  BY <1>5 DEF WriteTopup, Finish, Work, TypeInv
    <3>2. session[e.of] \in CheckoutSession  BY <3>1, ClaimType DEF TypeInv
    <3> HIDE DEF e
    <3>3. session[e.of].amount \in Nat /\ Rate \in Nat  BY <3>2 DEF CheckoutSession
    <3> QED  BY <3>3
  <2>2. user' = [user EXCEPT !.total = user.total + n, !.oneTime = user.oneTime + n]
    BY <1>1, <1>5 DEF WriteTopup
  <2> HIDE DEF n
  <2>3. user'.oneTime = user.oneTime + n  BY <1>0, <2>2 DEF Account
  <2> QED  BY <1>0, <2>1, <2>3
<1>6. CASE WriteChanged \/ GraceCleanup
  <2>1. user'.oneTime = user.oneTime
    <3>1. CASE WriteChanged  BY <1>0, <3>1 DEF WriteChanged, Account
    <3>2. CASE GraceCleanup  BY <1>0, <3>2 DEF GraceCleanup, Account
    <3> QED  BY <1>6, <3>1, <3>2
  <2> QED  BY <1>0, <2>1
<1>7. ASSUME NEW e \in mail, GrantPack(e) \/ GrantMonthly(e) \/ Invoice(e) \/ Ended(e)
      PROVE  user'.oneTime >= user.oneTime
  <2>0. session[e.of].amount \in Nat  BY ClaimType DEF TypeInv, CheckoutSession
  <2>1. CASE GrantPack(e)  BY <1>0, <2>0, <2>1 DEF GrantPack, WithPack, Account
  <2>2. CASE GrantMonthly(e)
    <3>1. user'.oneTime = Carried  BY <1>0, <2>2 DEF GrantMonthly, Account
    <3> QED  BY <1>0, <3>1 DEF Carried, Split
  <2>3. CASE Invoice(e)  BY <1>0, <2>3 DEF Invoice, Renewed, Account
  <2>4. CASE Ended(e)  BY <1>0, <2>4 DEF Ended, Account
  <2> QED  BY <1>7, <2>1, <2>2, <2>3, <2>4
<1>8. user'.oneTime \in Int  BY NextType DEF TypeInv, Account
<1>9. ~(\E e \in mail : GrantPack(e) \/ GrantMonthly(e) \/ Invoice(e) \/ Ended(e))
  BY <1>0, <1>7, <1>8
<1> QED  BY <1>2, <1>3, <1>4, <1>5, <1>6, <1>9 DEF Moves

LEMMA SpecNotYet == Spec => [](TypeInv /\ NotYet)
<1>1. Init => TypeInv /\ NotYet  BY InitType DEF Init, NotYet
<1>2. TypeInv /\ NotYet /\ [Next]_vars => (TypeInv /\ NotYet)'  BY NextType, NotYetStep
<1> QED  BY <1>1, <1>2, PTL DEF Spec

\* The total an account shows stays the sum of the one-time and the monthly balance its
\* jobs are paid from, through every endpoint, webhook, timer and job; the one way to lose
\* that is a handler writing a balance that has changed since it read it.
THEOREM TotalIsTheSum == Spec => SplitKept
<1>1. TypeInv /\ NotYet /\ [Next]_vars
        => [Split => (Split' \/ StaleSync \/ StaleAdjust)]_vars
  BY SplitStep
<1> QED  BY <1>1, SpecNotYet, PTL DEF Spec, SplitKept

\* No renewal, failed payment, cleanup, change or end of a plan takes credits that were
\* bought, while the row is in order: only a job's debit or an administrator does.
THEOREM BoughtCreditsStay == Spec => AddOnsSurvive
<1>1. TypeInv /\ NotYet /\ [Next]_vars
        => [Split /\ user.monthly >= 0 /\ user'.oneTime < user.oneTime
              => (Writes("spend") \/ Writes("adjust"))]_vars
  BY AddOnsStep
<1> QED  BY <1>1, SpecNotYet, PTL DEF Spec, AddOnsSurvive

-----------------------------------------------------------------------------
(* Purchases.                                                              *)

Works == {"checkout", "cancel", "sync", "topup", "spend", "adjust"}

LEMMA WorkMoves ==
  ASSUME doing \in Work, NEW k \in Works, NEW what, Begin(k, what) \/ Finish(k)
  PROVE  /\ \A j \in Works \ {k} : doing'[j] = doing[j]
         /\ Begin(k, what) => doing[k] = None /\ doing'[k] = what
         /\ ~Begin(k, what) => doing'[k] = None
<1>1. DOMAIN doing = Works /\ doing = [j \in Works |-> doing[j]]  BY DEF Work, Works
<1> QED  BY <1>1 DEF Begin, Finish

\* Which steps begin a checkout, a top-up and a change of plan.
LEMMA WorkStep ==
  ASSUME TypeInv, Next
  PROVE  /\ \/ doing'.checkout \in {doing.checkout, None}
            \/ \E s \in Sessions, p \in Plans : Reserve(s, p)
         /\ doing'.topup \in {doing.topup, None} \/ \E e \in mail : ReadTopup(e)
         /\ doing'.sync \in {doing.sync, None} \/ \E e \in mail : ReadChanged(e)
<1> DEFINE Same == doing'.checkout = doing.checkout /\ doing'.topup = doing.topup
                   /\ doing'.sync = doing.sync
<1>0. doing \in Work  BY DEF TypeInv
<1>1. ASSUME NEW k \in {"cancel", "spend", "adjust"}, NEW what, Begin(k, what)
      PROVE  Same
  BY <1>0, <1>1, WorkMoves DEF Works
<1>2. ASSUME NEW k \in Works, Finish(k)
      PROVE  doing'.checkout \in {doing.checkout, None} /\ doing'.topup \in {doing.topup, None}
             /\ doing'.sync \in {doing.sync, None}
  <2>1. doing' = [doing EXCEPT ![k] = None]  BY <1>2 DEF Finish
  <2> QED  BY <1>0, <2>1 DEF Work, Works
<1>3. CASE Customer
  <2>1. ASSUME NEW p \in Plans, Upgrade(p) PROVE Same  BY <2>1 DEF Upgrade
  <2>2. ASSUME NEW n \in Adjustments, ReadAdjust(n) PROVE Same  BY <1>1, <2>2 DEF ReadAdjust
  <2>3. CASE ReadBalance  BY <1>1, <2>3 DEF ReadBalance
  <2>4. CASE Cancel \/ Reactivate  BY <1>1, <2>4 DEF Cancel, Reactivate
  <2>5. CASE Register \/ Recover  BY <2>5 DEF Register, Recover
  <2>6. ASSUME NEW s \in Sessions, NEW p \in Packs, OpenPack(s, p) \/ OpenTopup(s, p) PROVE Same
    BY <2>6 DEF OpenPack, OpenTopup
  <2>7. ASSUME NEW s \in Sessions, NEW p \in Plans, Reserve(s, p)
        PROVE  doing'.topup = doing.topup /\ doing'.sync = doing.sync
    BY <1>0, <2>7, WorkMoves DEF Reserve, Works
  <2> QED  BY <1>3, <2>1, <2>2, <2>3, <2>4, <2>5, <2>6, <2>7 DEF Customer
<1>4. ASSUME NEW s \in Sessions, Stripe(s) PROVE Same
  BY <1>4 DEF Stripe, Pay, PayLater, Arrives, Bounces, SessionExpires, InvoicePaid,
     InvoiceFails, SubscriptionEnds, Paid, Elsewhere
<1>5. ASSUME NEW e \in mail, Webhook(e)
      PROVE  \/ Same
             \/ ReadTopup(e) /\ doing'.checkout = doing.checkout /\ doing'.sync = doing.sync
             \/ ReadChanged(e) /\ doing'.checkout = doing.checkout /\ doing'.topup = doing.topup
  <2>1. CASE ReadTopup(e)  BY <1>0, <2>1, WorkMoves DEF ReadTopup, Works
  <2>2. CASE ReadChanged(e)  BY <1>0, <2>2, WorkMoves DEF ReadChanged, Works
  <2> QED
    BY <1>5, <2>1, <2>2 DEF Webhook, FreesToken, GrantPack, GrantMonthly, UpgradeInvoice, Invoice,
       Refused, Ended
<1>6. CASE Continue \/ CreateFails \/ CheckoutDies \/ CancelDies
  <2>1. \E k \in Works : Finish(k)
    BY <1>6 DEF Continue, CreateSession, WriteCancel, WriteTopup, WriteChanged, Spend, Adjust,
       CreateFails, CheckoutDies, CancelDies, Works
  <2> QED  BY <1>2, <2>1
<1>7. CASE TokenExpires \/ GraceCleanup  BY <1>7 DEF TokenExpires, GraceCleanup
<1> QED  BY <1>3, <1>4, <1>5, <1>6, <1>7 DEF Next

\* A checkout that is being created is reserved; a change that is being applied is one; and
\* a top-up that is being granted was paid for and is not claimed.
Begun ==
  /\ doing.checkout # None => session[doing.checkout].state = "reserved"
  /\ doing.sync # None => doing.sync.event.kind = "changed"
  /\ doing.topup # None =>
       /\ doing.topup \in mail /\ doing.topup.kind \in CheckoutKinds
       /\ session[doing.topup.of].kind = "topup"
       /\ Note("paid", doing.topup.of, 0) \notin claims

\* What Stripe reports as paid is paid, and what was granted is claimed.
Sold ==
  /\ \A e \in mail : e.kind \in CheckoutKinds => session[e.of].state = "paid"
  /\ \A s \in Sessions : grants[s] # 0 =>
       grants[s] = 1 /\ session[s].state = "paid" /\ Note("paid", s, 0) \in claims

SoldInv == TypeInv /\ Begun /\ Sold

\* How a Checkout Session may change.
Turns(s) ==
  /\ \A t \in Sessions \ {s} : session'[t] = session[t]
  /\ \/ /\ session[s].state = "none" /\ session'[s].state \in {"reserved", "open"}
        /\ session'[s].kind = "monthly" => \E p \in Plans : Reserve(s, p)
     \/ /\ session'[s].kind = session[s].kind
        /\ \/ /\ session[s].state = "reserved" /\ session'[s].state \in {"open", "failed"}
              /\ doing'.checkout = None
           \/ session[s].state = "open" /\ session'[s].state \in {"settling", "paid", "expired"}
           \/ session[s].state = "settling" /\ session'[s].state \in {"paid", "failed"}

LEMMA StateTurns ==
  ASSUME TypeInv, NEW s \in Sessions, NEW st \in SessionStates, SetState(s, st)
  PROVE  /\ session'[s].state = st /\ session'[s].kind = session[s].kind
         /\ \A t \in Sessions \ {s} : session'[t] = session[t]
<1>1. session' = [session EXCEPT ![s] = [session[s] EXCEPT !.state = st]]  BY DEF SetState
<1>2. session[s] \in CheckoutSession  BY DEF TypeInv
<1> QED  BY <1>1, <1>2 DEF TypeInv, CheckoutSession

LEMMA NewSessionTurns ==
  ASSUME TypeInv, NEW s \in Sessions, NEW st \in {"reserved", "open"}, NEW k, NEW n,
         NewSession(s, st, k, n), k = "monthly" => \E p \in Plans : Reserve(s, p)
  PROVE  Turns(s)
<1>1. session' = [session EXCEPT ![s] = [state |-> st, kind |-> k, amount |-> n]]
      /\ session[s].state = "none"
  BY DEF NewSession
<1> QED  BY <1>1 DEF TypeInv, Turns

\* A step turns one session, or grants one purchase, or does neither.
LEMMA SaleStep ==
  ASSUME SoldInv, Next
  PROVE  \/ UNCHANGED <<session, grants>>
         \/ UNCHANGED grants /\ \E s \in Sessions : Turns(s)
         \/ WriteTopup \/ \E e \in mail : GrantPack(e) \/ GrantMonthly(e)
<1> USE DEF SoldInv, AtStripe
<1>1. CASE Customer
  <2>1. ASSUME NEW s \in Sessions, NEW p \in Packs, OpenPack(s, p) \/ OpenTopup(s, p)
        PROVE  UNCHANGED grants /\ Turns(s)
    BY <2>1, NewSessionTurns DEF OpenPack, OpenTopup
  <2>2. ASSUME NEW s \in Sessions, NEW p \in Plans, Reserve(s, p)
        PROVE  UNCHANGED grants /\ Turns(s)
    BY <2>2, NewSessionTurns DEF Reserve
  <2> QED
    BY <1>1, <2>1, <2>2 DEF Customer, Register, Recover, Cancel, Reactivate, SetEnding, Upgrade,
       ReadBalance, ReadAdjust
<1>2. ASSUME NEW s \in Sessions, Stripe(s)
      PROVE  UNCHANGED grants /\ (UNCHANGED session \/ Turns(s))
  <2>1. CASE Pay(s) \/ Arrives(s)
    <3>1. session[s].state \in {"open", "settling"} /\ SetState(s, "paid") /\ UNCHANGED grants
      BY <2>1 DEF Pay, Arrives, Paid, Elsewhere
    <3> QED  BY <3>1, StateTurns DEF Turns, SessionStates
  <2>2. CASE PayLater(s)
    <3>1. session[s].state = "open" /\ SetState(s, "settling") /\ UNCHANGED grants
      BY <2>2 DEF PayLater, Elsewhere
    <3> QED  BY <3>1, StateTurns DEF Turns, SessionStates
  <2>3. CASE Bounces(s)
    <3>1. session[s].state = "settling" /\ SetState(s, "failed") /\ UNCHANGED grants
      BY <2>3 DEF Bounces, Elsewhere
    <3> QED  BY <3>1, StateTurns DEF Turns, SessionStates
  <2>4. CASE SessionExpires(s)
    <3>1. session[s].state = "open" /\ SetState(s, "expired") /\ UNCHANGED grants
      BY <2>4 DEF SessionExpires, Elsewhere
    <3> QED  BY <3>1, StateTurns DEF Turns, SessionStates
  <2> QED
    BY <1>2, <2>1, <2>2, <2>3, <2>4 DEF Stripe, InvoicePaid, InvoiceFails, SubscriptionEnds,
       Elsewhere
<1>3. ASSUME NEW e \in mail, Webhook(e)
      PROVE  UNCHANGED <<session, grants>> \/ GrantPack(e) \/ GrantMonthly(e)
  BY <1>3 DEF Webhook, FreesToken, ReadTopup, UpgradeInvoice, Invoice, Refused, Ended, ReadChanged
<1>4. CASE CreateSession \/ CreateFails \/ CheckoutDies
  <2> DEFINE s == doing.checkout
  <2>1. s \in Sessions /\ session[s].state = "reserved" /\ UNCHANGED grants
    BY <1>4 DEF CreateSession, CreateFails, CheckoutDies, Finish, Begun, TypeInv, Work
  <2>2. (SetState(s, "open") \/ SetState(s, "failed")) /\ doing'.checkout = None
    BY <1>4 DEF CreateSession, CreateFails, CheckoutDies, Finish, TypeInv, Work
  <2> HIDE DEF s
  <2>3. Turns(s)  BY <2>1, <2>2, StateTurns DEF Turns, SessionStates
  <2> QED  BY <2>1, <2>3
<1>5. CASE WriteCancel \/ WriteChanged \/ Spend \/ Adjust \/ CancelDies \/ TokenExpires
           \/ GraceCleanup
  BY <1>5 DEF WriteCancel, WriteChanged, Spend, Adjust, CancelDies, TokenExpires, GraceCleanup
<1> QED  BY <1>1, <1>2, <1>3, <1>4, <1>5 DEF Next, Continue

\* Mail and claims are never taken back; a new report of a payment is true; and the only
\* claims of checkouts are those of the grants.
LEMMA MailStep ==
  ASSUME TypeInv, Next
  PROVE  /\ mail \subseteq mail'
         /\ \A e \in mail' \ mail : e.kind \in CheckoutKinds => session'[e.of].state = "paid"
<1> USE DEF AtStripe
<1>1. CASE mail' = mail  BY <1>1
<1>2. ASSUME NEW s, NEW no, NEW k \in EventKinds \ CheckoutKinds
      PROVE  Note(k, s, no).kind \notin CheckoutKinds
  BY DEF Note
<1>3. ASSUME NEW s, NEW fields
      PROVE  ChangedTo(s, fields).kind \notin CheckoutKinds
  BY DEF ChangedTo, Changed, CheckoutKinds
<1>4. CASE Customer
  <2>1. CASE Cancel \/ Reactivate
    BY <1>3, <2>1 DEF Cancel, Reactivate, SetEnding, Posts
  <2>2. ASSUME NEW p \in Plans, Upgrade(p)
        PROVE  /\ mail \subseteq mail'
               /\ \A e \in mail' \ mail : e.kind \notin CheckoutKinds
    <3>1. Note("upgradeInvoice", user.sub, changes + 1).kind \notin CheckoutKinds
      BY <1>2 DEF EventKinds, CheckoutKinds
    <3> QED  BY <1>3, <2>2, <3>1 DEF Upgrade, Posts
  <2> QED
    BY <1>1, <1>4, <2>1, <2>2 DEF Customer, Register, Recover, OpenPack, OpenTopup, Reserve,
       NewSession, ReadBalance, ReadAdjust
<1>5. ASSUME NEW s \in Sessions, Stripe(s)
      PROVE  /\ mail \subseteq mail'
             /\ \A e \in mail' \ mail : e.kind \in CheckoutKinds => session'[e.of].state = "paid"
  <2>1. ASSUME NEW k, Paid(s, k)
        PROVE  /\ mail \subseteq mail'
               /\ \A e \in mail' \ mail : e.kind \in CheckoutKinds => session'[e.of].state = "paid"
    <3>1. session'[s].state = "paid"
      BY <2>1, StateTurns DEF Paid, SessionStates
    <3>2. mail' \subseteq mail \cup {Note(k, s, 0), Note("invoice", s, 0)} /\ mail \subseteq mail'
      BY <2>1 DEF Paid, Posts
    <3> QED  BY <3>1, <3>2 DEF Note
  <2>2. CASE PayLater(s) \/ Bounces(s) \/ SessionExpires(s)
    <3>1. \A k \in {"unpaid", "failedLater", "expired"} : Note(k, s, 0).kind \notin CheckoutKinds
      BY <1>2 DEF EventKinds, CheckoutKinds
    <3> QED  BY <2>2, <3>1 DEF PayLater, Bounces, SessionExpires, Posts
  <2>3. CASE InvoicePaid(s)
    <3>1. Note("invoice", s, changes + 1).kind \notin CheckoutKinds
      BY <1>2 DEF EventKinds, CheckoutKinds
    <3> QED  BY <1>3, <2>3, <3>1 DEF InvoicePaid, Posts
  <2>4. CASE InvoiceFails(s)
    <3>1. Note("refused", s, changes + 1).kind \notin CheckoutKinds
      BY <1>2 DEF EventKinds, CheckoutKinds
    <3> QED  BY <1>3, <2>4, <3>1 DEF InvoiceFails, Posts
  <2>5. CASE \E st \in {"canceled", "unpaid"} : SubscriptionEnds(s, st)
    <3>1. Note("over", s, 0).kind \notin CheckoutKinds
      BY <1>2 DEF EventKinds, CheckoutKinds
    <3> QED  BY <2>5, <3>1 DEF SubscriptionEnds, Posts
  <2> QED  BY <1>5, <2>1, <2>2, <2>3, <2>4, <2>5 DEF Stripe, Pay, Arrives
<1>6. CASE \E e \in mail : Webhook(e)
  BY <1>1, <1>6 DEF Webhook, FreesToken, GrantPack, GrantMonthly, ReadTopup, UpgradeInvoice,
     Invoice, Refused, Ended, ReadChanged
<1>7. CASE Continue \/ CreateFails \/ CheckoutDies \/ CancelDies \/ TokenExpires \/ GraceCleanup
  BY <1>1, <1>7 DEF Continue, CreateSession, WriteCancel, WriteTopup, WriteChanged, Spend, Adjust,
     CreateFails, CheckoutDies, CancelDies, TokenExpires, GraceCleanup
<1> QED  BY <1>4, <1>5, <1>6, <1>7 DEF Next

LEMMA ClaimsStep ==
  ASSUME SoldInv, Next
  PROVE  \/ /\ claims \subseteq claims'
            /\ \A s : Note("paid", s, 0) \in claims' => Note("paid", s, 0) \in claims
         \/ WriteTopup /\ claims' = claims \cup {ClaimOf(doing.topup)}
         \/ \E e \in mail : /\ GrantPack(e) \/ GrantMonthly(e)
                            /\ claims' = claims \cup {ClaimOf(e)}
<1> USE DEF SoldInv, AtStripe
<1> DEFINE Nothing == /\ claims \subseteq claims'
                      /\ \A s : Note("paid", s, 0) \in claims' => Note("paid", s, 0) \in claims
<1>1. CASE claims' = claims  BY <1>1
<1>2. ASSUME NEW e \in Event, e.kind \notin CheckoutKinds, claims' = claims \cup {ClaimOf(e)}
      PROVE  Nothing
  <2>1. ClaimOf(e) = e  BY <1>2 DEF ClaimOf
  <2>2. \A s : e # Note("paid", s, 0)  BY <1>2 DEF Note, CheckoutKinds
  <2> QED  BY <1>2, <2>1, <2>2
<1>3. CASE Customer
  BY <1>1, <1>3 DEF Customer, Register, Recover, Cancel, Reactivate, SetEnding, OpenPack, OpenTopup,
     Reserve, Upgrade, ReadBalance, ReadAdjust
<1>4. CASE \E s \in Sessions : Stripe(s)
  BY <1>1, <1>4 DEF Stripe, Pay, PayLater, Arrives, Bounces, SessionExpires, InvoicePaid,
     InvoiceFails, SubscriptionEnds, Paid, Elsewhere
<1>5. ASSUME NEW e \in mail, Webhook(e)
      PROVE  Nothing \/ ((GrantPack(e) \/ GrantMonthly(e)) /\ claims' = claims \cup {ClaimOf(e)})
  <2>1. CASE GrantPack(e) \/ GrantMonthly(e)  BY <2>1 DEF GrantPack, GrantMonthly, Claims
  <2>2. CASE UpgradeInvoice(e) \/ Invoice(e) \/ Refused(e) \/ Ended(e)
    <3>1. e \in Event /\ e.kind \notin CheckoutKinds
      BY <2>2 DEF UpgradeInvoice, Invoice, Refused, Ended, Arrived, CheckoutKinds, TypeInv
    <3>2. claims' = claims \cup {ClaimOf(e)}
      BY <2>2 DEF UpgradeInvoice, Invoice, Refused, Ended, Claims
    <3> QED  BY <1>2, <3>1, <3>2
  <2> QED
    BY <1>1, <1>5, <2>1, <2>2 DEF Webhook, FreesToken, ReadTopup, ReadChanged
<1>6. CASE WriteTopup  BY <1>6 DEF WriteTopup
<1>7. CASE WriteChanged
  <2> DEFINE e == doing.sync.event
  <2>1. e \in Event /\ e.kind \notin CheckoutKinds
    BY <1>7 DEF WriteChanged, Finish, Begun, TypeInv, Work, SyncRead, CheckoutKinds
  <2>2. claims' = claims \/ claims' = claims \cup {ClaimOf(e)}  BY <1>7 DEF WriteChanged
  <2> HIDE DEF e
  <2> QED  BY <1>1, <1>2, <2>1, <2>2
<1>8. CASE CreateSession \/ WriteCancel \/ Spend \/ Adjust \/ CreateFails \/ CheckoutDies
           \/ CancelDies \/ TokenExpires \/ GraceCleanup
  BY <1>1, <1>8 DEF CreateSession, WriteCancel, Spend, Adjust, CreateFails, CheckoutDies,
     CancelDies, TokenExpires, GraceCleanup
<1> QED  BY <1>3, <1>4, <1>5, <1>6, <1>7, <1>8 DEF Next, Continue

\* A grant: of a purchase that was paid, not granted before and not claimed.
Grants(e) ==
  /\ e \in mail /\ e.kind \in CheckoutKinds
  /\ UNCHANGED <<session, mail>>
  /\ grants[e.of] = 0 /\ session[e.of].state = "paid"
  /\ Note("paid", e.of, 0) \notin claims
  /\ claims' = claims \cup {Note("paid", e.of, 0)}

LEMMA GrantStep ==
  ASSUME SoldInv, NEW e,
         (WriteTopup /\ e = doing.topup) \/ (e \in mail /\ (GrantPack(e) \/ GrantMonthly(e)))
  PROVE  /\ Grants(e) /\ e.of \in Sessions
         /\ grants' = grants \/ grants' = [grants EXCEPT ![e.of] = 1]
         /\ session[e.of].kind = "topup" => WriteTopup
<1> USE DEF SoldInv, AtStripe
<1>1. /\ e \in mail /\ e.kind \in CheckoutKinds /\ UNCHANGED <<session, mail>>
      /\ ClaimOf(e) \notin claims /\ claims' = claims \cup {ClaimOf(e)}
      /\ session[e.of].kind = "topup" => WriteTopup
  <2>1. CASE WriteTopup /\ e = doing.topup
    BY <2>1 DEF WriteTopup, Finish, Begun, ClaimOf
  <2>2. CASE e \in mail /\ (GrantPack(e) \/ GrantMonthly(e))
    BY <2>2 DEF GrantPack, GrantMonthly, PaidFor, Claims, Claimed
  <2> QED  BY <2>1, <2>2
<1>2. ClaimOf(e) = Note("paid", e.of, 0) /\ e.of \in Sessions
  BY <1>1, ClaimType DEF ClaimOf, TypeInv
<1>3. session[e.of].state = "paid" /\ grants[e.of] = 0
  BY <1>1, <1>2 DEF Sold
<1>4. grants' = grants \/ grants' = [grants EXCEPT ![e.of] = 1]
  <2>1. grants' = grants \/ Granted(e.of)
    BY DEF WriteTopup, GrantPack, GrantMonthly
  <2>2. Granted(e.of) => grants' = [grants EXCEPT ![e.of] = grants[e.of] + 1]  BY DEF Granted
  <2> QED  BY <1>2, <1>3, <2>1, <2>2 DEF TypeInv
<1> QED  BY <1>1, <1>2, <1>3, <1>4 DEF Grants

LEMMA SoldInit ==
  ASSUME Init
  PROVE  SoldInv
<1>1. doing.checkout = None /\ doing.sync = None /\ doing.topup = None  BY DEF Init, Idle
<1> QED  BY <1>1, InitType DEF SoldInv, Begun, Sold, Init

\* What a turn of a session leaves alone.
LEMMA TurnsKeep ==
  ASSUME TypeInv, NEW s \in Sessions, Turns(s), NEW t \in Sessions
  PROVE  /\ session[t].state = "paid" => session'[t] = session[t]
         /\ session[t].state # "none" => session'[t].kind = session[t].kind
<1>1. CASE t # s  BY <1>1 DEF Turns
<1>2. CASE t = s  BY <1>2 DEF Turns
<1> QED  BY <1>1, <1>2

LEMMA SoldStep ==
  ASSUME SoldInv, [Next]_vars
  PROVE  SoldInv'
<1> USE DEF SoldInv
<1>0. TypeInv'  BY NextType
<1>1. CASE UNCHANGED vars  BY <1>0, <1>1 DEF vars, Begun, Sold
<1>2. CASE Next
  <2>1. ASSUME NEW t \in Sessions, session[t].state = "paid" PROVE session'[t] = session[t]
    <3>1. CASE UNCHANGED session  BY <3>1
    <3>2. CASE \E s \in Sessions : Turns(s)  BY <2>1, <3>2, TurnsKeep
    <3>3. CASE WriteTopup \/ \E e \in mail : GrantPack(e) \/ GrantMonthly(e)
      BY <3>3 DEF WriteTopup, GrantPack, GrantMonthly, AtStripe
    <3> QED  BY <1>2, <3>1, <3>2, <3>3, SaleStep
  <2>2. mail \subseteq mail' /\ claims \subseteq claims'
    BY <1>2, MailStep, ClaimsStep
  <2>3. \A e \in mail' : e.kind \in CheckoutKinds => session'[e.of].state = "paid"
    <3>1. \A e \in mail : e.of \in Sessions  BY ClaimType DEF TypeInv
    <3> QED  BY <1>2, <2>1, <3>1, MailStep DEF Sold
  <2>4. ASSUME NEW s \in Sessions, grants'[s] # 0
        PROVE  grants'[s] = 1 /\ session'[s].state = "paid" /\ Note("paid", s, 0) \in claims'
    <3>1. CASE grants' = grants  BY <2>1, <2>2, <2>4, <3>1 DEF Sold
    <3>2. ASSUME NEW e, Grants(e), e.of \in Sessions, grants' = [grants EXCEPT ![e.of] = 1]
          PROVE  grants'[s] = 1 /\ session'[s].state = "paid" /\ Note("paid", s, 0) \in claims'
      <4>1. CASE s = e.of  BY <3>2, <4>1 DEF Grants, TypeInv
      <4>2. CASE s # e.of  BY <2>1, <2>2, <2>4, <3>2, <4>2 DEF Sold, TypeInv
      <4> QED  BY <4>1, <4>2
    <3> QED  BY <1>2, <3>1, <3>2, SaleStep, GrantStep
  <2>5. doing'.checkout # None => session'[doing'.checkout].state = "reserved"
    <3>1. ASSUME NEW s \in Sessions, NEW p \in Plans, Reserve(s, p)
          PROVE  doing'.checkout = s /\ session'[s].state = "reserved"
      BY <3>1, WorkMoves DEF Reserve, NewSession, TypeInv, Works
    <3>2. CASE doing'.checkout = doing.checkout /\ doing.checkout # None
      <4> DEFINE s == doing.checkout
      <4>1. s \in Sessions /\ session[s].state = "reserved"
        BY <3>2 DEF Begun, TypeInv, Work
      <4>2. UNCHANGED session \/ \E t \in Sessions : Turns(t)
        <5>1. CASE WriteTopup \/ \E e \in mail : GrantPack(e) \/ GrantMonthly(e)
          BY <5>1 DEF WriteTopup, GrantPack, GrantMonthly, AtStripe
        <5> QED  BY <1>2, <5>1, SaleStep
      <4>3. ASSUME NEW t \in Sessions, Turns(t) PROVE t # s
        BY <3>2, <4>1, <4>3 DEF Turns
      <4>4. session'[s] = session[s]  BY <4>1, <4>2, <4>3 DEF Turns
      <4> QED  BY <3>2, <4>1, <4>4
    <3> QED  BY <1>2, <3>1, <3>2, WorkStep
  <2>6. doing'.sync # None => doing'.sync.event.kind = "changed"
    <3>1. ASSUME NEW e \in mail, ReadChanged(e) PROVE doing'.sync.event = e /\ e.kind = "changed"
      BY <3>1, WorkMoves DEF ReadChanged, Arrived, TypeInv, Works
    <3> QED  BY <1>2, <3>1, WorkStep DEF Begun
  <2>7. ASSUME doing'.topup # None
        PROVE  /\ doing'.topup \in mail' /\ doing'.topup.kind \in CheckoutKinds
               /\ session'[doing'.topup.of].kind = "topup"
               /\ Note("paid", doing'.topup.of, 0) \notin claims'
    <3>1. CASE \E e \in mail : ReadTopup(e)
      <4>1. PICK e \in mail : ReadTopup(e)  BY <3>1
      <4>2. doing'.topup = e  BY <4>1, WorkMoves DEF ReadTopup, TypeInv, Works
      <4> QED  BY <4>1, <4>2 DEF ReadTopup, PaidFor, Claimed, ClaimOf, AtStripe
    <3>2. CASE doing'.topup = doing.topup
      <4> DEFINE e == doing.topup
      <4>1. /\ e \in mail /\ e.kind \in CheckoutKinds /\ session[e.of].kind = "topup"
            /\ Note("paid", e.of, 0) \notin claims /\ e.of \in Sessions
            /\ session[e.of].state = "paid"
        <5>1. e # None  BY <2>7, <3>2
        <5>2. e \in mail /\ e.kind \in CheckoutKinds /\ session[e.of].kind = "topup"
              /\ Note("paid", e.of, 0) \notin claims
          BY <5>1 DEF Begun
        <5> HIDE DEF e
        <5>3. e.of \in Sessions  BY <5>2, ClaimType DEF TypeInv
        <5> QED  BY <5>2, <5>3 DEF Sold
      <4>2. ~WriteTopup
        BY <2>7, <3>2, WorkEnds DEF WriteTopup, Finish, TypeInv, Work
      <4> HIDE DEF e
      <4>3. ASSUME NEW d \in mail, GrantPack(d) \/ GrantMonthly(d),
                   claims' = claims \cup {ClaimOf(d)}
            PROVE  Note("paid", e.of, 0) \notin claims'
        <5>1. Grants(d) /\ session[d.of].kind # "topup"  BY <4>2, <4>3, GrantStep
        <5>2. d.of # e.of  BY <4>1, <5>1
        <5> QED  BY <4>1, <5>1, <5>2 DEF Grants, Note
      <4>4. Note("paid", e.of, 0) \notin claims'
        BY <1>2, <4>1, <4>2, <4>3, ClaimsStep
      <4>5. session'[e.of] = session[e.of]  BY <2>1, <4>1
      <4> QED  BY <2>2, <3>2, <4>1, <4>4, <4>5 DEF e
    <3> QED  BY <1>2, <2>7, <3>1, <3>2, WorkStep
  <2> QED  BY <1>0, <2>3, <2>4, <2>5, <2>6, <2>7 DEF Begun, Sold
<1> QED  BY <1>1, <1>2

\* A purchase moves from one phase to another.
Moved(s, from, to) == Phase[s] = from /\ Phase' = [Phase EXCEPT ![s] = to]

LEMMA PhaseStep ==
  ASSUME SoldInv, [Next]_vars
  PROVE  \/ Phase' = Phase
         \/ \E s \in Sessions :
              \/ Moved(s, "none", "offered") \/ Moved(s, "offered", "void")
              \/ Moved(s, "offered", "paid") \/ Moved(s, "paid", "granted")
<1> USE DEF SoldInv
<1>1. CASE UNCHANGED <<session, grants>>  BY <1>1 DEF Phase
<1>2. ASSUME UNCHANGED grants, NEW s \in Sessions, Turns(s)
      PROVE  \/ Phase' = Phase
             \/ Moved(s, "none", "offered") \/ Moved(s, "offered", "void")
             \/ Moved(s, "offered", "paid")
  <2>1. grants[s] = 0
    BY <1>2 DEF Turns, Sold
  <2>2. \A t \in Sessions \ {s} : Phase'[t] = Phase[t]  BY <1>2 DEF Phase, Turns
  <2>3. \/ Phase'[s] = Phase[s]
        \/ Phase[s] = "none" /\ Phase'[s] = "offered"
        \/ Phase[s] = "offered" /\ Phase'[s] \in {"void", "paid"}
    BY <1>2, <2>1 DEF Phase, Turns
  <2>4. DOMAIN Phase = Sessions /\ Phase = [t \in Sessions |-> Phase[t]]  BY DEF Phase
  <2>5. DOMAIN Phase' = Sessions /\ Phase' = [t \in Sessions |-> Phase'[t]]  BY DEF Phase
  <2>6. Phase' = [Phase EXCEPT ![s] = Phase'[s]]  BY ONLY <2>2, <2>4, <2>5
  <2>7. Phase = [Phase EXCEPT ![s] = Phase[s]]  BY ONLY <2>4
  <2>8. CASE Phase'[s] = Phase[s]  BY <2>6, <2>7, <2>8
  <2> QED  BY <2>3, <2>6, <2>8 DEF Moved
<1>3. ASSUME NEW e, Grants(e), e.of \in Sessions, grants' = [grants EXCEPT ![e.of] = 1]
      PROVE  Moved(e.of, "paid", "granted")
  <2> DEFINE s == e.of
  <2>1. /\ grants[s] = 0 /\ session[s].state = "paid" /\ UNCHANGED session
        /\ grants' = [grants EXCEPT ![s] = 1] /\ s \in Sessions
    BY <1>3 DEF Grants
  <2> HIDE DEF s
  <2>2. Phase[s] = "paid"  BY <2>1 DEF Phase
  <2>3. grants'[s] = 1 /\ \A t \in Sessions \ {s} : grants'[t] = grants[t]
    BY <2>1 DEF TypeInv
  <2>4. Phase'[s] = "granted" /\ \A t \in Sessions \ {s} : Phase'[t] = Phase[t]
    BY <2>1, <2>3 DEF Phase
  <2>5. Phase' = [Phase EXCEPT ![s] = "granted"]  BY <2>4 DEF Phase
  <2>6. Moved(s, "paid", "granted")  BY <2>2, <2>5 DEF Moved
  <2> QED  BY <2>6 DEF s
<1>4. CASE WriteTopup \/ \E e \in mail : GrantPack(e) \/ GrantMonthly(e)
  <2>1. PICK e : Grants(e) /\ e.of \in Sessions
                 /\ (grants' = grants \/ grants' = [grants EXCEPT ![e.of] = 1])
    BY <1>4, GrantStep
  <2>2. CASE grants' = grants  BY <1>1, <2>1, <2>2 DEF Grants
  <2>3. CASE grants' = [grants EXCEPT ![e.of] = 1]
    BY <1>3, <2>1, <2>3
  <2> QED  BY <2>1, <2>2, <2>3
<1>5. CASE UNCHANGED vars  BY <1>1, <1>5 DEF vars
<1> QED  BY <1>1, <1>2, <1>4, <1>5, SaleStep

LEMMA InitSells == Init => Bought!Init
BY DEF Init, Bought!Init, Phase

LEMMA NextSells == SoldInv /\ [Next]_vars => [Bought!Next]_Phase
BY PhaseStep DEF Moved, Bought!Next, Bought!Offer, Bought!Lapse, Bought!Pay, Bought!Grant,
   Bought!Move

LEMMA SpecSold == Spec => []SoldInv
<1> QED  BY SoldInit, SoldStep, PTL DEF Spec

\* Billing sells every purchase once: it is granted after it was paid and never again,
\* through whatever deliveries, repetitions and orders of Stripe's events.
THEOREM PurchasesAreGrantedOnce == Spec => SoldOnce
<1> QED  BY SpecSold, InitSells, NextSells, PTL DEF Spec, SoldOnce, Bought!Spec

-----------------------------------------------------------------------------
(* One subscription, while payments are prompt and webhooks are in time.   *)

\* A monthly checkout that can still be paid, or a subscription that is charged.
Playing(s) ==
  session[s].kind = "monthly" /\ (session[s].state \in {"reserved", "open", "settling"}
                                  \/ stripe[s].status \in Live)

\* The account knows of it: by its token, or as its subscription.
Known(s) == (user.token = s /\ user.fresh) \/ user.sub = s

Tenure ==
  /\ user.sub # None => user.type = "monthly" /\ user.token = None
  /\ \A s \in Sessions : Playing(s) => Known(s)

\* What Stripe's objects and its events say of each other.
AtStripeInv ==
  /\ \A s \in Sessions :
       stripe[s].status # "none" => session[s].state = "paid" /\ session[s].kind = "monthly"
  /\ \A e \in mail :
       /\ e.kind \in {"expired", "failedLater"} => session[e.of].state \in {"expired", "failed"}
       /\ e.kind = "over" => session[e.of].state = "paid" /\ stripe[e.of].status \notin Live

OneInv == SoldInv /\ AtStripeInv /\ Tenure

\* How a subscription may change.
Becomes(s) ==
  /\ \A t \in Sessions \ {s} : stripe'[t] = stripe[t]
  /\ \/ /\ session[s].state \in {"open", "settling"} /\ session[s].kind = "monthly"
        /\ session'[s].state = "paid" /\ session'[s].kind = "monthly"
     \/ session' = session /\ stripe[s].status \in Live

LEMMA StripeStep ==
  ASSUME TypeInv, Next
  PROVE  stripe' = stripe \/ \E s \in Sessions : Becomes(s)
<1> USE DEF AtStripe
<1>1. ASSUME NEW s \in Sessions, NEW fields, Subscription(s, fields), session' = session,
             stripe[s].status \in Live
      PROVE  Becomes(s)
  BY <1>1 DEF Subscription, Becomes, TypeInv
<1>2. CASE Customer
  <2>1. CASE Cancel \/ Reactivate
    <3>1. PICK b \in BOOLEAN : ActiveMonthly /\ SetEnding(b)  BY <2>1 DEF Cancel, Reactivate
    <3>2. user.sub \in Sessions  BY <3>1 DEF ActiveMonthly, TypeInv, Account
    <3> QED  BY <1>1, <3>1, <3>2 DEF SetEnding
  <2>2. ASSUME NEW p \in Plans, Upgrade(p) PROVE \E s \in Sessions : Becomes(s)
    <3>1. user.sub \in Sessions  BY <2>2 DEF Upgrade, ActiveMonthly, TypeInv, Account
    <3>2. stripe[user.sub].status \in Live  BY <2>2 DEF Upgrade, Live
    <3> QED  BY <1>1, <2>2, <3>1, <3>2 DEF Upgrade
  <2> QED
    BY <1>2, <2>1, <2>2 DEF Customer, Register, Recover, OpenPack, OpenTopup, Reserve, NewSession,
       ReadBalance, ReadAdjust
<1>3. ASSUME NEW s \in Sessions, Stripe(s) PROVE stripe' = stripe \/ Becomes(s)
  <2>1. CASE Pay(s) \/ Arrives(s)
    <3>1. session[s].state \in {"open", "settling"} /\ SetState(s, "paid")
      BY <2>1 DEF Pay, Arrives, Paid
    <3>2. session'[s].state = "paid" /\ session'[s].kind = session[s].kind
      BY <3>1, StateTurns DEF SessionStates
    <3>3. CASE session[s].kind # "monthly"  BY <2>1, <3>3 DEF Pay, Arrives, Paid
    <3>4. CASE session[s].kind = "monthly"
      <4>1. \A t \in Sessions \ {s} : stripe'[t] = stripe[t]
        BY <2>1, <3>4 DEF Pay, Arrives, Paid, TypeInv
      <4> QED  BY <3>1, <3>2, <3>4, <4>1 DEF Becomes
    <3> QED  BY <3>3, <3>4
  <2>2. CASE InvoicePaid(s) \/ InvoiceFails(s)
    BY <1>1, <2>2 DEF InvoicePaid, InvoiceFails, Live
  <2>3. ASSUME NEW st, SubscriptionEnds(s, st) PROVE Becomes(s)
    BY <2>3 DEF SubscriptionEnds, Becomes, Live, TypeInv
  <2> QED
    BY <1>3, <2>1, <2>2, <2>3 DEF Stripe, PayLater, Bounces, SessionExpires
<1>4. CASE \E e \in mail : Webhook(e)
  BY <1>4 DEF Webhook, FreesToken, GrantPack, GrantMonthly, ReadTopup, UpgradeInvoice,
     Invoice, Refused, Ended, ReadChanged
<1>5. CASE Continue \/ CreateFails \/ CheckoutDies \/ CancelDies \/ TokenExpires \/ GraceCleanup
  BY <1>5 DEF Continue, CreateSession, WriteCancel, WriteTopup, WriteChanged, Spend, Adjust,
     CreateFails, CheckoutDies, CancelDies, TokenExpires, GraceCleanup
<1> QED  BY <1>2, <1>3, <1>4, <1>5 DEF Next

\* The news that let the account forget a checkout or a subscription.
LEMMA NewsStep ==
  ASSUME TypeInv, Next, NEW e \in mail' \ mail
  PROVE  /\ e.kind \in {"expired", "failedLater"} => session'[e.of].state \in {"expired", "failed"}
         /\ e.kind = "over" => \E st \in {"canceled", "unpaid"} : SubscriptionEnds(e.of, st)
<1> USE DEF AtStripe
<1> DEFINE Old == e.kind \notin {"expired", "failedLater", "over"}
<1>1. ASSUME NEW s, NEW fields, e = ChangedTo(s, fields)
      PROVE  Old
  BY <1>1 DEF ChangedTo, Changed
<1>2. CASE Customer
  <2>1. CASE Cancel \/ Reactivate
    BY <1>1, <2>1 DEF Cancel, Reactivate, SetEnding, Posts
  <2>2. ASSUME NEW p \in Plans, Upgrade(p) PROVE Old
    <3>1. Note("upgradeInvoice", user.sub, changes + 1).kind = "upgradeInvoice"  BY DEF Note
    <3> QED  BY <1>1, <2>2, <3>1 DEF Upgrade, Posts
  <2> QED
    BY <1>2, <2>1, <2>2 DEF Customer, Register, Recover, OpenPack, OpenTopup, Reserve,
       NewSession, ReadBalance, ReadAdjust
<1>3. ASSUME NEW s \in Sessions, Stripe(s)
      PROVE  /\ e.kind \in {"expired", "failedLater"} =>
                  session'[e.of].state \in {"expired", "failed"}
             /\ e.kind = "over" => \E st \in {"canceled", "unpaid"} : SubscriptionEnds(e.of, st)
  <2>0. \A k, no : Note(k, s, no).kind = k /\ Note(k, s, no).of = s  BY DEF Note
  <2>1. CASE Pay(s) \/ Arrives(s)
    <3>1. e \in {Note("paid", s, 0), Note("paidLater", s, 0), Note("invoice", s, 0)}
      BY <2>1 DEF Pay, Arrives, Paid, Posts
    <3>2. Old  BY <2>0, <3>1
    <3> QED  BY <3>2
  <2>2. CASE PayLater(s)
    <3>1. e = Note("unpaid", s, 0)  BY <2>2 DEF PayLater, Posts
    <3> QED  BY <2>0, <3>1
  <2>3. CASE Bounces(s)
    <3>1. e = Note("failedLater", s, 0) /\ SetState(s, "failed")  BY <2>3 DEF Bounces, Posts
    <3> QED  BY <2>0, <3>1, StateTurns DEF SessionStates
  <2>4. CASE SessionExpires(s)
    <3>1. e = Note("expired", s, 0) /\ SetState(s, "expired")  BY <2>4 DEF SessionExpires, Posts
    <3>2. session'[s].state = "expired"  BY <3>1, StateTurns DEF SessionStates
    <3>3. e.kind = "expired" /\ e.of = s  BY ONLY <2>0, <3>1
    <3> QED  BY <3>2, <3>3
  <2>5. CASE InvoicePaid(s) \/ InvoiceFails(s)
    <3>1. \/ e \in {Note("invoice", s, changes + 1), Note("refused", s, changes + 1)}
          \/ \E fields : e = ChangedTo(s, fields)
      BY <2>5 DEF InvoicePaid, InvoiceFails, Posts
    <3>2. Old  BY <1>1, <2>0, <3>1
    <3> QED  BY <3>2
  <2>6. ASSUME NEW st \in {"canceled", "unpaid"}, SubscriptionEnds(s, st)
        PROVE  e.kind = "over" /\ e.of = s
    <3>1. e = Note("over", s, 0)  BY <2>6 DEF SubscriptionEnds, Posts
    <3> QED  BY <2>0, <3>1
  <2> QED  BY <1>3, <2>1, <2>2, <2>3, <2>4, <2>5, <2>6 DEF Stripe
<1>4. CASE \E d \in mail : Webhook(d)
  BY <1>4 DEF Webhook, FreesToken, GrantPack, GrantMonthly, ReadTopup, UpgradeInvoice,
     Invoice, Refused, Ended, ReadChanged
<1>5. CASE Continue \/ CreateFails \/ CheckoutDies \/ CancelDies \/ TokenExpires \/ GraceCleanup
  BY <1>5 DEF Continue, CreateSession, WriteCancel, WriteTopup, WriteChanged, Spend, Adjust,
     CreateFails, CheckoutDies, CancelDies, TokenExpires, GraceCleanup
<1> QED  BY <1>2, <1>3, <1>4, <1>5 DEF Next

LEMMA SessionsStep ==
  ASSUME SoldInv, Next
  PROVE  UNCHANGED session \/ \E s \in Sessions : Turns(s)
<1>1. CASE WriteTopup \/ \E e \in mail : GrantPack(e) \/ GrantMonthly(e)
  BY <1>1 DEF WriteTopup, GrantPack, GrantMonthly, AtStripe
<1> QED  BY <1>1, SaleStep

\* Sessions that are over, paid or not, stay as they are.
LEMMA OverIsOver ==
  ASSUME SoldInv, Next, NEW t \in Sessions,
         session[t].state \in {"paid", "expired", "failed"}
  PROVE  session'[t] = session[t]
<1>1. ASSUME NEW s \in Sessions, Turns(s) PROVE session'[t] = session[t]
  BY <1>1 DEF Turns
<1> QED  BY <1>1, SessionsStep

\* A checkout or subscription that plays did so before, or was just reserved.
LEMMA PlayingStep ==
  ASSUME SoldInv, AtStripeInv, Next, NEW t \in Sessions, Playing(t)'
  PROVE  Playing(t) \/ \E p \in Plans : Reserve(t, p)
<1>1. CASE session'[t].state \in {"reserved", "open", "settling"} /\ session'[t].kind = "monthly"
  <2>1. CASE session'[t] = session[t]  BY <1>1, <2>1 DEF Playing
  <2>2. ASSUME NEW s \in Sessions, Turns(s), session'[t] # session[t]
        PROVE  Playing(t) \/ \E p \in Plans : Reserve(t, p)
    <3>1. s = t  BY <2>2 DEF Turns
    <3> QED  BY <1>1, <2>2, <3>1 DEF Turns, Playing
  <2> QED  BY <2>1, <2>2, SessionsStep
<1>2. CASE stripe'[t].status \in Live
  <2>1. CASE stripe'[t] = stripe[t]
    <3>1. session[t].kind = "monthly"  BY <1>2, <2>1 DEF AtStripeInv, Live
    <3> QED  BY <1>2, <2>1, <3>1 DEF Playing
  <2>2. ASSUME NEW s \in Sessions, Becomes(s), stripe'[t] # stripe[t]
        PROVE  Playing(t)
    <3>1. s = t  BY <2>2 DEF Becomes
    <3>2. CASE session[t].state \in {"open", "settling"} /\ session[t].kind = "monthly"
      BY <3>2 DEF Playing
    <3>3. CASE stripe[t].status \in Live  BY <3>3 DEF Playing, AtStripeInv, Live
    <3> QED  BY <2>2, <3>1, <3>2, <3>3 DEF Becomes
  <2> QED  BY <2>1, <2>2, StripeStep DEF SoldInv
<1> QED  BY <1>1, <1>2 DEF Playing

LEMMA AtStripeStep ==
  ASSUME SoldInv, AtStripeInv, Next
  PROVE  AtStripeInv'
<1>1. ASSUME NEW t \in Sessions, stripe'[t].status # "none"
      PROVE  session'[t].state = "paid" /\ session'[t].kind = "monthly"
  <2>1. CASE stripe[t].status # "none"  BY <2>1, OverIsOver DEF AtStripeInv
  <2>2. CASE stripe[t].status = "none"
    <3>1. PICK s \in Sessions : Becomes(s)  BY <1>1, <2>2, StripeStep DEF SoldInv
    <3>2. s = t  BY <1>1, <2>2, <3>1 DEF Becomes
    <3> QED  BY <2>2, <3>1, <3>2 DEF Becomes, Live
  <2> QED  BY <2>1, <2>2
<1>2. \A e \in mail' : e.of \in Sessions
  <2>1. TypeInv'  BY NextType DEF SoldInv
  <2> QED  BY <2>1, ClaimType DEF TypeInv
<1>3. ASSUME NEW e \in mail', e.kind \in {"expired", "failedLater"}
      PROVE  session'[e.of].state \in {"expired", "failed"}
  <2>1. CASE e \in mail  BY <1>2, <1>3, <2>1, OverIsOver DEF AtStripeInv
  <2>2. CASE e \notin mail  BY <1>3, <2>2, NewsStep DEF SoldInv
  <2> QED  BY <2>1, <2>2
<1>4. ASSUME NEW e \in mail', e.kind = "over"
      PROVE  session'[e.of].state = "paid" /\ stripe'[e.of].status \notin Live
  <2> DEFINE t == e.of
  <2>0. t \in Sessions  BY <1>2
  <2>1. CASE e \in mail
    <3>1. session[t].state = "paid" /\ stripe[t].status \notin Live
      BY <1>4, <2>1 DEF AtStripeInv
    <3>2. session'[t] = session[t]  BY <2>0, <3>1, OverIsOver
    <3> HIDE DEF t
    <3>3. ASSUME NEW s \in Sessions, Becomes(s) PROVE stripe'[t] = stripe[t]
      BY <2>0, <3>1, <3>3 DEF Becomes
    <3>4. stripe'[t] = stripe[t]  BY <3>3, StripeStep DEF SoldInv
    <3>5. session'[t].state = "paid" /\ stripe'[t].status \notin Live  BY <3>1, <3>2, <3>4
    <3> QED  BY <3>5 DEF t
  <2>2. CASE e \notin mail
    <3>1. PICK st \in {"canceled", "unpaid"} : SubscriptionEnds(t, st)
      BY <1>4, <2>2, NewsStep DEF SoldInv
    <3> HIDE DEF t
    <3>2. stripe[t].status \in Live /\ UNCHANGED session
          /\ stripe' = [stripe EXCEPT ![t] = [stripe[t] EXCEPT !.status = st]]
      BY <3>1 DEF SubscriptionEnds, Live
    <3>3. session[t].state = "paid"  BY <2>0, <3>2 DEF AtStripeInv, Live
    <3>4. stripe'[t].status = st  BY <2>0, <3>2 DEF SoldInv, TypeInv, Subscribed
    <3>5. session'[t].state = "paid" /\ stripe'[t].status \notin Live
      BY <3>2, <3>3, <3>4 DEF Live
    <3> QED  BY <3>5 DEF t
  <2> QED  BY <2>1, <2>2
<1> QED  BY <1>1, <1>3, <1>4 DEF AtStripeInv

LEMMA TenureStep ==
  ASSUME OneInv, Next, "lateWebhook" \notin Faults
  PROVE  Tenure'
<1> USE DEF OneInv, AtStripe
<1>0. user \in Account  BY DEF SoldInv, TypeInv
<1>1. ASSUME NEW s \in Sessions, NEW p \in Plans, Reserve(s, p)
      PROVE  Tenure'
  <2>1. user.sub = None /\ ~(user.token # None /\ user.fresh)
    BY <1>1 DEF Reserve, Tenure, ActiveMonthly
  <2>2. \A t \in Sessions : ~Playing(t)
    BY <2>1 DEF Tenure, Known
  <2>3. user' = [user EXCEPT !.token = s, !.fresh = TRUE] /\ NewSession(s, "reserved", "monthly", p)
    BY <1>1 DEF Reserve
  <2>4. user'.sub = None /\ user'.token = s /\ user'.fresh  BY <1>0, <2>1, <2>3 DEF Account
  <2>5. ASSUME NEW t \in Sessions, Playing(t)' PROVE t = s
    <3>1. ASSUME t # s PROVE FALSE
      <4>1. session'[t] = session[t] /\ stripe' = stripe
        BY <2>3, <3>1 DEF NewSession, SoldInv, TypeInv
      <4> QED  BY <2>2, <2>5, <4>1 DEF Playing
    <3> QED  BY <3>1
  <2> QED  BY <2>4, <2>5 DEF Tenure, Known
<1>2. CASE ~\E s \in Sessions, p \in Plans : Reserve(s, p)
  <2>0. \A t \in Sessions : Playing(t)' => Playing(t)
    BY <1>2, PlayingStep
  <2>1. ASSUME user'.sub = user.sub, user'.token = user.token, user'.fresh = user.fresh,
               user.sub # None => user'.type = "monthly"
        PROVE  Tenure'
    BY <2>0, <2>1 DEF Tenure, Known
  <2>2. ASSUME NEW s \in Sessions, Release(s), ~Playing(s)'
        PROVE  Tenure'
    <3>1. CASE user' = user  BY <2>1, <3>1 DEF Tenure
    <3>2. CASE user.token = s /\ user' = [user EXCEPT !.token = None, !.fresh = FALSE]
      <4>1. user'.sub = user.sub /\ user'.token = None /\ user'.type = user.type
        BY <1>0, <3>2 DEF Account
      <4>2. ASSUME NEW t \in Sessions, Playing(t)' PROVE user'.sub = t
        BY <2>0, <2>2, <3>2, <4>1, <4>2 DEF Tenure, Known
      <4> QED  BY <4>1, <4>2 DEF Tenure, Known
    <3> QED  BY <2>2, <3>1, <3>2 DEF Release
  <2>3. CASE Customer
    <3>1. CASE Register  BY <1>0, <2>1, <3>1 DEF Register, Tenure, Account
    <3>2. CASE Recover
      <4>1. user.token \in Sessions /\ Release(user.token) /\ UNCHANGED <<session, stripe>>
        BY <1>0, <3>2 DEF Recover, Account
      <4>2. ~Playing(user.token)
        BY <3>2, <4>1 DEF Recover, Playing, AtStripeInv, Live
      <4>3. \A t \in Sessions : Playing(t)' = Playing(t)  BY <4>1 DEF Playing
      <4> QED  BY <2>0, <2>2, <4>1, <4>2, <4>3
    <3> QED
      BY <1>2, <2>1, <2>3, <3>1, <3>2 DEF Customer, Cancel, Reactivate, SetEnding, OpenPack,
         OpenTopup, Upgrade, ReadBalance, ReadAdjust, Tenure
  <2>4. ASSUME NEW s \in Sessions, Stripe(s) PROVE Tenure'
    BY <2>1, <2>4 DEF Stripe, Pay, PayLater, Arrives, Bounces, SessionExpires, InvoicePaid,
       InvoiceFails, SubscriptionEnds, Paid, Elsewhere, Tenure
  <2>5. ASSUME NEW e \in mail, Webhook(e) PROVE Tenure'
    <3>0. e.of \in Sessions /\ e.of # None  BY ClaimType DEF SoldInv, TypeInv
    <3>1. CASE FreesToken(e)
      <4>1. session[e.of].state \in {"expired", "failed"} /\ Release(e.of)
        BY <3>1 DEF FreesToken, Arrived, AtStripeInv
      <4>2. stripe[e.of].status = "none"
        BY <3>0, <4>1 DEF AtStripeInv
      <4>3. ~Playing(e.of)  BY <4>1, <4>2 DEF Playing, Live
      <4> QED  BY <2>0, <2>2, <3>0, <4>1, <4>3
    <3>2. CASE GrantPack(e)
      BY <1>0, <2>1, <3>2 DEF GrantPack, WithPack, ActiveMonthly, Tenure, Account
    <3>3. CASE GrantMonthly(e)
      <4>1. /\ user'.type = "monthly" /\ user'.sub = e.of /\ user'.token = None
            /\ user.sub \in {None, e.of} /\ user.token \in {None, e.of}
        BY <1>0, <3>3 DEF GrantMonthly, Account
      <4>2. ASSUME NEW t \in Sessions, Playing(t)' PROVE t = e.of
        BY <2>0, <4>1, <4>2 DEF Tenure, Known
      <4> QED  BY <4>1, <4>2 DEF Tenure, Known
    <3>4. CASE UpgradeInvoice(e) \/ Refused(e)
      BY <1>0, <2>1, <3>4 DEF UpgradeInvoice, Refused, Tenure, Account
    <3>5. CASE Invoice(e)
      BY <1>0, <2>1, <3>5 DEF Invoice, Renewed, Tenure, Account
    <3>6. CASE Ended(e)
      <4>1. CASE user.sub # e.of  BY <2>1, <3>6, <4>1 DEF Ended, Tenure
      <4>2. CASE user.sub = e.of
        <5>1. session[e.of].state = "paid" /\ stripe[e.of].status \notin Live
          BY <3>6 DEF Ended, Arrived, AtStripeInv
        <5>2. ~Playing(e.of)  BY <5>1 DEF Playing
        <5>3. user'.sub = None /\ user'.token = user.token /\ user'.fresh = user.fresh
          BY <1>0, <3>6, <4>2 DEF Ended, Account
        <5>4. ASSUME NEW t \in Sessions, Playing(t)' PROVE user.token = t /\ user.fresh
          BY <2>0, <4>2, <5>2, <5>4 DEF Tenure, Known
        <5> QED  BY <5>3, <5>4 DEF Tenure, Known
      <4> QED  BY <4>1, <4>2
    <3> QED
      <4>1. CASE ReadTopup(e) \/ ReadChanged(e)
        BY <2>1, <4>1 DEF ReadTopup, ReadChanged, Tenure
      <4> QED  BY <2>5, <3>1, <3>2, <3>3, <3>4, <3>5, <3>6, <4>1 DEF Webhook
  <2>6. CASE Continue
    <3>1. CASE WriteChanged
      <4>1. CASE user' = user  BY <2>1, <3>1, <4>1 DEF WriteChanged, Tenure
      <4>2. CASE user' # user
        <5>1. user'.type = "monthly" /\ user'.sub = user.sub
              /\ user'.token = user.token /\ user'.fresh = user.fresh
          BY <1>0, <3>1, <4>2 DEF WriteChanged, Account
        <5> QED  BY <2>1, <5>1 DEF Tenure
      <4> QED  BY <4>1, <4>2
    <3>2. CASE WriteCancel \/ Spend \/ CreateSession
      BY <1>0, <2>1, <3>2 DEF WriteCancel, Spend, CreateSession, Tenure, Account
    <3>3. CASE WriteTopup  BY <1>0, <2>1, <3>3 DEF WriteTopup, Tenure, Account
    <3>4. CASE Adjust  BY <1>0, <2>1, <3>4 DEF Adjust, Tenure, Account
    <3> QED  BY <2>6, <3>1, <3>2, <3>3, <3>4 DEF Continue
  <2>7. CASE CreateFails
    <3>1. PICK s \in Sessions : session[s].state = "reserved" /\ Release(s)
                               /\ SetState(s, "failed") /\ UNCHANGED stripe
      BY <2>7 DEF CreateFails, Finish, SoldInv, Begun, TypeInv, Work
    <3>2. session'[s].state = "failed"  BY <3>1, StateTurns DEF SoldInv, SessionStates
    <3>3. stripe'[s].status = "none"  BY <3>1 DEF AtStripeInv
    <3>4. ~Playing(s)'  BY <3>2, <3>3 DEF Playing, Live
    <3> QED  BY <2>2, <3>1, <3>4
  <2>8. CASE CheckoutDies \/ CancelDies  BY <2>1, <2>8 DEF CheckoutDies, CancelDies, Tenure
  <2>9. CASE TokenExpires
    <3> DEFINE s == user.token
    <3>1. s \in Sessions /\ session[s].state \in SessionStates
      BY <1>0, <2>9 DEF TokenExpires, Account, SoldInv, TypeInv, CheckoutSession
    <3>2. session[s].state \notin {"paid", "settling", "reserved", "open"}
      BY <2>9 DEF TokenExpires
    <3>3. ~Playing(s)  BY <3>1, <3>2 DEF Playing, AtStripeInv, Live
    <3>4. user'.sub = user.sub /\ user'.token = user.token /\ user'.type = user.type
      BY <1>0, <2>9 DEF TokenExpires, Account
    <3>5. ASSUME NEW t \in Sessions, Playing(t)' PROVE user.sub = t
      BY <2>0, <3>3, <3>5 DEF Tenure, Known
    <3> QED  BY <3>4, <3>5 DEF Tenure, Known
  <2>10. CASE GraceCleanup  BY <1>0, <2>1, <2>10 DEF GraceCleanup, Tenure, Account
  <2> QED  BY <2>3, <2>4, <2>5, <2>6, <2>7, <2>8, <2>9, <2>10 DEF Next
<1> QED  BY <1>1, <1>2

LEMMA OneInit == Init => OneInv
<1> SUFFICES ASSUME Init PROVE OneInv
  OBVIOUS
<1>1. \A s \in Sessions : ~Playing(s)  BY DEF Init, Playing, Live
<1> QED  BY <1>1, SoldInit DEF Init, OneInv, AtStripeInv, Tenure

LEMMA OneStep ==
  ASSUME "lateWebhook" \notin Faults
  PROVE  OneInv /\ [Next]_vars => OneInv'
<1> SUFFICES ASSUME OneInv, [Next]_vars PROVE OneInv'
  OBVIOUS
<1>1. CASE UNCHANGED vars
  <2>1. SoldInv'  BY SoldStep DEF OneInv
  <2> QED  BY <1>1, <2>1 DEF vars, OneInv, AtStripeInv, Tenure, Playing, Known
<1>2. CASE Next
  BY <1>2, SoldStep, AtStripeStep, TenureStep DEF OneInv
<1> QED  BY <1>1, <1>2

LEMMA OneMeans == OneInv => OneSubscription
<1> SUFFICES ASSUME OneInv PROVE OneSubscription
  OBVIOUS
<1> DEFINE P == {s \in Sessions : Playing(s)}
<1>1. \A s, t \in P : s = t
  <2>1. \A s \in P : s \in Sessions /\ Known(s)  BY DEF OneInv, Tenure
  <2>2. user.sub # None => user.token = None  BY DEF OneInv, Tenure
  <2>3. \A s \in Sessions : s # None  OBVIOUS
  <2> HIDE DEF P
  <2> QED  BY <2>1, <2>2, <2>3 DEF Known
<1>2. P = {} \/ \E s \in P : P = {s}
  <2>1. ASSUME NEW s \in P PROVE P = {s}  BY <1>1
  <2> QED  BY <2>1
<1>3. Cardinality(P) <= 1
  <2> HIDE DEF P
  <2>1. CASE P = {}  BY <2>1, FS_EmptySet
  <2>2. ASSUME NEW s, P = {s} PROVE Cardinality(P) <= 1
    <3>1. Cardinality(P) = 1  BY <2>2, FS_Singleton, Zenon
    <3> QED  BY <3>1
  <2> QED  BY <1>2, <2>1, <2>2
<1> QED  BY <1>3 DEF OneSubscription, Playing

\* While the event of every paid checkout is handled before its token expires, an account
\* has one monthly checkout that can still be paid or one subscription that is charged,
\* never two, whichever requests, expiries, recoveries and webhooks interleave.
THEOREM NeverTwoSubscriptions ==
  ASSUME "lateWebhook" \notin Faults
  PROVE  Spec => []OneSubscription
<1>1. OneInv /\ [Next]_vars => OneInv'  BY OneStep
<1> QED  BY <1>1, OneInit, OneMeans, PTL DEF Spec
=============================================================================
