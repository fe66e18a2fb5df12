-------------------------------- MODULE Teams --------------------------------
(***************************************************************************)
(* Organizations: an administrator creates one, pays for its seats and     *)
(* invites employees by e-mail; who accepts becomes a member with credits  *)
(* of the organization, from which their jobs are paid ahead of their own. *)
(*                                                                         *)
(* Each request is one database transaction. Those that count or look      *)
(* first and write afterwards, without a lock on what they looked at, are  *)
(* two steps. accept_invitation locks the invitation, and nothing else.    *)
(***************************************************************************)
EXTENDS Integers, FiniteSets

CONSTANTS
  Orgs, People, Emails,
  Links,     \* invitations
  Sessions,  \* Checkout Sessions for seats
  Requests,  \* create_invitations requests
  Jobs,
  Seats,     \* seats_purchased
  PerSeat,   \* credits_per_seat
  Own,       \* everybody's personal credits in the beginning
  Cost,      \* credits of a job
  None

ASSUME TeamsConstants ==
  /\ IsFiniteSet(People) /\ IsFiniteSet(Links) /\ IsFiniteSet(Jobs)
  /\ IsFiniteSet(Sessions)
  /\ Seats \in Nat \ {0} /\ PerSeat \in Nat /\ Own \in Nat /\ Cost \in Nat \ {0}
  /\ None \notin Orgs \cup People \cup Links \cup Emails

VARIABLES
  org,       \* organizations
  member,    \* organization_members, by their unique user_id
  own,       \* users.credits_remaining
  link,      \* invitations
  checkout,  \* Stripe's sessions for seats
  payments,  \* organization_payments, claimed and recorded together
  paying,    \* webhooks that have seen their organization unpaid
  inviting,  \* what a request has counted
  accepting, \* who is accepting an invitation, having found a seat left
  job,       \* jobs
  raced      \* history: in which ways the steps of an organization have overlapped

vars == <<org, member, own, link, checkout, payments, paying, inviting, accepting, job, raced>>

RaceKinds == {"requests", "acceptances", "expiry"}

NoMember == [org |-> None, link |-> None, granted |-> 0, left |-> 0]

Init ==
  /\ org = [o \in Orgs |-> [status |-> "none", admin |-> None]]
  /\ member = [p \in People |-> NoMember]
  /\ own = [p \in People |-> Own]
  /\ link = [l \in Links |-> [status |-> "none", org |-> None, email |-> None, live |-> FALSE]]
  /\ checkout = [s \in Sessions |-> [state |-> "none", org |-> None]]
  /\ payments = {} /\ paying = {}
  /\ inviting = [r \in Requests |-> None]
  /\ accepting = [l \in Links |-> None]
  /\ job = [j \in Jobs |-> [status |-> "none", owner |-> None, pool |-> None]]
  /\ raced = [o \in Orgs |-> {}]

-----------------------------------------------------------------------------
(* An organization and its payment.                                        *)

Seat(o, l) == [org |-> o, link |-> l, granted |-> PerSeat, left |-> PerSeat]

\* Mutated form of CreateOrg: active, and with its credits, from the beginning.
CreateOrgUnlocked(p, o) ==
  /\ org[o].status = "none" /\ member[p].org = None
  /\ org' = [org EXCEPT ![o] = [status |-> "active", admin |-> p]]
  /\ member' = [member EXCEPT ![p] = Seat(o, None)]
  /\ UNCHANGED <<own, link, checkout, payments, paying, inviting, accepting, job, raced>>

\* create_organization: locked until it is paid, its administrator without credits.
CreateOrg(p, o) ==
  /\ org[o].status = "none" /\ member[p].org = None
  /\ org' = [org EXCEPT ![o] = [status |-> "pending_payment", admin |-> p]]
  /\ member' = [member EXCEPT ![p] = [NoMember EXCEPT !.org = o]]
  /\ UNCHANGED <<own, link, checkout, payments, paying, inviting, accepting, job, raced>>

\* create_org_payment_intent: as many sessions as the administrator asks for.
OpenCheckout(s, o) ==
  /\ checkout[s].state = "none" /\ org[o].status = "pending_payment"
  /\ checkout' = [checkout EXCEPT ![s] = [state |-> "open", org |-> o]]
  /\ UNCHANGED <<org, member, own, link, payments, paying, inviting, accepting, job, raced>>

Pay(s) ==
  /\ checkout[s].state = "open"
  /\ checkout' = [checkout EXCEPT ![s].state = "paid"]
  /\ UNCHANGED <<org, member, own, link, payments, paying, inviting, accepting, job, raced>>

\* _handle_org_payment claims the session and sees the organization unpaid. Otherwise it
\* rolls back, and nobody retries: a second session that is paid buys nothing.
ReadPayment(s) ==
  /\ checkout[s].state = "paid" /\ s \notin payments \cup paying
  /\ org[checkout[s].org].status = "pending_payment"
  /\ paying' = paying \cup {s}
  /\ UNCHANGED <<org, member, own, link, checkout, payments, inviting, accepting, job, raced>>

\* It unlocks the organization and gives its administrator the credits of a seat.
WritePayment(s) ==
  LET o == checkout[s].org IN
  /\ s \in paying
  /\ org' = [org EXCEPT ![o].status = "active"]
  /\ member' = [member EXCEPT ![org[o].admin] = Seat(o, None)]
  /\ payments' = payments \cup {s}
  /\ paying' = paying \ {s}
  /\ UNCHANGED <<own, link, checkout, inviting, accepting, job, raced>>

-----------------------------------------------------------------------------
(* Invitations.                                                            *)

\* History: a step that changes the rows of an organization finds others half-way.
Overlap(o, kind, others) ==
  raced' = [raced EXCEPT ![o] = IF others THEN @ \cup {kind} ELSE @]

Members(o) == Cardinality({p \in People : member[p].org = o})
Pending(o) == {l \in Links : link[l].org = o /\ link[l].status = "pending" /\ link[l].live}

\* Mutated form of CountSeats: the open invitations are not counted.
CountSeatsMembersOnly(r, o) ==
  LET left == Seats - Members(o) IN
  /\ inviting[r] = None
  /\ org[o].status = "active" /\ left > 0
  /\ inviting' = [inviting EXCEPT ![r] =
       [org |-> o, left |-> left, known |-> {link[l].email : l \in Pending(o)}]]
  /\ UNCHANGED <<org, member, own, link, checkout, payments, paying, accepting, job, raced>>

\* create_invitations counts members and live invitations ...
CountSeats(r, o) ==
  LET left == Seats - Members(o) - Cardinality(Pending(o)) IN
  /\ inviting[r] = None
  /\ org[o].status = "active" /\ left > 0
  /\ inviting' = [inviting EXCEPT ![r] =
       [org |-> o, left |-> left, known |-> {link[l].email : l \in Pending(o)}]]
  /\ UNCHANGED <<org, member, own, link, checkout, payments, paying, accepting, job, raced>>

\* ... and then invites others, as far as the seats it counted go.
Invite(r) ==
  LET seen == inviting[r] IN
  /\ seen # None
  /\ \E new \in SUBSET {l \in Links : link[l].status = "none"} :
       \E to \in [new -> Emails \ seen.known] :
         /\ Cardinality(new) <= seen.left
         /\ \A k, l \in new : to[k] = to[l] => k = l
         /\ link' = [l \in Links |-> IF l \notin new THEN link[l] ELSE
              [status |-> "pending", org |-> seen.org, email |-> to[l], live |-> TRUE]]
  /\ inviting' = [inviting EXCEPT ![r] = None]
  /\ Overlap(seen.org, "requests",
       \E q \in Requests \ {r} : inviting[q] # None /\ inviting[q].org = seen.org)
  /\ UNCHANGED <<org, member, own, checkout, payments, paying, accepting, job>>

\* An invitation's days are over.
LinkExpires(l) ==
  /\ link[l].status = "pending" /\ link[l].live
  /\ link' = [link EXCEPT ![l].live = FALSE]
  /\ Overlap(link[l].org, "expiry", accepting[l] # None)
  /\ UNCHANGED <<org, member, own, checkout, payments, paying, inviting, accepting, job>>

\* accept_invitation finds it expired.
MarkExpired(l) ==
  /\ link[l].status = "pending" /\ ~link[l].live /\ accepting[l] = None
  /\ link' = [link EXCEPT ![l].status = "expired"]
  /\ UNCHANGED <<org, member, own, checkout, payments, paying, inviting, accepting, job, raced>>

\* accept_invitation, whoever holds the link: checks, and counts the members ...
ReadAccept(p, l) ==
  LET o == link[l].org IN
  /\ accepting[l] = None
  /\ link[l].status = "pending" /\ link[l].live
  /\ member[p].org = None
  /\ org[o].status = "active" /\ Members(o) < Seats
  /\ accepting' = [accepting EXCEPT ![l] = p]
  /\ UNCHANGED <<org, member, own, link, checkout, payments, paying, inviting, job, raced>>

\* ... and inserts the member, unless the person has become one: user_id is unique.
WriteAccept(l) ==
  /\ accepting[l] # None
  /\ LET p == accepting[l]
         o == link[l].org
     IN IF member[p].org = None
        THEN /\ member' = [member EXCEPT ![p] = Seat(o, l)]
             /\ link' = [link EXCEPT ![l].status = "accepted"]
             /\ Overlap(o, "acceptances",
                  \E k \in Links \ {l} : accepting[k] # None /\ link[k].org = o)
        ELSE UNCHANGED <<member, link, raced>>
  /\ accepting' = [accepting EXCEPT ![l] = None]
  /\ UNCHANGED <<org, own, checkout, payments, paying, inviting, job>>

-----------------------------------------------------------------------------
(* Jobs.                                                                   *)

\* get_active_membership: the organization whose credits a person's jobs spend.
PoolOf(p) ==
  IF member[p].org # None /\ org[member[p].org].status = "active" THEN member[p].org ELSE None

\* n credits more, or less, in the pool of an organization or in the person's own.
Move(p, pool, n) ==
  IF pool = None THEN own' = [own EXCEPT ![p] = @ + n] /\ UNCHANGED member
  ELSE UNCHANGED own /\
       member' = [member EXCEPT ![p].left = IF member[p].org = pool THEN @ + n ELSE @]

\* reserve_job_slot: membership wins over the personal balance.
Submit(p, j) ==
  /\ job[j].status = "none"
  /\ Cost <= IF PoolOf(p) = None THEN own[p] ELSE member[p].left
  /\ Move(p, PoolOf(p), -Cost)
  /\ job' = [job EXCEPT ![j] = [status |-> "running", owner |-> p, pool |-> PoolOf(p)]]
  /\ UNCHANGED <<org, link, checkout, payments, paying, inviting, accepting, raced>>

Complete(j) ==
  /\ job[j].status = "running"
  /\ job' = [job EXCEPT ![j].status = "completed"]
  /\ UNCHANGED <<org, member, own, link, checkout, payments, paying, inviting, accepting, raced>>

\* Mutated form of Fail: the credits go to the pool the person has by now.
FailToCurrent(j) ==
  /\ job[j].status = "running"
  /\ Move(job[j].owner, PoolOf(job[j].owner), Cost)
  /\ job' = [job EXCEPT ![j].status = "failed"]
  /\ UNCHANGED <<org, link, checkout, payments, paying, inviting, accepting, raced>>

\* terminalize_and_refund gives the credits back to the pool the row names.
Fail(j) ==
  /\ job[j].status = "running"
  /\ Move(job[j].owner, job[j].pool, Cost)
  /\ job' = [job EXCEPT ![j].status = "failed"]
  /\ UNCHANGED <<org, link, checkout, payments, paying, inviting, accepting, raced>>

\* update_job_status of the container gives them back to the person, whoever paid.
\* The row says 'failed' here too; the model remembers who failed it.
ContainerFails(j) ==
  /\ job[j].status = "running"
  /\ Move(job[j].owner, None, Cost)
  /\ job' = [job EXCEPT ![j].status = "aborted"]
  /\ UNCHANGED <<org, link, checkout, payments, paying, inviting, accepting, raced>>

-----------------------------------------------------------------------------
Next ==
  \/ \E p \in People :
       \/ \E o \in Orgs : CreateOrg(p, o)
       \/ \E l \in Links : ReadAccept(p, l)
       \/ \E j \in Jobs : Submit(p, j)
  \/ \E s \in Sessions :
       \/ \E o \in Orgs : OpenCheckout(s, o)
       \/ Pay(s) \/ ReadPayment(s) \/ WritePayment(s)
  \/ \E r \in Requests : Invite(r) \/ \E o \in Orgs : CountSeats(r, o)
  \/ \E l \in Links : LinkExpires(l) \/ MarkExpired(l) \/ WriteAccept(l)
  \/ \E j \in Jobs : Complete(j) \/ Fail(j) \/ ContainerFails(j)

Spec == Init /\ [][Next]_vars

-----------------------------------------------------------------------------
(* Properties.                                                             *)

\* Types of the rows and of what requests remember.
TypeOK ==
  /\ org \in [Orgs -> [status : {"none", "pending_payment", "active"},
                       admin : People \cup {None}]]
  /\ member \in [People -> [org : Orgs \cup {None}, link : Links \cup {None},
                            granted : Nat, left : Int]]
  /\ own \in [People -> Int]
  /\ link \in [Links -> [status : {"none", "pending", "accepted", "expired"},
                         org : Orgs \cup {None}, email : Emails \cup {None}, live : BOOLEAN]]
  /\ checkout \in [Sessions -> [state : {"none", "open", "paid"}, org : Orgs \cup {None}]]
  /\ payments \subseteq Sessions /\ paying \subseteq Sessions
  /\ inviting \in [Requests -> [org : Orgs, left : Int, known : SUBSET (Emails \cup {None})]
                               \cup {None}]
  /\ accepting \in [Links -> People \cup {None}]
  /\ raced \in [Orgs -> SUBSET RaceKinds]
  /\ job \in [Jobs -> [status : {"none", "running", "completed", "failed", "aborted"},
                       owner : People \cup {None}, pool : Orgs \cup {None}]]

\* A seat's credits are held by the administrator of an organization that was paid for,
\* or by the one person who accepted one of its invitations.
SeatsAreEarned ==
  \A p \in People : member[p].granted > 0 =>
    LET o == member[p].org
        l == member[p].link
    IN /\ \E s \in payments : checkout[s].org = o
       /\ IF l = None THEN org[o].admin = p
          ELSE /\ link[l].status = "accepted" /\ link[l].org = o
               /\ \A q \in People : member[q].link = l => q = p

JobsOf(p, pool, statuses) ==
  {j \in Jobs : job[j].owner = p /\ job[j].pool = pool /\ job[j].status \in statuses}
Kept == {"running", "completed"}

\* Credits the container gave to the person though an organization had paid.
Diverted(p) == Cardinality({j \in Jobs :
  job[j].owner = p /\ job[j].pool # None /\ job[j].status = "aborted"})

\* However people join while their jobs run, each pool holds what was put into it less the
\* jobs it paid for and did not get back. Only the container's own refund moves credits from
\* an organization to a person, and only two payments of one organization, handled at
\* once, fill its administrator's seat twice.
PoolsConserved ==
  \A p \in People :
    /\ own[p] = Own - Cost * Cardinality(JobsOf(p, None, Kept)) + Cost * Diverted(p)
    /\ LET o == member[p].org IN
       \/ o = None
       \/ member[p].left =
            member[p].granted - Cost * Cardinality(JobsOf(p, o, Kept \cup {"aborted"}))
       \/ Cardinality({s \in payments : checkout[s].org = o}) > 1

\* The recount of accept_invitation does not hold the seats when two employees accept at
\* the same moment. What holds them then is that create_invitations counts the invitations
\* that are open: it takes two overlapping requests, or an invitation that expires while it
\* is being accepted, as well as overlapping acceptances to sell a seat that is not there.
OversoldTakesTwoRaces ==
  \A o \in Orgs : Members(o) > Seats =>
    "acceptances" \in raced[o] /\ raced[o] \cap {"requests", "expiry"} # {}
=============================================================================
