---------------------------- MODULE Teams_proofs ----------------------------
(***************************************************************************)
(* Theorems about Teams, for any number of organizations, people, links,   *)
(* sessions, requests, jobs and seats.                                     *)
(***************************************************************************)
EXTENDS Teams, FiniteSetTheorems, TLAPS

Organization == [status : {"none", "pending_payment", "active"}, admin : People \cup {None}]
Member == [org : Orgs \cup {None}, link : Links \cup {None}, granted : Nat, left : Int]
Invitation == [status : {"none", "pending", "accepted", "expired"}, org : Orgs \cup {None},
               email : Emails \cup {None}, live : BOOLEAN]
Checkout == [state : {"none", "open", "paid"}, org : Orgs \cup {None}]
Counted == [org : Orgs, left : Int, known : SUBSET (Emails \cup {None})]
Job == [status : {"none", "running", "completed", "failed", "aborted"},
        owner : People \cup {None}, pool : Orgs \cup {None}]

USE TeamsConstants

-----------------------------------------------------------------------------
(* Types.                                                                  *)

TypeInv ==
  /\ org \in [Orgs -> Organization] /\ member \in [People -> Member]
  /\ own \in [People -> Int] /\ link \in [Links -> Invitation]
  /\ checkout \in [Sessions -> Checkout]
  /\ payments \subseteq Sessions /\ paying \subseteq Sessions
  /\ inviting \in [Requests -> Counted \cup {None}]
  /\ accepting \in [Links -> People \cup {None}]
  /\ raced \in [Orgs -> SUBSET RaceKinds]
  /\ job \in [Jobs -> Job]

LEMMA SeatType ==
  ASSUME NEW o \in Orgs \cup {None}, NEW l \in Links \cup {None}
  PROVE  Seat(o, l) \in Member
BY DEF Seat, Member

LEMMA MembersType ==
  ASSUME NEW o
  PROVE  /\ IsFiniteSet({p \in People : member[p].org = o})
         /\ Members(o) \in Nat
<1>1. {p \in People : member[p].org = o} \in SUBSET People  OBVIOUS
<1> QED  BY <1>1, FS_Subset, FS_CardinalityType DEF Members

LEMMA PendingType ==
  ASSUME NEW o
  PROVE  Cardinality(Pending(o)) \in Nat
<1>1. Pending(o) \in SUBSET Links  BY DEF Pending
<1> QED  BY <1>1, FS_Subset, FS_CardinalityType

LEMMA InvitationWith ==
  ASSUME NEW i \in Invitation
  PROVE  /\ [i EXCEPT !.status = "accepted"] \in Invitation
         /\ [i EXCEPT !.status = "expired"] \in Invitation
         /\ [i EXCEPT !.live = FALSE] \in Invitation
BY DEF Invitation

LEMMA OverlapType ==
  ASSUME TypeInv, NEW o, NEW kind \in RaceKinds, NEW others \in BOOLEAN, Overlap(o, kind, others)
  PROVE  raced' \in [Orgs -> SUBSET RaceKinds]
<1> DEFINE kinds == IF others THEN raced[o] \cup {kind} ELSE raced[o]
<1>1. raced' = [raced EXCEPT ![o] = kinds]  BY DEF Overlap
<1>2. o \in Orgs => kinds \in SUBSET RaceKinds  BY DEF TypeInv
<1> HIDE DEF kinds
<1> QED  BY <1>1, <1>2 DEF TypeInv

\* Whatever moves credits keeps the types.
LEMMA MoveType ==
  ASSUME TypeInv, NEW p \in People \cup {None}, NEW pool \in Orgs \cup {None}, NEW n \in Int,
         Move(p, pool, n)
  PROVE  own' \in [People -> Int] /\ member' \in [People -> Member]
<1> USE DEF TypeInv
<1>1. CASE pool = None
  BY <1>1 DEF Move
<1>2. CASE pool # None
  <2> DEFINE x == IF member[p].org = pool THEN member[p].left + n ELSE member[p].left
             seat == [member[p] EXCEPT !.left = x]
  <2>1. member' = [member EXCEPT ![p] = seat] /\ own' = own
    BY <1>2 DEF Move
  <2>2. p \in People => seat \in Member
    <3>1. p \in People => x \in Int  BY DEF Member
    <3> HIDE DEF x
    <3> QED  BY <3>1 DEF Member
  <2> HIDE DEF seat
  <2> QED  BY <2>1, <2>2
<1> QED  BY <1>1, <1>2

LEMMA PaymentType ==
  ASSUME TypeInv, NEW s \in Sessions,
         Pay(s) \/ ReadPayment(s) \/ \E o \in Orgs : OpenCheckout(s, o)
  PROVE  TypeInv'
<1> USE DEF TypeInv
<1>1. ASSUME NEW o \in Orgs, OpenCheckout(s, o) PROVE TypeInv'
  <2>1. [state |-> "open", org |-> o] \in Checkout  BY DEF Checkout
  <2> QED  BY <1>1, <2>1 DEF OpenCheckout
<1>2. CASE Pay(s) \/ ReadPayment(s)
  BY <1>2 DEF Pay, ReadPayment, Checkout
<1> QED  BY <1>1, <1>2

LEMMA InvitationType ==
  ASSUME TypeInv, NEW r \in Requests, (\E o \in Orgs : CountSeats(r, o)) \/ Invite(r)
  PROVE  TypeInv'
<1> USE DEF TypeInv
<1>1. ASSUME NEW o \in Orgs, CountSeats(r, o) PROVE TypeInv'
  <2> DEFINE n == Seats - Members(o) - Cardinality(Pending(o))
             known == {link[l].email : l \in Pending(o)}
  <2>1. n \in Int
    <3>1. Members(o) \in Nat /\ Cardinality(Pending(o)) \in Nat
      BY MembersType, PendingType
    <3> QED  BY <3>1
  <2>2. known \in SUBSET (Emails \cup {None})  BY DEF Pending, Invitation
  <2>3. inviting' = [inviting EXCEPT ![r] = [org |-> o, left |-> n, known |-> known]]
    BY <1>1 DEF CountSeats
  <2> HIDE DEF n, known
  <2>4. [org |-> o, left |-> n, known |-> known] \in Counted  BY <2>1, <2>2 DEF Counted
  <2>5. inviting' \in [Requests -> Counted \cup {None}]  BY <2>3, <2>4
  <2> QED  BY <1>1, <2>5 DEF CountSeats
<1>2. CASE Invite(r)
  <2>1. inviting[r] \in Counted  BY <1>2 DEF Invite
  <2>2. PICK new \in SUBSET {l \in Links : link[l].status = "none"} :
          \E to \in [new -> Emails \ inviting[r].known] :
          /\ Cardinality(new) <= inviting[r].left
          /\ \A k, l \in new : to[k] = to[l] => k = l
          /\ link' = [l \in Links |-> IF l \notin new THEN link[l] ELSE
            [status |-> "pending", org |-> inviting[r].org, email |-> to[l], live |-> TRUE]]
    BY <1>2 DEF Invite
  <2>3. PICK to \in [new -> Emails \ inviting[r].known] :
          link' = [l \in Links |-> IF l \notin new THEN link[l] ELSE
            [status |-> "pending", org |-> inviting[r].org, email |-> to[l], live |-> TRUE]]
    BY <2>2
  <2>4. ASSUME NEW l \in new
        PROVE  [status |-> "pending", org |-> inviting[r].org, email |-> to[l], live |-> TRUE]
                 \in Invitation
    BY <2>1 DEF Counted, Invitation
  <2>5. link' \in [Links -> Invitation]  BY <2>3, <2>4
  <2>6. inviting' \in [Requests -> Counted \cup {None}]  BY <1>2 DEF Invite
  <2>7. raced' \in [Orgs -> SUBSET RaceKinds]
    BY <1>2, OverlapType DEF Invite, RaceKinds
  <2> QED  BY <1>2, <2>5, <2>6, <2>7 DEF Invite
<1> QED  BY <1>1, <1>2

LEMMA AcceptanceType ==
  ASSUME TypeInv, NEW l \in Links,
         LinkExpires(l) \/ MarkExpired(l) \/ WriteAccept(l) \/ \E p \in People : ReadAccept(p, l)
  PROVE  TypeInv'
<1> USE DEF TypeInv
<1>1. CASE LinkExpires(l) \/ MarkExpired(l)
  <2>1. \/ link' = [link EXCEPT ![l] = [link[l] EXCEPT !.live = FALSE]]
        \/ link' = [link EXCEPT ![l] = [link[l] EXCEPT !.status = "expired"]]
    BY <1>1 DEF LinkExpires, MarkExpired
  <2> DEFINE dead == [link[l] EXCEPT !.live = FALSE]
             over == [link[l] EXCEPT !.status = "expired"]
  <2>2. dead \in Invitation /\ over \in Invitation  BY InvitationWith
  <2> HIDE DEF dead, over
  <2>3. link' = [link EXCEPT ![l] = dead] \/ link' = [link EXCEPT ![l] = over]
    BY <2>1 DEF dead, over
  <2>4. link' \in [Links -> Invitation]  BY <2>2, <2>3
  <2>5. raced' \in [Orgs -> SUBSET RaceKinds]
    BY <1>1, OverlapType DEF LinkExpires, MarkExpired, RaceKinds
  <2> QED  BY <1>1, <2>4, <2>5 DEF LinkExpires, MarkExpired
<1>2. ASSUME NEW p \in People, ReadAccept(p, l) PROVE TypeInv'
  BY <1>2 DEF ReadAccept
<1>3. CASE WriteAccept(l)
  <2> DEFINE p == accepting[l]
  <2>2. accepting' \in [Links -> People \cup {None}]  BY <1>3 DEF WriteAccept
  <2>3. p \in People  BY <1>3 DEF WriteAccept
  <2>4. CASE member[p].org = None
    <3>1. /\ member' = [member EXCEPT ![p] = Seat(link[l].org, l)]
          /\ link' = [link EXCEPT ![l] = [link[l] EXCEPT !.status = "accepted"]]
      BY <1>3, <2>4 DEF WriteAccept
    <3>2. link[l].org \in Orgs \cup {None}  BY DEF Invitation
    <3> DEFINE seat == Seat(link[l].org, l)
               done == [link[l] EXCEPT !.status = "accepted"]
    <3>3. seat \in Member /\ done \in Invitation  BY <3>2, SeatType, InvitationWith
    <3> HIDE DEF seat, done
    <3>4. member' \in [People -> Member] /\ link' \in [Links -> Invitation]
      <4>1. member' = [member EXCEPT ![p] = seat] /\ link' = [link EXCEPT ![l] = done]
        BY <3>1 DEF seat, done
      <4> QED  BY <2>3, <3>3, <4>1
    <3>5. raced' \in [Orgs -> SUBSET RaceKinds]
      BY <1>3, <2>4, OverlapType DEF WriteAccept, RaceKinds
    <3> QED  BY <1>3, <2>2, <3>4, <3>5 DEF WriteAccept
  <2>5. CASE member[p].org # None
    BY <1>3, <2>2, <2>5 DEF WriteAccept
  <2> QED  BY <2>4, <2>5
<1> QED  BY <1>1, <1>2, <1>3

LEMMA OrganizationType ==
  ASSUME TypeInv, NEW p \in People, NEW o \in Orgs, CreateOrg(p, o)
  PROVE  TypeInv'
<1> USE DEF TypeInv
<1>1. [status |-> "pending_payment", admin |-> p] \in Organization  BY DEF Organization
<1>2. [NoMember EXCEPT !.org = o] \in Member  BY DEF NoMember, Member
<1>3. org' \in [Orgs -> Organization]  BY <1>1 DEF CreateOrg
<1>4. member' \in [People -> Member]  BY <1>2 DEF CreateOrg
<1> QED  BY <1>3, <1>4 DEF CreateOrg

LEMMA GrantType ==
  ASSUME TypeInv, NEW s \in Sessions, WritePayment(s)
  PROVE  TypeInv'
<1> USE DEF TypeInv
<1> DEFINE o == checkout[s].org
           seat == Seat(o, None)
           paid == [org[o] EXCEPT !.status = "active"]
<1>1. o \in Orgs \cup {None}  BY DEF Checkout
<1>2. seat \in Member  BY <1>1, SeatType
<1>3. o \in Orgs => paid \in Organization  BY DEF Organization
<1>4. org' = [org EXCEPT ![o] = paid] /\ member' = [member EXCEPT ![org[o].admin] = seat]
  BY DEF WritePayment
<1> HIDE DEF paid, seat, o
<1>5. org' \in [Orgs -> Organization] /\ member' \in [People -> Member]
  BY <1>2, <1>3, <1>4
<1> QED  BY <1>5 DEF WritePayment

LEMMA JobType ==
  ASSUME TypeInv, NEW j \in Jobs,
         Complete(j) \/ Fail(j) \/ ContainerFails(j) \/ \E p \in People : Submit(p, j)
  PROVE  TypeInv'
<1> USE DEF TypeInv
<1>1. ASSUME NEW p \in People, Submit(p, j) PROVE TypeInv'
  <2>1. PoolOf(p) \in Orgs \cup {None}  BY DEF PoolOf, Member
  <2>2. own' \in [People -> Int] /\ member' \in [People -> Member]
    <3>1. Move(p, PoolOf(p), -Cost) /\ -Cost \in Int  BY <1>1 DEF Submit
    <3> QED  BY <2>1, <3>1, MoveType
  <2>3. [status |-> "running", owner |-> p, pool |-> PoolOf(p)] \in Job  BY <2>1 DEF Job
  <2>4. job' \in [Jobs -> Job]  BY <1>1, <2>3 DEF Submit
  <2> QED  BY <1>1, <2>2, <2>4 DEF Submit
<1>2. CASE Complete(j)
  <2>1. job' \in [Jobs -> Job]  BY <1>2 DEF Complete, Job
  <2> QED  BY <1>2, <2>1 DEF Complete
<1>3. CASE Fail(j) \/ ContainerFails(j)
  <2>1. job' \in [Jobs -> Job]  BY <1>3 DEF Fail, ContainerFails, Job
  <2>2. job[j].owner \in People \cup {None} /\ job[j].pool \in Orgs \cup {None}
    BY DEF Job
  <2>3. own' \in [People -> Int] /\ member' \in [People -> Member]
    BY <1>3, <2>2, MoveType DEF Fail, ContainerFails
  <2> QED  BY <1>3, <2>1, <2>3 DEF Fail, ContainerFails
<1> QED  BY <1>1, <1>2, <1>3

LEMMA TypeStep == TypeInv /\ [Next]_vars => TypeInv'
<1> SUFFICES ASSUME TypeInv, [Next]_vars PROVE TypeInv'  OBVIOUS
<1>1. CASE UNCHANGED vars
  BY <1>1 DEF vars, TypeInv
<1> QED
  BY <1>1, OrganizationType, PaymentType, GrantType, InvitationType, AcceptanceType, JobType
  DEF Next

-----------------------------------------------------------------------------
(* Seats.                                                                  *)

PaidOrgs == {checkout[s].org : s \in payments}

\* An organization is active only if it was paid for, ...
OrgsPaid ==
  \A o \in Orgs : /\ org[o].status # "none" => org[o].admin \in People
                  /\ org[o].status = "active" => o \in PaidOrgs
Checkouts ==
  /\ \A s \in Sessions : checkout[s].state # "none" =>
       checkout[s].org \in Orgs /\ org[checkout[s].org].status # "none"
  /\ \A s \in payments \cup paying : checkout[s].state = "paid"

\* ... only active ones invite, and only a pending invitation is being accepted, ...
LinksSent ==
  /\ \A r \in Requests : inviting[r] # None => org[inviting[r].org].status = "active"
  /\ \A l \in Links :
       /\ link[l].status # "none" => link[l].org \in Orgs /\ org[link[l].org].status = "active"
       /\ accepting[l] # None => link[l].status = "pending"

\* ... and a seat with credits is its administrator's or has an accepted invitation.
Seated ==
  /\ \A p \in People :
       /\ member[p].org # None => org[member[p].org].status # "none"
       /\ member[p].granted > 0 =>
            /\ member[p].org # None /\ org[member[p].org].status = "active"
            /\ member[p].link = None => org[member[p].org].admin = p
       /\ member[p].link # None => /\ link[member[p].link].status = "accepted"
                                  /\ link[member[p].link].org = member[p].org
  /\ \A p, q \in People : member[p].link # None /\ member[p].link = member[q].link => p = q

SeatInv == TypeInv /\ OrgsPaid /\ Checkouts /\ LinksSent /\ Seated

LEMMA SeatInvEarns == SeatInv => SeatsAreEarned
<1> SUFFICES ASSUME SeatInv, NEW p \in People, member[p].granted > 0
             PROVE  /\ member[p].org \in PaidOrgs
                    /\ IF member[p].link = None THEN org[member[p].org].admin = p
                       ELSE /\ link[member[p].link].status = "accepted"
                            /\ link[member[p].link].org = member[p].org
                            /\ \A q \in People : member[q].link = member[p].link => q = p
  BY DEF SeatsAreEarned, PaidOrgs
<1>1. member[p].org \in Orgs  BY DEF SeatInv, Seated, TypeInv, Member
<1>2. member[p].org \in PaidOrgs  BY <1>1 DEF SeatInv, Seated, OrgsPaid
<1> QED  BY <1>2 DEF SeatInv, Seated

\* Jobs move credits, and no seat.
LEMMA MoveSeats ==
  ASSUME TypeInv, NEW p, NEW pool, NEW n, Move(p, pool, n)
  PROVE  \A q \in People : /\ member'[q].org = member[q].org
                           /\ member'[q].link = member[q].link
                           /\ member'[q].granted = member[q].granted
<1> DEFINE x == IF member[p].org = pool THEN member[p].left + n ELSE member[p].left
<1>1. member' = member \/ member' = [member EXCEPT ![p] = [member[p] EXCEPT !.left = x]]
  BY DEF Move
<1> HIDE DEF x
<1> QED  BY <1>1 DEF TypeInv, Member

LEMMA JobsSeat ==
  ASSUME SeatInv, NEW j \in Jobs,
         Complete(j) \/ Fail(j) \/ ContainerFails(j) \/ \E p \in People : Submit(p, j)
  PROVE  OrgsPaid' /\ Checkouts' /\ LinksSent' /\ Seated'
<1>1. UNCHANGED <<org, link, checkout, payments, paying, inviting, accepting>>
  BY DEF Complete, Fail, ContainerFails, Submit
<1>2. \A q \in People : /\ member'[q].org = member[q].org
                        /\ member'[q].link = member[q].link
                        /\ member'[q].granted = member[q].granted
  BY MoveSeats DEF Complete, Fail, ContainerFails, Submit, SeatInv
<1>3. OrgsPaid' /\ Checkouts'  BY <1>1 DEF SeatInv, OrgsPaid, Checkouts, PaidOrgs
<1>4. LinksSent'  BY <1>1 DEF SeatInv, LinksSent
<1>5. Seated'  BY <1>1, <1>2 DEF SeatInv, Seated
<1> QED  BY <1>3, <1>4, <1>5

LEMMA CheckoutSeat ==
  ASSUME SeatInv, NEW s \in Sessions,
         Pay(s) \/ ReadPayment(s) \/ \E o \in Orgs : OpenCheckout(s, o)
  PROVE  OrgsPaid' /\ Checkouts' /\ LinksSent' /\ Seated'
<1> USE DEF SeatInv
<1>1. UNCHANGED <<org, member, link, payments, inviting, accepting>>
  BY DEF Pay, ReadPayment, OpenCheckout
<1>2. LinksSent' /\ Seated'  BY <1>1 DEF LinksSent, Seated
<1>3. CASE ReadPayment(s)
  <2>1. checkout' = checkout /\ paying' = paying \cup {s} /\ checkout[s].state = "paid"
    BY <1>3 DEF ReadPayment
  <2>2. PaidOrgs' = PaidOrgs  BY <1>1, <2>1 DEF PaidOrgs
  <2>3. OrgsPaid'  BY <1>1, <2>2 DEF OrgsPaid
  <2>4. Checkouts'  BY <1>1, <2>1 DEF Checkouts
  <2> QED  BY <1>2, <2>3, <2>4
<1>4. CASE Pay(s)
  <2>1. /\ checkout[s].state = "open" /\ paying' = paying
        /\ checkout'[s].state = "paid" /\ checkout'[s].org = checkout[s].org
        /\ \A t \in Sessions : t # s => checkout'[t] = checkout[t]
    BY <1>4 DEF Pay, TypeInv, Checkout
  <2>2. \A t \in Sessions : checkout'[t].org = checkout[t].org
    BY <2>1
  <2>3. PaidOrgs' = PaidOrgs  BY <1>1, <2>2 DEF PaidOrgs, TypeInv
  <2>4. OrgsPaid'  BY <1>1, <2>3 DEF OrgsPaid
  <2>5. \A t \in payments \cup paying : checkout'[t].state = "paid"
    BY <2>1 DEF Checkouts, TypeInv
  <2>6. \A t \in Sessions : checkout'[t].state # "none" => checkout[t].state # "none"
    BY <2>1
  <2>7. Checkouts'  BY <1>1, <2>1, <2>2, <2>5, <2>6 DEF Checkouts
  <2> QED  BY <1>2, <2>4, <2>7
<1>5. ASSUME NEW o \in Orgs, OpenCheckout(s, o) PROVE OrgsPaid' /\ Checkouts'
  <2>1. /\ checkout[s].state = "none" /\ paying' = paying
        /\ checkout'[s].state = "open" /\ checkout'[s].org = o /\ org[o].status # "none"
        /\ \A t \in Sessions : t # s => checkout'[t] = checkout[t]
    BY <1>5 DEF OpenCheckout, TypeInv, Checkout
  <2>2. s \notin payments \cup paying  BY <2>1 DEF Checkouts
  <2>3. \A t \in payments \cup paying : checkout'[t] = checkout[t]
    BY <2>1, <2>2 DEF TypeInv
  <2>4. PaidOrgs' = PaidOrgs  BY <1>1, <2>3 DEF PaidOrgs
  <2>5. OrgsPaid'  BY <1>1, <2>4 DEF OrgsPaid
  <2>6. Checkouts'  BY <1>1, <2>1, <2>3 DEF Checkouts
  <2> QED  BY <2>5, <2>6
<1> QED  BY <1>2, <1>3, <1>4, <1>5

LEMMA CreateSeat ==
  ASSUME SeatInv, NEW p \in People, NEW o \in Orgs, CreateOrg(p, o)
  PROVE  OrgsPaid' /\ Checkouts' /\ LinksSent' /\ Seated'
<1> USE DEF SeatInv
<1>1. /\ UNCHANGED <<link, checkout, payments, paying, inviting, accepting>>
      /\ org[o].status = "none" /\ member[p].org = None
      /\ org' = [org EXCEPT ![o] = [status |-> "pending_payment", admin |-> p]]
      /\ member' = [member EXCEPT ![p] = [NoMember EXCEPT !.org = o]]
  BY DEF CreateOrg
<1>2. /\ org'[o].status = "pending_payment" /\ org'[o].admin = p
      /\ \A q \in Orgs : q # o => org'[q] = org[q]
  BY <1>1 DEF TypeInv
<1>3. /\ member'[p].org = o /\ member'[p].link = None /\ member'[p].granted = 0
      /\ \A q \in People : q # p => member'[q] = member[q]
  BY <1>1 DEF TypeInv, NoMember
<1>4. PaidOrgs' = PaidOrgs  BY <1>1 DEF PaidOrgs
<1>5. OrgsPaid'  BY <1>2, <1>4 DEF OrgsPaid
<1>6. Checkouts'  BY <1>1, <1>2 DEF Checkouts
<1>7. LinksSent'
  <2>1. \A r \in Requests : inviting[r] # None => inviting[r].org \in Orgs
    BY DEF TypeInv, Counted
  <2> QED  BY <1>1, <1>2, <2>1 DEF LinksSent
<1>8. Seated'
  <2>1. \A q \in People : q # p /\ member[q].org # None =>
          member[q].org \in Orgs /\ member[q].org # o
    BY <1>1 DEF Seated, TypeInv, Member
  <2>2. \A q \in People : member'[q].org # None => org'[member'[q].org].status # "none"
    BY <1>2, <1>3, <2>1 DEF Seated
  <2>3. \A q \in People : member'[q].granted > 0 =>
          /\ member'[q].org # None /\ org'[member'[q].org].status = "active"
          /\ member'[q].link = None => org'[member'[q].org].admin = q
    BY <1>2, <1>3, <2>1 DEF Seated
  <2>4. \A q \in People : member'[q].link # None =>
          /\ link[member'[q].link].status = "accepted"
          /\ link[member'[q].link].org = member'[q].org
    BY <1>3 DEF Seated
  <2>5. \A q, t \in People : member'[q].link # None /\ member'[q].link = member'[t].link => q = t
    BY <1>3 DEF Seated
  <2> QED  BY <1>1, <2>2, <2>3, <2>4, <2>5 DEF Seated
<1> QED  BY <1>5, <1>6, <1>7, <1>8

LEMMA GrantSeat ==
  ASSUME SeatInv, NEW s \in Sessions, WritePayment(s)
  PROVE  OrgsPaid' /\ Checkouts' /\ LinksSent' /\ Seated'
<1> USE DEF SeatInv
<1> DEFINE o == checkout[s].org
           p == org[o].admin
<1>1. /\ UNCHANGED <<link, checkout, inviting, accepting>>
      /\ s \in paying /\ payments' = payments \cup {s} /\ paying' = paying \ {s}
      /\ org' = [org EXCEPT ![o] = [org[o] EXCEPT !.status = "active"]]
      /\ member' = [member EXCEPT ![p] = Seat(o, None)]
  BY DEF WritePayment
<1>2. /\ o \in Orgs /\ org[o].status # "none" /\ p \in People /\ checkout[s].state = "paid"
  BY <1>1 DEF Checkouts, OrgsPaid
<1>3. /\ org'[o].status = "active" /\ org'[o].admin = p
      /\ \A q \in Orgs : q # o => org'[q] = org[q]
  BY <1>1, <1>2 DEF TypeInv, Organization
<1>4. /\ member'[p].org = o /\ member'[p].link = None /\ member'[p].granted = PerSeat
      /\ \A q \in People : q # p => member'[q] = member[q]
  BY <1>1, <1>2 DEF TypeInv, Seat
<1>5. PaidOrgs' = PaidOrgs \cup {o}  BY <1>1 DEF PaidOrgs
<1> HIDE DEF o, p
<1>6. OrgsPaid'  BY <1>2, <1>3, <1>5 DEF OrgsPaid
<1>7. Checkouts'  BY <1>1, <1>2, <1>3 DEF Checkouts, o
<1>8. LinksSent'
  <2>1. \A r \in Requests : inviting[r] # None => inviting[r].org \in Orgs
    BY DEF TypeInv, Counted
  <2> QED  BY <1>1, <1>3, <2>1 DEF LinksSent
<1>9. Seated'
  <2>1. \A q \in People : member[q].org # None => member[q].org \in Orgs
    BY DEF TypeInv, Member
  <2>2. \A q \in People : member'[q].org # None => org'[member'[q].org].status # "none"
    BY <1>2, <1>3, <1>4, <2>1 DEF Seated
  <2>3. \A q \in People : member'[q].granted > 0 =>
          /\ member'[q].org # None /\ org'[member'[q].org].status = "active"
          /\ member'[q].link = None => org'[member'[q].org].admin = q
    <3>1. PerSeat > 0 => /\ member'[p].org # None /\ org'[member'[p].org].status = "active"
                         /\ org'[member'[p].org].admin = p
      BY <1>2, <1>3, <1>4
    <3>2. \A q \in Orgs : org'[q].admin = org[q].admin
      BY <1>2, <1>3 DEF p
    <3>3. \A q \in Orgs : org[q].status = "active" => org'[q].status = "active"
      BY <1>3
    <3>4. ASSUME NEW q \in People, q # p, member[q].granted > 0
          PROVE  /\ member[q].org # None /\ org'[member[q].org].status = "active"
                 /\ member[q].link = None => org'[member[q].org].admin = q
      BY <2>1, <3>2, <3>3, <3>4 DEF Seated
    <3> QED  BY <1>4, <3>1, <3>4
  <2>4. \A q \in People : member'[q].link # None =>
          /\ link[member'[q].link].status = "accepted"
          /\ link[member'[q].link].org = member'[q].org
    BY <1>4 DEF Seated
  <2>5. \A q, t \in People : member'[q].link # None /\ member'[q].link = member'[t].link => q = t
    BY <1>4 DEF Seated
  <2> QED  BY <1>1, <2>2, <2>3, <2>4, <2>5 DEF Seated
<1> QED  BY <1>6, <1>7, <1>8, <1>9

LEMMA LinkSeat ==
  ASSUME SeatInv, NEW l \in Links,
         LinkExpires(l) \/ MarkExpired(l) \/ \E p \in People : ReadAccept(p, l)
  PROVE  OrgsPaid' /\ Checkouts' /\ LinksSent' /\ Seated'
<1> USE DEF SeatInv
<1>1. UNCHANGED <<org, member, checkout, payments, paying, inviting>>
  BY DEF LinkExpires, MarkExpired, ReadAccept
<1>2. PaidOrgs' = PaidOrgs  BY <1>1 DEF PaidOrgs
<1>3. OrgsPaid' /\ Checkouts'  BY <1>1, <1>2 DEF OrgsPaid, Checkouts
<1>4. CASE LinkExpires(l) \/ MarkExpired(l)
  <2>1. /\ accepting' = accepting /\ link[l].status = "pending"
        /\ (link'[l].status = "expired" /\ accepting[l] = None) \/ link'[l].status = "pending"
        /\ link'[l].org = link[l].org
        /\ \A k \in Links : k # l => link'[k] = link[k]
    BY <1>4 DEF LinkExpires, MarkExpired, TypeInv, Invitation
  <2>2. LinksSent'  BY <1>1, <2>1 DEF LinksSent
  <2>3. \A p \in People : member[p].link # None =>
          member[p].link \in Links /\ member[p].link # l
    BY <2>1 DEF Seated, TypeInv, Member
  <2>4. Seated'  BY <1>1, <2>1, <2>3 DEF Seated
  <2> QED  BY <1>3, <2>2, <2>4
<1>5. ASSUME NEW p \in People, ReadAccept(p, l) PROVE LinksSent' /\ Seated'
  <2>1. link' = link /\ link[l].status = "pending" /\ accepting' = [accepting EXCEPT ![l] = p]
    BY <1>5 DEF ReadAccept
  <2>2. LinksSent'  BY <1>1, <2>1 DEF LinksSent, TypeInv
  <2>3. Seated'  BY <1>1, <2>1 DEF Seated
  <2> QED  BY <2>2, <2>3
<1> QED  BY <1>3, <1>4, <1>5

LEMMA InviteSeat ==
  ASSUME SeatInv, NEW r \in Requests, (\E o \in Orgs : CountSeats(r, o)) \/ Invite(r)
  PROVE  OrgsPaid' /\ Checkouts' /\ LinksSent' /\ Seated'
<1> USE DEF SeatInv
<1>1. UNCHANGED <<org, member, checkout, payments, paying, accepting>>
  BY DEF CountSeats, Invite
<1>2. PaidOrgs' = PaidOrgs  BY <1>1 DEF PaidOrgs
<1>3. OrgsPaid' /\ Checkouts'  BY <1>1, <1>2 DEF OrgsPaid, Checkouts
<1>4. ASSUME NEW o \in Orgs, CountSeats(r, o) PROVE LinksSent' /\ Seated'
  <2>1. /\ link' = link /\ org[o].status = "active"
        /\ inviting'[r].org = o /\ \A q \in Requests : q # r => inviting'[q] = inviting[q]
    BY <1>4 DEF CountSeats, TypeInv
  <2>2. LinksSent'  BY <1>1, <2>1 DEF LinksSent
  <2>3. Seated'  BY <1>1, <2>1 DEF Seated
  <2> QED  BY <2>2, <2>3
<1>5. CASE Invite(r)
  <2>1. inviting[r] \in Counted /\ org[inviting[r].org].status = "active"
    BY <1>5 DEF Invite, LinksSent, TypeInv
  <2>2. \A q \in Requests : inviting'[q] # None => inviting'[q] = inviting[q]
    BY <1>5 DEF Invite, TypeInv
  <2>3. PICK new \in SUBSET {l \in Links : link[l].status = "none"} :
          \E to \in [new -> Emails \ inviting[r].known] :
          /\ Cardinality(new) <= inviting[r].left
          /\ \A k, l \in new : to[k] = to[l] => k = l
          /\ link' = [l \in Links |-> IF l \notin new THEN link[l] ELSE
            [status |-> "pending", org |-> inviting[r].org, email |-> to[l], live |-> TRUE]]
    BY <1>5 DEF Invite
  <2>4. \A l \in Links : \/ link'[l] = link[l]
                         \/ /\ link[l].status = "none" /\ link'[l].status = "pending"
                            /\ link'[l].org = inviting[r].org
    BY <2>3
  <2>5. inviting[r].org \in Orgs  BY <2>1 DEF Counted
  <2>6. LinksSent'
    <3>1. \A q \in Requests : inviting'[q] # None => org[inviting'[q].org].status = "active"
      BY <2>2 DEF LinksSent
    <3>2. \A l \in Links : link'[l].status # "none" =>
            link'[l].org \in Orgs /\ org[link'[l].org].status = "active"
      BY <2>1, <2>4, <2>5 DEF LinksSent
    <3>3. \A l \in Links : accepting[l] # None => link'[l].status = "pending"
      BY <2>4 DEF LinksSent
    <3> QED  BY <1>1, <3>1, <3>2, <3>3 DEF LinksSent
  <2>7. \A p \in People : member[p].link # None =>
          member[p].link \in Links /\ link'[member[p].link] = link[member[p].link]
    BY <2>4 DEF Seated, TypeInv, Member
  <2>8. \A p \in People : member[p].link # None =>
          /\ link'[member[p].link].status = "accepted"
          /\ link'[member[p].link].org = member[p].org
    BY <2>7 DEF Seated
  <2>9. Seated'  BY <1>1, <2>8 DEF Seated
  <2> QED  BY <1>3, <2>6, <2>9
<1> QED  BY <1>3, <1>4, <1>5

\* The one person who accepts: nobody has the link's seat, since it was pending.
LEMMA AcceptSeat ==
  ASSUME SeatInv, NEW l \in Links, WriteAccept(l)
  PROVE  OrgsPaid' /\ Checkouts' /\ LinksSent' /\ Seated'
<1> USE DEF SeatInv
<1> DEFINE p == accepting[l]
           o == link[l].org
<1>1. /\ UNCHANGED <<org, checkout, payments, paying, inviting>>
      /\ accepting[l] # None /\ accepting' = [accepting EXCEPT ![l] = None]
  BY DEF WriteAccept
<1>2. p \in People  BY <1>1 DEF TypeInv
<1>3. PaidOrgs' = PaidOrgs  BY <1>1 DEF PaidOrgs
<1>4. OrgsPaid' /\ Checkouts'  BY <1>1, <1>3 DEF OrgsPaid, Checkouts
<1>5. link[l].status = "pending" /\ o \in Orgs /\ org[o].status = "active"
  BY <1>1 DEF LinksSent
<1>6. CASE member[p].org # None
  <2>1. member' = member /\ link' = link  BY <1>6 DEF WriteAccept
  <2>2. LinksSent'  BY <1>1, <2>1 DEF LinksSent, TypeInv
  <2>3. Seated'  BY <1>1, <2>1 DEF Seated
  <2> QED  BY <1>4, <2>2, <2>3
<1>7. CASE member[p].org = None
  <2>1. /\ member' = [member EXCEPT ![p] = Seat(o, l)]
        /\ link' = [link EXCEPT ![l] = [link[l] EXCEPT !.status = "accepted"]]
    BY <1>7 DEF WriteAccept
  <2>2. /\ member'[p].org = o /\ member'[p].link = l
        /\ \A q \in People : q # p => member'[q] = member[q]
    BY <1>2, <2>1 DEF TypeInv, Seat
  <2>3. /\ link'[l].status = "accepted" /\ link'[l].org = o
        /\ \A k \in Links : k # l => link'[k] = link[k]
    BY <2>1 DEF TypeInv, Invitation
  <2>4. \A q \in People : member[q].link # None => member[q].link \in Links \ {l}
    BY <1>5 DEF Seated, TypeInv, Member
  <2> HIDE DEF p, o
  <2>5. LinksSent'
    <3>1. \A k \in Links : link'[k].status # "none" =>
            link'[k].org \in Orgs /\ org[link'[k].org].status = "active"
      BY <1>5, <2>3 DEF LinksSent
    <3>2. \A k \in Links : accepting'[k] # None => link'[k].status = "pending"
      BY <1>1, <2>3 DEF LinksSent, TypeInv
    <3> QED  BY <1>1, <3>1, <3>2 DEF LinksSent
  <2>6. l # None  OBVIOUS
  <2>7. Seated'
    <3>1. \A q \in People : member'[q].org # None => org[member'[q].org].status # "none"
      BY <1>5, <2>2 DEF Seated
    <3>2. \A q \in People : member'[q].granted > 0 =>
            /\ member'[q].org # None /\ org[member'[q].org].status = "active"
            /\ member'[q].link = None => org[member'[q].org].admin = q
      BY <1>5, <2>2, <2>6 DEF Seated
    <3>3. \A q \in People : member'[q].link # None =>
            /\ link'[member'[q].link].status = "accepted"
            /\ link'[member'[q].link].org = member'[q].org
      BY <2>2, <2>3, <2>4 DEF Seated
    <3>4. \A q, t \in People : member'[q].link # None /\ member'[q].link = member'[t].link => q = t
      BY <2>2, <2>4, <2>6 DEF Seated
    <3> QED  BY <1>1, <3>1, <3>2, <3>3, <3>4 DEF Seated
  <2> QED  BY <1>4, <2>5, <2>7
<1> QED  BY <1>6, <1>7

LEMMA SeatStep == SeatInv /\ [Next]_vars => SeatInv'
<1> SUFFICES ASSUME SeatInv, [Next]_vars PROVE SeatInv'  OBVIOUS
<1>1. TypeInv'  BY TypeStep DEF SeatInv
<1>2. CASE UNCHANGED vars
  BY <1>2 DEF vars, SeatInv, TypeInv, OrgsPaid, PaidOrgs, Checkouts, LinksSent, Seated
<1>3. CASE Next
  <2>1. OrgsPaid' /\ Checkouts' /\ LinksSent' /\ Seated'
    BY <1>3, CreateSeat, CheckoutSeat, GrantSeat, InviteSeat, LinkSeat, AcceptSeat, JobsSeat
    DEF Next
  <2> QED  BY <1>1, <2>1 DEF SeatInv
<1> QED  BY <1>2, <1>3

LEMMA SeatInit == Init => SeatInv
<1> SUFFICES ASSUME Init PROVE SeatInv  OBVIOUS
<1>1. [status |-> "none", admin |-> None] \in Organization  BY DEF Organization
<1>2. NoMember \in Member  BY DEF NoMember, Member
<1>3. [status |-> "none", org |-> None, email |-> None, live |-> FALSE] \in Invitation
  BY DEF Invitation
<1>4. [state |-> "none", org |-> None] \in Checkout  BY DEF Checkout
<1>5. [status |-> "none", owner |-> None, pool |-> None] \in Job  BY DEF Job
<1>6. TypeInv  BY <1>1, <1>2, <1>3, <1>4, <1>5 DEF Init, TypeInv
<1>7. OrgsPaid /\ Checkouts  BY DEF Init, OrgsPaid, Checkouts
<1>8. LinksSent  BY DEF Init, LinksSent
<1>9. Seated  BY DEF Init, Seated, NoMember
<1> QED  BY <1>6, <1>7, <1>8, <1>9 DEF SeatInv

\* The rows of the organization tables keep their types (models and migrations).
THEOREM TypeCorrect == Spec => []TypeOK
<1>1. TypeInv => TypeOK
  BY DEF TypeOK, TypeInv, Organization, Member, Invitation, Checkout, Counted, Job
<1>2. SeatInv => TypeInv  BY DEF SeatInv
<1> QED
  BY <1>1, <1>2, SeatInit, SeatStep, PTL DEF Spec

\* Credits of an organization are in the hands of those only for whom it has paid: its
\* administrator, and one person for each accepted invitation (_handle_org_payment,
\* accept_invitation).
THEOREM SeatsEarned == Spec => []SeatsAreEarned
BY SeatInit, SeatStep, SeatInvEarns, PTL DEF Spec

-----------------------------------------------------------------------------
(* Pools.                                                                  *)

\* What a person's jobs took off the balance of their own, and off a pool.
Charged(p) == JobsOf(p, None, Kept)
Spent(p, o) == JobsOf(p, o, Kept \cup {"aborted"})
DivertedJobs(p) ==
  {j \in Jobs : job[j].owner = p /\ job[j].pool # None /\ job[j].status = "aborted"}
PaymentsOf(o) == {s \in payments : checkout[s].org = o}

Balances == \A p \in People :
  own[p] = Own - Cost * Cardinality(Charged(p)) + Cost * Cardinality(DivertedJobs(p))
Pools == \A p \in People :
  \/ member[p].org = None
  \/ member[p].left = member[p].granted - Cost * Cardinality(Spent(p, member[p].org))
  \/ Cardinality(PaymentsOf(member[p].org)) > 1

\* A job is paid from the pool of the organization of its owner, who does not leave it, ...
JobsPaid == \A j \in Jobs : job[j].status # "none" =>
  /\ job[j].owner \in People
  /\ job[j].pool # None => /\ member[job[j].owner].org = job[j].pool
                          /\ org[job[j].pool].status = "active"

\* ... and neither does the administrator. A session is recorded once.
AdminsSit ==
  /\ \A o \in Orgs : org[o].status # "none" => member[org[o].admin].org = o
  /\ paying \cap payments = {}

PoolInv == SeatInv /\ AdminsSit /\ JobsPaid /\ Balances /\ Pools

LEMMA PoolInvConserves == PoolInv => PoolsConserved
BY DEF PoolInv, Balances, Pools, PoolsConserved, Charged, Spent, Diverted, DivertedJobs, PaymentsOf

LEMMA JobSets ==
  ASSUME NEW p, NEW o
  PROVE  /\ Charged(p) \subseteq Jobs /\ Spent(p, o) \subseteq Jobs
         /\ DivertedJobs(p) \subseteq Jobs
BY DEF Charged, Spent, DivertedJobs, JobsOf

\* Sets of jobs are counted.
LEMMA Count ==
  ASSUME NEW S \in SUBSET Jobs
  PROVE  /\ IsFiniteSet(S) /\ Cardinality(S) \in Nat /\ Cost * Cardinality(S) \in Nat
         /\ S = {} => Cost * Cardinality(S) = 0
         /\ \A j \in Jobs : j \notin S => /\ Cardinality(S \cup {j}) = Cardinality(S) + 1
                                         /\ Cost * Cardinality(S \cup {j})
                                              = Cost * Cardinality(S) + Cost
<1>1. IsFiniteSet(S) /\ Cardinality(S) \in Nat
  BY FS_Subset, FS_CardinalityType
<1>2. ASSUME NEW n \in Nat PROVE Cost * n \in Nat /\ Cost * (n + 1) = Cost * n + Cost
  OBVIOUS
<1>3. S = {} => Cost * Cardinality(S) = 0
  <2>1. S = {} => Cardinality(S) = 0  BY FS_EmptySet
  <2> QED  BY <2>1
<1>4. ASSUME NEW j \in Jobs, j \notin S PROVE Cardinality(S \cup {j}) = Cardinality(S) + 1
  BY <1>1, <1>4, FS_AddElement
<1> QED  BY <1>1, <1>2, <1>3, <1>4

\* Nobody leaves an organization, none is locked again, no payment is forgotten.
LEMMA Stays ==
  ASSUME SeatInv, AdminsSit, [Next]_vars
  PROVE  /\ \A q \in People : member[q].org # None => member'[q].org = member[q].org
         /\ \A o \in Orgs : org[o].status = "active" => org'[o].status = "active"
         /\ \A o \in Orgs : org[o].status # "none" =>
              org'[o].status # "none" /\ org'[o].admin = org[o].admin
         /\ \A s \in payments : s \in payments' /\ checkout'[s].org = checkout[s].org
<1> USE DEF SeatInv
<1>1. CASE UNCHANGED vars
  BY <1>1 DEF vars
<1>2. ASSUME NEW p \in People, NEW o \in Orgs, CreateOrg(p, o)
      PROVE  /\ \A q \in People : member[q].org # None => member'[q].org = member[q].org
             /\ \A x \in Orgs : org[x].status # "none" => org'[x] = org[x]
             /\ UNCHANGED <<checkout, payments>>
  BY <1>2 DEF CreateOrg, TypeInv
<1>3. ASSUME NEW s \in Sessions, WritePayment(s)
      PROVE  /\ \A q \in People : member[q].org # None => member'[q].org = member[q].org
             /\ \A x \in Orgs : /\ org'[x].status \in {org[x].status, "active"}
                               /\ org'[x].admin = org[x].admin
             /\ checkout' = checkout /\ payments \subseteq payments'
  <2> DEFINE o == checkout[s].org
             p == org[o].admin
  <2>1. s \in paying  BY <1>3 DEF WritePayment
  <2>2. o \in Orgs /\ org[o].status # "none" /\ p \in People /\ member[p].org = o
    BY <2>1 DEF Checkouts, OrgsPaid, AdminsSit
  <2>3. /\ member' = [member EXCEPT ![p] = Seat(o, None)]
        /\ org' = [org EXCEPT ![o] = [org[o] EXCEPT !.status = "active"]]
        /\ checkout' = checkout /\ payments' = payments \cup {s}
    BY <1>3 DEF WritePayment
  <2>4. Seat(o, None).org = o  BY DEF Seat
  <2> HIDE DEF o, p
  <2> QED  BY <2>2, <2>3, <2>4 DEF TypeInv, Organization
<1>4. ASSUME NEW s \in Sessions, NEW o \in Orgs, OpenCheckout(s, o)
      PROVE  /\ UNCHANGED <<org, member, payments>>
             /\ \A t \in payments : checkout'[t].org = checkout[t].org
  <2>1. /\ checkout[s].state = "none" /\ UNCHANGED <<org, member, payments>>
        /\ \A t \in Sessions : t # s => checkout'[t] = checkout[t]
    BY <1>4 DEF OpenCheckout, TypeInv
  <2>2. s \notin payments  BY <2>1 DEF Checkouts
  <2> QED  BY <2>1, <2>2 DEF TypeInv
<1>5. ASSUME NEW s \in Sessions, Pay(s)
      PROVE  /\ UNCHANGED <<org, member, payments>>
             /\ \A t \in payments : checkout'[t].org = checkout[t].org
  BY <1>5 DEF Pay, TypeInv, Checkout
<1>6. ASSUME NEW l \in Links, WriteAccept(l)
      PROVE  /\ UNCHANGED <<org, checkout, payments>>
             /\ \A q \in People : member[q].org # None => member'[q].org = member[q].org
  <2>1. accepting[l] \in People  BY <1>6 DEF WriteAccept, TypeInv
  <2> QED  BY <1>6, <2>1 DEF WriteAccept, TypeInv
<1>7. ASSUME NEW j \in Jobs,
             Complete(j) \/ Fail(j) \/ ContainerFails(j) \/ \E p \in People : Submit(p, j)
      PROVE  /\ UNCHANGED <<org, checkout, payments>>
             /\ \A q \in People : member'[q].org = member[q].org
  BY <1>7, MoveSeats DEF Complete, Fail, ContainerFails, Submit
<1>8. ASSUME \/ \E s \in Sessions : ReadPayment(s)
             \/ \E r \in Requests : Invite(r) \/ \E o \in Orgs : CountSeats(r, o)
             \/ \E l \in Links : \/ LinkExpires(l) \/ MarkExpired(l)
                                \/ \E p \in People : ReadAccept(p, l)
      PROVE  UNCHANGED <<org, member, checkout, payments>>
  BY <1>8 DEF ReadPayment, Invite, CountSeats, LinkExpires, MarkExpired, ReadAccept
<1> QED
  BY <1>1, <1>2, <1>3, <1>4, <1>5, <1>6, <1>7, <1>8 DEF Next, TypeInv

LEMMA AdminsStep ==
  ASSUME SeatInv, AdminsSit, [Next]_vars
  PROVE  AdminsSit'
<1> USE DEF SeatInv
<1>1. ASSUME NEW o \in Orgs, org'[o].status # "none" PROVE member'[org'[o].admin].org = o
  <2>1. CASE org[o].status # "none"
    <3>1. org[o].admin \in People /\ member[org[o].admin].org = o /\ o # None
      BY <2>1 DEF OrgsPaid, AdminsSit
    <3> QED  BY <2>1, <3>1, Stays
  <2>2. CASE org[o].status = "none"
    <3>1. org' # org  BY <1>1, <2>2
    <3>2. ASSUME NEW s \in Sessions, WritePayment(s) PROVE FALSE
      <4>1. checkout[s].org \in Orgs /\ org[checkout[s].org].status # "none"
        BY <3>2 DEF WritePayment, Checkouts
      <4>2. org'[o] = org[o]  BY <2>2, <3>2, <4>1 DEF WritePayment, TypeInv
      <4> QED  BY <1>1, <2>2, <4>2
    <3>3. PICK p \in People, x \in Orgs : CreateOrg(p, x)
      BY <3>1, <3>2 DEF Next, vars, OpenCheckout, Pay, ReadPayment, Invite, CountSeats, LinkExpires,
         MarkExpired, ReadAccept, WriteAccept, Submit, Complete, Fail, ContainerFails
    <3>4. o = x  BY <1>1, <2>2, <3>3 DEF CreateOrg, TypeInv
    <3> QED  BY <3>3, <3>4 DEF CreateOrg, TypeInv, NoMember
  <2> QED  BY <2>1, <2>2
<1>2. (paying \cap payments = {})'
  <2>1. paying \cap payments = {}  BY DEF AdminsSit
  <2>2. \/ UNCHANGED <<paying, payments>>
        \/ \E s \in Sessions : ReadPayment(s) \/ WritePayment(s)
    BY DEF Next, vars, CreateOrg, OpenCheckout, Pay, Invite, CountSeats, LinkExpires,
       MarkExpired, ReadAccept, WriteAccept, Submit, Complete, Fail, ContainerFails
  <2> QED  BY <2>1, <2>2 DEF ReadPayment, WritePayment
<1> QED  BY <1>1, <1>2 DEF AdminsSit

\* Only the steps of jobs write jobs and balances.
JobStep ==
  \E j \in Jobs :
    Complete(j) \/ Fail(j) \/ ContainerFails(j) \/ \E p \in People : Submit(p, j)

LEMMA OtherSteps == [Next]_vars => JobStep \/ (job' = job /\ own' = own)
BY DEF Next, vars, JobStep, CreateOrg, OpenCheckout, Pay, ReadPayment, WritePayment, Invite,
   CountSeats, LinkExpires, MarkExpired, ReadAccept, WriteAccept

LEMMA JobsPaidStep ==
  ASSUME SeatInv, AdminsSit, JobsPaid, [Next]_vars
  PROVE  JobsPaid'
<1> USE DEF SeatInv
<1> SUFFICES ASSUME NEW j \in Jobs, job'[j].status # "none"
             PROVE  /\ job'[j].owner \in People
                    /\ job'[j].pool # None => /\ member'[job'[j].owner].org = job'[j].pool
                                             /\ org'[job'[j].pool].status = "active"
  BY DEF JobsPaid
<1>1. job[j].pool \in Orgs \cup {None}  BY DEF TypeInv, Job
<1>2. CASE job[j].status # "none" /\ job'[j].owner = job[j].owner /\ job'[j].pool = job[j].pool
  <2>1. /\ job[j].owner \in People
        /\ job[j].pool # None => /\ member[job[j].owner].org = job[j].pool
                                /\ org[job[j].pool].status = "active"
    BY <1>2 DEF JobsPaid
  <2> QED  BY <1>1, <1>2, <2>1, Stays
<1>3. CASE \E p \in People : Submit(p, j)
  <2>1. PICK p \in People : Submit(p, j)  BY <1>3
  <2>2. job'[j].owner = p /\ job'[j].pool = PoolOf(p)  BY <2>1 DEF Submit, TypeInv
  <2>3. org' = org /\ member'[p].org = member[p].org  BY <2>1, MoveSeats DEF Submit
  <2> QED  BY <2>2, <2>3 DEF PoolOf
<1>4. \/ \E p \in People : Submit(p, j)
      \/ job[j].status # "none" /\ job'[j].owner = job[j].owner /\ job'[j].pool = job[j].pool
  <2>1. CASE job' = job
    BY <2>1
  <2>2. ASSUME NEW k \in Jobs, Complete(k) \/ Fail(k) \/ ContainerFails(k)
        PROVE  job[j].status # "none" /\ job'[j].owner = job[j].owner /\ job'[j].pool = job[j].pool
    BY <2>2 DEF Complete, Fail, ContainerFails, TypeInv, Job
  <2>3. ASSUME NEW k \in Jobs, NEW p \in People, Submit(p, k)
        PROVE  Submit(p, j) \/ job'[j] = job[j]
    BY <2>3 DEF Submit, TypeInv
  <2> QED  BY <2>1, <2>2, <2>3, OtherSteps DEF JobStep
<1> QED  BY <1>2, <1>3, <1>4

\* How the steps of a job move it between the sets.
LEMMA SubmitSets ==
  ASSUME TypeInv, NEW p \in People, NEW j \in Jobs, Submit(p, j), NEW q \in People,
         NEW o \in Orgs \cup {None}
  PROVE  /\ j \notin Charged(q) /\ j \notin Spent(q, o) /\ DivertedJobs(q)' = DivertedJobs(q)
         /\ Charged(q)' = IF q = p /\ PoolOf(p) = None THEN Charged(q) \cup {j} ELSE Charged(q)
         /\ Spent(q, o)' = IF q = p /\ PoolOf(p) = o THEN Spent(q, o) \cup {j} ELSE Spent(q, o)
<1> DEFINE pool == PoolOf(p)
<1>1. job[j].status = "none" /\ job' =
        [job EXCEPT ![j] = [status |-> "running", owner |-> p, pool |-> pool]]
  BY DEF Submit
<1> HIDE DEF pool
<1>2. /\ job'[j].status = "running" /\ job'[j].owner = p /\ job'[j].pool = pool
      /\ \A k \in Jobs : k # j => job'[k] = job[k]
  BY <1>1 DEF TypeInv
<1>3. j \notin Charged(q) /\ j \notin Spent(q, o) /\ j \notin DivertedJobs(q)
  BY <1>1 DEF Charged, Spent, DivertedJobs, JobsOf, Kept
<1>4. DivertedJobs(q)' = DivertedJobs(q)
  BY <1>1, <1>2 DEF DivertedJobs
<1>5. Charged(q)' = IF q = p /\ pool = None THEN Charged(q) \cup {j} ELSE Charged(q)
  BY <1>1, <1>2 DEF Charged, JobsOf, Kept
<1>6. Spent(q, o)' = IF q = p /\ pool = o THEN Spent(q, o) \cup {j} ELSE Spent(q, o)
  BY <1>1, <1>2 DEF Spent, JobsOf, Kept
<1> QED  BY <1>3, <1>4, <1>5, <1>6 DEF pool

LEMMA JobSettled ==
  ASSUME TypeInv, NEW j \in Jobs, NEW s \in {"completed", "failed", "aborted"},
         job' = [job EXCEPT ![j].status = s]
  PROVE  /\ job'[j].status = s /\ job'[j].owner = job[j].owner /\ job'[j].pool = job[j].pool
         /\ \A k \in Jobs : k # j => job'[k] = job[k]
BY DEF TypeInv, Job

LEMMA CompleteSets ==
  ASSUME TypeInv, NEW j \in Jobs, Complete(j), NEW q \in People, NEW o \in Orgs \cup {None}
  PROVE  /\ Charged(q)' = Charged(q) /\ Spent(q, o)' = Spent(q, o)
         /\ DivertedJobs(q)' = DivertedJobs(q)
<1>1. job[j].status = "running" /\ job' = [job EXCEPT ![j].status = "completed"]
  BY DEF Complete
<1>2. /\ job'[j].status = "completed" /\ job'[j].owner = job[j].owner
      /\ job'[j].pool = job[j].pool /\ \A k \in Jobs : k # j => job'[k] = job[k]
  BY <1>1, JobSettled
<1> QED  BY <1>1, <1>2 DEF Charged, Spent, DivertedJobs, JobsOf, Kept

LEMMA FailSets ==
  ASSUME TypeInv, NEW j \in Jobs, Fail(j), NEW q \in People, NEW o \in Orgs \cup {None}
  PROVE  /\ j \notin Charged(q)' /\ j \notin Spent(q, o)'
         /\ DivertedJobs(q)' = DivertedJobs(q)
         /\ Charged(q) = IF q = job[j].owner /\ job[j].pool = None
                         THEN Charged(q)' \cup {j} ELSE Charged(q)'
         /\ Spent(q, o) = IF q = job[j].owner /\ job[j].pool = o
                          THEN Spent(q, o)' \cup {j} ELSE Spent(q, o)'
<1>1. job[j].status = "running" /\ job' = [job EXCEPT ![j].status = "failed"]
  BY DEF Fail
<1>2. /\ job'[j].status = "failed" /\ job'[j].owner = job[j].owner
      /\ job'[j].pool = job[j].pool /\ \A k \in Jobs : k # j => job'[k] = job[k]
  BY <1>1, JobSettled
<1>3. j \notin Charged(q)' /\ j \notin Spent(q, o)' /\ DivertedJobs(q)' = DivertedJobs(q)
  BY <1>1, <1>2 DEF Charged, Spent, DivertedJobs, JobsOf, Kept
<1>4. Charged(q) = IF q = job[j].owner /\ job[j].pool = None
                   THEN Charged(q)' \cup {j} ELSE Charged(q)'
  BY <1>1, <1>2 DEF Charged, JobsOf, Kept
<1>5. Spent(q, o) = IF q = job[j].owner /\ job[j].pool = o
                    THEN Spent(q, o)' \cup {j} ELSE Spent(q, o)'
  BY <1>1, <1>2 DEF Spent, JobsOf, Kept
<1> QED  BY <1>3, <1>4, <1>5

LEMMA ContainerFailsSets ==
  ASSUME TypeInv, NEW j \in Jobs, ContainerFails(j), NEW q \in People, NEW o \in Orgs \cup {None}
  PROVE  /\ j \notin Charged(q)' /\ j \notin DivertedJobs(q)
         /\ Spent(q, o)' = Spent(q, o)
         /\ Charged(q) = IF q = job[j].owner /\ job[j].pool = None
                         THEN Charged(q)' \cup {j} ELSE Charged(q)'
         /\ DivertedJobs(q)' = IF q = job[j].owner /\ job[j].pool # None
                               THEN DivertedJobs(q) \cup {j} ELSE DivertedJobs(q)
<1>1. job[j].status = "running" /\ job' = [job EXCEPT ![j].status = "aborted"]
  BY DEF ContainerFails
<1>2. /\ job'[j].status = "aborted" /\ job'[j].owner = job[j].owner
      /\ job'[j].pool = job[j].pool /\ \A k \in Jobs : k # j => job'[k] = job[k]
  BY <1>1, JobSettled
<1>3. j \notin Charged(q)' /\ j \notin DivertedJobs(q) /\ Spent(q, o)' = Spent(q, o)
  BY <1>1, <1>2 DEF Charged, Spent, DivertedJobs, JobsOf, Kept
<1>4. Charged(q) = IF q = job[j].owner /\ job[j].pool = None
                   THEN Charged(q)' \cup {j} ELSE Charged(q)'
  BY <1>1, <1>2 DEF Charged, JobsOf, Kept
<1>5. DivertedJobs(q)' = IF q = job[j].owner /\ job[j].pool # None
                         THEN DivertedJobs(q) \cup {j} ELSE DivertedJobs(q)
  BY <1>1, <1>2 DEF DivertedJobs
<1> QED  BY <1>3, <1>4, <1>5

LEMMA MoveAmount ==
  ASSUME TypeInv, NEW p \in People, NEW pool \in Orgs \cup {None}, NEW n \in Int,
         Move(p, pool, n), NEW q \in People
  PROVE  /\ own'[q] = IF q = p /\ pool = None THEN own[q] + n ELSE own[q]
         /\ member'[q].left = IF q = p /\ pool # None /\ member[p].org = pool
                              THEN member[q].left + n ELSE member[q].left
<1> USE DEF TypeInv
<1>1. CASE pool = None
  BY <1>1 DEF Move
<1>2. CASE pool # None
  <2> DEFINE x == IF member[p].org = pool THEN member[p].left + n ELSE member[p].left
  <2>1. own' = own /\ member' = [member EXCEPT ![p] = [member[p] EXCEPT !.left = x]]
    BY <1>2 DEF Move
  <2>2. member[p] \in Member  OBVIOUS
  <2> HIDE DEF x
  <2>3. /\ member'[p].left = x
        /\ q # p => member'[q] = member[q]
    BY <2>1, <2>2 DEF Member
  <2> QED  BY <1>2, <2>1, <2>3 DEF x
<1> QED  BY <1>1, <1>2

\* One job more, or less, in a set that is priced.
LEMMA Price ==
  ASSUME NEW p
  PROVE  /\ Charged(p) \in SUBSET Jobs /\ Charged(p)' \in SUBSET Jobs
         /\ DivertedJobs(p) \in SUBSET Jobs /\ DivertedJobs(p)' \in SUBSET Jobs
         /\ \A o : Spent(p, o) \in SUBSET Jobs /\ Spent(p, o)' \in SUBSET Jobs
BY DEF Charged, Spent, DivertedJobs, JobsOf

LEMMA BalancesStep ==
  ASSUME SeatInv, JobsPaid, Balances, [Next]_vars
  PROVE  Balances'
<1> USE DEF SeatInv
<1> SUFFICES ASSUME NEW q \in People
             PROVE  own'[q] = Own - Cost * Cardinality(Charged(q)')
                                  + Cost * Cardinality(DivertedJobs(q)')
  BY DEF Balances
<1> DEFINE c == Cost * Cardinality(Charged(q))
           d == Cost * Cardinality(DivertedJobs(q))
           c2 == Cost * Cardinality(Charged(q)')
           d2 == Cost * Cardinality(DivertedJobs(q)')
<1>1. own[q] = Own - c + d  BY DEF Balances
<1>2. c \in Nat /\ d \in Nat /\ c2 \in Nat /\ d2 \in Nat /\ Cost \in Nat /\ Own \in Nat
  BY Price, Count
<1>3. own[q] \in Int  BY DEF TypeInv
<1>4. CASE job' = job /\ own' = own
  <2>1. Charged(q)' = Charged(q) /\ DivertedJobs(q)' = DivertedJobs(q)
    BY <1>4 DEF Charged, DivertedJobs, JobsOf
  <2> QED  BY <1>1, <1>4, <2>1
<1>5. ASSUME NEW j \in Jobs, NEW p \in People, Submit(p, j)
      PROVE  own'[q] = Own - c2 + d2
  <2>1. PoolOf(p) \in Orgs \cup {None}  BY DEF PoolOf, TypeInv, Member
  <2>2. Move(p, PoolOf(p), -Cost) /\ -Cost \in Int  BY <1>5 DEF Submit
  <2>3. own'[q] = IF q = p /\ PoolOf(p) = None THEN own[q] - Cost ELSE own[q]
    BY <1>2, <1>3, <2>1, <2>2, MoveAmount
  <2>4. /\ j \notin Charged(q) /\ DivertedJobs(q)' = DivertedJobs(q)
        /\ Charged(q)' = IF q = p /\ PoolOf(p) = None THEN Charged(q) \cup {j} ELSE Charged(q)
    BY <1>5, SubmitSets
  <2>5. d2 = d /\ c2 = IF q = p /\ PoolOf(p) = None THEN c + Cost ELSE c
    BY <2>4, Price, Count
  <2> HIDE DEF c, d, c2, d2
  <2> QED  BY <1>1, <1>2, <2>3, <2>5
<1>6. ASSUME NEW j \in Jobs, Complete(j) PROVE own'[q] = Own - c2 + d2
  <2>1. own' = own  BY <1>6 DEF Complete
  <2>2. c2 = c /\ d2 = d  BY <1>6, CompleteSets
  <2> QED  BY <1>1, <2>1, <2>2
<1>7. ASSUME NEW j \in Jobs, Fail(j) PROVE own'[q] = Own - c2 + d2
  <2> DEFINE p == job[j].owner
             o == job[j].pool
  <2>1. p \in People /\ o \in Orgs \cup {None}
    BY <1>7 DEF Fail, JobsPaid, TypeInv, Job
  <2>2. Move(p, o, Cost)  BY <1>7 DEF Fail
  <2>3. own'[q] = IF q = p /\ o = None THEN own[q] + Cost ELSE own[q]
    <3> HIDE DEF p, o
    <3> QED  BY <1>2, <2>1, <2>2, MoveAmount
  <2>4. /\ j \notin Charged(q)' /\ DivertedJobs(q)' = DivertedJobs(q)
        /\ Charged(q) = IF q = p /\ o = None THEN Charged(q)' \cup {j} ELSE Charged(q)'
    BY <1>7, FailSets
  <2> HIDE DEF p, o
  <2>5. d2 = d /\ c = IF q = p /\ o = None THEN c2 + Cost ELSE c2
    BY <2>4, Price, Count
  <2> HIDE DEF c, d, c2, d2
  <2> QED  BY <1>1, <1>2, <2>3, <2>5
<1>8. ASSUME NEW j \in Jobs, ContainerFails(j) PROVE own'[q] = Own - c2 + d2
  <2> DEFINE p == job[j].owner
             o == job[j].pool
  <2>1. p \in People /\ o \in Orgs \cup {None}
    BY <1>8 DEF ContainerFails, JobsPaid, TypeInv, Job
  <2>2. Move(p, None, Cost)  BY <1>8 DEF ContainerFails
  <2>3. own'[q] = IF q = p THEN own[q] + Cost ELSE own[q]
    <3> HIDE DEF p
    <3> QED  BY <1>2, <2>1, <2>2, MoveAmount
  <2>4. /\ j \notin Charged(q)' /\ j \notin DivertedJobs(q)
        /\ Charged(q) = IF q = p /\ o = None THEN Charged(q)' \cup {j} ELSE Charged(q)'
        /\ DivertedJobs(q)' = IF q = p /\ o # None
                              THEN DivertedJobs(q) \cup {j} ELSE DivertedJobs(q)
    BY <1>8, ContainerFailsSets
  <2> HIDE DEF p, o
  <2>5. /\ c = IF q = p /\ o = None THEN c2 + Cost ELSE c2
        /\ d2 = IF q = p /\ o # None THEN d + Cost ELSE d
    BY <2>4, Price, Count
  <2> HIDE DEF c, d, c2, d2
  <2> QED  BY <1>1, <1>2, <2>3, <2>5
<1> QED
  BY <1>4, <1>5, <1>6, <1>7, <1>8, OtherSteps DEF JobStep

LEMMA TwoPayments ==
  ASSUME TypeInv, NEW o, NEW s \in Sessions, NEW t \in Sessions, s # t,
         s \in PaymentsOf(o)', t \in PaymentsOf(o)', payments' \subseteq Sessions
  PROVE  Cardinality(PaymentsOf(o)') > 1
<1> DEFINE S == PaymentsOf(o)'
<1>1. S \in SUBSET Sessions  BY DEF PaymentsOf
<1>2. s \in S /\ t \in S  OBVIOUS
<1> HIDE DEF S
<1>3. IsFiniteSet(S) /\ IsFiniteSet(S \ {s}) /\ IsFiniteSet((S \ {s}) \ {t})
  BY <1>1, FS_Subset
<1>4. /\ Cardinality(S) = Cardinality(S \ {s}) + 1
      /\ Cardinality(S \ {s}) = Cardinality((S \ {s}) \ {t}) + 1
  <2>1. /\ Cardinality(S \ {s}) = Cardinality(S) - 1
        /\ Cardinality((S \ {s}) \ {t}) = Cardinality(S \ {s}) - 1
    BY <1>2, <1>3, FS_RemoveElement
  <2> QED  BY <1>3, <2>1, FS_CardinalityType
<1>5. Cardinality((S \ {s}) \ {t}) \in Nat  BY <1>3, FS_CardinalityType
<1> QED  BY <1>4, <1>5 DEF S

LEMMA PaymentsGrow ==
  ASSUME SeatInv, AdminsSit, [Next]_vars, NEW o, Cardinality(PaymentsOf(o)) > 1
  PROVE  Cardinality(PaymentsOf(o)') > 1
<1>1. payments' \subseteq Sessions  BY TypeStep DEF SeatInv, TypeInv
<1>2. PaymentsOf(o) \subseteq PaymentsOf(o)'  BY Stays DEF PaymentsOf
<1>3. PaymentsOf(o)' \in SUBSET Sessions  BY <1>1 DEF PaymentsOf
<1>4. /\ IsFiniteSet(PaymentsOf(o)') /\ Cardinality(PaymentsOf(o)') \in Nat
      /\ Cardinality(PaymentsOf(o)) <= Cardinality(PaymentsOf(o)')
      /\ Cardinality(PaymentsOf(o)) \in Nat
  BY <1>2, <1>3, FS_Subset, FS_CardinalityType
<1> QED  BY <1>4

\* Who has just sat down in an organization, or sits in one never paid for, spent nothing.
LEMMA NothingSpent ==
  ASSUME SeatInv, JobsPaid, job' = job, NEW q \in People, NEW o \in Orgs,
         member[q].org = None \/ org[o].status # "active"
  PROVE  Cost * Cardinality(Spent(q, o)') = 0
<1>1. o # None  OBVIOUS
<1>2. Spent(q, o)' = {}
  BY <1>1 DEF Spent, JobsOf, Kept, JobsPaid, SeatInv, TypeInv, Job
<1>3. {} \in SUBSET Jobs  OBVIOUS
<1> QED  BY <1>2, <1>3, Count

LEMMA PoolsStep ==
  ASSUME SeatInv, AdminsSit, JobsPaid, Pools, [Next]_vars
  PROVE  Pools'
<1> USE DEF SeatInv
<1> SUFFICES ASSUME NEW q \in People, NEW o, o = member'[q].org, o # None
             PROVE  \/ member'[q].left = member'[q].granted - Cost * Cardinality(Spent(q, o)')
                    \/ Cardinality(PaymentsOf(o)') > 1
  BY DEF Pools
<1> DEFINE Good == \/ member'[q].left = member'[q].granted - Cost * Cardinality(Spent(q, o)')
                   \/ Cardinality(PaymentsOf(o)') > 1
<1>0. TypeInv'  BY TypeStep
<1>1. /\ o \in Orgs /\ member'[q].left \in Int /\ member'[q].granted \in Nat
      /\ member[q].left \in Int /\ member[q].granted \in Nat
  BY <1>0 DEF TypeInv, Member
<1>2. CASE /\ member[q].org = o /\ job' = job /\ member'[q].left = member[q].left
           /\ member'[q].granted = member[q].granted
  <2>1. Spent(q, o)' = Spent(q, o)  BY <1>2 DEF Spent, JobsOf
  <2>2. \/ member[q].left = member[q].granted - Cost * Cardinality(Spent(q, o))
        \/ Cardinality(PaymentsOf(o)) > 1
    BY <1>1, <1>2 DEF Pools
  <2> QED  BY <1>2, <2>1, <2>2, PaymentsGrow
<1>3. ASSUME NEW s \in Sessions, WritePayment(s), member'[q] # member[q]
      PROVE  Good
  <2>1. /\ member' = [member EXCEPT ![org[checkout[s].org].admin] = Seat(checkout[s].org, None)]
        /\ s \in paying /\ payments' = payments \cup {s} /\ checkout' = checkout /\ job' = job
    BY <1>3 DEF WritePayment
  <2>2. q = org[checkout[s].org].admin  BY <1>3, <2>1 DEF TypeInv
  <2>3. o = checkout[s].org /\ member'[q].left = PerSeat /\ member'[q].granted = PerSeat
    BY <2>1, <2>2 DEF TypeInv, Seat
  <2>4. CASE org[o].status # "active"
    <3>1. Cost * Cardinality(Spent(q, o)') = 0  BY <1>1, <2>1, <2>4, NothingSpent
    <3> QED  BY <1>1, <2>3, <3>1
  <2>5. CASE org[o].status = "active"
    <3>1. PICK t \in payments : checkout[t].org = o
      BY <1>1, <2>5 DEF OrgsPaid, PaidOrgs
    <3>2. s # t /\ s \in Sessions /\ t \in Sessions  BY <2>1, <3>1 DEF AdminsSit, TypeInv
    <3>3. s \in PaymentsOf(o)' /\ t \in PaymentsOf(o)'  BY <2>1, <2>3, <3>1 DEF PaymentsOf
    <3>4. payments' \subseteq Sessions  BY <1>0 DEF TypeInv
    <3>5. Cardinality(PaymentsOf(o)') > 1  BY <3>2, <3>3, <3>4, TwoPayments
    <3> QED  BY <3>5
  <2> QED  BY <2>4, <2>5
<1>4. ASSUME member[q].org = None, job' = job, member'[q].left = member'[q].granted
      PROVE  Good
  <2>1. Cost * Cardinality(Spent(q, o)') = 0
    BY <1>1, <1>4, NothingSpent
  <2> QED  BY <1>1, <1>4, <2>1
<1>5. ASSUME NEW p \in People, NEW x \in Orgs, CreateOrg(p, x)
      PROVE  Good
  <2>1. job' = job /\ (member'[q] = member[q] \/
          (member[q].org = None /\ member'[q] = [NoMember EXCEPT !.org = x]))
    BY <1>5 DEF CreateOrg, TypeInv
  <2>2. CASE member'[q] = member[q]  BY <1>2, <2>1, <2>2
  <2>3. CASE member[q].org = None /\ member'[q] = [NoMember EXCEPT !.org = x]
    <3>1. member'[q].left = member'[q].granted  BY <2>3 DEF NoMember
    <3> QED  BY <1>4, <2>1, <2>3, <3>1
  <2> QED  BY <2>1, <2>2, <2>3
<1>6. ASSUME NEW l \in Links, WriteAccept(l)
      PROVE  Good
  <2>1. job' = job /\ (member'[q] = member[q] \/
          (member[q].org = None /\ member'[q] = Seat(link[l].org, l)))
    BY <1>6 DEF WriteAccept, TypeInv
  <2>2. CASE member'[q] = member[q]  BY <1>2, <2>1, <2>2
  <2>3. CASE member[q].org = None /\ member'[q] = Seat(link[l].org, l)
    <3>1. member'[q].left = member'[q].granted  BY <2>3 DEF Seat
    <3> QED  BY <1>4, <2>1, <2>3, <3>1
  <2> QED  BY <2>1, <2>2, <2>3
<1>7. CASE JobStep
  <2> DEFINE c == Cost * Cardinality(Spent(q, o))
             c2 == Cost * Cardinality(Spent(q, o)')
  <2>1. c \in Nat /\ c2 \in Nat /\ Cost \in Nat  BY Price, Count
  <2>2. member[q].org = o /\ member'[q].granted = member[q].granted
    BY <1>7, MoveSeats DEF JobStep, Complete, Fail, ContainerFails, Submit
  <2>3. ASSUME Cardinality(PaymentsOf(o)) > 1 PROVE Good
    BY <2>3, PaymentsGrow
  <2>4. ASSUME member[q].left = member[q].granted - c,
               NEW j \in Jobs, NEW p \in People, Submit(p, j)
        PROVE  member'[q].left = member'[q].granted - c2
    <3>1. PoolOf(p) \in Orgs \cup {None}  BY DEF PoolOf, TypeInv, Member
    <3>2. Move(p, PoolOf(p), -Cost) /\ -Cost \in Int  BY <2>4 DEF Submit
    <3>3. member'[q].left = IF q = p /\ PoolOf(p) = o THEN member[q].left - Cost
                            ELSE member[q].left
      <4>1. member'[q].left = IF q = p /\ PoolOf(p) # None /\ member[p].org = PoolOf(p)
                              THEN member[q].left + -Cost ELSE member[q].left
        BY <3>1, <3>2, MoveAmount
      <4> QED  BY <1>1, <2>1, <2>2, <4>1
    <3>4. /\ j \notin Spent(q, o)
          /\ Spent(q, o)' = IF q = p /\ PoolOf(p) = o THEN Spent(q, o) \cup {j} ELSE Spent(q, o)
      <4>1. o \in Orgs \cup {None} /\ TypeInv  BY <1>1
      <4> QED  BY ONLY <4>1, <2>4, SubmitSets
    <3>5. c2 = IF q = p /\ PoolOf(p) = o THEN c + Cost ELSE c
      BY <3>4, Price, Count
    <3> HIDE DEF c, c2
    <3> QED  BY <1>1, <2>1, <2>2, <2>4, <3>3, <3>5
  <2>5. ASSUME member[q].left = member[q].granted - c, NEW j \in Jobs, Complete(j)
        PROVE  member'[q].left = member'[q].granted - c2
    <3>1. member' = member  BY <2>5 DEF Complete
    <3>2. c2 = c  BY <1>1, <2>5, CompleteSets
    <3> QED  BY <2>5, <3>1, <3>2
  <2>6. ASSUME member[q].left = member[q].granted - c, NEW j \in Jobs, Fail(j)
        PROVE  member'[q].left = member'[q].granted - c2
    <3> DEFINE p == job[j].owner
               pool == job[j].pool
    <3>1. /\ p \in People /\ pool \in Orgs \cup {None}
          /\ pool # None => member[p].org = pool
      BY <2>6 DEF Fail, JobsPaid, TypeInv, Job
    <3>2. Move(p, pool, Cost)  BY <2>6 DEF Fail
    <3>3. /\ j \notin Spent(q, o)'
          /\ Spent(q, o) = IF q = p /\ pool = o THEN Spent(q, o)' \cup {j} ELSE Spent(q, o)'
      <4>1. o \in Orgs \cup {None} /\ TypeInv  BY <1>1
      <4> QED  BY ONLY <4>1, <2>6, FailSets
    <3> HIDE DEF p, pool
    <3>4. member'[q].left = IF q = p /\ pool = o THEN member[q].left + Cost ELSE member[q].left
      <4>1. member'[q].left = IF q = p /\ pool # None /\ member[p].org = pool
                              THEN member[q].left + Cost ELSE member[q].left
        BY <2>1, <3>1, <3>2, MoveAmount
      <4> QED  BY <2>2, <3>1, <4>1
    <3>5. c = IF q = p /\ pool = o THEN c2 + Cost ELSE c2
      BY <3>3, Price, Count
    <3> HIDE DEF c, c2
    <3> QED  BY <1>1, <2>1, <2>2, <2>6, <3>4, <3>5
  <2>7. ASSUME member[q].left = member[q].granted - c, NEW j \in Jobs, ContainerFails(j)
        PROVE  member'[q].left = member'[q].granted - c2
    <3>1. member' = member  BY <2>7 DEF ContainerFails, Move
    <3>2. c2 = c  BY <1>1, <2>7, ContainerFailsSets
    <3> QED  BY <2>7, <3>1, <3>2
  <2>8. member[q].left = member[q].granted - c \/ Cardinality(PaymentsOf(o)) > 1
    BY <2>2 DEF Pools
  <2> HIDE DEF c, c2
  <2>9. ASSUME member[q].left = member[q].granted - c
        PROVE  member'[q].left = member'[q].granted - c2
    BY <1>7, <2>4, <2>5, <2>6, <2>7, <2>9 DEF JobStep
  <2> QED  BY <2>3, <2>8, <2>9 DEF c2
<1>8. CASE UNCHANGED <<member, job>>
  BY <1>2, <1>8
<1>9. \/ JobStep \/ UNCHANGED <<member, job>>
      \/ \E s \in Sessions : WritePayment(s)
      \/ \E l \in Links : WriteAccept(l)
      \/ \E p \in People, x \in Orgs : CreateOrg(p, x)
  BY DEF Next, vars, JobStep, OpenCheckout, Pay, ReadPayment, Invite, CountSeats, LinkExpires,
     MarkExpired, ReadAccept
<1>10. ASSUME NEW s \in Sessions, WritePayment(s) PROVE Good
  <2>1. job' = job  BY <1>10 DEF WritePayment
  <2> QED  BY <1>2, <1>3, <1>10, <2>1
<1> QED  BY <1>5, <1>6, <1>7, <1>8, <1>9, <1>10

\* However people join organizations while jobs run, fail and are refunded, every pool is
\* what was put into it less the jobs it paid for (reserve_job_slot,
\* terminalize_and_refund), up to the two exceptions that PoolsConserved names.
THEOREM PoolsAreConserved == Spec => []PoolsConserved
<1>1. Init => PoolInv
  <2> SUFFICES ASSUME Init PROVE PoolInv  OBVIOUS
  <2>1. SeatInv  BY SeatInit
  <2>2. AdminsSit  BY DEF Init, AdminsSit
  <2>3. JobsPaid  BY DEF Init, JobsPaid
  <2>4. Pools  BY DEF Init, Pools, NoMember
  <2>5. Balances
    <3> SUFFICES ASSUME NEW p \in People
                 PROVE  own[p] = Own - Cost * Cardinality(Charged(p))
                                     + Cost * Cardinality(DivertedJobs(p))
      BY DEF Balances
    <3>1. Charged(p) = {} /\ DivertedJobs(p) = {}
      BY DEF Init, Charged, DivertedJobs, JobsOf
    <3>2. {} \in SUBSET Jobs  OBVIOUS
    <3>3. own[p] = Own  BY DEF Init
    <3> QED  BY <3>1, <3>2, <3>3, Count
  <2> QED  BY <2>1, <2>2, <2>3, <2>4, <2>5 DEF PoolInv
<1>2. PoolInv /\ [Next]_vars => PoolInv'
  BY SeatStep, AdminsStep, JobsPaidStep, BalancesStep, PoolsStep DEF PoolInv
<1> QED
  BY <1>1, <1>2, PoolInvConserves, PTL DEF Spec

-----------------------------------------------------------------------------
(* Overselling.                                                            *)

Sitting(o) == {p \in People : member[p].org = o}

\* Unless requests overlapped or an invitation expired while it was accepted, members and
\* open invitations, and those a request is about to send, fit into the seats.
Covered(o) ==
  raced[o] \cap {"requests", "expiry"} = {} =>
    /\ Members(o) + Cardinality(Pending(o)) <= Seats
    /\ \A r \in Requests : inviting[r] # None /\ inviting[r].org = o =>
         Members(o) + Cardinality(Pending(o)) + inviting[r].left <= Seats
    /\ \A l \in Links : accepting[l] # None /\ link[l].org = o => link[l].live

\* Unless acceptances overlapped, who is accepting has found a seat that is still there.
Roomy(o) ==
  "acceptances" \notin raced[o] =>
    /\ Members(o) <= Seats
    /\ \A l \in Links : accepting[l] # None /\ link[l].org = o => Members(o) < Seats

OversoldInv == SeatInv /\ AdminsSit /\ \A o \in Orgs : Covered(o) /\ Roomy(o)

LEMMA OversoldInvCovers == OversoldInv => OversoldTakesTwoRaces
<1> SUFFICES ASSUME OversoldInv, NEW o \in Orgs, Members(o) > Seats
             PROVE  "acceptances" \in raced[o] /\ raced[o] \cap {"requests", "expiry"} # {}
  BY DEF OversoldTakesTwoRaces
<1>1. Members(o) \in Nat /\ Cardinality(Pending(o)) \in Nat  BY MembersType, PendingType
<1>2. Covered(o) /\ Roomy(o)  BY DEF OversoldInv
<1> QED  BY <1>1, <1>2 DEF Covered, Roomy

\* A step that seats nobody in an organization and opens no invitation, count or acceptance
\* of it, whether others do so elsewhere or not.
LEMMA Quiet ==
  ASSUME NEW o, Covered(o), Roomy(o),
         Sitting(o)' = Sitting(o), Pending(o)' \subseteq Pending(o), raced[o] \subseteq raced'[o],
         \A r \in Requests : inviting'[r] # None /\ inviting'[r].org = o =>
           inviting'[r] = inviting[r],
         \A l \in Links : accepting'[l] # None /\ link'[l].org = o =>
           /\ accepting[l] # None /\ link[l].org = o
           /\ link[l].live => link'[l].live \/ "expiry" \in raced'[o],
         \A r \in Requests : inviting[r] # None => inviting[r].left \in Int
  PROVE  Covered(o)' /\ Roomy(o)'
<1>1. Members(o)' = Members(o) /\ Members(o) \in Nat
  BY MembersType DEF Members, Sitting
<1>2. /\ Cardinality(Pending(o)') <= Cardinality(Pending(o))
      /\ Cardinality(Pending(o)') \in Nat /\ Cardinality(Pending(o)) \in Nat
  <2>1. IsFiniteSet(Pending(o))
    <3>1. Pending(o) \in SUBSET Links  BY DEF Pending
    <3> QED  BY <3>1, FS_Subset
  <2> QED  BY <2>1, FS_Subset, FS_CardinalityType
<1>3. Roomy(o)'
  BY <1>1 DEF Roomy
<1>4. Covered(o)'
  <2> SUFFICES ASSUME raced'[o] \cap {"requests", "expiry"} = {}
               PROVE  /\ Members(o)' + Cardinality(Pending(o)') <= Seats
                      /\ \A r \in Requests : inviting'[r] # None /\ inviting'[r].org = o =>
                           Members(o)' + Cardinality(Pending(o)') + inviting'[r].left <= Seats
                      /\ \A l \in Links : accepting'[l] # None /\ link'[l].org = o => link'[l].live
    BY DEF Covered
  <2>1. raced[o] \cap {"requests", "expiry"} = {} /\ "expiry" \notin raced'[o]
    OBVIOUS
  <2>2. Members(o) + Cardinality(Pending(o)) <= Seats
    BY <2>1 DEF Covered
  <2>3. ASSUME NEW r \in Requests, inviting'[r] # None, inviting'[r].org = o
        PROVE  Members(o)' + Cardinality(Pending(o)') + inviting'[r].left <= Seats
    <3>1. Members(o) + Cardinality(Pending(o)) + inviting[r].left <= Seats
      BY <2>1, <2>3 DEF Covered
    <3>2. inviting'[r] = inviting[r] /\ inviting[r].left \in Int
      BY <2>3
    <3> QED  BY <1>1, <1>2, <3>1, <3>2
  <2>4. \A l \in Links : accepting'[l] # None /\ link'[l].org = o => link'[l].live
    BY <2>1 DEF Covered
  <2> QED  BY <1>1, <1>2, <2>2, <2>3, <2>4
<1> QED  BY <1>3, <1>4

LEMMA Marks ==
  ASSUME TypeInv, NEW x, NEW kind, NEW others \in BOOLEAN, Overlap(x, kind, others), NEW o \in Orgs
  PROVE  /\ raced[o] \subseteq raced'[o]
         /\ o # x => raced'[o] = raced[o]
         /\ o = x /\ others => kind \in raced'[o]
BY DEF Overlap, TypeInv

\* An organization is created with nobody in it, and nothing going on.
LEMMA CreateCovers ==
  ASSUME SeatInv, NEW p \in People, NEW o \in Orgs, CreateOrg(p, o)
  PROVE  Covered(o)' /\ Roomy(o)'
<1> USE DEF SeatInv
<1>1. /\ org[o].status = "none" /\ UNCHANGED <<link, inviting, accepting, raced>>
      /\ member' = [member EXCEPT ![p] = [NoMember EXCEPT !.org = o]]
  BY DEF CreateOrg
<1>2. Sitting(o)' = {p}
  <2>1. \A q \in People : member[q].org # o  BY <1>1 DEF Seated, TypeInv, Member
  <2> QED  BY <1>1, <2>1 DEF Sitting, TypeInv, NoMember
<1>3. Members(o)' = 1  BY <1>2, FS_Singleton DEF Members, Sitting
<1>4. Pending(o)' = {}  BY <1>1 DEF Pending, LinksSent
<1>5. Cardinality(Pending(o)') = 0  BY <1>4, FS_EmptySet
<1>6. \A r \in Requests : inviting'[r] # None => inviting'[r].org # o
  BY <1>1 DEF LinksSent
<1>7. \A l \in Links : accepting'[l] # None => link'[l].org # o
  BY <1>1 DEF LinksSent
<1> QED  BY <1>3, <1>5, <1>6, <1>7 DEF Covered, Roomy

\* A request promises no more invitations than there are seats left ...
LEMMA CountCovers ==
  ASSUME SeatInv, NEW r \in Requests, NEW o \in Orgs, CountSeats(r, o), Covered(o), Roomy(o)
  PROVE  Covered(o)' /\ Roomy(o)'
<1> USE DEF SeatInv
<1> DEFINE n == Seats - Members(o) - Cardinality(Pending(o))
           known == {link[l].email : l \in Pending(o)}
<1>1. /\ UNCHANGED <<member, link, accepting, raced>>
      /\ inviting' = [inviting EXCEPT ![r] = [org |-> o, left |-> n, known |-> known]]
  BY DEF CountSeats
<1>2. Members(o)' = Members(o) /\ Pending(o)' = Pending(o)
  BY <1>1 DEF Members, Pending
<1>3. Members(o) \in Nat /\ Cardinality(Pending(o)) \in Nat
  BY MembersType, PendingType
<1>4. Members(o) + Cardinality(Pending(o)) + n <= Seats  BY <1>3
<1> HIDE DEF n, known
<1>5. inviting'[r].left = n /\ \A q \in Requests : q # r => inviting'[q] = inviting[q]
  BY <1>1 DEF TypeInv
<1>6. Covered(o)'  BY <1>1, <1>2, <1>4, <1>5 DEF Covered
<1>7. Roomy(o)'  BY <1>1, <1>2 DEF Roomy
<1> QED  BY <1>6, <1>7

\* ... and sends no more of them, while no other request sends any.
LEMMA InviteCovers ==
  ASSUME SeatInv, NEW r \in Requests, Invite(r), NEW o \in Orgs, inviting[r].org = o,
         Covered(o), Roomy(o)
  PROVE  Covered(o)' /\ Roomy(o)'
<1> USE DEF SeatInv
<1>1. /\ UNCHANGED <<member, accepting>> /\ inviting[r] # None
      /\ inviting' = [inviting EXCEPT ![r] = None]
      /\ Overlap(o, "requests", \E q \in Requests \ {r} : inviting[q] # None /\ inviting[q].org = o)
  BY DEF Invite
<1>2. Members(o)' = Members(o) /\ Members(o) \in Nat  BY <1>1, MembersType DEF Members
<1>3. PICK new \in SUBSET {l \in Links : link[l].status = "none"} :
        \E to \in [new -> Emails \ inviting[r].known] :
        /\ Cardinality(new) <= inviting[r].left
        /\ \A k, l \in new : to[k] = to[l] => k = l
        /\ link' = [l \in Links |-> IF l \notin new THEN link[l] ELSE
          [status |-> "pending", org |-> inviting[r].org, email |-> to[l], live |-> TRUE]]
  BY DEF Invite
<1>4. \A l \in Links : /\ l \notin new => link'[l] = link[l]
                       /\ l \in new => link'[l].live
  BY <1>3
<1>5. \A l \in Links : accepting[l] # None => l \notin new
  BY <1>3 DEF LinksSent
<1>6. /\ raced[o] \subseteq raced'[o]
      /\ (\E q \in Requests \ {r} : inviting[q] # None /\ inviting[q].org = o) =>
           "requests" \in raced'[o]
  BY <1>1, Marks
<1>7. Roomy(o)'
  BY <1>1, <1>2, <1>4, <1>5, <1>6 DEF Roomy
<1>8. Covered(o)'
  <2> SUFFICES ASSUME raced'[o] \cap {"requests", "expiry"} = {}
               PROVE  /\ Members(o)' + Cardinality(Pending(o)') <= Seats
                      /\ \A q \in Requests : inviting'[q] # None /\ inviting'[q].org = o =>
                           Members(o)' + Cardinality(Pending(o)') + inviting'[q].left <= Seats
                      /\ \A l \in Links : accepting'[l] # None /\ link'[l].org = o => link'[l].live
    BY DEF Covered
  <2>1. raced[o] \cap {"requests", "expiry"} = {}  BY <1>6
  <2>2. \A q \in Requests : inviting'[q] # None => inviting'[q].org # o
    BY <1>1, <1>6 DEF TypeInv
  <2>3. \A l \in Links : accepting'[l] # None /\ link'[l].org = o => link'[l].live
    BY <1>1, <1>4, <1>5, <2>1 DEF Covered
  <2>4. Members(o) + Cardinality(Pending(o)) + inviting[r].left <= Seats
    BY <1>1, <2>1 DEF Covered
  <2>5. Pending(o)' \subseteq Pending(o) \cup new
    BY <1>4 DEF Pending
  <2>6. /\ Cardinality(Pending(o)') <= Cardinality(Pending(o)) + Cardinality(new)
        /\ Cardinality(Pending(o)') \in Nat /\ Cardinality(Pending(o)) \in Nat
        /\ Cardinality(new) \in Nat
    <3>1. IsFiniteSet(Pending(o)) /\ IsFiniteSet(new) /\ IsFiniteSet(Pending(o) \cup new)
      <4>1. /\ Pending(o) \in SUBSET Links /\ new \in SUBSET Links
            /\ Pending(o) \cup new \in SUBSET Links
        BY <1>3 DEF Pending
      <4> QED  BY <4>1, FS_Subset
    <3>2. Cardinality(Pending(o) \cup new) <= Cardinality(Pending(o)) + Cardinality(new)
      <4>1. /\ Cardinality(Pending(o) \cup new) = Cardinality(Pending(o)) + Cardinality(new)
                 - Cardinality(Pending(o) \cap new)
            /\ IsFiniteSet(Pending(o) \cap new)
        BY <3>1, FS_Union, FS_Intersection
      <4> QED  BY <3>1, <4>1, FS_CardinalityType
    <3>3. /\ IsFiniteSet(Pending(o)')
          /\ Cardinality(Pending(o)') <= Cardinality(Pending(o) \cup new)
      BY <2>5, <3>1, FS_Subset
    <3> QED  BY <3>1, <3>2, <3>3, FS_CardinalityType
  <2>7. inviting[r].left \in Int /\ Cardinality(new) <= inviting[r].left
    BY <1>1, <1>3 DEF TypeInv, Counted
  <2>8. Members(o)' + Cardinality(Pending(o)') <= Seats
    BY <1>2, <2>4, <2>6, <2>7
  <2> QED  BY <2>2, <2>3, <2>8
<1> QED  BY <1>7, <1>8

LEMMA ReadCovers ==
  ASSUME SeatInv, NEW p \in People, NEW l \in Links, ReadAccept(p, l), NEW o \in Orgs,
         link[l].org = o, Covered(o), Roomy(o)
  PROVE  Covered(o)' /\ Roomy(o)'
<1> USE DEF SeatInv
<1>1. /\ UNCHANGED <<member, link, inviting, raced>> /\ link[l].live /\ Members(o) < Seats
      /\ \A k \in Links : k # l => accepting'[k] = accepting[k]
  BY DEF ReadAccept, TypeInv
<1>2. Members(o)' = Members(o) /\ Pending(o)' = Pending(o)  BY <1>1 DEF Members, Pending
<1>3. Members(o) \in Nat  BY MembersType
<1>4. Covered(o)'  BY <1>1, <1>2 DEF Covered
<1>5. Roomy(o)'  BY <1>1, <1>2, <1>3 DEF Roomy
<1> QED  BY <1>4, <1>5

\* Who accepts takes the place of the invitation that was open for them.
LEMMA AcceptCovers ==
  ASSUME SeatInv, NEW l \in Links, WriteAccept(l), NEW o \in Orgs, link[l].org = o,
         member[accepting[l]].org = None, Covered(o), Roomy(o)
  PROVE  Covered(o)' /\ Roomy(o)'
<1> USE DEF SeatInv
<1> DEFINE p == accepting[l]
           others == \E k \in Links \ {l} : accepting[k] # None /\ link[k].org = o
<1>1. /\ accepting[l] # None /\ accepting' = [accepting EXCEPT ![l] = None]
      /\ member' = [member EXCEPT ![p] = Seat(o, l)] /\ inviting' = inviting
      /\ link' = [link EXCEPT ![l] = [link[l] EXCEPT !.status = "accepted"]]
      /\ Overlap(o, "acceptances", others)
  BY DEF WriteAccept
<1>2. p \in People /\ member[p].org = None  BY <1>1 DEF TypeInv
<1>3. /\ link[l].status = "pending"
      /\ link'[l].status = "accepted"
      /\ \A k \in Links : k # l => link'[k] = link[k] /\ accepting'[k] = accepting[k]
      /\ accepting'[l] = None
  BY <1>1 DEF LinksSent, TypeInv, Invitation
<1>4. raced[o] \subseteq raced'[o] /\ (others => "acceptances" \in raced'[o])
  BY <1>1, Marks
<1> HIDE DEF p
<1>5. Members(o)' = Members(o) + 1 /\ Members(o) \in Nat
  <2>1. IsFiniteSet(Sitting(o)) /\ Cardinality(Sitting(o)) = Members(o) /\ Members(o) \in Nat
    BY MembersType DEF Sitting, Members
  <2>2. p \notin Sitting(o) /\ Sitting(o)' = Sitting(o) \cup {p}
    BY <1>1, <1>2 DEF Sitting, Seat, TypeInv
  <2>3. Members(o)' = Cardinality(Sitting(o)')  BY DEF Sitting, Members
  <2>4. Cardinality(Sitting(o) \cup {p}) = Cardinality(Sitting(o)) + 1
    BY ONLY <2>1, <2>2, FS_AddElement
  <2> QED  BY <2>1, <2>2, <2>3, <2>4
<1>6. Roomy(o)'
  <2> SUFFICES ASSUME "acceptances" \notin raced'[o]
               PROVE  /\ Members(o)' <= Seats
                      /\ \A k \in Links : accepting'[k] # None => link'[k].org # o
    BY DEF Roomy
  <2>1. "acceptances" \notin raced[o] /\ ~others  BY <1>4
  <2>2. Members(o) < Seats  BY <1>1, <2>1 DEF Roomy
  <2> QED  BY <1>3, <1>5, <2>1, <2>2
<1>7. Covered(o)'
  <2> SUFFICES ASSUME raced'[o] \cap {"requests", "expiry"} = {}
               PROVE  /\ Members(o)' + Cardinality(Pending(o)') <= Seats
                      /\ \A r \in Requests : inviting[r] # None /\ inviting[r].org = o =>
                           Members(o)' + Cardinality(Pending(o)') + inviting[r].left <= Seats
                      /\ \A k \in Links : accepting'[k] # None /\ link'[k].org = o => link'[k].live
    BY <1>1 DEF Covered
  <2>1. raced[o] \cap {"requests", "expiry"} = {}  BY <1>4
  <2>2. link[l].live  BY <1>1, <2>1 DEF Covered
  <2>3. l \in Pending(o) /\ Pending(o)' = Pending(o) \ {l}
    BY <1>3, <2>2 DEF Pending
  <2>4. /\ Cardinality(Pending(o)') = Cardinality(Pending(o)) - 1
        /\ Cardinality(Pending(o)) \in Nat
    <3>1. Pending(o) \in SUBSET Links  BY DEF Pending
    <3>2. IsFiniteSet(Pending(o))  BY <3>1, FS_Subset
    <3> QED  BY <2>3, <3>2, FS_RemoveElement, FS_CardinalityType
  <2>5. Members(o)' + Cardinality(Pending(o)') = Members(o) + Cardinality(Pending(o))
    BY <1>5, <2>4
  <2>6. \A k \in Links : accepting'[k] # None /\ link'[k].org = o => link'[k].live
    BY <1>3, <2>1 DEF Covered
  <2> QED  BY <2>1, <2>5, <2>6 DEF Covered
<1> QED  BY <1>6, <1>7

LEMMA CoveredStep ==
  ASSUME OversoldInv, [Next]_vars, NEW o \in Orgs
  PROVE  Covered(o)' /\ Roomy(o)'
<1> USE DEF SeatInv
<1>1. SeatInv /\ AdminsSit /\ Covered(o) /\ Roomy(o)  BY DEF OversoldInv
<1>2. \A r \in Requests : inviting[r] # None => inviting[r].left \in Int
  BY <1>1 DEF TypeInv, Counted
<1>3. ASSUME Sitting(o)' = Sitting(o), UNCHANGED <<link, inviting, accepting, raced>>
      PROVE  Covered(o)' /\ Roomy(o)'
  <2>1. Pending(o)' = Pending(o)  BY <1>3 DEF Pending
  <2> QED  BY <1>1, <1>2, <1>3, <2>1, Quiet
<1>4. ASSUME NEW p \in People, NEW x \in Orgs, CreateOrg(p, x)
      PROVE  Covered(o)' /\ Roomy(o)'
  <2>1. CASE x = o  BY <1>1, <1>4, <2>1, CreateCovers
  <2>2. CASE x # o
    <3>1. Sitting(o)' = Sitting(o)
      BY <1>1, <1>4, <2>2 DEF CreateOrg, Sitting, TypeInv, NoMember
    <3> QED  BY <1>3, <1>4, <3>1 DEF CreateOrg
  <2> QED  BY <2>1, <2>2
<1>5. ASSUME NEW s \in Sessions, WritePayment(s)
      PROVE  Covered(o)' /\ Roomy(o)'
  <2> DEFINE x == checkout[s].org
             p == org[x].admin
  <2>1. p \in People /\ member[p].org = x /\ member' = [member EXCEPT ![p] = Seat(x, None)]
    BY <1>1, <1>5 DEF WritePayment, Checkouts, OrgsPaid, AdminsSit
  <2> HIDE DEF x, p
  <2>2. Sitting(o)' = Sitting(o)  BY <1>1, <2>1 DEF Sitting, Seat, TypeInv
  <2> QED  BY <1>3, <1>5, <2>2 DEF WritePayment
<1>6. ASSUME NEW r \in Requests, NEW x \in Orgs, CountSeats(r, x)
      PROVE  Covered(o)' /\ Roomy(o)'
  <2>1. CASE x = o  BY <1>1, <1>6, <2>1, CountCovers
  <2>2. CASE x # o
    <3>1. Sitting(o)' = Sitting(o) /\ Pending(o)' = Pending(o)
      BY <1>6 DEF CountSeats, Sitting, Pending
    <3>2. \A q \in Requests : inviting'[q] # None /\ inviting'[q].org = o =>
            inviting'[q] = inviting[q]
      BY <1>1, <1>6, <2>2 DEF CountSeats, TypeInv
    <3>3. UNCHANGED <<link, accepting, raced>>  BY <1>6 DEF CountSeats
    <3> QED  BY <1>1, <1>2, <3>1, <3>2, <3>3, Quiet
  <2> QED  BY <2>1, <2>2
<1>7. ASSUME NEW r \in Requests, Invite(r)
      PROVE  Covered(o)' /\ Roomy(o)'
  <2>1. CASE inviting[r].org = o  BY <1>1, <1>7, <2>1, InviteCovers
  <2>2. CASE inviting[r].org # o
    <3>1. PICK new \in SUBSET {l \in Links : link[l].status = "none"} :
            \E to \in [new -> Emails \ inviting[r].known] :
            /\ Cardinality(new) <= inviting[r].left
            /\ \A k, l \in new : to[k] = to[l] => k = l
            /\ link' = [l \in Links |-> IF l \notin new THEN link[l] ELSE
              [status |-> "pending", org |-> inviting[r].org, email |-> to[l], live |-> TRUE]]
      BY <1>7 DEF Invite
    <3>2. \A l \in Links : link'[l].org = o => link'[l] = link[l]
      BY <2>2, <3>1
    <3>3. Pending(o)' \subseteq Pending(o)  BY <3>2 DEF Pending
    <3>4. Sitting(o)' = Sitting(o) /\ accepting' = accepting
      BY <1>7 DEF Invite, Sitting
    <3>5. \A q \in Requests : inviting'[q] # None => inviting'[q] = inviting[q]
      BY <1>1, <1>7 DEF Invite, TypeInv
    <3>6. raced[o] \subseteq raced'[o]
      BY <1>1, <1>7, Marks DEF Invite
    <3> QED  BY <1>1, <1>2, <3>2, <3>3, <3>4, <3>5, <3>6, Quiet
  <2> QED  BY <2>1, <2>2
<1>8. ASSUME NEW l \in Links, LinkExpires(l)
      PROVE  Covered(o)' /\ Roomy(o)'
  <2>1. /\ link' = [link EXCEPT ![l] = [link[l] EXCEPT !.live = FALSE]]
        /\ UNCHANGED <<member, inviting, accepting>>
        /\ Overlap(link[l].org, "expiry", accepting[l] # None)
    BY <1>8 DEF LinkExpires
  <2>2. /\ link'[l].org = link[l].org /\ link'[l].live = FALSE
        /\ link'[l].status = link[l].status
        /\ \A k \in Links : k # l => link'[k] = link[k]
    BY <1>1, <2>1 DEF TypeInv, Invitation
  <2>3. raced[o] \subseteq raced'[o]  BY <1>1, <2>1, Marks
  <2>4. link[l].org = o /\ accepting[l] # None => "expiry" \in raced'[o]
    BY <1>1, <2>1, Marks
  <2>5. Pending(o)' \subseteq Pending(o) /\ Sitting(o)' = Sitting(o)
    BY <2>1, <2>2 DEF Pending, Sitting
  <2>6. \A k \in Links : accepting'[k] # None /\ link'[k].org = o =>
          /\ accepting[k] # None /\ link[k].org = o
          /\ link[k].live => link'[k].live \/ "expiry" \in raced'[o]
    BY <2>1, <2>2, <2>4
  <2> QED  BY <1>1, <1>2, <2>1, <2>3, <2>5, <2>6, Quiet
<1>9. ASSUME NEW l \in Links, MarkExpired(l)
      PROVE  Covered(o)' /\ Roomy(o)'
  <2>1. /\ link' = [link EXCEPT ![l] = [link[l] EXCEPT !.status = "expired"]]
        /\ UNCHANGED <<member, inviting, accepting, raced>>
    BY <1>9 DEF MarkExpired
  <2>2. /\ link'[l].org = link[l].org /\ link'[l].live = link[l].live
        /\ link'[l].status = "expired"
        /\ \A k \in Links : k # l => link'[k] = link[k]
    BY <1>1, <2>1 DEF TypeInv, Invitation
  <2>3. Pending(o)' \subseteq Pending(o) /\ Sitting(o)' = Sitting(o)
    BY <2>1, <2>2 DEF Pending, Sitting
  <2>4. \A k \in Links : link'[k].org = link[k].org /\ link'[k].live = link[k].live
    BY <2>2
  <2> QED  BY <1>1, <1>2, <2>1, <2>3, <2>4, Quiet
<1>10. ASSUME NEW p \in People, NEW l \in Links, ReadAccept(p, l)
       PROVE  Covered(o)' /\ Roomy(o)'
  <2>1. CASE link[l].org = o  BY <1>1, <1>10, <2>1, ReadCovers
  <2>2. CASE link[l].org # o
    <3>1. /\ UNCHANGED <<member, link, inviting, raced>>
          /\ \A k \in Links : k # l => accepting'[k] = accepting[k]
      BY <1>1, <1>10 DEF ReadAccept, TypeInv
    <3>2. Pending(o)' = Pending(o) /\ Sitting(o)' = Sitting(o)  BY <3>1 DEF Pending, Sitting
    <3> QED  BY <1>1, <1>2, <2>2, <3>1, <3>2, Quiet
  <2> QED  BY <2>1, <2>2
<1>11. ASSUME NEW l \in Links, WriteAccept(l)
       PROVE  Covered(o)' /\ Roomy(o)'
  <2> DEFINE p == accepting[l]
  <2>1. /\ p # None /\ p \in People /\ inviting' = inviting /\ accepting'[l] = None
        /\ \A k \in Links : k # l => accepting'[k] = accepting[k]
    BY <1>1, <1>11 DEF WriteAccept, TypeInv
  <2>2. CASE member[p].org # None
    <3>1. UNCHANGED <<member, link, raced>>  BY <1>11, <2>2 DEF WriteAccept
    <3>2. Pending(o)' = Pending(o) /\ Sitting(o)' = Sitting(o)  BY <3>1 DEF Pending, Sitting
    <3> QED  BY <1>1, <1>2, <2>1, <3>1, <3>2, Quiet
  <2>3. CASE member[p].org = None /\ link[l].org = o
    BY <1>1, <1>11, <2>3, AcceptCovers
  <2>4. CASE member[p].org = None /\ link[l].org # o
    <3>1. /\ member' = [member EXCEPT ![p] = Seat(link[l].org, l)]
          /\ link' = [link EXCEPT ![l] = [link[l] EXCEPT !.status = "accepted"]]
          /\ Overlap(link[l].org, "acceptances",
               \E k \in Links \ {l} : accepting[k] # None /\ link[k].org = link[l].org)
      BY <1>11, <2>4 DEF WriteAccept
    <3>2. /\ link'[l].org = link[l].org /\ \A k \in Links : k # l => link'[k] = link[k]
      BY <1>1, <3>1 DEF TypeInv, Invitation
    <3>3. Pending(o)' \subseteq Pending(o)  BY <2>4, <3>2 DEF Pending
    <3>4. Sitting(o)' = Sitting(o)
      BY <1>1, <2>1, <2>4, <3>1 DEF Sitting, Seat, TypeInv
    <3>5. raced[o] \subseteq raced'[o]  BY <1>1, <3>1, Marks
    <3> QED  BY <1>1, <1>2, <2>1, <3>2, <3>3, <3>4, <3>5, Quiet
  <2> QED  BY <2>2, <2>3, <2>4
<1>12. ASSUME NEW j \in Jobs,
              Complete(j) \/ Fail(j) \/ ContainerFails(j) \/ \E p \in People : Submit(p, j)
       PROVE  Covered(o)' /\ Roomy(o)'
  <2>1. \A q \in People : member'[q].org = member[q].org
    BY <1>1, <1>12, MoveSeats DEF Complete, Fail, ContainerFails, Submit
  <2>2. Sitting(o)' = Sitting(o)  BY <2>1 DEF Sitting
  <2>3. UNCHANGED <<link, inviting, accepting, raced>>
    BY <1>12 DEF Complete, Fail, ContainerFails, Submit
  <2> QED  BY <1>3, <2>2, <2>3
<1>13. ASSUME \/ UNCHANGED vars
              \/ \E s \in Sessions : \/ Pay(s) \/ ReadPayment(s)
                                     \/ \E x \in Orgs : OpenCheckout(s, x)
       PROVE  Covered(o)' /\ Roomy(o)'
  <2>1. UNCHANGED <<member, link, inviting, accepting, raced>>
    BY <1>13 DEF vars, Pay, ReadPayment, OpenCheckout
  <2>2. Sitting(o)' = Sitting(o)  BY <2>1 DEF Sitting
  <2> QED  BY <1>3, <2>1, <2>2
<1> QED
  BY <1>4, <1>5, <1>6, <1>7, <1>8, <1>9, <1>10, <1>11, <1>12, <1>13 DEF Next

\* However requests to invite and to accept interleave, an organization has more members
\* than seats only after two acceptances have overlapped, and two requests to invite or an
\* acceptance and the expiry of its invitation (create_invitations, accept_invitation).
THEOREM OversellingTakesTwoRaces == Spec => []OversoldTakesTwoRaces
<1>1. Init => OversoldInv
  <2> SUFFICES ASSUME Init PROVE OversoldInv  OBVIOUS
  <2>1. SeatInv  BY SeatInit
  <2>2. AdminsSit  BY DEF Init, AdminsSit
  <2>3. ASSUME NEW o \in Orgs PROVE Covered(o) /\ Roomy(o)
    <3>1. /\ \A r \in Requests : inviting[r] = None
          /\ \A l \in Links : accepting[l] = None
      BY DEF Init
    <3>2. {p \in People : member[p].org = o} = {} /\ Pending(o) = {}
      BY DEF Init, NoMember, Pending
    <3>3. Members(o) = 0 /\ Cardinality(Pending(o)) = 0
      BY <3>2, FS_EmptySet DEF Members
    <3> QED  BY <3>1, <3>3 DEF Covered, Roomy
  <2> QED  BY <2>1, <2>2, <2>3 DEF OversoldInv
<1>2. OversoldInv /\ [Next]_vars => OversoldInv'
  BY SeatStep, AdminsStep, CoveredStep DEF OversoldInv
<1> QED  BY <1>1, <1>2, OversoldInvCovers, PTL DEF Spec
=============================================================================
