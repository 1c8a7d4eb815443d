------------------------------ MODULE Accounts ------------------------------
(***************************************************************************)
(* Accounts, invitations and cookie sessions: AccountService               *)
(* (modules/auth/service.py) behind api/routers/auth.py.                   *)
(*                                                                         *)
(* A request is two steps.  On arrival its cookie is resolved to an actor   *)
(* in a transaction of its own; later the operation runs in a transaction   *)
(* that holds the advisory locks to its end, and trusts the actor it was    *)
(* given and a clock read before the lock was granted.  Other requests and  *)
(* the clock may come between.                                             *)
(***************************************************************************)
EXTENDS Naturals, FiniteSets

CONSTANTS
    Users,          \* account identifiers
    Invitations,    \* invitation codes
    Cookies,        \* session tokens
    Capacity,       \* settings.active_account_capacity
    InvitationTTL,  \* the validity of invitations
    SessionTTL,     \* SESSION_TTL_SECONDS
    MaxTime,        \* bound on the clock
    MaxRequests,    \* bound on the requests under way
    Nobody          \* no account, no invitation

ASSUME AccountConstantsOK ==
    /\ Capacity \in Nat \ {0}
    /\ InvitationTTL \in Nat \ {0} /\ SessionTTL \in Nat \ {0}
    /\ MaxTime \in Nat /\ MaxRequests \in Nat
    /\ IsFiniteSet(Users) /\ IsFiniteSet(Invitations)
    /\ Nobody \notin Users \cup Invitations

VARIABLES
    account,     \* accounts
    invitation,  \* registration_invitations
    session,     \* account_sessions
    request,     \* requests whose cookie was resolved
    clock        \* the time

vars == <<account, invitation, session, request, clock>>

-----------------------------------------------------------------------------

Role == {"admin", "user"}
Status == {"active", "suspended"}
Keep == "keep"  \* a field the administrator leaves alone

Account == [status : Status \cup {"none"}, role : Role]
Invitation == [status : {"none", "open", "used", "revoked"}, expires : Nat]
Session == [user : Users \cup {Nobody}, open : BOOLEAN, expires : Nat]

Register == [op : {"register"}, user : Users, code : Invitations \cup {Nobody}, since : Nat]
Login == [op : {"login"}, user : Users, since : Nat]
Update == [op : {"update"}, actor : Users, user : Users, role : Role \cup {Keep},
           status : Status \cup {Keep}, since : Nat]
Invite == [op : {"invite"}, actor : Users, code : Invitations, since : Nat]
Request == Register \cup Login \cup Update \cup Invite

TypeOK ==
    /\ account \in [Users -> Account]
    /\ invitation \in [Invitations -> Invitation]
    /\ session \in [Cookies -> Session]
    /\ request \subseteq Request
    /\ clock \in Nat

Init ==
    /\ account = [u \in Users |-> [status |-> "none", role |-> "user"]]
    /\ invitation = [i \in Invitations |-> [status |-> "none", expires |-> 0]]
    /\ session = [c \in Cookies |-> [user |-> Nobody, open |-> FALSE, expires |-> 0]]
    /\ request = {}
    /\ clock = 0

Existing == {u \in Users : account[u].status # "none"}
Active == {u \in Users : account[u].status = "active"}
ActiveAdmins == {u \in Active : account[u].role = "admin"}

\* Invitations that hold a seat
Reserved(now) ==
    {i \in Invitations : invitation[i].status = "open" /\ invitation[i].expires > now}

\* AccountService._seat_usage: occupied_seats
Occupied(now) == Cardinality(Active) + Cardinality(Reserved(now))

-----------------------------------------------------------------------------
(* Arrival of a request                                                    *)

\* AccountService.resolve
Resolves(c, u) ==
    /\ session[c].user = u /\ session[c].open
    /\ session[c].expires > clock
    /\ account[u].status = "active"

IsAdmin(u) == account[u].role = "admin" /\ \E c \in Cookies : Resolves(c, u)

Arrive(r) ==
    /\ Cardinality(request) < MaxRequests
    /\ request' = request \cup {r}
    /\ UNCHANGED <<account, invitation, session, clock>>

ArriveVisitor ==
    \E u \in Users :
        \/ \E i \in Invitations \cup {Nobody} :
              Arrive([op |-> "register", user |-> u, code |-> i, since |-> clock])
        \/ Arrive([op |-> "login", user |-> u, since |-> clock])

\* _require_admin
ArriveAdmin ==
    \E a \in Users : IsAdmin(a) /\
        \/ \E u \in Users, role \in Role \cup {Keep}, status \in Status \cup {Keep} :
              Arrive([op |-> "update", actor |-> a, user |-> u, role |-> role,
                      status |-> status, since |-> clock])
        \/ \E i \in Invitations :
              Arrive([op |-> "invite", actor |-> a, code |-> i, since |-> clock])

-----------------------------------------------------------------------------
(* Operations.  Each reads the clock before it gets its locks.             *)

\* A new session of u under an unused token (AccountService._add_session)
Opened(c, u, now) ==
    [session EXCEPT ![c] = [user |-> u, open |-> TRUE, expires |-> now + SessionTTL]]

Fresh(c) == session[c].user = Nobody

\* AccountService._valid_invitation
ValidInvitation(i, now) ==
    /\ i # Nobody
    /\ invitation[i].status = "open"
    /\ invitation[i].expires > now

\* Mutant: the second comparison is missing
SeatForRegistrationActive(now) == Cardinality(Active) < Capacity

\* The seat the invitation reserved may be gone when the clock is stale.
SeatForRegistration(now) ==
    /\ Cardinality(Active) < Capacity
    /\ Occupied(now) <= Capacity

\* AccountService.register: the first account is an administrator and needs no code.
DoRegister(r, now, c) ==
    LET first == Existing = {} IN
    /\ r.op = "register"
    /\ first \/ ValidInvitation(r.code, now)
    /\ r.user \notin Existing
    /\ SeatForRegistration(now)
    /\ Fresh(c)
    /\ account' = [account EXCEPT ![r.user] =
                     [status |-> "active", role |-> IF first THEN "admin" ELSE "user"]]
    /\ invitation' = IF first THEN invitation
                     ELSE [invitation EXCEPT ![r.code].status = "used"]
    /\ session' = Opened(c, r.user, now)
    /\ request' = request \ {r}
    /\ UNCHANGED clock

\* Mutant: the password of an existing account is enough
MayLoginKnown(u) == u \in Existing

\* The status is read in the row that login keeps locked until it commits.
MayLogin(u) == account[u].status = "active"

\* AccountService.login with the right password
DoLogin(r, now, c) ==
    /\ r.op = "login"
    /\ MayLogin(r.user)
    /\ Fresh(c)
    /\ session' = Opened(c, r.user, now)
    /\ request' = request \ {r}
    /\ UNCHANGED <<account, invitation, clock>>

\* Mutant: only the account itself is kept from giving up its rights
MayChangeOthers(r) ==
    LET row == [status |-> IF r.status = Keep THEN account[r.user].status ELSE r.status,
                role |-> IF r.role = Keep THEN account[r.user].role ELSE r.role]
        remains == row.status = "active" /\ row.role = "admin" IN
    r.user = r.actor => remains

Updated(r) ==
    [status |-> IF r.status = Keep THEN account[r.user].status ELSE r.status,
     role |-> IF r.role = Keep THEN account[r.user].role ELSE r.role]

\* An administrator keeps the own rights, and one active administrator remains.
MayChange(r) ==
    LET remains == Updated(r).status = "active" /\ Updated(r).role = "admin" IN
    /\ r.user = r.actor => remains
    /\ r.user \in ActiveAdmins /\ ~remains => Cardinality(ActiveAdmins) > 1

SeatForReactivation(r, now) ==
    account[r.user].status = "suspended" /\ r.status = "active" => Occupied(now) < Capacity

\* Mutant: a change of the account sets the state of its sessions
RevokedOrRevived(r) ==
    [c \in Cookies |-> IF r.status # Keep /\ session[c].user = r.user
                       THEN [session[c] EXCEPT !.open = r.status = "active"]
                       ELSE session[c]]

\* A suspension revokes the open sessions of the account.
Revoked(r) ==
    [c \in Cookies |-> IF r.status = "suspended" /\ session[c].user = r.user
                       THEN [session[c] EXCEPT !.open = FALSE]
                       ELSE session[c]]

\* AccountService.update_account
DoUpdate(r, now) ==
    /\ r.op = "update"
    /\ r.user \in Existing
    /\ MayChange(r)
    /\ SeatForReactivation(r, now)
    /\ account' = [account EXCEPT ![r.user] = Updated(r)]
    /\ session' = Revoked(r)
    /\ request' = request \ {r}
    /\ UNCHANGED <<invitation, clock>>

\* AccountService.create_invitation
DoInvite(r, now) ==
    /\ r.op = "invite"
    /\ invitation[r.code].status = "none"
    /\ Occupied(now) < Capacity
    /\ invitation' = [invitation EXCEPT ![r.code] =
                        [status |-> "open", expires |-> now + InvitationTTL]]
    /\ request' = request \ {r}
    /\ UNCHANGED <<account, session, clock>>

\* A request that is refused, or gives up
Refuse(r) ==
    /\ request' = request \ {r}
    /\ UNCHANGED <<account, invitation, session, clock>>

\* AccountService.revoke_invitation, by an administrator of any time
Revoke(i) ==
    /\ invitation[i].status = "open"
    /\ invitation' = [invitation EXCEPT ![i].status = "revoked"]
    /\ UNCHANGED <<account, session, request, clock>>

\* AccountService.logout
Logout(c) ==
    /\ session[c].open
    /\ session' = [session EXCEPT ![c].open = FALSE]
    /\ UNCHANGED <<account, invitation, request, clock>>

Tick ==
    /\ clock < MaxTime
    /\ clock' = clock + 1
    /\ UNCHANGED <<account, invitation, session, request>>

Serve(r) ==
    \E now \in r.since..clock :
        \/ \E c \in Cookies : DoRegister(r, now, c) \/ DoLogin(r, now, c)
        \/ DoUpdate(r, now)
        \/ DoInvite(r, now)

Next ==
    \/ ArriveVisitor \/ ArriveAdmin
    \/ \E r \in request : Serve(r) \/ Refuse(r)
    \/ \E i \in Invitations : Revoke(i)
    \/ \E c \in Cookies : Logout(c)
    \/ Tick

Spec == Init /\ [][Next]_vars

-----------------------------------------------------------------------------
(* What the accounts promise                                               *)

\* Seats are never oversold: active accounts and valid invitations together fit the
\* capacity, although the requests compete for the last seat with clocks of different
\* age and expired invitations release theirs.  So whoever holds a valid invitation
\* can register.
SeatsAreKept == Occupied(clock) <= Capacity

\* The installation never locks itself out: two administrators who demote or suspend
\* each other at the same time, each resolved before the other's change, leave one.
LastAdminStays == Existing # {} => ActiveAdmins # {}

\* A suspended account is locked out: a login that began before the suspension opens
\* no session after it, and no session of an earlier time comes back.
SuspendedIsLockedOut ==
    \A c \in Cookies : session[c].open => account[session[c].user].status = "active"

\* What was closed stays closed: reactivating an account or using a code again revives
\* neither a session nor an invitation.
ClosedStaysClosed ==
    [][/\ \A c \in Cookies : session[c].user # Nobody /\ ~session[c].open =>
             ~session'[c].open
       /\ \A i \in Invitations : invitation[i].status \in {"used", "revoked"} =>
             invitation'[i] = invitation[i]]_vars
=============================================================================
