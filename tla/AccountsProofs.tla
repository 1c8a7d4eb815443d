--------------------------- MODULE AccountsProofs ---------------------------
(***************************************************************************)
(* Proofs about Accounts, for any people, codes, tokens, capacity and       *)
(* bounds.  Section 1 proves the type invariant, section 2 what the sets    *)
(* that are counted do, section 3 the inductive invariant and what it        *)
(* implies.                                                                *)
(***************************************************************************)
EXTENDS Accounts, FiniteSetTheorems, TLAPS

-----------------------------------------------------------------------------
(* 1. Types                                                                *)

LEMMA Kinds ==
    ASSUME NEW r \in Request
    PROVE  /\ r.op = "register" => r \in Register
           /\ r.op = "login" => r \in Login
           /\ r.op = "update" => r \in Update
           /\ r.op = "invite" => r \in Invite
           /\ r.user \in Users \/ r.op = "invite"
           /\ r.since \in Nat
BY DEF Request, Register, Login, Update, Invite

LEMMA UpdatedType ==
    ASSUME TypeOK, NEW r \in Update
    PROVE  /\ Updated(r) \in [status : Status \cup {"none"}, role : Role]
           /\ r.user \in Existing => Updated(r).status \in Status
<1>1. account[r.user] \in Account
  BY DEF TypeOK, Update
<1> QED
  BY <1>1 DEF Updated, Update, Account, Keep, Existing, Status

LEMMA RevokedType ==
    ASSUME TypeOK, NEW r
    PROVE  Revoked(r) \in [Cookies -> Session]
<1>1. ASSUME NEW c \in Cookies
      PROVE  [session[c] EXCEPT !.open = FALSE] \in Session /\ session[c] \in Session
  BY DEF TypeOK, Session
<1> QED
  BY <1>1 DEF Revoked

LEMMA OpenedType ==
    ASSUME TypeOK, NEW c \in Cookies, NEW u \in Users, NEW now \in Nat
    PROVE  Opened(c, u, now) \in [Cookies -> Session]
<1>1. now + SessionTTL \in Nat
  BY AccountConstantsOK
<1> QED
  BY <1>1 DEF TypeOK, Opened, Session

\* A request that arrives was sent at this time, by an account if it names an actor.
Sent(r) == r.since = clock /\ (r.op \in {"update", "invite"} => r.actor \in Existing)

LEMMA ArrivedType ==
    ASSUME TypeOK, ArriveVisitor \/ ArriveAdmin
    PROVE  \E r \in Request : Arrive(r) /\ Sent(r)
<1>1. ASSUME NEW u \in Users, NEW i \in Invitations \cup {Nobody}
      PROVE  LET r == [op |-> "register", user |-> u, code |-> i, since |-> clock] IN
             r \in Request /\ Sent(r)
  BY DEF TypeOK, Request, Register, Sent
<1>2. ASSUME NEW u \in Users
      PROVE  LET r == [op |-> "login", user |-> u, since |-> clock] IN
             r \in Request /\ Sent(r)
  BY DEF TypeOK, Request, Login, Sent
<1>3. ASSUME NEW a \in Existing, NEW u \in Users, NEW role \in Role \cup {Keep},
             NEW status \in Status \cup {Keep}
      PROVE  LET r == [op |-> "update", actor |-> a, user |-> u, role |-> role,
                       status |-> status, since |-> clock] IN
             r \in Request /\ Sent(r)
  BY DEF TypeOK, Request, Update, Sent, Existing
<1>4. ASSUME NEW a \in Existing, NEW i \in Invitations
      PROVE  LET r == [op |-> "invite", actor |-> a, code |-> i, since |-> clock] IN
             r \in Request /\ Sent(r)
  BY DEF TypeOK, Request, Invite, Sent, Existing
<1>5. CASE ArriveVisitor
  <2>1. PICK u \in Users :
           \/ \E i \in Invitations \cup {Nobody} :
                 Arrive([op |-> "register", user |-> u, code |-> i, since |-> clock])
           \/ Arrive([op |-> "login", user |-> u, since |-> clock])
    BY <1>5 DEF ArriveVisitor
  <2> QED
    BY <1>1, <1>2, <2>1
<1>6. CASE ArriveAdmin
  <2>1. PICK a \in Users : IsAdmin(a) /\
           (\/ \E u \in Users, role \in Role \cup {Keep}, status \in Status \cup {Keep} :
                  Arrive([op |-> "update", actor |-> a, user |-> u, role |-> role,
                          status |-> status, since |-> clock])
            \/ \E i \in Invitations :
                  Arrive([op |-> "invite", actor |-> a, code |-> i, since |-> clock]))
    BY <1>6 DEF ArriveAdmin
  <2>2. a \in Existing
    BY <2>1 DEF IsAdmin, Resolves, Existing
  <2>3. CASE \E u \in Users, role \in Role \cup {Keep}, status \in Status \cup {Keep} :
                  Arrive([op |-> "update", actor |-> a, user |-> u, role |-> role,
                          status |-> status, since |-> clock])
    BY <1>3, <2>2, <2>3
  <2>4. CASE \E i \in Invitations :
                  Arrive([op |-> "invite", actor |-> a, code |-> i, since |-> clock])
    BY <1>4, <2>2, <2>4
  <2> QED
    BY <2>1, <2>3, <2>4
<1> QED
  BY <1>5, <1>6

LEMMA TypeInit == Init => TypeOK
BY DEF Init, TypeOK, Account, Invitation, Session, Role

LEMMA RegisterType ==
    ASSUME TypeOK, NEW r \in Register, NEW now \in Nat, NEW c \in Cookies, DoRegister(r, now, c)
    PROVE  TypeOK'
<1>1. account' \in [Users -> Account]
  BY DEF DoRegister, TypeOK, Account, Status, Role, Register
<1>2. invitation' \in [Invitations -> Invitation]
  <2>1. ASSUME NEW i \in Invitations
        PROVE  [invitation[i] EXCEPT !.status = "used"] \in Invitation
    BY DEF TypeOK, Invitation
  <2> QED
    BY <2>1 DEF DoRegister, TypeOK
<1>3. session' \in [Cookies -> Session]
  BY OpenedType DEF DoRegister, Register
<1> QED
  BY <1>1, <1>2, <1>3 DEF TypeOK, DoRegister

LEMMA LoginType ==
    ASSUME TypeOK, NEW r \in Login, NEW now \in Nat, NEW c \in Cookies, DoLogin(r, now, c)
    PROVE  TypeOK'
<1>1. session' \in [Cookies -> Session]
  BY OpenedType DEF DoLogin, Login
<1> QED
  BY <1>1 DEF TypeOK, DoLogin

LEMMA UpdateType ==
    ASSUME TypeOK, NEW r \in Update, NEW now \in Nat, DoUpdate(r, now)
    PROVE  TypeOK'
<1>1. account' \in [Users -> Account]
  BY UpdatedType DEF DoUpdate, TypeOK, Account
<1>2. session' \in [Cookies -> Session]
  BY RevokedType DEF DoUpdate
<1> QED
  BY <1>1, <1>2 DEF TypeOK, DoUpdate

LEMMA InviteType ==
    ASSUME TypeOK, NEW r \in Invite, NEW now \in Nat, DoInvite(r, now)
    PROVE  TypeOK'
<1>1. now + InvitationTTL \in Nat
  BY AccountConstantsOK
<1>2. invitation' \in [Invitations -> Invitation]
  BY <1>1 DEF DoInvite, TypeOK, Invitation
<1> QED
  BY <1>2 DEF TypeOK, DoInvite

\* The time an operation takes for the present is between the arrival and the clock.
LEMMA Served ==
    ASSUME TypeOK, NEW r \in request, Serve(r)
    PROVE  \E now \in Nat :
              /\ now <= clock
              /\ \/ r \in Register /\ \E c \in Cookies : DoRegister(r, now, c)
                 \/ r \in Login /\ \E c \in Cookies : DoLogin(r, now, c)
                 \/ r \in Update /\ DoUpdate(r, now)
                 \/ r \in Invite /\ DoInvite(r, now)
<1>1. r \in Request
  BY DEF TypeOK
<1>2. PICK now \in r.since..clock :
         \/ \E c \in Cookies : DoRegister(r, now, c) \/ DoLogin(r, now, c)
         \/ DoUpdate(r, now)
         \/ DoInvite(r, now)
  BY DEF Serve
<1>3. now \in Nat /\ now <= clock
  BY <1>1, <1>2, Kinds DEF TypeOK
<1> QED
  BY <1>1, <1>2, <1>3, Kinds DEF DoRegister, DoLogin, DoUpdate, DoInvite

LEMMA TypeServe ==
    ASSUME TypeOK, NEW r \in request, Serve(r)
    PROVE  TypeOK'
BY Served, RegisterType, LoginType, UpdateType, InviteType

LEMMA TypeStep ==
    ASSUME TypeOK, [Next]_vars
    PROVE  TypeOK'
<1>1. CASE ArriveVisitor \/ ArriveAdmin
  <2>1. PICK r \in Request : Arrive(r)
    BY <1>1, ArrivedType
  <2> QED
    BY <2>1 DEF TypeOK, Arrive
<1>2. ASSUME NEW r \in request, Serve(r) PROVE TypeOK'
  BY <1>2, TypeServe
<1>3. ASSUME NEW r \in request, Refuse(r) PROVE TypeOK'
  BY <1>3 DEF TypeOK, Refuse
<1>4. ASSUME NEW i \in Invitations, Revoke(i) PROVE TypeOK'
  <2>1. [invitation[i] EXCEPT !.status = "revoked"] \in Invitation
    BY DEF TypeOK, Invitation
  <2> QED
    BY <1>4, <2>1 DEF TypeOK, Revoke
<1>5. ASSUME NEW c \in Cookies, Logout(c) PROVE TypeOK'
  <2>1. [session[c] EXCEPT !.open = FALSE] \in Session
    BY DEF TypeOK, Session
  <2> QED
    BY <1>5, <2>1 DEF TypeOK, Logout
<1>6. CASE Tick
  BY <1>6 DEF TypeOK, Tick
<1>7. CASE UNCHANGED vars
  BY <1>7 DEF TypeOK, vars
<1> QED
  BY <1>1, <1>2, <1>3, <1>4, <1>5, <1>6, <1>7 DEF Next

\* Every account, invitation, session and request has its type.
THEOREM Types == Spec => []TypeOK
<1>1. Init => TypeOK
  BY TypeInit
<1>2. TypeOK /\ [Next]_vars => TypeOK'
  BY TypeStep
<1> QED
  BY <1>1, <1>2, PTL DEF Spec

-----------------------------------------------------------------------------
(* 2. Sets that are counted                                                *)

\* Sets of accounts and codes are finite; smaller sets count less.
LEMMA Counts ==
    ASSUME NEW S \in SUBSET Users, NEW T \in SUBSET Invitations
    PROVE  /\ IsFiniteSet(S) /\ Cardinality(S) \in Nat
           /\ IsFiniteSet(T) /\ Cardinality(T) \in Nat
           /\ \A X \in SUBSET S : Cardinality(X) <= Cardinality(S)
           /\ \A X \in SUBSET T : Cardinality(X) <= Cardinality(T)
<1>1. IsFiniteSet(S) /\ IsFiniteSet(T)
  BY AccountConstantsOK, FS_Subset
<1> QED
  BY <1>1, FS_Subset, FS_CardinalityType

\* One more account and no more codes, or as many accounts and one more code
LEMMA OneMore ==
    ASSUME NEW A \in SUBSET Users, NEW B \in SUBSET Invitations,
           NEW u, NEW i, NEW A2 \in SUBSET (A \cup {u}), NEW B2 \in SUBSET (B \cup {i})
    PROVE  /\ Cardinality(A2) <= Cardinality(A) + 1
           /\ Cardinality(B2) <= Cardinality(B) + 1
           /\ Cardinality(A2) \in Nat /\ Cardinality(B2) \in Nat
<1>1. IsFiniteSet(A) /\ IsFiniteSet(B)
  BY Counts
<1>2. IsFiniteSet(A \cup {u}) /\ IsFiniteSet(B \cup {i})
  BY <1>1, FS_AddElement
<1>3. /\ Cardinality(A) \in Nat /\ Cardinality(A \cup {u}) <= Cardinality(A) + 1
      /\ Cardinality(B) \in Nat /\ Cardinality(B \cup {i}) <= Cardinality(B) + 1
      /\ Cardinality(A \cup {u}) \in Nat /\ Cardinality(B \cup {i}) \in Nat
  BY <1>1, <1>2, FS_AddElement, FS_CardinalityType
<1>4. /\ IsFiniteSet(A2) /\ Cardinality(A2) <= Cardinality(A \cup {u})
      /\ IsFiniteSet(B2) /\ Cardinality(B2) <= Cardinality(B \cup {i})
  BY <1>2, FS_Subset
<1>5. Cardinality(A2) \in Nat /\ Cardinality(B2) \in Nat
  BY <1>4, FS_CardinalityType
<1> QED
  BY <1>3, <1>4, <1>5

\* Without a code that is in the set, one less is counted.
LEMMA OneLess ==
    ASSUME NEW B \in SUBSET Invitations, NEW i \in B, NEW B2 \in SUBSET (B \ {i})
    PROVE  Cardinality(B2) + 1 <= Cardinality(B) /\ Cardinality(B2) \in Nat
<1>1. IsFiniteSet(B) /\ Cardinality(B) \in Nat
  BY Counts
<1>2. IsFiniteSet(B \ {i}) /\ Cardinality(B \ {i}) = Cardinality(B) - 1
  BY <1>1, FS_RemoveElement
<1>3. IsFiniteSet(B2) /\ Cardinality(B2) <= Cardinality(B \ {i})
  BY <1>2, FS_Subset
<1>4. Cardinality(B2) \in Nat
  BY <1>3, FS_CardinalityType
<1> QED
  BY <1>1, <1>2, <1>3, <1>4

\* A later clock reserves fewer seats.
LEMMA ReservedShrinks ==
    ASSUME TypeOK, NEW now \in Nat, now <= clock
    PROVE  Reserved(clock) \subseteq Reserved(now)
<1>1. ASSUME NEW i \in Invitations, invitation[i].expires > clock
      PROVE  invitation[i].expires > now
  <2>1. invitation[i].expires \in Nat
    BY DEF TypeOK, Invitation
  <2> QED
    BY <1>1, <2>1 DEF TypeOK
<1> QED
  BY <1>1 DEF Reserved

\* Where more than one counts, another remains.
LEMMA AnotherRemains ==
    ASSUME NEW S \in SUBSET Users, Cardinality(S) > 1, NEW u
    PROVE  S \ {u} # {}
<1>1. IsFiniteSet(S) /\ Cardinality(S) \in Nat
  BY Counts
<1>2. Cardinality(S \ {u}) = IF u \in S THEN Cardinality(S) - 1 ELSE Cardinality(S)
  BY <1>1, FS_RemoveElement
<1>3. Cardinality({}) = 0
  BY FS_EmptySet
<1> QED
  BY <1>1, <1>2, <1>3

-----------------------------------------------------------------------------
(* 3. The inductive invariant                                              *)

\* Who asks as an administrator has an account.
ActorsExist == \A r \in request : r.op \in {"update", "invite"} => r.actor \in Existing

\* Without an account nobody invites.
NoneInvited == Existing = {} => \A i \in Invitations : invitation[i].status = "none"

\* An open session belongs to an account.
SessionsHaveUsers == \A c \in Cookies : session[c].open => session[c].user \in Users

Inv ==
    /\ TypeOK /\ ActorsExist /\ NoneInvited /\ SessionsHaveUsers
    /\ SeatsAreKept /\ LastAdminStays /\ SuspendedIsLockedOut

LEMMA InvInit == Init => Inv
<1> SUFFICES ASSUME Init PROVE Inv
  OBVIOUS
<1>1. TypeOK
  BY TypeInit
<1>2. Existing = {} /\ Active = {} /\ Reserved(clock) = {}
  BY DEF Init, Existing, Active, Reserved
<1>3. SeatsAreKept
  BY <1>2, FS_EmptySet, AccountConstantsOK DEF SeatsAreKept, Occupied
<1> QED
  BY <1>1, <1>2, <1>3 DEF Inv, Init, ActorsExist, NoneInvited, SessionsHaveUsers,
     LastAdminStays, SuspendedIsLockedOut

\* Steps that change no account keep the seats if no code becomes reserved.
LEMMA FewerCodes ==
    ASSUME TypeOK, SeatsAreKept, account' = account, Reserved(clock)' \subseteq Reserved(clock)
    PROVE  SeatsAreKept'
<1>1. Active' = Active /\ Active \in SUBSET Users /\ Reserved(clock) \in SUBSET Invitations
  BY DEF Active, Reserved
<1>2. /\ Cardinality(Active) \in Nat /\ Cardinality(Reserved(clock)) \in Nat
      /\ Cardinality(Reserved(clock)') <= Cardinality(Reserved(clock))
  BY <1>1, Counts
<1>3. Reserved(clock)' \in SUBSET Invitations
  BY <1>1
<1>4. Cardinality(Reserved(clock)') \in Nat
  BY <1>3, Counts
<1> QED
  BY <1>1, <1>2, <1>4, AccountConstantsOK DEF SeatsAreKept, Occupied

LEMMA RegisterKeeps ==
    ASSUME Inv, NEW r \in Register, NEW now \in Nat, now <= clock, NEW c \in Cookies,
           DoRegister(r, now, c)
    PROVE  Inv'
<1> DEFINE u == r.user
           first == Existing = {}
<1>1. TypeOK'
  BY RegisterType DEF Inv
<1>2. /\ u \in Users /\ u \notin Existing
      /\ account' = [account EXCEPT ![u] =
                       [status |-> "active", role |-> IF first THEN "admin" ELSE "user"]]
      /\ session' = Opened(c, u, now) /\ Fresh(c)
      /\ clock' = clock /\ request' = request \ {r}
  BY DEF DoRegister, Register
<1>3. /\ Existing' = Existing \cup {u} /\ Active' = Active \cup {u}
      /\ ActiveAdmins \subseteq ActiveAdmins' /\ (first => u \in ActiveAdmins')
  BY <1>2 DEF Inv, TypeOK, Existing, Active, ActiveAdmins
<1>4. ActorsExist' /\ NoneInvited'
  BY <1>2, <1>3 DEF Inv, ActorsExist, NoneInvited
<1>5. LastAdminStays'
  BY <1>3 DEF Inv, LastAdminStays
<1>6. SessionsHaveUsers' /\ SuspendedIsLockedOut'
  <2>1. ASSUME NEW d \in Cookies, session'[d].open
        PROVE  session'[d].user \in Users /\ account'[session'[d].user].status = "active"
    <3>1. CASE d = c
      BY <1>2, <3>1 DEF Opened, Inv, TypeOK
    <3>2. CASE d # c
      <4>1. session'[d] = session[d]
        BY <1>2, <3>2 DEF Opened, Inv, TypeOK
      <4>2. session[d].user \in Users /\ account[session[d].user].status = "active"
        BY <2>1, <4>1 DEF Inv, SessionsHaveUsers, SuspendedIsLockedOut
      <4> QED
        BY <1>2, <4>1, <4>2 DEF Inv, TypeOK
    <3> QED
      BY <3>1, <3>2
  <2> QED
    BY <2>1 DEF SessionsHaveUsers, SuspendedIsLockedOut
<1>7. SeatsAreKept'
  <2>1. Active \in SUBSET Users /\ Reserved(clock) \in SUBSET Invitations
        /\ Reserved(now) \in SUBSET Invitations /\ Active' \in SUBSET (Active \cup {u})
    BY <1>3 DEF Active, Reserved
  <2>2. CASE first
    <3>1. Active = {} /\ Reserved(clock)' = {}
      BY <1>2, <2>2 DEF Existing, Active, Reserved, Inv, NoneInvited, DoRegister
    <3>2. Active' = {u}
      BY <1>3, <3>1
    <3>3. Cardinality(Active') = 1 /\ Cardinality(Reserved(clock)') = 0
      BY <3>1, <3>2, FS_Singleton, FS_EmptySet
    <3> QED
      BY <3>3, AccountConstantsOK DEF SeatsAreKept, Occupied
  <2>3. CASE ~first
    <3>1. /\ r.code \in Invitations /\ r.code \in Reserved(now)
          /\ invitation' = [invitation EXCEPT ![r.code].status = "used"]
      BY <2>3 DEF DoRegister, ValidInvitation, Reserved, Register
    <3>2. Reserved(clock)' \subseteq Reserved(clock) \ {r.code}
      BY <1>2, <3>1 DEF Reserved, Inv, TypeOK, Invitation
    <3>3. Reserved(clock)' \in SUBSET (Reserved(now) \ {r.code})
      BY <3>2, ReservedShrinks DEF Inv
    <3>4. /\ Cardinality(Reserved(clock)') + 1 <= Cardinality(Reserved(now))
          /\ Cardinality(Reserved(clock)') \in Nat /\ Cardinality(Reserved(now)) \in Nat
      BY <2>1, <3>1, <3>3, OneLess, Counts
    <3>5. /\ Cardinality(Active') <= Cardinality(Active) + 1
          /\ Cardinality(Active') \in Nat /\ Cardinality(Active) \in Nat
      BY <2>1, OneMore, Counts
    <3>6. Cardinality(Active) + Cardinality(Reserved(now)) <= Capacity
      BY DEF DoRegister, SeatForRegistration, Occupied
    <3>7. Cardinality(Active') + Cardinality(Reserved(clock)') <= Capacity
      BY <3>4, <3>5, <3>6, AccountConstantsOK
    <3> QED
      BY <3>7 DEF SeatsAreKept, Occupied
  <2> QED
    BY <2>2, <2>3
<1> QED
  BY <1>1, <1>4, <1>5, <1>6, <1>7 DEF Inv

LEMMA LoginKeeps ==
    ASSUME Inv, NEW r \in Login, NEW now \in Nat, NEW c \in Cookies, DoLogin(r, now, c)
    PROVE  Inv'
<1>1. TypeOK' /\ r.user \in Users
  BY LoginType DEF Inv, Login
<1>2. Existing' = Existing /\ ActiveAdmins' = ActiveAdmins /\ Reserved(clock)' = Reserved(clock)
  BY DEF DoLogin, MayLogin, Existing, ActiveAdmins, Active, Reserved
<1>3. SeatsAreKept'
  BY <1>2, FewerCodes DEF Inv, DoLogin
<1>4. ActorsExist' /\ NoneInvited' /\ LastAdminStays'
  BY <1>2 DEF Inv, DoLogin, MayLogin, ActorsExist, NoneInvited, LastAdminStays
<1>5. SessionsHaveUsers' /\ SuspendedIsLockedOut'
  <2>1. ASSUME NEW d \in Cookies, session'[d].open
        PROVE  session'[d].user \in Users /\ account[session'[d].user].status = "active"
    <3>1. CASE d = c
      BY <1>1, <3>1 DEF DoLogin, MayLogin, Opened, Inv, TypeOK
    <3>2. CASE d # c
      <4>1. session'[d] = session[d]
        BY <3>2 DEF DoLogin, MayLogin, Opened, Inv, TypeOK
      <4> QED
        BY <2>1, <4>1 DEF Inv, SessionsHaveUsers, SuspendedIsLockedOut
    <3> QED
      BY <3>1, <3>2
  <2> QED
    BY <2>1 DEF SessionsHaveUsers, SuspendedIsLockedOut, DoLogin
<1> QED
  BY <1>1, <1>3, <1>4, <1>5 DEF Inv

LEMMA UpdateKeeps ==
    ASSUME Inv, NEW r \in Update, NEW now \in Nat, now <= clock, DoUpdate(r, now)
    PROVE  Inv'
<1> DEFINE u == r.user
           row == Updated(r)
           remains == row.status = "active" /\ row.role = "admin"
<1>1. TypeOK' /\ TypeOK /\ u \in Users /\ u \in Existing /\ row.status \in Status
      /\ account[u].status \in Status
  <2>1. u \in Users /\ u \in Existing
    BY DEF DoUpdate, Update
  <2>2. account[u] \in Account
    BY <2>1 DEF Inv, TypeOK
  <2> QED
    BY <2>1, <2>2, UpdateType, UpdatedType DEF Inv, Existing, Account
<1>2. account' = [account EXCEPT ![u] = row] /\ account \in [Users -> Account]
  BY <1>1 DEF DoUpdate, TypeOK
<1>3. Existing' = Existing
  BY <1>1, <1>2 DEF Existing, Status
<1>4. ActorsExist' /\ NoneInvited'
  BY <1>3 DEF Inv, ActorsExist, NoneInvited, DoUpdate
<1>5. LastAdminStays'
  <2>1. ActiveAdmins \ {u} \subseteq ActiveAdmins' /\ (remains => u \in ActiveAdmins')
    BY <1>1, <1>2 DEF ActiveAdmins, Active
  <2>2. CASE remains
    BY <2>1, <2>2 DEF LastAdminStays
  <2>3. CASE u \notin ActiveAdmins
    BY <2>1, <2>3, <1>3 DEF Inv, LastAdminStays
  <2>4. CASE u \in ActiveAdmins /\ ~remains
    <3>1. Cardinality(ActiveAdmins) > 1 /\ ActiveAdmins \in SUBSET Users
      BY <2>4 DEF DoUpdate, MayChange, ActiveAdmins, Active
    <3> QED
      BY <2>1, <3>1, AnotherRemains DEF LastAdminStays
  <2> QED
    BY <2>2, <2>3, <2>4
<1>6. SessionsHaveUsers' /\ SuspendedIsLockedOut'
  <2>1. ASSUME NEW d \in Cookies, session'[d].open
        PROVE  session'[d].user \in Users /\ account'[session'[d].user].status = "active"
    <3>1. session'[d] = session[d] /\ ~(r.status = "suspended" /\ session[d].user = u)
      BY <1>1, <2>1 DEF DoUpdate, Revoked, TypeOK, Session
    <3>2. session[d].user \in Users /\ account[session[d].user].status = "active"
      BY <2>1, <3>1 DEF Inv, SessionsHaveUsers, SuspendedIsLockedOut
    <3>3. CASE session[d].user = u
      <4>1. r.status # "suspended" /\ r.status \in Status \cup {Keep}
        BY <3>1, <3>3 DEF Update
      <4>2. row.status = "active"
        BY <3>2, <3>3, <4>1 DEF Updated, Status
      <4> QED
        BY <1>1, <1>2, <3>1, <3>2, <3>3, <4>2
    <3>4. CASE session[d].user # u
      BY <1>2, <3>1, <3>2, <3>4
    <3> QED
      BY <3>3, <3>4
  <2> QED
    BY <2>1 DEF SessionsHaveUsers, SuspendedIsLockedOut
<1>7. SeatsAreKept'
  <2>1. /\ Active \in SUBSET Users /\ Reserved(clock) \in SUBSET Invitations
        /\ Reserved(now) \in SUBSET Invitations /\ Reserved(clock)' = Reserved(clock)
    BY DEF Active, Reserved, DoUpdate
  <2>2. Cardinality(Active) \in Nat /\ Cardinality(Reserved(clock)) \in Nat
    BY <2>1, Counts
  <2>3. CASE account[u].status = "suspended" /\ r.status = "active"
    <3>1. Active' \in SUBSET (Active \cup {u})
      BY <1>1, <1>2 DEF Active
    <3>2. Cardinality(Active') <= Cardinality(Active) + 1 /\ Cardinality(Active') \in Nat
      BY <2>1, <3>1, OneMore
    <3>3. /\ Cardinality(Reserved(clock)) <= Cardinality(Reserved(now))
          /\ Cardinality(Reserved(now)) \in Nat
      BY <2>1, ReservedShrinks, Counts DEF Inv
    <3>4. Cardinality(Active) + Cardinality(Reserved(now)) < Capacity
      BY <2>3 DEF DoUpdate, SeatForReactivation, Occupied
    <3>5. Cardinality(Active') + Cardinality(Reserved(clock)) <= Capacity
      BY <2>2, <3>2, <3>3, <3>4, AccountConstantsOK
    <3> QED
      BY <2>1, <3>5 DEF SeatsAreKept, Occupied, DoUpdate
  <2>4. CASE ~(account[u].status = "suspended" /\ r.status = "active")
    <3>1. row.status = "active" => account[u].status = "active"
      BY <1>1, <2>4 DEF Updated, Status, Keep
    <3>2. Active' \in SUBSET Active
      BY <1>1, <1>2, <3>1 DEF Active
    <3>3. Cardinality(Active') <= Cardinality(Active) /\ Cardinality(Active') \in Nat
      BY <2>1, <3>2, Counts
    <3>4. Cardinality(Active) + Cardinality(Reserved(clock)) <= Capacity
      BY DEF Inv, SeatsAreKept, Occupied
    <3>5. Cardinality(Active') + Cardinality(Reserved(clock)) <= Capacity
      BY <2>2, <3>3, <3>4, AccountConstantsOK
    <3> QED
      BY <2>1, <3>5 DEF SeatsAreKept, Occupied, DoUpdate
  <2> QED
    BY <2>3, <2>4
<1> QED
  BY <1>1, <1>4, <1>5, <1>6, <1>7 DEF Inv

LEMMA InviteKeeps ==
    ASSUME Inv, NEW r \in Invite, r \in request, NEW now \in Nat, now <= clock, DoInvite(r, now)
    PROVE  Inv'
<1>1. TypeOK'
  BY InviteType DEF Inv
<1>2. /\ Existing' = Existing /\ Active' = Active /\ ActiveAdmins' = ActiveAdmins
      /\ Reserved(clock)' \in SUBSET (Reserved(clock) \cup {r.code})
  BY DEF DoInvite, Existing, Active, ActiveAdmins, Reserved, Inv, TypeOK
<1>3. Existing # {}
  BY DEF Inv, ActorsExist, Invite
<1>4. ActorsExist' /\ NoneInvited' /\ LastAdminStays'
  BY <1>2, <1>3 DEF Inv, ActorsExist, NoneInvited, LastAdminStays, DoInvite
<1>5. SessionsHaveUsers' /\ SuspendedIsLockedOut'
  BY DEF Inv, SessionsHaveUsers, SuspendedIsLockedOut, DoInvite
<1>6. SeatsAreKept'
  <2>1. /\ Active \in SUBSET Users /\ Reserved(clock) \in SUBSET Invitations
        /\ Reserved(now) \in SUBSET Invitations
    BY DEF Active, Reserved
  <2>2. /\ Cardinality(Active) \in Nat /\ Cardinality(Reserved(clock)) \in Nat
        /\ Cardinality(Reserved(clock)) <= Cardinality(Reserved(now))
        /\ Cardinality(Reserved(now)) \in Nat
    BY <2>1, ReservedShrinks, Counts DEF Inv
  <2>3. /\ Cardinality(Reserved(clock)') <= Cardinality(Reserved(clock)) + 1
        /\ Cardinality(Reserved(clock)') \in Nat
    BY <1>2, <2>1, OneMore
  <2>4. Cardinality(Active) + Cardinality(Reserved(now)) < Capacity
    BY DEF DoInvite, Occupied
  <2>5. Cardinality(Active) + Cardinality(Reserved(clock)') <= Capacity
    BY <2>2, <2>3, <2>4, AccountConstantsOK
  <2> QED
    BY <1>2, <2>5 DEF SeatsAreKept, Occupied
<1> QED
  BY <1>1, <1>4, <1>5, <1>6 DEF Inv

LEMMA InvStep ==
    ASSUME Inv, [Next]_vars
    PROVE  Inv'
<1>1. TypeOK'
  BY TypeStep DEF Inv
<1>2. ASSUME account' = account, session' = session,
             Reserved(clock)' \subseteq Reserved(clock),
             ActorsExist',
             \A i \in Invitations : invitation[i].status = "none" => invitation'[i].status = "none"
      PROVE  Inv'
  BY <1>1, <1>2, FewerCodes DEF Inv, NoneInvited, Existing, LastAdminStays, ActiveAdmins, Active,
     SessionsHaveUsers, SuspendedIsLockedOut
<1>3. CASE ArriveVisitor \/ ArriveAdmin
  <2>1. PICK r \in Request : Arrive(r) /\ Sent(r)
    BY <1>3, ArrivedType DEF Inv
  <2>2. ActorsExist'
    BY <2>1 DEF Inv, ActorsExist, Sent, Arrive, Existing
  <2> QED
    BY <1>2, <2>1, <2>2 DEF Arrive, Reserved
<1>4. ASSUME NEW r \in request, Serve(r) PROVE Inv'
  BY <1>4, Served, RegisterKeeps, LoginKeeps, UpdateKeeps, InviteKeeps DEF Inv
<1>5. ASSUME NEW r \in request, Refuse(r) PROVE Inv'
  BY <1>2, <1>5 DEF Refuse, Inv, ActorsExist, Existing, Reserved
<1>6. ASSUME NEW i \in Invitations, Revoke(i) PROVE Inv'
  <2>1. Reserved(clock)' \subseteq Reserved(clock)
    BY <1>6 DEF Revoke, Reserved, Inv, TypeOK, Invitation
  <2>2. \A j \in Invitations : invitation[j].status = "none" => invitation'[j].status = "none"
    BY <1>6 DEF Revoke, Inv, TypeOK, Invitation
  <2> QED
    BY <1>2, <1>6, <2>1, <2>2 DEF Revoke, Inv, ActorsExist, Existing
<1>7. ASSUME NEW c \in Cookies, Logout(c) PROVE Inv'
  <2>1. SessionsHaveUsers' /\ SuspendedIsLockedOut'
    BY <1>7 DEF Logout, Inv, TypeOK, Session, SessionsHaveUsers, SuspendedIsLockedOut
  <2>2. Reserved(clock)' \subseteq Reserved(clock)
    BY <1>7 DEF Logout, Reserved
  <2> QED
    BY <1>1, <1>7, <2>1, <2>2, FewerCodes DEF Logout, Inv, ActorsExist, NoneInvited, Existing,
       LastAdminStays, ActiveAdmins, Active
<1>8. CASE Tick
  <2>1. Reserved(clock)' \subseteq Reserved(clock)
    <3>1. ASSUME NEW i \in Invitations, invitation[i].expires > clock'
          PROVE  invitation[i].expires > clock
      <4>1. invitation[i].expires \in Nat
        BY DEF Inv, TypeOK, Invitation
      <4> QED
        BY <1>8, <3>1, <4>1 DEF Tick, Inv, TypeOK
    <3> QED
      BY <1>8, <3>1 DEF Tick, Reserved
  <2> QED
    BY <1>2, <1>8, <2>1 DEF Tick, Inv, ActorsExist, Existing
<1>9. CASE UNCHANGED vars
  BY <1>2, <1>9 DEF vars, Inv, ActorsExist, Existing, Reserved
<1> QED
  BY <1>3, <1>4, <1>5, <1>6, <1>7, <1>8, <1>9 DEF Next

LEMMA Invariance == Spec => []Inv
<1> QED
  BY InvInit, InvStep, PTL DEF Spec

\* Active accounts and valid invitations never exceed the capacity, however old the
\* clocks the requests compare with.
THEOREM Seats == Spec => []SeatsAreKept
<1>1. Inv => SeatsAreKept
  BY DEF Inv
<1> QED
  BY <1>1, Invariance, PTL

\* Once there is an account, an active administrator remains.
THEOREM LastAdmin == Spec => []LastAdminStays
<1>1. Inv => LastAdminStays
  BY DEF Inv
<1> QED
  BY <1>1, Invariance, PTL

\* No session of a suspended account is open.
THEOREM LockedOut == Spec => []SuspendedIsLockedOut
<1>1. Inv => SuspendedIsLockedOut
  BY DEF Inv
<1> QED
  BY <1>1, Invariance, PTL

LEMMA ServeLeavesClosed ==
    ASSUME TypeOK, NEW r \in request, Serve(r)
    PROVE  /\ \A c \in Cookies : session[c].user # Nobody /\ ~session[c].open => ~session'[c].open
           /\ \A i \in Invitations : invitation[i].status \in {"used", "revoked"} =>
                 invitation'[i] = invitation[i]
<1>1. PICK now \in Nat :
         \/ r \in Register /\ \E c \in Cookies : DoRegister(r, now, c)
         \/ r \in Login /\ \E c \in Cookies : DoLogin(r, now, c)
         \/ r \in Update /\ DoUpdate(r, now)
         \/ r \in Invite /\ DoInvite(r, now)
  BY Served
<1>2. ASSUME r \in Register, NEW c \in Cookies, DoRegister(r, now, c)
      PROVE  /\ \A d \in Cookies : session[d].user # Nobody => session'[d] = session[d]
             /\ \A i \in Invitations : invitation[i].status # "open" =>
                   invitation'[i] = invitation[i]
  BY <1>2 DEF DoRegister, ValidInvitation, Opened, Fresh, TypeOK, Register
<1>3. ASSUME NEW c \in Cookies, DoLogin(r, now, c)
      PROVE  \A d \in Cookies : session[d].user # Nobody => session'[d] = session[d]
  BY <1>3 DEF DoLogin, Opened, Fresh, TypeOK
<1>4. ASSUME DoUpdate(r, now)
      PROVE  \A d \in Cookies : ~session[d].open => ~session'[d].open
  BY <1>4 DEF DoUpdate, Revoked, TypeOK, Session
<1>5. ASSUME DoInvite(r, now)
      PROVE  \A i \in Invitations : invitation[i].status # "none" => invitation'[i] = invitation[i]
  BY <1>5 DEF DoInvite, TypeOK
<1> QED
  BY <1>1, <1>2, <1>3, <1>4, <1>5 DEF DoLogin, DoUpdate, DoInvite

\* Neither a session nor an invitation that was closed opens again.
THEOREM Closed == Spec => ClosedStaysClosed
<1>1. ASSUME TypeOK, [Next]_vars
      PROVE  [/\ \A c \in Cookies : session[c].user # Nobody /\ ~session[c].open =>
                   ~session'[c].open
              /\ \A i \in Invitations : invitation[i].status \in {"used", "revoked"} =>
                   invitation'[i] = invitation[i]]_vars
  <2>1. ASSUME NEW i \in Invitations, Revoke(i)
        PROVE  \A j \in Invitations : invitation[j].status # "open" => invitation'[j] = invitation[j]
    BY <1>1, <2>1 DEF Revoke, TypeOK
  <2>2. ASSUME NEW c \in Cookies, Logout(c)
        PROVE  \A d \in Cookies : ~session[d].open => ~session'[d].open
    BY <1>1, <2>2 DEF Logout, TypeOK, Session
  <2>3. CASE ArriveVisitor \/ ArriveAdmin
    <3>1. PICK r \in Request : Arrive(r)
      BY <1>1, <2>3, ArrivedType
    <3> QED
      BY <3>1 DEF Arrive
  <2> QED
    BY <1>1, <2>1, <2>2, <2>3, ServeLeavesClosed DEF Next, Refuse, Revoke, Logout, Tick
<1> QED
  BY <1>1, Types, PTL DEF Spec, ClosedStaysClosed
=============================================================================
