--------------------------- MODULE AccountsProofs ---------------------------
(***************************************************************************)
(* For any set of addresses: roles stay among those the code knows, and    *)
(* the last admin cannot be deleted or demoted while the cookies and the   *)
(* requests under way agree with the table; and once nobody administers,   *)
(* nobody ever will.                                                       *)
(***************************************************************************)
EXTENDS Accounts, TLAPS

(* Known roles are among those that may be asked for, so an account is     *)
(* never taken for "no account".                                           *)
LEMMA NoneApart == None \notin Account
  BY RoleAssumption, NoneAssumption DEF Account

(* The table starts empty, and nobody holds a cookie.                      *)
LEMMA InitTyped == Init => TypeOK
  BY DEF Init, TypeOK

(* The handlers of one account, its links and its owner (users.go).        *)
LEMMA OwnTyped ==
  ASSUME TypeOK, NEW e \in Emails,
         \/ SendInvite(e) \/ SendReset(e) \/ Lapse(e)
         \/ AcceptInvite(e) \/ ResetPassword(e) \/ ForgotPassword(e)
  PROVE  /\ e \in Registered
         /\ \E row \in Account : /\ row.role = users[e].role
                                 /\ users' = [users EXCEPT ![e] = row]
         /\ UNCHANGED <<cookies, call, up>>
  <1>1. e \in Registered /\ users[e] \in Account
    BY DEF TypeOK, Registered, SendInvite, SendReset, Lapse, AcceptInvite, ResetPassword, ForgotPassword
  <1> DEFINE Set(i, r, p) == [role |-> users[e].role, password |-> p, invite |-> i, reset |-> r]
  <1>2. \A i, r \in LinkStage, p \in BOOLEAN : Set(i, r, p) \in Account
    BY <1>1 DEF Account
  <1>3. \E i, r \in LinkStage, p \in BOOLEAN : users' = [users EXCEPT ![e] = Set(i, r, p)]
    BY <1>1 DEF SendInvite, SendReset, Lapse, AcceptInvite, ResetPassword, ForgotPassword,
                TypeOK, Account, LinkStage
  <1>4. UNCHANGED <<cookies, call, up>>
    BY DEF SendInvite, SendReset, Lapse, AcceptInvite, ResetPassword, ForgotPassword
  <1> QED
    BY <1>1, <1>2, <1>3, <1>4

(* What a goroutine does with its request, and with nothing else of call.  *)
LEMMA CallTyped ==
  ASSUME TypeOK, NEW q \in Calls,
         \/ Answer(q)
         \/ \E e \in Emails : ReadAccount(q, e)
         \/ \E c \in Cookie : Authorize(q, c)
  PROVE  call' \in [Calls -> Call \cup {None}]
  <1>1. CASE Answer(q)
    BY <1>1 DEF Answer, IssueCookie, Refuse, DeleteUser, InviteUser, SetUserRole, Done, TypeOK
  <1>2. ASSUME NEW e \in Emails, ReadAccount(q, e) PROVE call' \in [Calls -> Call \cup {None}]
    <2>1. users[e].role \in Roles
      BY <1>2 DEF ReadAccount, TypeOK, Registered, Account
    <2>2. [kind |-> "login", as |-> [email |-> e, role |-> users[e].role]] \in Call
      BY <2>1 DEF Call, Cookie
    <2> QED
      BY <1>2, <2>2 DEF ReadAccount, TypeOK
  <1>3. ASSUME NEW c \in Cookie, Authorize(q, c) PROVE call' \in [Calls -> Call \cup {None}]
    <2>1. [kind |-> "admin", as |-> c] \in Call
      BY DEF Call
    <2> QED
      BY <1>3, <2>1 DEF Authorize, TypeOK
  <1> QED
    BY <1>1, <1>2, <1>3

(* Whatever a handler does with one row, or the process with all of them.  *)
LEMMA NextTyped == TypeOK /\ [Next]_vars => TypeOK'
  <1> SUFFICES ASSUME TypeOK, [Next]_vars PROVE TypeOK'
    OBVIOUS
  <1>1. CASE Start
    BY <1>1, EmailAssumption DEF Start, TypeOK, Account, Roles, LinkStage
  <1>2. CASE Stop
    <2>1. \A e \in Registered :
            [users[e] EXCEPT !.invite = Dropped(@), !.reset = Dropped(@)] \in Account
      BY DEF TypeOK, Registered, Account, LinkStage, Dropped
    <2> QED
      BY <1>2, <2>1 DEF Stop, TypeOK, Registered
  <1>3. ASSUME NEW e \in Emails,
               \/ SendInvite(e) \/ SendReset(e) \/ Lapse(e)
               \/ AcceptInvite(e) \/ ResetPassword(e) \/ ForgotPassword(e)
        PROVE  TypeOK'
    BY <1>3, OwnTyped DEF TypeOK
  <1>4. ASSUME NEW c \in Cookie, Expire(c) PROVE TypeOK'
    BY <1>4 DEF Expire, TypeOK
  <1>5. ASSUME NEW q \in Calls, NEW e \in Emails, ReadAccount(q, e) PROVE TypeOK'
    BY <1>5, CallTyped DEF ReadAccount, TypeOK
  <1>6. ASSUME NEW q \in Calls, NEW c \in Cookie, Authorize(q, c) PROVE TypeOK'
    BY <1>6, CallTyped DEF Authorize, TypeOK
  <1>7. ASSUME NEW q \in Calls, Answer(q) PROVE TypeOK'
    <2>1. call' \in [Calls -> Call \cup {None}]
      BY <1>7, CallTyped
    <2>2. CASE IssueCookie(q)
      <3>1. call[q].as \in Cookie
        BY <2>2 DEF IssueCookie, TypeOK, Call
      <3> QED
        BY <2>1, <2>2, <3>1 DEF IssueCookie, TypeOK
    <2>3. CASE Refuse(q)
      BY <2>1, <2>3 DEF Refuse, TypeOK
    <2>4. ASSUME NEW e \in Emails, DeleteUser(q, e) PROVE TypeOK'
      BY <2>1, <2>4 DEF DeleteUser, TypeOK
    <2>5. ASSUME NEW e \in Emails, NEW r \in AskedRoles, InviteUser(q, e, r) PROVE TypeOK'
      <3>1. [role |-> r, password |-> FALSE, invite |-> "sending", reset |-> "none"] \in Account
        BY <2>5 DEF InviteUser, ValidRole, Account, LinkStage
      <3> QED
        BY <2>1, <2>5, <3>1 DEF InviteUser, TypeOK
    <2>6. ASSUME NEW e \in Emails, NEW r \in AskedRoles, SetUserRole(q, e, r) PROVE TypeOK'
      <3>1. [users[e] EXCEPT !.role = r] \in Account
        BY <2>6 DEF SetUserRole, Other, ValidRole, Registered, TypeOK, Account
      <3>2. /\ users' = [users EXCEPT ![e] = [users[e] EXCEPT !.role = r]]
            /\ UNCHANGED <<cookies, up>>
        BY <2>6 DEF SetUserRole
      <3> QED
        BY <2>1, <3>1, <3>2 DEF TypeOK
    <2> QED
      BY <1>7, <2>2, <2>3, <2>4, <2>5, <2>6 DEF Answer
  <1>8. CASE UNCHANGED vars
    BY <1>8 DEF vars, TypeOK
  <1> QED
    BY <1>1, <1>2, <1>3, <1>4, <1>5, <1>6, <1>7, <1>8 DEF Next

(* Every variable keeps its type, whichever roles are asked for.           *)
THEOREM Typed == Spec => []TypeOK
  BY InitTyped, NextTyped, PTL DEF Spec

(* Whatever is done as an admin is done for a cookie that said admin when  *)
(* requireAdmin checked it.                                                *)
Rightful == \A q \in Calls : Allowed(q) => call[q].as.role = "admin"

(* Only Authorize lets a request in, and a goroutine keeps what it is.     *)
LEMMA NextRightful == TypeOK /\ Rightful /\ [Next]_vars => Rightful'
  <1> SUFFICES ASSUME TypeOK, Rightful, [Next]_vars PROVE Rightful'
    OBVIOUS
  <1>1. CASE UNCHANGED call
    BY <1>1 DEF Rightful, Allowed
  <1>2. CASE Stop
    BY <1>2 DEF Stop, Rightful, Allowed
  <1>3. ASSUME NEW q \in Calls, NEW e \in Emails, ReadAccount(q, e) PROVE Rightful'
    BY <1>3 DEF ReadAccount, Rightful, Allowed, TypeOK
  <1>4. ASSUME NEW q \in Calls, NEW c \in Cookie, Authorize(q, c) PROVE Rightful'
    BY <1>4 DEF Authorize, Admin, Rightful, Allowed, TypeOK
  <1>5. ASSUME NEW q \in Calls, Answer(q) PROVE Rightful'
    <2>1. Done(q)
      BY <1>5 DEF Answer, IssueCookie, Refuse, DeleteUser, InviteUser, SetUserRole
    <2> QED
      BY <2>1 DEF Done, Rightful, Allowed, TypeOK
  <1> QED
    BY <1>1, <1>2, <1>3, <1>4, <1>5
    DEF Next, Start, SendInvite, SendReset, Lapse, AcceptInvite, ResetPassword, ForgotPassword,
        Expire, vars

(* Both hold in every state.                                               *)
LEMMA Invariant == Spec => [](TypeOK /\ Rightful)
  <1>1. Init => Rightful
    BY DEF Init, Rightful, Allowed
  <1> QED
    BY InitTyped, NextTyped, <1>1, NextRightful, PTL DEF Spec

(* A request under way for an admin counts among the sessions.             *)
LEMMA AllowedSession ==
  ASSUME Rightful, NEW q \in Calls, Allowed(q)
  PROVE  call[q].as \in Sessions /\ call[q].as.role = "admin"
  BY DEF Rightful, Allowed, Sessions

(* An admin of the table who is not touched by a step is an admin still.   *)
LEMMA Untouched ==
  ASSUME NEW e \in Admins, users'[e] = users[e]
  PROVE  Admins' # {}
  BY DEF Admins, Registered

(* No step takes the last admin away: only an admin could, and he is       *)
(* spared (deleteUserHandler, setUserRoleHandler).                         *)
LEMMA AdminLeft ==
  TypeOK /\ Rightful /\ [Next]_vars /\ Current /\ Admins # {} => Admins' # {}
  <1> SUFFICES ASSUME TypeOK, Rightful, [Next]_vars, Current, NEW a \in Admins
               PROVE  Admins' # {}
    OBVIOUS
  <1>1. a \in Registered /\ users[a] # None /\ users[a].role = "admin" /\ users[a] \in Account
    BY DEF Admins, Registered, TypeOK
  <1>2. CASE Start
    BY <1>1, <1>2, Untouched DEF Start
  <1>3. CASE Stop
    <2>1. users'[a].role = "admin" /\ users'[a] \in Account
      BY <1>1, <1>3 DEF Stop, Registered, Account, LinkStage, Dropped
    <2> QED
      BY <1>1, <2>1, NoneApart DEF Admins, Registered
  <1>4. ASSUME NEW e \in Emails,
               \/ SendInvite(e) \/ SendReset(e) \/ Lapse(e)
               \/ AcceptInvite(e) \/ ResetPassword(e) \/ ForgotPassword(e)
        PROVE  Admins' # {}
    <2>1. PICK row \in Account : row.role = users[e].role /\ users' = [users EXCEPT ![e] = row]
      BY <1>4, OwnTyped
    <2>2. users'[a].role = "admin" /\ users'[a] \in Account
      BY <1>1, <2>1 DEF TypeOK, Registered
    <2> QED
      BY <1>1, <2>2, NoneApart DEF Admins, Registered
  <1>5. ASSUME NEW q \in Calls, NEW e \in Emails, Other(q, e),
               \A f \in Emails \ {e} : users'[f] = users[f]
        PROVE  Admins' # {}
    <2>1. call[q].as.email \in Admins /\ call[q].as.email # e
      BY <1>5, AllowedSession DEF Other, Current, Admins
    <2> QED
      BY <1>5, <2>1, Untouched DEF Admins, Registered
  <1>6. ASSUME NEW q \in Calls, NEW e \in Emails, DeleteUser(q, e) PROVE Admins' # {}
    BY <1>5, <1>6 DEF DeleteUser, TypeOK
  <1>7. ASSUME NEW q \in Calls, NEW e \in Emails, NEW r \in AskedRoles, SetUserRole(q, e, r)
        PROVE  Admins' # {}
    BY <1>5, <1>7 DEF SetUserRole, TypeOK
  <1>8. ASSUME NEW q \in Calls, NEW e \in Emails, NEW r \in AskedRoles, InviteUser(q, e, r)
        PROVE  Admins' # {}
    BY <1>1, <1>8, Untouched DEF InviteUser, TypeOK, Registered
  <1>9. CASE UNCHANGED users
    BY <1>9, Untouched
  <1> QED
    BY <1>2, <1>3, <1>4, <1>6, <1>7, <1>8, <1>9
    DEF Next, Answer, IssueCookie, Refuse, ReadAccount, Authorize, Expire, vars

(* While cookies and requests agree with the table an admin is left, for   *)
(* any set of addresses and any interleaving of requests.                  *)
THEOREM AdminsRemainThm == Spec => AdminsRemain
  <1>1. TypeOK /\ Rightful /\ [Next]_vars => [Current /\ Admins # {} => Admins' # {}]_vars
    BY AdminLeft
  <1> QED
    BY Invariant, <1>1, PTL DEF Spec, AdminsRemain

(* A row that takes the place of one without the role, and does not have   *)
(* it either, keeps everybody locked out, if no session is added.          *)
LEMMA SameRole ==
  ASSUME TypeOK, LockedOut, Sessions' \subseteq Sessions,
         \A e \in Emails : \/ users'[e] = users[e]
                           \/ /\ users[e] # None /\ users'[e] # None
                              /\ users'[e].role = users[e].role
  PROVE  LockedOut'
  BY DEF LockedOut, Registered, Admins

(* No step of those who do not administer makes one who does: not of those *)
(* who began when they did either.                                         *)
LEMMA LockedOutStays == TypeOK /\ Rightful /\ [Next]_vars /\ LockedOut => LockedOut'
  <1> SUFFICES ASSUME TypeOK, Rightful, [Next]_vars, LockedOut PROVE LockedOut'
    OBVIOUS
  <1>1. CASE Start
    BY <1>1, SameRole DEF Start, LockedOut, Sessions
  <1>2. CASE Stop
    <2>1. ASSUME NEW e \in Registered
          PROVE  users'[e].role = users[e].role /\ users'[e] # None
      <3>1. users[e] \in Account
        BY DEF TypeOK, Registered
      <3>2. users'[e].role = users[e].role /\ users'[e] \in Account
        BY <1>2, <3>1 DEF Stop, Registered, Account, LinkStage, Dropped
      <3> QED
        BY <3>2, NoneApart
    <2>2. Sessions' \subseteq Sessions
      BY <1>2 DEF Stop, Sessions
    <2> QED
      BY <1>2, <2>1, <2>2, SameRole DEF Stop, Registered
  <1>3. ASSUME NEW e \in Emails,
               \/ SendInvite(e) \/ SendReset(e) \/ Lapse(e)
               \/ AcceptInvite(e) \/ ResetPassword(e) \/ ForgotPassword(e)
        PROVE  LockedOut'
    <2>1. PICK row \in Account : row.role = users[e].role /\ users' = [users EXCEPT ![e] = row]
      BY <1>3, OwnTyped
    <2>2. e \in Registered /\ Sessions' = Sessions
      BY <1>3, OwnTyped DEF Sessions
    <2> QED
      BY <2>1, <2>2, SameRole, NoneApart DEF TypeOK, Registered
  <1>4. ASSUME NEW c \in Cookie, Expire(c) PROVE LockedOut'
    BY <1>4, SameRole DEF Expire, Sessions
  <1>5. ASSUME NEW q \in Calls, NEW e \in Emails, ReadAccount(q, e) PROVE LockedOut'
    <2>1. users[e].role # "admin"
      BY <1>5 DEF ReadAccount, LockedOut, Admins
    <2>2. \A s \in Sessions' : s \in Sessions \/ s = [email |-> e, role |-> users[e].role]
      BY <1>5 DEF ReadAccount, Sessions, TypeOK
    <2> QED
      BY <1>5, <2>1, <2>2 DEF ReadAccount, LockedOut, Admins, Registered
  <1>6. ASSUME NEW q \in Calls, NEW c \in Cookie, Authorize(q, c) PROVE LockedOut'
    BY <1>6 DEF Authorize, Admin, LockedOut, Sessions
  <1>7. ASSUME NEW q \in Calls, Answer(q) PROVE LockedOut'
    <2>1. ~Allowed(q)
      BY AllowedSession DEF LockedOut
    <2>2. UNCHANGED users
      BY <1>7, <2>1 DEF Answer, IssueCookie, Refuse, DeleteUser, InviteUser, SetUserRole, Other
    <2>3. Sessions' \subseteq Sessions
      BY <1>7, <2>1 DEF Answer, IssueCookie, Refuse, DeleteUser, InviteUser, SetUserRole, Other,
                        Done, Sessions, TypeOK
    <2> QED
      BY <2>2, <2>3, SameRole
  <1>8. CASE UNCHANGED vars
    BY <1>8 DEF vars, LockedOut, Admins, Registered, Sessions
  <1> QED
    BY <1>1, <1>2, <1>3, <1>4, <1>5, <1>6, <1>7, <1>8 DEF Next

(* Once nobody administers nobody ever will, for any set of addresses,     *)
(* whichever roles are asked for and whatever is under way meanwhile: the  *)
(* logins and actions of those who still had the right are counted.        *)
THEOREM RightsAreGrantedThm == Spec => RightsAreGranted
  <1>1. TypeOK /\ Rightful /\ [Next]_vars => [LockedOut => LockedOut']_vars
    BY LockedOutStays
  <1> QED
    BY Invariant, <1>1, PTL DEF Spec, RightsAreGranted
=============================================================================
