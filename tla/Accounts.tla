------------------------------ MODULE Accounts ------------------------------
(***************************************************************************)
(* The dashboard's accounts (users.go, auth.go and their handlers in       *)
(* main.go).  Every handler runs one statement of SQL.  Logging in reads   *)
(* the account and issues the cookie later; what admins do is allowed by   *)
(* their cookie and done later; in between anything may happen to either.  *)
(* Inviting and resetting then send a mail, which may fail or die with     *)
(* the process although the row is there.  What a cookie says of its       *)
(* owner is not looked up again.                                           *)
(*                                                                         *)
(* A token is random, so an older link than the one in the row matches     *)
(* nothing.  A row therefore only says how far its present links got.      *)
(***************************************************************************)
CONSTANTS
  Emails,      \* addresses that may have an account
  Root,        \* the address of RVTX_BOOTSTRAP_ADMIN_EMAIL
  Forgetful,   \* bound: those whose owners ask for resets
  AskedRoles,  \* what a request may ask for as a role
  Calls,       \* goroutines that serve logins and what admins do
  None         \* "no account", "no request"

Roles == {"admin", "viewer"}

(* A link of a row: no token, or one that was never delivered or is past   *)
(* its expiry; a token whose mail is being sent; one in its owner's inbox. *)
LinkStage == {"none", "sending", "open"}

Account == [role : Roles, password : BOOLEAN, invite : LinkStage, reset : LinkStage]
Cookie  == [email : Emails, role : Roles]

(* A request between its first look and its effect, and whom it takes its  *)
(* caller for: what the account said, or what the cookie says.             *)
Call == [kind : {"login", "admin"}, as : Cookie]

ASSUME EmailAssumption == Root \in Emails /\ Forgetful \subseteq Emails
ASSUME RoleAssumption  == Roles \subseteq AskedRoles
ASSUME NoneAssumption  == None \notin [role : AskedRoles, password : BOOLEAN,
                                       invite : LinkStage, reset : LinkStage]
                              \cup Call

VARIABLES
  users,    \* the users table
  cookies,  \* valid session cookies, in any browser
  call,     \* what each goroutine has under way, or None
  up        \* the process is running and bootstrapped

vars == <<users, cookies, call, up>>

Registered == {e \in Emails : users[e] # None}

(* Whoever is logged in or taken to be.                                    *)
Sessions == cookies \cup {call[q].as : q \in {p \in Calls : call[p] # None}}

Init ==
  /\ users = [e \in Emails |-> None]
  /\ cookies = {}
  /\ call = [q \in Calls |-> None]
  /\ up = FALSE
-----------------------------------------------------------------------------
(* The process.                                                            *)

(* bootstrapAdmin: only an empty table gets the first admin.               *)
Start ==
  /\ ~up
  /\ up' = TRUE
  /\ users' = IF Registered # {} THEN users
              ELSE [users EXCEPT ![Root] = [role |-> "admin", password |-> TRUE,
                                            invite |-> "none", reset |-> "none"]]
  /\ UNCHANGED <<cookies, call>>

Dropped(stage) == IF stage = "sending" THEN "none" ELSE stage

(* Mails and requests under way are lost; cookies stay valid.              *)
Stop ==
  /\ up
  /\ up' = FALSE
  /\ call' = [q \in Calls |-> None]
  /\ users' = [e \in Emails |->
       IF users[e] = None THEN None
       ELSE [users[e] EXCEPT !.invite = Dropped(@), !.reset = Dropped(@)]]
  /\ UNCHANGED cookies
-----------------------------------------------------------------------------
(* Links.                                                                  *)

(* The mail of a link is handed over, or the attempt fails.                *)
SendInvite(e) ==
  /\ up /\ e \in Registered /\ users[e].invite = "sending"
  /\ \E s \in {"open", "none"} : users' = [users EXCEPT ![e].invite = s]
  /\ UNCHANGED <<cookies, call, up>>

SendReset(e) ==
  /\ up /\ e \in Registered /\ users[e].reset = "sending"
  /\ \E s \in {"open", "none"} : users' = [users EXCEPT ![e].reset = s]
  /\ UNCHANGED <<cookies, call, up>>

(* Its expiry passes: 7 days for an invitation, an hour for a reset.       *)
Lapse(e) ==
  /\ e \in Registered
  /\ \/ users[e].invite # "none" /\ users' = [users EXCEPT ![e].invite = "none"]
     \/ users[e].reset # "none"  /\ users' = [users EXCEPT ![e].reset = "none"]
  /\ UNCHANGED <<cookies, call, up>>

(* UPDATE ... WHERE the token matches and has not expired.                 *)
AcceptInvite(e) ==
  /\ up /\ e \in Registered /\ users[e].invite = "open"
  /\ users' = [users EXCEPT ![e].password = TRUE, ![e].invite = "none"]
  /\ UNCHANGED <<cookies, call, up>>

ResetPassword(e) ==
  /\ up /\ e \in Registered /\ users[e].reset = "open"
  /\ users' = [users EXCEPT ![e].password = TRUE, ![e].reset = "none"]
  /\ UNCHANGED <<cookies, call, up>>

(* A slip of CreateResetToken: accounts without a password get none.       *)
ResetIfActive(e) ==
  /\ up /\ e \in Registered \cap Forgetful /\ users[e].password
  /\ users' = [users EXCEPT ![e].reset = "sending"]
  /\ UNCHANGED <<cookies, call, up>>

(* CreateResetToken: a fresh token for any account; then it is mailed.     *)
ForgotPassword(e) ==
  /\ up /\ e \in Registered \cap Forgetful
  /\ users' = [users EXCEPT ![e].reset = "sending"]
  /\ UNCHANGED <<cookies, call, up>>
-----------------------------------------------------------------------------
(* Sessions.                                                               *)

(* The goroutine q is done with its request, with or without effect.       *)
Done(q) == call' = [call EXCEPT ![q] = None]

(* loginHandler reads the account (UserByEmail), whose password is then    *)
(* compared.                                                               *)
ReadAccount(q, e) ==
  /\ up /\ call[q] = None
  /\ e \in Registered /\ users[e].password
  /\ call' = [call EXCEPT ![q] =
               [kind |-> "login", as |-> [email |-> e, role |-> users[e].role]]]
  /\ UNCHANGED <<users, cookies, up>>

(* The password was right: a cookie with the role that was read.           *)
IssueCookie(q) ==
  /\ call[q] # None /\ call[q].kind = "login"
  /\ cookies' = cookies \cup {call[q].as}
  /\ Done(q)
  /\ UNCHANGED <<users, up>>

(* A wrong password, a statement that fails, a client that has gone.       *)
Refuse(q) ==
  /\ call[q] # None
  /\ Done(q)
  /\ UNCHANGED <<users, cookies, up>>

(* A slip of ValidSession: admins stay logged in.                          *)
ViewerExpires(c) ==
  /\ c \in cookies /\ c.role = "viewer"
  /\ cookies' = cookies \ {c}
  /\ UNCHANGED <<users, call, up>>

(* A cookie is good until its exp has passed, or its owner logs out.       *)
Expire(c) ==
  /\ c \in cookies
  /\ cookies' = cookies \ {c}
  /\ UNCHANGED <<users, call, up>>
-----------------------------------------------------------------------------
(* What admins do, with the role their cookie carried when it was checked. *)

(* A slip of requireAdmin: any valid session will do.                      *)
AnySession(c) == c \in cookies

(* requireAdmin looks at the cookie, not at the table.                     *)
Admin(c) == c \in cookies /\ c.role = "admin"

Authorize(q, c) ==
  /\ up /\ call[q] = None
  /\ Admin(c)
  /\ call' = [call EXCEPT ![q] = [kind |-> "admin", as |-> c]]
  /\ UNCHANGED <<users, cookies, up>>

(* The handler behind it goes on, whatever has become of the cookie.       *)
Allowed(q) == call[q] # None /\ call[q].kind = "admin"

(* A slip of validRole, which is the only check: the column has none.      *)
AnyRole(r)   == TRUE
ValidRole(r) == r \in Roles

(* inviteUserHandler: the INSERT fails for a known address.                *)
InviteUser(q, e, r) ==
  /\ Allowed(q)
  /\ ValidRole(r)
  /\ e \notin Registered
  /\ users' = [users EXCEPT ![e] = [role |-> r, password |-> FALSE,
                                    invite |-> "sending", reset |-> "none"]]
  /\ Done(q)
  /\ UNCHANGED <<cookies, up>>

(* A slip of the two handlers below: one's own account is not spared.      *)
AnyTarget(q, e) == Allowed(q) /\ e \in Registered
Other(q, e)     == Allowed(q) /\ e \in Registered /\ e # call[q].as.email

DeleteUser(q, e) ==
  /\ Other(q, e)
  /\ users' = [users EXCEPT ![e] = None]
  /\ Done(q)
  /\ UNCHANGED <<cookies, up>>

SetUserRole(q, e, r) ==
  /\ Other(q, e)
  /\ ValidRole(r)
  /\ users' = [users EXCEPT ![e].role = r]
  /\ Done(q)
  /\ UNCHANGED <<cookies, up>>

(* What ends a request.                                                    *)
Answer(q) ==
  \/ IssueCookie(q) \/ Refuse(q)
  \/ \E e \in Emails : DeleteUser(q, e)
  \/ \E e \in Emails, r \in AskedRoles : InviteUser(q, e, r) \/ SetUserRole(q, e, r)

Next ==
  \/ Start \/ Stop
  \/ \E e \in Emails :
       \/ SendInvite(e) \/ SendReset(e) \/ Lapse(e)
       \/ AcceptInvite(e) \/ ResetPassword(e) \/ ForgotPassword(e)
  \/ \E c \in Cookie : Expire(c)
  \/ \E q \in Calls :
       \/ \E e \in Emails : ReadAccount(q, e)
       \/ \E c \in Cookie : Authorize(q, c)
       \/ Answer(q)

Spec == Init /\ [][Next]_vars

(* The process is started again, and time passes.  The owner of an account *)
(* asks for a reset again and again, now and then a mail gets through, and *)
(* now and then a delivered link is opened before it lapses.               *)
Delivered(e) == SendReset(e) /\ users'[e].reset = "open"

Fairness ==
  /\ WF_vars(Start)
  /\ \A c \in Cookie : WF_vars(Expire(c))
  /\ \A q \in Calls : WF_vars(Answer(q))
  /\ \A e \in Forgetful :
       SF_vars(ForgotPassword(e)) /\ SF_vars(Delivered(e)) /\ SF_vars(ResetPassword(e))

LiveSpec == Spec /\ Fairness
-----------------------------------------------------------------------------
(* Every variable keeps its type; roles are those the code knows.          *)
TypeOK ==
  /\ users \in [Emails -> Account \cup {None}]
  /\ cookies \subseteq Cookie
  /\ call \in [Calls -> Call \cup {None}]
  /\ up \in BOOLEAN

(* Every session has the right that the table gives its account.           *)
Current == \A c \in Sessions : c.email \in Registered /\ users[c.email].role = c.role

Admins == {e \in Registered : users[e].role = "admin"}

(* While that is so an admin is left: nobody can delete or demote the last *)
(* one, for only he could (deleteUserHandler, setUserRoleHandler).         *)
AdminsRemain == [][Current /\ Admins # {} => Admins' # {}]_vars

(* Nobody administers: no account has the role, no cookie and no request   *)
(* under way either.                                                       *)
LockedOut == Registered # {} /\ Admins = {} /\ \A c \in Sessions : c.role # "admin"

(* The right to administer comes only from somebody who has it.  Once      *)
(* nobody does, no invitation, reset, login or role asked for brings it    *)
(* back, nor does a restart, which makes an admin in an empty table only   *)
(* (bootstrapAdmin).  A login that read the role before it was taken away  *)
(* still has it: its cookie is on the way.                                 *)
RightsAreGranted == [][LockedOut => LockedOut']_vars

(* An account that stays can be entered in the end, even if its invitation *)
(* was never delivered or lapsed and its address cannot be invited again:  *)
(* "forgot password" is a second way in (CreateResetToken).                *)
Onboarding ==
  \A e \in Forgetful :
     <>[](e \in Registered) => <>[](e \in Registered /\ users[e].password)

(* A change of role and the loss of an account take effect in the end,     *)
(* although no cookie is ever revoked and a login or an action of an admin *)
(* that began before goes on with the old role (ValidSession).             *)
RightsEnd ==
  \A e \in Emails :
     <>[](e \notin Admins) => <>[]([email |-> e, role |-> "admin"] \notin Sessions)
=============================================================================
