-------------------------------- MODULE Accounts --------------------------------
(***************************************************************************)
(* The dashboard's accounts: bootstrap, the two logins, and the            *)
(* administrators' requests on accounts.  A session is a signed token that *)
(* is checked by signature and age only, never against the users table, so *)
(* it outlives what its account may do.                                    *)
(***************************************************************************)
EXTENDS Naturals

CONSTANTS
    User,
    Root      \* ADMIN_USERNAME

ASSUME AccountsAssumption == Root \in User

Role == {"analyst", "admin"}

VARIABLES
    up,             \* the dashboard runs
    accounts,       \* users with a row; rows are never deleted
    role,
    active,
    password,       \* "known" to its owner, or "reset" and not yet told
    sessions,       \* users who hold a valid dwitp_session
    adminSessions,  \* users who hold a valid dwitp_admin_session
    \* history
    downgraded,     \* users deactivated or demoted since their last admin login
    outlived        \* some request on accounts was served on an outlived session

rows == <<accounts, role, active, password>>
tokens == <<sessions, adminSessions>>
history == <<downgraded, outlived>>
vars == <<up, accounts, role, active, password, sessions, adminSessions, downgraded, outlived>>

TypeOK ==
    /\ up \in BOOLEAN
    /\ accounts \in SUBSET User
    /\ role \in [User -> Role]
    /\ active \in [User -> BOOLEAN]
    /\ password \in [User -> {"known", "reset"}]
    /\ sessions \in SUBSET accounts
    /\ adminSessions \in SUBSET accounts
    /\ downgraded \in SUBSET accounts
    /\ outlived \in BOOLEAN

ActiveAdmin(u) == u \in accounts /\ active[u] /\ role[u] = "admin"

Init ==
    /\ up = FALSE
    /\ accounts = {}
    /\ role = [u \in User |-> "analyst"]
    /\ active = [u \in User |-> FALSE]
    /\ password = [u \in User |-> "known"]
    /\ sessions = {}
    /\ adminSessions = {}
    /\ downgraded = {}
    /\ outlived = FALSE

(***************************************************************************)
(* Start and stop.  The key that signs the tokens is in the environment,   *)
(* so tokens stay valid over a restart.                                    *)
(***************************************************************************)
(* main, bootstrap_users: one administrator, if the table is empty.        *)
Start ==
    /\ ~up
    /\ up' = TRUE
    /\ IF accounts = {}
       THEN /\ accounts' = {Root}
            /\ role' = [role EXCEPT ![Root] = "admin"]
            /\ active' = [active EXCEPT ![Root] = TRUE]
            /\ UNCHANGED password
       ELSE UNCHANGED rows
    /\ UNCHANGED <<tokens, history>>

Stop ==
    /\ up
    /\ up' = FALSE
    /\ UNCHANGED <<rows, tokens, history>>

(***************************************************************************)
(* Sessions                                                                *)
(***************************************************************************)
(* A mistake to catch: the active flag is not looked at.                   *)
AuthenticateInactive(u) == u \in accounts /\ password[u] = "known"

(* authenticate_user                                                       *)
Authenticate(u) == u \in accounts /\ active[u] /\ password[u] = "known"

Login(u) ==
    /\ up
    /\ Authenticate(u)
    /\ sessions' = sessions \union {u}
    /\ UNCHANGED <<up, rows, adminSessions, history>>

(* A mistake to catch: any account gets the administrator's session.       *)
AdminLoginAnyRole(u) ==
    /\ up
    /\ Authenticate(u)
    /\ adminSessions' = adminSessions \union {u}
    /\ downgraded' = downgraded \ {u}
    /\ UNCHANGED <<up, rows, sessions, outlived>>

AdminLogin(u) ==
    /\ up
    /\ Authenticate(u)
    /\ role[u] = "admin"
    /\ adminSessions' = adminSessions \union {u}
    /\ downgraded' = downgraded \ {u}
    /\ UNCHANGED <<up, rows, sessions, outlived>>

(* logout, admin_logout delete the cookie; after SESSION_MAX_AGE the token *)
(* is refused.  Either way the session is over.                            *)
EndSession(u) ==
    /\ u \in sessions
    /\ sessions' = sessions \ {u}
    /\ UNCHANGED <<up, rows, adminSessions, history>>

EndAdminSession(u) ==
    /\ u \in adminSessions
    /\ adminSessions' = adminSessions \ {u}
    /\ UNCHANGED <<up, rows, sessions, history>>

(***************************************************************************)
(* The requests of an administrator a.  Each reads and writes the table in *)
(* one transaction, and the handlers run one at a time.                    *)
(***************************************************************************)
(* admin_login_required: all it asks for is the token.                     *)
Admits(a) ==
    /\ up
    /\ a \in adminSessions
    /\ outlived' = (outlived \/ ~ActiveAdmin(a))
    /\ UNCHANGED <<up, tokens>>

(* admin_create_user                                                       *)
CreateUser(a, u, r) ==
    /\ Admits(a)
    /\ u \notin accounts
    /\ accounts' = accounts \union {u}
    /\ role' = [role EXCEPT ![u] = r]
    /\ active' = [active EXCEPT ![u] = TRUE]
    /\ password' = [password EXCEPT ![u] = "known"]
    /\ UNCHANGED downgraded

(* A mistake to catch: administrators may deactivate themselves.           *)
DeactivateAnyUser(a, u) ==
    /\ Admits(a)
    /\ u \in accounts
    /\ active' = [active EXCEPT ![u] = FALSE]
    /\ downgraded' = downgraded \union {u}
    /\ UNCHANGED <<accounts, role, password>>

(* admin_deactivate_user                                                   *)
DeactivateUser(a, u) ==
    /\ Admits(a)
    /\ u \in accounts
    /\ u # a
    /\ active' = [active EXCEPT ![u] = FALSE]
    /\ downgraded' = downgraded \union {u}
    /\ UNCHANGED <<accounts, role, password>>

(* admin_reactivate_user                                                   *)
ReactivateUser(a, u) ==
    /\ Admits(a)
    /\ u \in accounts
    /\ active' = [active EXCEPT ![u] = TRUE]
    /\ UNCHANGED <<accounts, role, password, downgraded>>

(* admin_change_role                                                       *)
ChangeRole(a, u, r) ==
    /\ Admits(a)
    /\ u \in accounts
    /\ u = a => r = "admin"
    /\ role' = [role EXCEPT ![u] = r]
    /\ downgraded' = IF r = "admin" THEN downgraded ELSE downgraded \union {u}
    /\ UNCHANGED <<accounts, active, password>>

(* admin_reset_password: whoever sets it knows it.                         *)
ResetPassword(a, u) ==
    /\ Admits(a)
    /\ u \in accounts
    /\ password' = [password EXCEPT ![u] = IF u = a THEN "known" ELSE "reset"]
    /\ UNCHANGED <<accounts, role, active, downgraded>>

(* The owner is told the new password.                                     *)
TellPassword(u) ==
    /\ password[u] = "reset"
    /\ password' = [password EXCEPT ![u] = "known"]
    /\ UNCHANGED <<up, accounts, role, active, tokens, history>>

(***************************************************************************)
(* The specification                                                       *)
(***************************************************************************)
Administer ==
    \E a, u \in User :
        \/ \E r \in Role : CreateUser(a, u, r) \/ ChangeRole(a, u, r)
        \/ DeactivateUser(a, u)
        \/ ReactivateUser(a, u)
        \/ ResetPassword(a, u)

Visit ==
    \E u \in User :
        Login(u) \/ AdminLogin(u) \/ EndSession(u) \/ EndAdminSession(u) \/ TellPassword(u)

Next == Start \/ Stop \/ Administer \/ Visit

Spec == Init /\ [][Next]_vars

(* Tokens expire.                                                          *)
FairSpec ==
    /\ Spec
    /\ \A u \in User : WF_vars(EndSession(u)) /\ WF_vars(EndAdminSession(u))

(***************************************************************************)
(* Properties                                                              *)
(***************************************************************************)
(* Once there are accounts, one of them is an active administrator's: no   *)
(* sequence of creations, deactivations and demotions loses the last one,  *)
(* as long as only administrators who are still that make them.  (Two who  *)
(* deactivate each other need the session of the one who is deactivated    *)
(* first: then there is none left, and the bootstrap, which looks for an   *)
(* empty table, does not make one.)                                        *)
AdministratorRemains ==
    accounts # {} => outlived \/ \E u \in User : ActiveAdmin(u)

(* Whoever holds an administrator's session is an active administrator, or *)
(* was one when the session began and has been deactivated or demoted.     *)
AdminSessionsEarned ==
    \A u \in adminSessions : ActiveAdmin(u) \/ u \in downgraded

(* Whoever stays deactivated loses both sessions in the end, and whoever   *)
(* stays without the administrator's role loses that session.              *)
PowerEnds ==
    \A u \in User :
        /\ <>[](u \in accounts /\ ~active[u]) => <>[](u \notin sessions \union adminSessions)
        /\ <>[](u \in accounts /\ role[u] # "admin") => <>[](u \notin adminSessions)

=============================================================================
