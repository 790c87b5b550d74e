-------------------------------- MODULE Accounts --------------------------------
(***************************************************************************)
(* Accounts and sessions: registration, login, and the tokens that every   *)
(* other call presents.  Who is an administrator is a list in the server's *)
(* configuration, read when the process starts; it reaches the users table *)
(* at a login, and a token carries the role there was when it was issued.  *)
(***************************************************************************)
EXTENDS Integers, FiniteSets

CONSTANTS
    Emails,        \* addresses isValidEmail accepts, normalized
    Passwords,     \* of eight to 72 characters
    Logins,        \* requests to log in
    JWTTTL,        \* ticks a token lives
    LastTick,      \* bound on the clock
    MaxRestarts,   \* bound on the restarts
    NoAccount, NoLogin

ASSUME AccountsConstants ==
    /\ JWTTTL \in Nat /\ LastTick \in Nat /\ MaxRestarts \in Nat
    /\ NoAccount \notin [password : Passwords, role : {"user", "admin"}]

VARIABLES
    time,
    adminEmails,   \* the list of the running process
    restarts,
    users,         \* the table, by email: UNIQUE
    login,         \* what each login has read
    tokens,        \* every token that was issued
    lastListed,    \* history: when an address was last on the list, or -1
    notDemoted     \* history: addresses whose role could not be taken back

accountsVars == <<time, adminEmails, restarts, users, login, tokens, lastListed, notDemoted>>
process      == <<time, adminEmails, restarts, lastListed>>

Roles   == {"user", "admin"}
Account == [password : Passwords, role : Roles]
Token   == [email : Emails, role : Roles, expires : Nat]
Login   == [email : Emails, role : Roles]

NobodyLeaves(e) ==                                               \* a slip
    IF e \in adminEmails THEN "admin"
    ELSE IF users[e] = NoAccount THEN "user" ELSE users[e].role

\* IsAdminEmail
RoleFor(e) == IF e \in adminEmails THEN "admin" ELSE "user"

\* issueSession
Issue(e, role) == tokens' = tokens \cup {[email |-> e, role |-> role, expires |-> time + JWTTTL]}

RequireAuth(t) == time < t.expires

RequireAdmin(t) == RequireAuth(t) /\ t.role = "admin"

Listing(when, list) ==
    lastListed' = [e \in Emails |-> IF e \in list THEN when ELSE lastListed[e]]

AccountsInit ==
    /\ time = 0
    /\ adminEmails \in SUBSET Emails
    /\ restarts = 0
    /\ users = [e \in Emails |-> NoAccount]
    /\ login = [r \in Logins |-> NoLogin]
    /\ tokens = {}
    /\ lastListed = [e \in Emails |-> IF e \in adminEmails THEN 0 ELSE -1]
    /\ notDemoted = {}

TimePasses ==
    /\ time < LastTick
    /\ time' = time + 1
    /\ Listing(time', adminEmails)
    /\ UNCHANGED <<adminEmails, restarts, users, login, tokens, notDemoted>>

\* The process starts anew, with the list it then finds; its requests are gone.
Restart(list) ==
    /\ restarts < MaxRestarts
    /\ restarts' = restarts + 1
    /\ adminEmails' = list
    /\ login' = [r \in Logins |-> NoLogin]
    /\ Listing(time, list)
    /\ UNCHANGED <<time, users, tokens, notDemoted>>

\* handleRegister: CreateUser is one INSERT, refused if the address is taken.
Register(e, password, confirmation) ==
    /\ password = confirmation
    /\ users[e] = NoAccount
    /\ users' = [users EXCEPT ![e] = [password |-> password, role |-> RoleFor(e)]]
    /\ Issue(e, RoleFor(e))
    /\ UNCHANGED <<process, login, notDemoted>>

\* handleLogin, up to the password: the row is read ...
GetUserAuthByEmail(r, e, password) ==
    /\ login[r] = NoLogin
    /\ users[e] # NoAccount /\ users[e].password = password
    /\ login' = [login EXCEPT ![r] = [email |-> e, role |-> users[e].role]]
    /\ UNCHANGED <<process, users, tokens, notDemoted>>

LoggedIn(r) == login' = [login EXCEPT ![r] = NoLogin]

\* ... and its role is kept as it is, ...
KeepRole(r) ==
    /\ login[r] # NoLogin
    /\ login[r].role = RoleFor(login[r].email)
    /\ Issue(login[r].email, login[r].role)
    /\ LoggedIn(r)
    /\ UNCHANGED <<process, users, notDemoted>>

\* ... is changed in the table, ...
UpdateUserRole(r) ==
    /\ login[r] # NoLogin
    /\ LET e == login[r].email IN
           /\ login[r].role # RoleFor(e)
           /\ users' = [users EXCEPT ![e].role = RoleFor(e)]
           /\ Issue(e, RoleFor(e))
    /\ LoggedIn(r)
    /\ UNCHANGED <<process, notDemoted>>

\* ... or cannot be, and the session is for the role as it was.
UpdateUserRoleFails(r) ==
    /\ login[r] # NoLogin
    /\ LET e == login[r].email IN
           /\ login[r].role # RoleFor(e)
           /\ Issue(e, login[r].role)
           /\ notDemoted' = IF login[r].role = "admin" THEN notDemoted \cup {e}
                            ELSE notDemoted
    /\ LoggedIn(r)
    /\ UNCHANGED <<process, users>>

LoginDies(r) ==
    /\ login[r] # NoLogin
    /\ LoggedIn(r)
    /\ UNCHANGED <<process, users, tokens, notDemoted>>

AccountsNext ==
    \/ TimePasses
    \/ \E list \in SUBSET Emails : Restart(list)
    \/ \E e \in Emails, p, q \in Passwords : Register(e, p, q)
    \/ \E r \in Logins :
           \/ \E e \in Emails, p \in Passwords : GetUserAuthByEmail(r, e, p)
           \/ KeepRole(r) \/ UpdateUserRole(r) \/ UpdateUserRoleFails(r) \/ LoginDies(r)

AccountsSpec == AccountsInit /\ [][AccountsNext]_accountsVars

-----------------------------------------------------------------------------
(* Properties *)

\* The process, the table, logins, tokens and history hold values of their types.
AccountsTypeOK ==
    /\ time \in 0 .. LastTick /\ restarts \in 0 .. MaxRestarts
    /\ adminEmails \in SUBSET Emails /\ notDemoted \in SUBSET Emails
    /\ users \in [Emails -> Account \cup {NoAccount}]
    /\ login \in [Logins -> Login \cup {NoLogin}]
    /\ tokens \in SUBSET Token
    /\ lastListed \in [Emails -> Nat \cup {-1}]

\* An address that leaves the list keeps what a token of its own still gives
\* it, and no longer than a token lives: however logins, restarts and the
\* changes of the table interleave, whoever passes RequireAdmin has been on
\* the list within that time, unless the table refused to take the role back.
AdminsLapse ==
    \A t \in tokens : RequireAdmin(t) /\ t.email \notin notDemoted =>
        lastListed[t.email] >= 0 /\ time < lastListed[t.email] + JWTTTL
=============================================================================
