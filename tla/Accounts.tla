------------------------------- MODULE Accounts -------------------------------
(***************************************************************************)
(* Registration and login in the auth service.  Registering is two         *)
(* transactions with a call of the user service between them, and any of   *)
(* the three may fail or be the last thing its process does; the client    *)
(* registers again.  A request the rate limiter refuses changes nothing    *)
(* and is left out.  The repositories are ports without an adapter here.   *)
(* One e-mail address.                                                     *)
(***************************************************************************)
EXTENDS Naturals, FiniteSets

CONSTANTS
    Clients,    \* concurrent requests
    Passwords,  \* what they send
    NoPassword  \* none of them

VARIABLES
    account,     \* the account of the address: status, user id and lock
    credential,  \* its password
    role,        \* whether it has a role
    hasProfile,  \* whether the user service has a profile for it
    registered,  \* whether auth.account.registered was put into the outbox
    sessions,    \* refresh sessions: passwords they were opened with
    client       \* requests: their step and password

vars == <<account, credential, role, hasProfile, registered, sessions, client>>

AccountStatuses == {"NONE", "PENDING_PROFILE", "ACTIVE", "DISABLED", "BANNED", "EXPIRED"}
Account == [status : AccountStatuses, userId : BOOLEAN, locked : BOOLEAN]
Idle == [step |-> "Idle", password |-> NoPassword]
Client ==
    {Idle} \cup [step : {"Profile", "Activate", "Verify", "Session"}, password : Passwords]

Init ==
    /\ account = [status |-> "NONE", userId |-> FALSE, locked |-> FALSE]
    /\ credential = NoPassword /\ role = FALSE /\ hasProfile = FALSE
    /\ registered = FALSE /\ sessions = {}
    /\ client = [c \in Clients |-> Idle]

At(c, step) == client[c].step = step
Goes(c, step) == client' = [client EXCEPT ![c].step = step]
Ends(c) == client' = [client EXCEPT ![c] = Idle]

-----------------------------------------------------------------------------
(* RegisterAccount *)

\* Transaction A.  A pending account is loaded and its credential replaced; the
\* repository refuses one that is not pending.
CreateOrLoadPending(c, p) ==
    /\ At(c, "Idle") /\ account.status \in {"NONE", "PENDING_PROFILE"}
    /\ account' = [account EXCEPT !.status = "PENDING_PROFILE"]
    /\ credential' = p
    /\ client' = [client EXCEPT ![c] = [step |-> "Profile", password |-> p]]
    /\ UNCHANGED <<role, hasProfile, registered, sessions>>

WrongProfileAnswered == TRUE

\* An error, or a user id of zero, ends the registration.
ProfileAnswered == hasProfile'

\* The user service answers a repeated call with the profile there is; its answer
\* may be lost.
CreateProfileForAccount(c) ==
    /\ At(c, "Profile")
    /\ hasProfile' \in {hasProfile, TRUE}
    /\ \/ ProfileAnswered /\ Goes(c, "Activate")
       \/ Ends(c)
    /\ UNCHANGED <<account, credential, role, registered, sessions>>

\* Transaction B: activation, role and event.  Whether the repository takes an account
\* that another registration has activated, only its adapter will say.
Activate(c) ==
    /\ At(c, "Activate")
    /\ \/ /\ account.status \in {"PENDING_PROFILE", "ACTIVE"}
          /\ account' = [account EXCEPT !.status = "ACTIVE", !.userId = TRUE]
          /\ role' = TRUE /\ registered' = TRUE
       \/ UNCHANGED <<account, role, registered>>
    /\ Ends(c)
    /\ UNCHANGED <<credential, hasProfile, sessions>>

-----------------------------------------------------------------------------
(* Login *)

CanLogin ==
    /\ account.status \notin {"NONE", "DISABLED", "BANNED"}
    /\ account.status = "ACTIVE" => account.userId
    /\ ~account.locked
    /\ account.status = "ACTIVE"

FindByEmail(c, p) ==
    /\ At(c, "Idle") /\ CanLogin
    /\ client' = [client EXCEPT ![c] = [step |-> "Verify", password |-> p]]
    /\ UNCHANGED <<account, credential, role, hasProfile, registered, sessions>>

VerifyPassword(c) ==
    /\ At(c, "Verify")
    /\ IF client[c].password = credential THEN Goes(c, "Session") ELSE Ends(c)
    /\ UNCHANGED <<account, credential, role, hasProfile, registered, sessions>>

\* The access token is issued after the session is stored: if that fails the session
\* stays, and nobody has its token.
CreateSession(c) ==
    /\ At(c, "Session")
    /\ sessions' = sessions \cup {client[c].password}
    /\ Ends(c)
    /\ UNCHANGED <<account, credential, role, hasProfile, registered>>

\* A call fails, or the process dies.
Fail(c) ==
    /\ ~At(c, "Idle") /\ Ends(c)
    /\ UNCHANGED <<account, credential, role, hasProfile, registered, sessions>>

\* Administration: the statuses that no code of the repository sets yet
Govern ==
    /\ account.status # "NONE" /\ account.status # "PENDING_PROFILE"
    /\ account' \in [status : {"ACTIVE", "DISABLED", "BANNED", "EXPIRED"},
                     userId : {account.userId}, locked : BOOLEAN]
    /\ UNCHANGED <<credential, role, hasProfile, registered, sessions, client>>

-----------------------------------------------------------------------------
Next ==
    \/ \E c \in Clients :
          \/ \E p \in Passwords : CreateOrLoadPending(c, p) \/ FindByEmail(c, p)
          \/ CreateProfileForAccount(c) \/ Activate(c)
          \/ VerifyPassword(c) \/ CreateSession(c) \/ Fail(c)
    \/ Govern

Spec == Init /\ [][Next]_vars

-----------------------------------------------------------------------------
(* What holds of every reachable state *)

TypeOK ==
    /\ account \in Account /\ credential \in Passwords \cup {NoPassword}
    /\ role \in BOOLEAN /\ hasProfile \in BOOLEAN /\ registered \in BOOLEAN
    /\ sessions \subseteq Passwords /\ client \in [Clients -> Client]

\* An account that left PENDING_PROFILE has all its registration promises: a profile
\* in the user service, a role and the event that announces it, wherever earlier
\* attempts to register it broke off.
RegisteredIsComplete ==
    account.status \notin {"NONE", "PENDING_PROFILE"} =>
        account.userId /\ hasProfile /\ role /\ registered

\* Nobody has a session before the registration is complete, and a session was
\* opened with the one password the account has had since.
SessionsAfterRegistration ==
    sessions # {} => registered /\ sessions = {credential}

-----------------------------------------------------------------------------
(* The inductive invariant *)

Pending == account.status \in {"NONE", "PENDING_PROFILE"}

\* What a request has got past is still true when it goes on: a profile does not vanish,
\* and the credential of an account that is registered does not change.
RequestsUpToDate ==
    /\ registered => ~Pending
    /\ \A c \in Clients :
          /\ At(c, "Activate") => hasProfile
          /\ At(c, "Verify") => ~Pending
          /\ At(c, "Session") => ~Pending /\ client[c].password = credential

IInv == TypeOK /\ RegisteredIsComplete /\ SessionsAfterRegistration /\ RequestsUpToDate
=============================================================================
