------------------------------- MODULE Accounts -------------------------------
(***************************************************************************)
(* The user accounts: the store in SQLite                                  *)
(* (src/internal/storage/sqlite_users.go) and the handlers that change it  *)
(* (src/internal/api/user_handlers.go).  A registration is a handler of    *)
(* several calls to the store, and several run at a time; the others make  *)
(* one call.                                                               *)
(*                                                                         *)
(* Of an account the model has what decides who is listed for a digest;    *)
(* its watchlist, contents and threshold only matter to what a digest says *)
(* and are left out, as are passwords and logins, which change nothing.    *)
(* The accounts of administrators are others than those modelled.          *)
(***************************************************************************)
EXTENDS Naturals, FiniteSets, Faults

CONSTANTS Registrations,  \* register requests served at a time
          Emails,
          Chosen,         \* the frequencies that users choose
          MaxAccounts,    \* bound on the accounts ever made
          NoAccount

Frequencies == {"none", "daily", "weekly", "both"}
Ids == 1..MaxAccounts

ASSUME AccountsAssumption ==
    /\ Chosen \subseteq Frequencies
    /\ MaxAccounts \in Nat
    /\ NoAccount \notin 1..MaxAccounts

VARIABLES
    accounts,    \* the table of users
    made,        \* accounts ever made
    dbOpen,      \* the database is open
    registering, \* where each registration is,
    whose,       \* with which address,
    newAccount   \* and the account it has made

accountVars == <<accounts, made, dbOpen, registering, whose, newAccount>>

AccountsInit ==
    /\ accounts = {}
    /\ made = 0
    /\ dbOpen = TRUE
    /\ registering = [r \in Registrations |-> "idle"]
    /\ whose = [r \in Registrations |-> NoAccount]
    /\ newAccount = [r \in Registrations |-> NoAccount]

\* A statement is carried out, or fails; with the database closed all fail.
StatementWorks == dbOpen /\ Works
StatementFails == IF dbOpen THEN Fails ELSE Works

\* UPDATE ... WHERE id = ?: no row, no change.
Updated(id, column, value) ==
    {IF a.id = id THEN [a EXCEPT ![column] = value] ELSE a : a \in accounts}

-----------------------------------------------------------------------------
(* handleRegister *)

RegisteringGoes(r, next) ==
    /\ registering' = [registering EXCEPT ![r] = next]
    /\ UNCHANGED whose

Registered(r) ==
    /\ registering' = [registering EXCEPT ![r] = "idle"]
    /\ whose' = [whose EXCEPT ![r] = NoAccount]
    /\ newAccount' = [newAccount EXCEPT ![r] = NoAccount]

\* With MaxAccounts made no more come.
RegisterComes(r, email) ==
    /\ registering[r] = "idle"
    /\ made < MaxAccounts
    /\ registering' = [registering EXCEPT ![r] = "checking"]
    /\ whose' = [whose EXCEPT ![r] = email]
    /\ UNCHANGED <<accounts, made, dbOpen, newAccount, faults>>

Taken(email) == \E a \in accounts : a.email = email

\* GetUserByEmail: 409 when there is one, and then HashPassword.
AddressChecked(r) ==
    /\ registering[r] = "checking"
    /\ \/ StatementWorks /\ Taken(whose[r]) /\ Registered(r)
       \/ StatementWorks /\ ~ Taken(whose[r]) /\ RegisteringGoes(r, "creating") /\ UNCHANGED newAccount
       \/ StatementFails /\ Registered(r)
    /\ UNCHANGED <<accounts, made, dbOpen>>

\* Mutant: the column email is not UNIQUE.
RefusesNone(email) == FALSE

\* The constraint on the column email.
Refuses(email) == Taken(email)

\* CreateUser; when it fails, also since another registration was first: 500.
AccountCreated(r) ==
    LET inserted == /\ made' = made + 1
                    /\ accounts' = accounts \cup {[id |-> made', email |-> whose[r], freq |-> "daily",
                                                   verified |-> FALSE]}
    IN  /\ registering[r] = "creating"
        /\ made < MaxAccounts
        /\ \/ /\ StatementWorks /\ ~ Refuses(whose[r]) /\ inserted
              /\ RegisteringGoes(r, "verifying")
              /\ newAccount' = [newAccount EXCEPT ![r] = made']
           \/ /\ StatementWorks /\ Refuses(whose[r]) /\ Registered(r)
              /\ UNCHANGED <<accounts, made>>
           \/ StatementFails /\ Registered(r) /\ UNCHANGED <<accounts, made>>
        /\ UNCHANGED dbOpen

\* SetVerified, its error ignored: the account then never gets a digest.
AccountVerified(r) ==
    /\ registering[r] = "verifying"
    /\ \/ StatementWorks /\ accounts' = Updated(newAccount[r], "verified", TRUE)
       \/ StatementFails /\ UNCHANGED accounts
    /\ Registered(r)
    /\ UNCHANGED <<made, dbOpen>>

-----------------------------------------------------------------------------
(* The other handlers: a failed statement changes nothing. *)

\* handleUpdatePreferences, and handleUnsubscribe with freq = "none".
FrequencySet(id, freq) ==
    /\ StatementWorks
    /\ accounts' = Updated(id, "freq", freq)
    /\ UNCHANGED <<made, dbOpen, registering, whose, newAccount>>

\* handleAdminDeleteUser.
AccountDeleted(id) ==
    /\ StatementWorks
    /\ accounts' = {a \in accounts : a.id # id}
    /\ UNCHANGED <<made, dbOpen, registering, whose, newAccount>>

AccountsNext ==
    \/ \E r \in Registrations :
          \/ \E email \in Emails : RegisterComes(r, email)
          \/ AddressChecked(r) \/ AccountCreated(r) \/ AccountVerified(r)
    \/ \E id \in 1..made : (\E freq \in Chosen \cup {"none"} : FrequencySet(id, freq)) \/ AccountDeleted(id)

-----------------------------------------------------------------------------

AccountsTypeOK ==
    /\ made \in 0..MaxAccounts
    /\ accounts \subseteq [id : 1..made, email : Emails, freq : Frequencies, verified : BOOLEAN]
    /\ dbOpen \in BOOLEAN
    /\ registering \in [Registrations -> {"idle", "checking", "creating", "verifying"}]
    /\ whose \in [Registrations -> Emails \cup {NoAccount}]
    /\ newAccount \in [Registrations -> Ids \cup {NoAccount}]
    /\ \A a, b \in accounts : a.email = b.email => a = b   \* UNIQUE

=============================================================================
