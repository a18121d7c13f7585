------------------------------ MODULE Accounts ------------------------------
(***************************************************************************)
(* The users of the registry, their cookies and tokens, and the owners of  *)
(* a package: src/src/services/database/users.rs, admin.rs and mod.rs, the *)
(* ownership part of packages.rs, and how src/src/application.rs and       *)
(* src/src/routes.rs authenticate and authorize each operation.            *)
(*                                                                         *)
(* An operation runs in one write transaction and the pool has one write   *)
(* connection, so an operation is one action.  A refused operation rolls   *)
(* back and is no step.  What lives across operations is what the clients  *)
(* hold: a cookie is never invalidated, so it may be used long after its   *)
(* user was renamed, demoted, deactivated or deleted and came back.        *)
(***************************************************************************)
EXTENDS Naturals, Sequences

CONSTANTS Emails,       \* the accounts of the OAuth provider
          Logins,       \* user names
          Preferred,    \* the part of an email before @
          MaxUsers,     \* bound: how many rows RegistryUser ever gets
          TokenSlots,   \* bound: how many tokens exist at once
          GlobalNames,  \* names given to the global tokens
          UserLists,    \* the lists of emails that the owners requests name
          None          \* no email, no login, no token

ASSUME PreferredAssumption == Preferred \in [Emails -> Logins]
ASSUME MaxUsersAssumption == MaxUsers \in Nat
ASSUME UserListsAssumption == UserLists \subseteq Seq(Emails)
ASSUME NoneAssumption == None \notin Emails \cup Logins

Uids == 1..MaxUsers
NoUid == 0

Token == [user : Uids, can_write : BOOLEAN, can_admin : BOOLEAN]
Authentication == [uid : Uids \cup {NoUid}, email : Emails \cup {None},
                   can_write : BOOLEAN, can_admin : BOOLEAN]

ASSUME NoneIsNoToken == None \notin Token

VARIABLES
    users,      \* the ids of the rows of RegistryUser
    email,      \* their emails
    login,      \* their logins
    active,     \* those with isActive
    admins,     \* those whose roles hold "admin"
    nextId,     \* the AUTOINCREMENT counter of RegistryUser
    cookies,    \* every cookie handed out
    tokens,     \* RegistryUserToken: the secrets, each of one user
    globals,    \* RegistryGlobalToken: the names
    owners,     \* PackageOwner: how many rows name each user
    package,    \* whether the package exists
    references  \* the uids in PackageVersion.uploadedBy, DocGenJob.triggerUser

userVars == <<users, email, login, active, admins, nextId>>
crateVars == <<owners, package, references>>
vars == <<userVars, cookies, tokens, globals, crateVars>>

Init ==
    /\ users = {} /\ active = {} /\ admins = {}
    /\ email = [u \in Uids |-> None]
    /\ login = [u \in Uids |-> None]
    /\ nextId = 1
    /\ cookies = {}
    /\ tokens = [t \in TokenSlots |-> None]
    /\ globals = {}
    /\ owners = [u \in Uids |-> 0]
    /\ package = FALSE
    /\ references = {}

-----------------------------------------------------------------------------
(* Authentication                                                          *)

(* The rows of the active user of an email.                                *)
ActiveUsers(e) == {u \in active : email[u] = e}

(* The roles of a user are read by id, whether it is active or not.        *)
IsAdmin(uid) == uid \in admins

new_user(uid, e) ==
    [uid |-> uid, email |-> e, can_write |-> TRUE, can_admin |-> TRUE]

(* A cookie authenticates the user it names as long as its email is the    *)
(* one of an active user: the uid is taken from the cookie.                *)
CookieAuthentications ==
    {new_user(c.uid, c.email) : c \in {c \in cookies : ActiveUsers(c.email) # {}}}

(* A token authenticates the user of its row, when it is active.           *)
UserTokenAuthentications ==
    {[uid |-> tokens[t].user, email |-> email[tokens[t].user],
      can_write |-> tokens[t].can_write, can_admin |-> tokens[t].can_admin] :
        t \in {t \in TokenSlots : tokens[t] # None /\ tokens[t].user \in active}}

(* A global token, or the registry itself, authenticates no user and gives *)
(* no right but to read.                                                   *)
ServiceAuthentication ==
    [uid |-> NoUid, email |-> None, can_write |-> FALSE, can_admin |-> FALSE]

(* What the requests sent now may be authenticated as.                     *)
Authentications ==
    CookieAuthentications \cup UserTokenAuthentications \cup {ServiceAuthentication}

(* An authentication that is the one of a user.                            *)
HasUid(auth) == auth.uid # NoUid

CanAdminRegistry(auth) == auth.can_admin /\ HasUid(auth) /\ IsAdmin(auth.uid)

IsCrateManager(uid) == IsAdmin(uid) \/ owners[uid] > 0

CanManageCrate(auth) == auth.can_write /\ HasUid(auth) /\ IsCrateManager(auth.uid)

-----------------------------------------------------------------------------
(* Users                                                                   *)

FreeLogins == {l \in Logins : \A u \in users : login[u] # l}

X_NewLogins_Once(e) == IF Preferred[e] \in FreeLogins THEN {Preferred[e]} ELSE Logins

(* The name of a new user is the one of its email when it is free, else    *)
(* any generated one that is.                                              *)
NewLogins(e) == IF Preferred[e] \in FreeLogins THEN {Preferred[e]} ELSE FreeLogins

(* The first user of the registry is its admin.                            *)
CreateUser(e) ==
    /\ nextId <= MaxUsers
    /\ users' = users \cup {nextId}
    /\ active' = active \cup {nextId}
    /\ admins' = IF users = {} THEN {nextId} ELSE admins
    /\ email' = [email EXCEPT ![nextId] = e]
    /\ \E l \in NewLogins(e) : login' = [login EXCEPT ![nextId] = l]
    /\ nextId' = nextId + 1
    /\ cookies' = cookies \cup {[uid |-> nextId, email |-> e]}

FindUser(e) == {u \in users : email[u] = e}

(* A user logs in with its account of the OAuth provider and gets a cookie.*)
LoginWithOauthCode(e) ==
    /\ \/ /\ \E u \in FindUser(e) \cap active :
                cookies' = cookies \cup {[uid |-> u, email |-> e]}
          /\ UNCHANGED userVars
       \/ FindUser(e) = {} /\ CreateUser(e)
    /\ UNCHANGED <<tokens, globals, crateVars>>

X_update_user_NotSelf(principal, u, l, admin, can_admin) ==
    /\ u \in users
    /\ can_admin \/ (admin <=> IsAdmin(u))
    /\ l # login[u] => l \in FreeLogins
    /\ login' = [login EXCEPT ![u] = l]
    /\ admins' = IF admin THEN admins \cup {u} ELSE admins \ {u}

(* The update of a row, for a principal that may or may not administrate.  *)
update_user(principal, u, l, admin, can_admin) ==
    /\ u \in users
    /\ can_admin \/ (admin <=> IsAdmin(u))
    /\ (can_admin /\ u = principal) => admin
    /\ l # login[u] => l \in FreeLogins
    /\ login' = [login EXCEPT ![u] = l]
    /\ admins' = IF admin THEN admins \cup {u} ELSE admins \ {u}

UpdateUser(auth, u, l, admin) ==
    /\ HasUid(auth)
    /\ IF u = auth.uid
       THEN /\ auth.can_admin => auth.uid \in users
            /\ update_user(auth.uid, u, l, admin, auth.can_admin /\ IsAdmin(u))
       ELSE CanAdminRegistry(auth) /\ update_user(auth.uid, u, l, admin, TRUE)
    /\ UNCHANGED <<users, email, active, nextId, cookies, tokens, globals, crateVars>>

DeactivateUser(auth, e) ==
    /\ CanAdminRegistry(auth)
    /\ \E u \in ActiveUsers(e) \ {auth.uid} : active' = active \ {u}
    /\ UNCHANGED <<users, email, login, admins, nextId, cookies, tokens, globals, crateVars>>

ReactivateUser(auth, e) ==
    /\ CanAdminRegistry(auth)
    /\ active' = active \cup FindUser(e)
    /\ UNCHANGED <<users, email, login, admins, nextId, cookies, tokens, globals, crateVars>>

(* The database refuses a row that refers to no user, and to delete a user *)
(* that a row refers to.                                                   *)
ForeignKeysAllow(u) == u \notin references

(* Without AUTOINCREMENT the id of the last user deleted is given again.   *)
X_DeleteUser_IdReused(auth, e) ==
    /\ CanAdminRegistry(auth)
    /\ \E u \in FindUser(e) \ {auth.uid} :
         /\ ForeignKeysAllow(u)
         /\ tokens' = [t \in TokenSlots |->
                         IF tokens[t] # None /\ tokens[t].user = u THEN None ELSE tokens[t]]
         /\ owners' = [owners EXCEPT ![u] = 0]
         /\ users' = users \ {u}
         /\ active' = active \ {u}
         /\ admins' = admins \ {u}
         /\ email' = [email EXCEPT ![u] = None]
         /\ login' = [login EXCEPT ![u] = None]
         /\ nextId' = IF \A v \in users : v <= u THEN u ELSE nextId
    /\ UNCHANGED <<cookies, globals, package, references>>

DeleteUser(auth, e) ==
    /\ CanAdminRegistry(auth)
    /\ \E u \in FindUser(e) \ {auth.uid} :
         /\ ForeignKeysAllow(u)
         /\ tokens' = [t \in TokenSlots |->
                         IF tokens[t] # None /\ tokens[t].user = u THEN None ELSE tokens[t]]
         /\ owners' = [owners EXCEPT ![u] = 0]
         /\ users' = users \ {u}
         /\ active' = active \ {u}
         /\ admins' = admins \ {u}
         /\ email' = [email EXCEPT ![u] = None]
         /\ login' = [login EXCEPT ![u] = None]
    /\ UNCHANGED <<nextId, cookies, globals, package, references>>

-----------------------------------------------------------------------------
(* Tokens                                                                  *)

X_CreateToken_AnyUser(auth, t, can_write, can_admin) ==
    /\ auth.can_admin /\ HasUid(auth)
    /\ tokens[t] = None
    /\ tokens' = [tokens EXCEPT ![t] = [user |-> auth.uid, can_write |-> can_write,
                                        can_admin |-> can_admin]]
    /\ UNCHANGED <<userVars, cookies, globals, crateVars>>

(* The rights of a token are the ones asked for, whoever asks; the foreign *)
(* key refuses a token to a user that is no more.                          *)
CreateToken(auth, t, can_write, can_admin) ==
    /\ auth.can_admin /\ HasUid(auth)
    /\ auth.uid \in users
    /\ tokens[t] = None
    /\ tokens' = [tokens EXCEPT ![t] = [user |-> auth.uid, can_write |-> can_write,
                                        can_admin |-> can_admin]]
    /\ UNCHANGED <<userVars, cookies, globals, crateVars>>

RevokeToken(auth, t) ==
    /\ auth.can_admin /\ HasUid(auth)
    /\ tokens[t] # None /\ tokens[t].user = auth.uid
    /\ tokens' = [tokens EXCEPT ![t] = None]
    /\ UNCHANGED <<userVars, cookies, globals, crateVars>>

CreateGlobalToken(auth, name) ==
    /\ CanAdminRegistry(auth)
    /\ name \notin globals
    /\ globals' = globals \cup {name}
    /\ UNCHANGED <<userVars, cookies, tokens, crateVars>>

RevokeGlobalToken(auth, name) ==
    /\ CanAdminRegistry(auth)
    /\ globals' = globals \ {name}
    /\ UNCHANGED <<userVars, cookies, tokens, crateVars>>

-----------------------------------------------------------------------------
(* Owners of the package                                                   *)

(* The first publisher of the package owns it; the row of the version      *)
(* refers to the one that uploaded it.                                     *)
PublishCrateVersion(auth) ==
    /\ auth.can_write /\ HasUid(auth) /\ auth.uid \in users
    /\ IF package THEN IsCrateManager(auth.uid) /\ UNCHANGED owners
                  ELSE owners' = [owners EXCEPT ![auth.uid] = 1]
    /\ package' = TRUE
    /\ references' = references \cup {auth.uid}
    /\ UNCHANGED <<userVars, cookies, tokens, globals>>

(* The documentation of a version is queued again by a manager.            *)
QueueDocs(auth) ==
    /\ CanManageCrate(auth) /\ package /\ auth.uid \in users
    /\ references' = references \cup {auth.uid}
    /\ UNCHANGED <<userVars, cookies, tokens, globals, owners, package>>

(* Each user of the list is compared with the rows read at the start.      *)
AddOwner(rows, e) ==
    [u \in Uids |-> rows[u] + IF u \in ActiveUsers(e) /\ owners[u] = 0 THEN 1 ELSE 0]

(* The rows after each user of a list.                                     *)
Adding(list) ==
    LET rows[i \in 0..Len(list)] ==
            IF i = 0 THEN owners ELSE AddOwner(rows[i - 1], list[i])
    IN  rows

(* One email that is not the one of an active user refuses the whole list. *)
AllActive(list) == \A i \in DOMAIN list : ActiveUsers(list[i]) # {}

AddOwners(auth, list) ==
    /\ CanManageCrate(auth) /\ package
    /\ AllActive(list)
    /\ owners' = Adding(list)[Len(list)]
    /\ UNCHANGED <<userVars, cookies, tokens, globals, package, references>>

(* There is only one row.                                                  *)
Single(rows) ==
    \E u \in Uids : rows[u] = 1 /\ \A v \in Uids \ {u} : rows[v] = 0

(* The number of owners is the one read at the start.                      *)
X_RemoveOwner_Stale(acc, e) ==
    LET found == {u \in ActiveUsers(e) : acc.current_owners[u] > 0}
    IN  [rows |-> [u \in Uids |-> IF u \in found THEN 0 ELSE acc.rows[u]],
         current_owners |-> [u \in Uids |-> IF u \in found THEN acc.current_owners[u] - 1
                                                          ELSE acc.current_owners[u]],
         ok |-> acc.ok /\ (found # {} => ~Single(owners))]

(* The rows are deleted by owner, while current_owners loses one entry;    *)
(* the last entry stays, and with it the whole request is refused.         *)
RemoveOwner(acc, e) ==
    LET found == {u \in ActiveUsers(e) : acc.current_owners[u] > 0}
    IN  [rows |-> [u \in Uids |-> IF u \in found THEN 0 ELSE acc.rows[u]],
         current_owners |-> [u \in Uids |-> IF u \in found THEN acc.current_owners[u] - 1
                                                          ELSE acc.current_owners[u]],
         ok |-> acc.ok /\ (found # {} => ~Single(acc.current_owners))]

(* The same after each user of a list.                                     *)
Removing(list) ==
    LET acc[i \in 0..Len(list)] ==
            IF i = 0 THEN [rows |-> owners, current_owners |-> owners, ok |-> TRUE]
                     ELSE RemoveOwner(acc[i - 1], list[i])
    IN  acc

RemoveOwners(auth, list) ==
    LET result == Removing(list)[Len(list)]
    IN  /\ CanManageCrate(auth)
        /\ AllActive(list)
        /\ result.ok
        /\ owners' = result.rows
        /\ UNCHANGED <<userVars, cookies, tokens, globals, package, references>>

-----------------------------------------------------------------------------

UserNext ==
    \/ \E e \in Emails : LoginWithOauthCode(e)
    \/ \E auth \in Authentications :
         \/ \E u \in Uids, l \in Logins, admin \in BOOLEAN : UpdateUser(auth, u, l, admin)
         \/ \E e \in Emails : DeactivateUser(auth, e) \/ ReactivateUser(auth, e)
                              \/ DeleteUser(auth, e)

TokenNext ==
    \E auth \in Authentications :
        \/ \E t \in TokenSlots, w \in BOOLEAN, a \in BOOLEAN : CreateToken(auth, t, w, a)
        \/ \E t \in TokenSlots : RevokeToken(auth, t)
        \/ \E name \in GlobalNames : CreateGlobalToken(auth, name) \/ RevokeGlobalToken(auth, name)

CrateNext ==
    \E auth \in Authentications :
        \/ PublishCrateVersion(auth)
        \/ QueueDocs(auth)
        \/ \E list \in UserLists : AddOwners(auth, list) \/ RemoveOwners(auth, list)

Next == UserNext \/ TokenNext \/ CrateNext

Spec == Init /\ [][Next]_vars

-----------------------------------------------------------------------------
(* Properties                                                              *)

TypeOK ==
    /\ users \subseteq Uids /\ active \subseteq users /\ admins \subseteq users
    /\ nextId \in 1..MaxUsers + 1
    /\ email \in [Uids -> Emails \cup {None}]
    /\ login \in [Uids -> Logins \cup {None}]
    /\ \A u \in Uids : u \in users <=> email[u] # None
    /\ \A u \in Uids : u \in users <=> login[u] # None
    /\ cookies \subseteq [uid : Uids, email : Emails]
    /\ tokens \in [TokenSlots -> Token \cup {None}]

(* No two users have the same email, or the same login, whatever the order *)
(* of logins, renames, deletions and returns: no UNIQUE of the schema says *)
(* so, and a request authenticated with a login and a secret, or with a    *)
(* cookie, is the one of the only row that matches (users.rs:80, 100, 166).*)
OneUserPerName ==
    \A u, v \in users : u # v => email[u] # email[v] /\ login[u] # login[v]

(* A registry that has users has an active admin: no order in which admins *)
(* demote, deactivate or delete each other leaves nobody to repair the     *)
(* registry, although each operation only checks that it does not name the *)
(* one who asks (users.rs:157, 193, 218).                                  *)
AdminRemains == users # {} => \E u \in users : u \in active /\ u \in admins

(* A cookie names a row that was created before, and while that row is     *)
(* there its email is the one of the cookie: a user deleted and back under *)
(* the same email has another id, so its old cookies name no other user.   *)
CookiesConsistent ==
    \A c \in cookies : c.uid < nextId /\ (c.uid \in users => email[c.uid] = c.email)

(* A token is never left behind by its user (users.rs:221, schema.sql:24). *)
TokensHaveUser == \A t \in TokenSlots : tokens[t] # None => tokens[t].user \in users

(* No list of a request names an account twice.                            *)
ListsNameOnce ==
    \A list \in UserLists : \A i, j \in DOMAIN list : list[i] = list[j] => i = j

(* Nothing in the schema says so, but then no user owns a package twice.   *)
OwnersListedOnce == \A u \in Uids : owners[u] <= 1

(* What users, cookies and tokens are, in the order of the names above.    *)
UsersInv ==
    /\ TypeOK
    /\ \A u \in users : u < nextId
    /\ OneUserPerName
    /\ AdminRemains
    /\ CookiesConsistent
    /\ TokensHaveUser

(* What the owners are.                                                    *)
OwnersInv ==
    /\ owners \in [Uids -> Nat]
    /\ ListsNameOnce => OwnersListedOnce

(* The inductive invariant.                                                *)
IInv == UsersInv /\ OwnersInv

(* Whatever cookie or token a request carries, the user it acts as is      *)
(* gone, or is active and has the email the request was admitted for: the  *)
(* cookie is checked by its email only and acts by its uid                 *)
(* (application.rs:867), a token by the login (users.rs:323).              *)
ActsAsSelf ==
    \A auth \in Authentications :
        auth.uid \in users => auth.uid \in active /\ email[auth.uid] = auth.email

Owned == \E u \in Uids : owners[u] > 0

(* No request about owners, whatever list it carries, leaves the package   *)
(* without any: only the deletion of a user may (packages.rs:745 "cannot   *)
(* remove the last one").                                                  *)
OwnersRemain == [][Owned /\ users' = users => Owned']_vars
=============================================================================
