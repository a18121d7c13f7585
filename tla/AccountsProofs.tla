--------------------------- MODULE AccountsProofs ---------------------------
(***************************************************************************)
(* Proofs about Accounts, for any accounts of the provider, any logins,    *)
(* any number of users and tokens, and any lists of owners.                *)
(***************************************************************************)
EXTENDS Accounts, SequenceTheorems, VecLemmas, TLAPS

USE PreferredAssumption, MaxUsersAssumption, NoneAssumption, NoneIsNoToken

-----------------------------------------------------------------------------
(* Whoever a request is authenticated as                                   *)

(* An authentication has an id that is NoUid or the one of a user.         *)
LEMMA AuthenticationType ==
    ASSUME TypeOK, NEW auth \in Authentications
    PROVE  auth.uid \in Uids \cup {NoUid}
  <1>1. CASE auth \in CookieAuthentications
    <2>1. PICK c \in cookies : auth = new_user(c.uid, c.email)
      BY <1>1 DEF CookieAuthentications
    <2> QED BY <2>1 DEF TypeOK, new_user
  <1>2. CASE auth \in UserTokenAuthentications
    <2>1. PICK t \in TokenSlots : tokens[t] # None /\ auth.uid = tokens[t].user
      BY <1>2 DEF UserTokenAuthentications
    <2> QED BY <2>1 DEF TypeOK, Token
  <1>3. CASE auth = ServiceAuthentication
    BY <1>3 DEF ServiceAuthentication
  <1> QED BY <1>1, <1>2, <1>3 DEF Authentications

(* The cookie is checked by its email: the active user of that email is    *)
(* the one that the cookie names, since no two have the same.              *)
LEMMA ActingUser ==
    ASSUME UsersInv, NEW auth \in Authentications, auth.uid \in users
    PROVE  auth.uid \in active /\ email[auth.uid] = auth.email
  <1>1. CASE auth \in CookieAuthentications
    <2>1. PICK c \in cookies : auth = new_user(c.uid, c.email) /\ ActiveUsers(c.email) # {}
      BY <1>1 DEF CookieAuthentications
    <2>2. PICK v \in active : email[v] = c.email
      BY <2>1 DEF ActiveUsers
    <2>3. auth.uid = c.uid /\ auth.email = c.email
      BY <2>1 DEF new_user
    <2>4. email[c.uid] = c.email
      BY <2>3 DEF UsersInv, CookiesConsistent
    <2>5. v = c.uid
      BY <2>2, <2>3, <2>4 DEF UsersInv, OneUserPerName, TypeOK
    <2> QED BY <2>2, <2>3, <2>4, <2>5
  <1>2. CASE auth \in UserTokenAuthentications
    <2>1. PICK t \in TokenSlots :
            /\ tokens[t].user \in active
            /\ auth.uid = tokens[t].user /\ auth.email = email[tokens[t].user]
      BY <1>2 DEF UserTokenAuthentications
    <2> QED BY <2>1
  <1>3. CASE auth = ServiceAuthentication
    BY <1>3 DEF ServiceAuthentication, NoUid, UsersInv, TypeOK, Uids
  <1> QED BY <1>1, <1>2, <1>3 DEF Authentications

(* Who may administrate the registry is one of its active admins.          *)
LEMMA AdminActs ==
    ASSUME UsersInv, NEW auth \in Authentications, CanAdminRegistry(auth)
    PROVE  auth.uid \in users /\ auth.uid \in active /\ auth.uid \in admins
  <1>1. auth.uid \in admins /\ auth.uid \in users
    BY DEF CanAdminRegistry, IsAdmin, UsersInv, TypeOK
  <1> QED BY <1>1, ActingUser

-----------------------------------------------------------------------------
(* The operations on users                                                 *)

(* The initial state satisfies the invariant.                              *)
LEMMA InitInvariant == Init => UsersInv
  <1> SUFFICES ASSUME Init PROVE UsersInv
    OBVIOUS
  <1>1. TypeOK
    BY DEF Init, TypeOK, Uids, Token
  <1> QED BY <1>1 DEF Init, UsersInv, OneUserPerName, AdminRemains, CookiesConsistent, TokensHaveUser

(* A new user has the next id, the email that no row has, a login that no  *)
(* row has, and the first cookie for its id.                               *)
LEMMA CreateUserInvariant ==
    ASSUME UsersInv, NEW e \in Emails, FindUser(e) = {}, CreateUser(e), UNCHANGED tokens
    PROVE  UsersInv'
  <1>1. nextId \in Uids /\ nextId \notin users /\ nextId \in Nat
    BY DEF CreateUser, UsersInv, TypeOK, Uids
  <1>2. PICK l \in NewLogins(e) : login' = [login EXCEPT ![nextId] = l]
    BY DEF CreateUser
  <1>3. l \in Logins /\ \A u \in users : login[u] # l
    BY <1>2 DEF NewLogins, FreeLogins
  <1>4. \A u \in users : u \in Uids /\ u # nextId /\ email[u] # e
    BY <1>1 DEF FindUser, UsersInv, TypeOK
  <1>5. \A u \in users : email'[u] = email[u] /\ login'[u] = login[u]
    BY <1>2, <1>4 DEF CreateUser, UsersInv, TypeOK
  <1>6. email'[nextId] = e /\ login'[nextId] = l
    BY <1>1, <1>2 DEF CreateUser, UsersInv, TypeOK
  <1>7. TypeOK'
    <2>1. users' \subseteq Uids /\ active' \subseteq users' /\ admins' \subseteq users'
      BY <1>1 DEF CreateUser, UsersInv, TypeOK
    <2>2. nextId' \in 1..MaxUsers + 1
      BY <1>1 DEF CreateUser, Uids
    <2>3. email' \in [Uids -> Emails \cup {None}] /\ login' \in [Uids -> Logins \cup {None}]
      BY <1>1, <1>2, <1>3 DEF CreateUser, UsersInv, TypeOK
    <2>4. \A u \in Uids : (u \in users' <=> email'[u] # None) /\ (u \in users' <=> login'[u] # None)
      BY <1>1, <1>2, <1>3 DEF CreateUser, UsersInv, TypeOK
    <2>5. cookies' \subseteq [uid : Uids, email : Emails]
      BY <1>1 DEF CreateUser, UsersInv, TypeOK
    <2> QED BY <2>1, <2>2, <2>3, <2>4, <2>5 DEF UsersInv, TypeOK
  <1>8. \A u \in users' : u < nextId'
    BY <1>1, <1>4 DEF CreateUser, UsersInv, TypeOK, Uids
  <1>9. OneUserPerName'
    BY <1>3, <1>4, <1>5, <1>6 DEF CreateUser, UsersInv, OneUserPerName
  <1>10. AdminRemains'
    BY DEF CreateUser, UsersInv, AdminRemains
  <1>11. CookiesConsistent'
    <2> SUFFICES ASSUME NEW c \in cookies'
                 PROVE  c.uid < nextId' /\ (c.uid \in users' => email'[c.uid] = c.email)
      BY DEF CookiesConsistent
    <2>1. CASE c \in cookies
      <3>1. c.uid \in Uids /\ c.uid < nextId
        BY <2>1 DEF UsersInv, TypeOK, CookiesConsistent
      <3>2. c.uid < nextId' /\ c.uid # nextId
        BY <1>1, <3>1 DEF CreateUser, Uids
      <3> QED BY <2>1, <3>2, <1>5 DEF CreateUser, UsersInv, CookiesConsistent
    <2>2. CASE c = [uid |-> nextId, email |-> e]
      BY <2>2, <1>1, <1>6 DEF CreateUser
    <2> QED BY <2>1, <2>2 DEF CreateUser
  <1>12. TokensHaveUser'
    BY DEF CreateUser, UsersInv, TokensHaveUser
  <1> QED BY <1>7, <1>8, <1>9, <1>10, <1>11, <1>12 DEF UsersInv

(* A user that is there only takes one more cookie for its email.          *)
LEMMA LoginInvariant ==
    ASSUME UsersInv, NEW e \in Emails, LoginWithOauthCode(e)
    PROVE  UsersInv'
  <1>1. CASE FindUser(e) = {} /\ CreateUser(e)
    BY <1>1, CreateUserInvariant DEF LoginWithOauthCode
  <1>2. CASE /\ \E u \in FindUser(e) \cap active : cookies' = cookies \cup {[uid |-> u, email |-> e]}
             /\ UNCHANGED userVars
    <2>1. PICK u \in FindUser(e) \cap active : cookies' = cookies \cup {[uid |-> u, email |-> e]}
      BY <1>2
    <2>2. u \in users /\ u \in Uids /\ email[u] = e /\ u < nextId
      BY DEF FindUser, UsersInv, TypeOK
    <2>3. UNCHANGED <<users, email, login, active, admins, nextId, tokens>>
      BY <1>2 DEF LoginWithOauthCode, userVars
    <2>4. TypeOK'
      BY <2>1, <2>2, <2>3 DEF UsersInv, TypeOK
    <2>5. CookiesConsistent'
      BY <2>1, <2>2, <2>3 DEF UsersInv, CookiesConsistent
    <2> QED BY <2>3, <2>4, <2>5 DEF UsersInv, OneUserPerName, AdminRemains, TokensHaveUser
  <1> QED BY <1>1, <1>2 DEF LoginWithOauthCode

(* An update changes a login to one that is free, and takes its role away  *)
(* from an admin only when another admin, who is active, asks for it.      *)
LEMMA UpdateInvariant ==
    ASSUME UsersInv, NEW auth \in Authentications,
           NEW u \in Uids, NEW l \in Logins, NEW admin \in BOOLEAN,
           UpdateUser(auth, u, l, admin)
    PROVE  UsersInv'
  <1>1. UNCHANGED <<users, email, active, nextId, cookies, tokens>>
    BY DEF UpdateUser
  <1>2. PICK can_admin \in BOOLEAN :
          /\ update_user(auth.uid, u, l, admin, can_admin)
          /\ u = auth.uid => can_admin = (auth.can_admin /\ IsAdmin(u))
          /\ u # auth.uid => CanAdminRegistry(auth)
    <2>1. CASE u = auth.uid
      BY <2>1 DEF UpdateUser
    <2>2. CASE u # auth.uid
      BY <2>2 DEF UpdateUser
    <2> QED BY <2>1, <2>2
  <1>3. /\ u \in users
        /\ l # login[u] => \A v \in users : login[v] # l
        /\ login' = [login EXCEPT ![u] = l]
        /\ admins' = IF admin THEN admins \cup {u} ELSE admins \ {u}
    BY <1>2 DEF update_user, FreeLogins
  <1>4. TypeOK'
    BY <1>1, <1>3 DEF UsersInv, TypeOK
  <1>5. OneUserPerName'
    BY <1>1, <1>3 DEF UsersInv, OneUserPerName, TypeOK
  <1>6. AdminRemains'
    <2>1. CASE u # auth.uid
      <3>1. auth.uid \in users /\ auth.uid \in active /\ auth.uid \in admins
        BY <1>2, <2>1, AdminActs
      <3> QED BY <1>1, <1>3, <2>1, <3>1 DEF AdminRemains
    <2>2. CASE admin
      BY <1>1, <1>3, <2>2 DEF UsersInv, AdminRemains
    <2>3. CASE u = auth.uid /\ ~admin
      <3>1. admin <=> IsAdmin(u)
        BY <1>2, <2>3 DEF update_user
      <3>2. admins' = admins
        BY <1>3, <2>3, <3>1 DEF IsAdmin
      <3> QED BY <1>1, <3>2 DEF UsersInv, AdminRemains
    <2> QED BY <2>1, <2>2, <2>3
  <1> QED BY <1>1, <1>4, <1>5, <1>6 DEF UsersInv, CookiesConsistent, TokensHaveUser

(* A deactivated user is not the one who asks, who is an active admin.     *)
LEMMA DeactivateInvariant ==
    ASSUME UsersInv, NEW auth \in Authentications, NEW e \in Emails, DeactivateUser(auth, e)
    PROVE  UsersInv'
  <1>1. PICK u \in ActiveUsers(e) \ {auth.uid} : active' = active \ {u}
    BY DEF DeactivateUser
  <1>2. UNCHANGED <<users, email, login, admins, nextId, cookies, tokens>>
    BY DEF DeactivateUser
  <1>3. auth.uid \in users /\ auth.uid \in active /\ auth.uid \in admins
    BY AdminActs DEF DeactivateUser
  <1>4. TypeOK'
    BY <1>1, <1>2 DEF UsersInv, TypeOK
  <1>5. AdminRemains'
    BY <1>1, <1>2, <1>3 DEF AdminRemains
  <1> QED BY <1>2, <1>4, <1>5 DEF UsersInv, OneUserPerName, CookiesConsistent, TokensHaveUser

(* More users are active, and nothing else changes.                        *)
LEMMA ReactivateInvariant ==
    ASSUME UsersInv, NEW auth \in Authentications, NEW e \in Emails, ReactivateUser(auth, e)
    PROVE  UsersInv'
  <1>1. active' = active \cup FindUser(e) /\ UNCHANGED <<users, email, login, admins, nextId, cookies, tokens>>
    BY DEF ReactivateUser
  <1>2. FindUser(e) \subseteq users
    BY DEF FindUser
  <1> QED BY <1>1, <1>2 DEF UsersInv, TypeOK, OneUserPerName, AdminRemains, CookiesConsistent, TokensHaveUser

(* A deleted user is not the one who asks, and takes its tokens with it;   *)
(* its cookies stay, and name an id that is never given again.             *)
LEMMA DeleteInvariant ==
    ASSUME UsersInv, NEW auth \in Authentications, NEW e \in Emails, DeleteUser(auth, e)
    PROVE  UsersInv'
  <1>1. PICK u \in FindUser(e) \ {auth.uid} :
          /\ tokens' = [t \in TokenSlots |->
                          IF tokens[t] # None /\ tokens[t].user = u THEN None ELSE tokens[t]]
          /\ users' = users \ {u}
          /\ active' = active \ {u}
          /\ admins' = admins \ {u}
          /\ email' = [email EXCEPT ![u] = None]
          /\ login' = [login EXCEPT ![u] = None]
    BY DEF DeleteUser
  <1>2. UNCHANGED <<nextId, cookies>>
    BY DEF DeleteUser
  <1>3. auth.uid \in users /\ auth.uid \in active /\ auth.uid \in admins
    BY AdminActs DEF DeleteUser
  <1>4. TypeOK'
    BY <1>1, <1>2 DEF UsersInv, TypeOK
  <1>5. \A v \in users' : v \in users /\ email'[v] = email[v] /\ login'[v] = login[v]
    BY <1>1 DEF UsersInv, TypeOK
  <1>6. AdminRemains'
    BY <1>1, <1>3 DEF AdminRemains
  <1>7. CookiesConsistent'
    BY <1>2, <1>5 DEF UsersInv, CookiesConsistent
  <1>8. TokensHaveUser'
    BY <1>1 DEF UsersInv, TokensHaveUser
  <1> QED BY <1>2, <1>4, <1>5, <1>6, <1>7, <1>8 DEF UsersInv, OneUserPerName

LEMMA UserStep == UsersInv /\ UserNext => UsersInv'
  BY LoginInvariant, UpdateInvariant, DeactivateInvariant, ReactivateInvariant, DeleteInvariant
     DEF UserNext

-----------------------------------------------------------------------------
(* The operations on tokens and owners                                     *)

(* A token is created for a user that is there.                            *)
LEMMA TokenStep == UsersInv /\ TokenNext => UsersInv'
  <1> SUFFICES ASSUME UsersInv, TokenNext PROVE UsersInv'
    OBVIOUS
  <1>1. ASSUME NEW auth \in Authentications, NEW t \in TokenSlots,
               NEW w \in BOOLEAN, NEW a \in BOOLEAN, CreateToken(auth, t, w, a)
        PROVE  UsersInv'
    <2>1. /\ auth.uid \in users
          /\ tokens' = [tokens EXCEPT ![t] = [user |-> auth.uid, can_write |-> w, can_admin |-> a]]
          /\ UNCHANGED <<users, email, login, active, admins, nextId, cookies>>
      BY <1>1 DEF CreateToken, userVars
    <2>2. TypeOK'
      BY <2>1 DEF UsersInv, TypeOK, Token
    <2>3. TokensHaveUser'
      BY <2>1 DEF UsersInv, TypeOK, TokensHaveUser
    <2> QED BY <2>1, <2>2, <2>3 DEF UsersInv, OneUserPerName, AdminRemains, CookiesConsistent
  <1>2. ASSUME NEW auth \in Authentications, NEW t \in TokenSlots, RevokeToken(auth, t)
        PROVE  UsersInv'
    <2>1. /\ tokens' = [tokens EXCEPT ![t] = None]
          /\ UNCHANGED <<users, email, login, active, admins, nextId, cookies>>
      BY <1>2 DEF RevokeToken, userVars
    <2> QED BY <2>1 DEF UsersInv, TypeOK, OneUserPerName, AdminRemains, CookiesConsistent, TokensHaveUser
  <1>3. ASSUME NEW auth \in Authentications, NEW name \in GlobalNames,
               CreateGlobalToken(auth, name) \/ RevokeGlobalToken(auth, name)
        PROVE  UsersInv'
    <2>1. UNCHANGED <<users, email, login, active, admins, nextId, cookies, tokens>>
      BY <1>3 DEF CreateGlobalToken, RevokeGlobalToken, userVars
    <2> QED BY <2>1 DEF UsersInv, TypeOK, OneUserPerName, AdminRemains, CookiesConsistent, TokensHaveUser
  <1> QED BY <1>1, <1>2, <1>3 DEF TokenNext

(* The operations on the package leave users, cookies and tokens alone.    *)
LEMMA CrateStep == UsersInv /\ CrateNext => UsersInv'
  <1> SUFFICES ASSUME UsersInv, CrateNext PROVE UsersInv'
    OBVIOUS
  <1>1. UNCHANGED <<users, email, login, active, admins, nextId, cookies, tokens>>
    BY DEF CrateNext, PublishCrateVersion, QueueDocs, AddOwners, RemoveOwners, userVars
  <1> QED BY <1>1 DEF UsersInv, TypeOK, OneUserPerName, AdminRemains, CookiesConsistent, TokensHaveUser

-----------------------------------------------------------------------------
(* The loops over the users of a list                                      *)

Rows == [Uids -> Nat]

(* The rows after each user of a list follow from those before it.         *)
LEMMA AddingSteps ==
    ASSUME owners \in Rows, NEW list \in Seq(Emails)
    PROVE  /\ Adding(list)[0] = owners
           /\ \A i \in 1..Len(list) : Adding(list)[i] = AddOwner(Adding(list)[i - 1], list[i])
           /\ \A i \in 0..Len(list) : Adding(list)[i] \in Rows
  <1> DEFINE n == Len(list)
             R(g) == [i \in 0..n |-> IF i = 0 THEN owners ELSE AddOwner(g[i - 1], list[i])]
             step == [i \in 1..n |-> [rows \in Rows |-> AddOwner(rows, list[i])]]
             a == Adding(list)
  <1>1. n \in Nat
    BY LenProperties
  <1>2. \A rows \in Rows : \A e : AddOwner(rows, e) \in Rows
    BY DEF AddOwner, Rows
  <1>3. step \in [1..n -> [Rows -> Rows]]
    BY <1>2
  <1>4. PICK f \in [0..n -> Rows] : IsLoop(f, n, owners, step)
    <2> HIDE DEF n, step
    <2> QED BY <1>1, <1>3, LoopExists
  <1>5. f = R(f)
    <2>1. f[0] = owners
      BY <1>4 DEF IsLoop
    <2>2. ASSUME NEW i \in 1..n PROVE f[i] = AddOwner(f[i - 1], list[i])
      <3>1. i - 1 \in 0..n
        BY <1>1
      <3>2. f[i - 1] \in Rows /\ f[i] = step[i][f[i - 1]]
        BY <1>4, <3>1 DEF IsLoop
      <3> QED BY <3>2
    <2>3. \A i \in 0..n : f[i] = IF i = 0 THEN owners ELSE AddOwner(f[i - 1], list[i])
      <3>1. \A i \in 0..n : i = 0 \/ i \in 1..n
        BY <1>1
      <3> QED BY <2>1, <2>2, <3>1
    <2> HIDE DEF n
    <2> QED BY <2>3
  <1>6. a = R(a)
    <2>1. a = CHOOSE g : g = R(g)
      BY DEF Adding
    <2> HIDE DEF R, a
    <2> QED BY <1>5, <2>1
  <1>7. a[0] = owners /\ \A i \in 1..n : a[i] = AddOwner(a[i - 1], list[i])
    <2> HIDE DEF n, a
    <2> QED BY <1>1, <1>6
  <1> HIDE DEF a, R, step
  <1> DEFINE T == {i \in 0..n : a[i] \in Rows}
  <1>8. \A i \in 0..n : i \in T
    <2>1. 0 \in T
      BY <1>1, <1>7
    <2>2. ASSUME NEW i \in 0..n, i < n, i \in T PROVE i + 1 \in T
      <3>1. i + 1 \in 1..n /\ i + 1 \in 0..n /\ (i + 1) - 1 = i
        BY <1>1, <2>2
      <3> QED BY <1>2, <1>7, <2>2, <3>1
    <2>3. \A i \in 0..n : i < n /\ i \in T => i + 1 \in T
      BY <2>2
    <2> HIDE DEF T, n
    <2> QED BY <1>1, <2>1, <2>3, UpTo
  <1> QED BY <1>7, <1>8 DEF a

(* A list that names nobody twice adds at most one row for a user, and it  *)
(* takes no row away.                                                      *)
LEMMA AddingRows ==
    ASSUME OwnersInv, NEW list \in UserLists
    PROVE  /\ Adding(list)[Len(list)] \in Rows
           /\ \A u \in Uids : Adding(list)[Len(list)][u] >= owners[u]
           /\ ListsNameOnce => \A u \in Uids : Adding(list)[Len(list)][u] <= 1
  <1> DEFINE n == Len(list)
             a == Adding(list)
             Once(i) == \A u \in Uids : \/ a[i][u] = owners[u]
                                        \/ /\ owners[u] = 0 /\ a[i][u] = 1
                                           /\ \E j \in 1..i : u \in ActiveUsers(list[j])
             T == {i \in 0..n : /\ \A u \in Uids : a[i][u] >= owners[u]
                                /\ ListsNameOnce => Once(i)}
  <1>1. list \in Seq(Emails) /\ n \in Nat /\ DOMAIN list = 1..n
    BY UserListsAssumption, LenProperties
  <1>2. owners \in Rows
    BY DEF OwnersInv, Rows
  <1>3. /\ a[0] = owners
        /\ \A i \in 1..n : a[i] = AddOwner(a[i - 1], list[i])
        /\ \A i \in 0..n : a[i] \in Rows
    BY <1>1, <1>2, AddingSteps
  <1> HIDE DEF n, a
  <1>4. 0 \in T
    BY <1>1, <1>2, <1>3 DEF Rows
  <1>5. ASSUME NEW i \in 0..n, i < n, i \in T
        PROVE  i + 1 \in T
    <2>1. i + 1 \in 1..n /\ i + 1 \in 0..n /\ (i + 1) - 1 = i /\ i \in Nat
      BY <1>1, <1>5
    <2>2. a[i] \in Rows /\ a[i + 1] = AddOwner(a[i], list[i + 1])
      BY <1>3, <2>1
    <2>3. \A u \in Uids : a[i + 1][u] = IF u \in ActiveUsers(list[i + 1]) /\ owners[u] = 0
                                        THEN a[i][u] + 1 ELSE a[i][u]
      BY <2>2 DEF AddOwner, Rows
    <2>4. \A u \in Uids : a[i][u] \in Nat /\ owners[u] \in Nat
      BY <1>2, <2>2 DEF Rows
    <2>5. \A u \in Uids : a[i + 1][u] >= owners[u]
      BY <1>5, <2>3, <2>4
    <2>6. ASSUME ListsNameOnce, NEW u \in Uids
          PROVE  \/ a[i + 1][u] = owners[u]
                 \/ /\ owners[u] = 0 /\ a[i + 1][u] = 1
                    /\ \E j \in 1..(i + 1) : u \in ActiveUsers(list[j])
      <3>1. CASE ~(u \in ActiveUsers(list[i + 1]) /\ owners[u] = 0)
        <4>1. \A j \in 1..i : j \in 1..(i + 1)
          BY <2>1
        <4> QED BY <1>5, <2>3, <2>6, <3>1, <4>1
      <3>2. CASE u \in ActiveUsers(list[i + 1]) /\ owners[u] = 0
        <4>1. ASSUME NEW j \in 1..i, u \in ActiveUsers(list[j]) PROVE FALSE
          <5>1. list[j] = list[i + 1]
            BY <3>2, <4>1 DEF ActiveUsers
          <5>2. j \in DOMAIN list /\ i + 1 \in DOMAIN list /\ j # i + 1
            BY <1>1, <2>1
          <5> QED BY <2>6, <5>1, <5>2 DEF ListsNameOnce
        <4>2. a[i][u] = owners[u]
          BY <1>5, <2>6, <4>1
        <4>3. i + 1 \in 1..(i + 1)
          BY <2>1
        <4> QED BY <2>3, <3>2, <4>2, <4>3
      <3> QED BY <3>1, <3>2
    <2> QED BY <2>1, <2>5, <2>6
  <1>6. n \in T
    <2>1. \A i \in 0..n : i < n /\ i \in T => i + 1 \in T
      BY <1>5
    <2> HIDE DEF T
    <2>2. \A i \in 0..n : i \in T
      BY <1>1, <1>4, <2>1, UpTo
    <2> QED BY <1>1, <2>2
  <1>7. ListsNameOnce => \A u \in Uids : a[n][u] <= 1
    <2>1. ListsNameOnce => \A u \in Uids : owners[u] \in Nat /\ owners[u] <= 1
      BY <1>2 DEF OwnersInv, OwnersListedOnce, Rows
    <2> QED BY <1>6, <2>1
  <1>8. a[n] \in Rows
    BY <1>1, <1>3
  <1> QED BY <1>6, <1>7, <1>8 DEF a, n

RemoveState == [rows : Rows, current_owners : Rows, ok : BOOLEAN]

RemoveStart == [rows |-> owners, current_owners |-> owners, ok |-> TRUE]

LEMMA RemoveOwnerType ==
    ASSUME NEW acc \in RemoveState, NEW e
    PROVE  RemoveOwner(acc, e) \in RemoveState
  <1> DEFINE r == RemoveOwner(acc, e)
  <1>1. acc.rows \in Rows /\ acc.current_owners \in Rows /\ acc.ok \in BOOLEAN
    BY DEF RemoveState
  <1>2. r.rows \in Rows
    BY <1>1 DEF RemoveOwner, Rows
  <1>3. r.current_owners \in Rows
    BY <1>1 DEF RemoveOwner, Rows
  <1>4. r.ok \in BOOLEAN
    BY <1>1 DEF RemoveOwner
  <1> QED BY <1>2, <1>3, <1>4 DEF RemoveOwner, RemoveState

(* What is kept of the owners after each user of a list follows from what  *)
(* is kept before it.                                                      *)
LEMMA RemovingSteps ==
    ASSUME owners \in Rows, NEW list \in Seq(Emails)
    PROVE  /\ Removing(list)[0] = RemoveStart
           /\ \A i \in 1..Len(list) : Removing(list)[i] = RemoveOwner(Removing(list)[i - 1], list[i])
           /\ \A i \in 0..Len(list) : Removing(list)[i] \in RemoveState
  <1> DEFINE n == Len(list)
             R(g) == [i \in 0..n |-> IF i = 0 THEN RemoveStart ELSE RemoveOwner(g[i - 1], list[i])]
             step == [i \in 1..n |-> [acc \in RemoveState |-> RemoveOwner(acc, list[i])]]
             a == Removing(list)
  <1>1. n \in Nat
    BY LenProperties
  <1>2. RemoveStart \in RemoveState
    BY DEF RemoveStart, RemoveState
  <1>3. step \in [1..n -> [RemoveState -> RemoveState]]
    BY RemoveOwnerType
  <1>4. PICK f \in [0..n -> RemoveState] : IsLoop(f, n, RemoveStart, step)
    <2> HIDE DEF n, step
    <2> QED BY <1>1, <1>2, <1>3, LoopExists
  <1>5. f = R(f)
    <2>1. f[0] = RemoveStart
      BY <1>4 DEF IsLoop
    <2>2. ASSUME NEW i \in 1..n PROVE f[i] = RemoveOwner(f[i - 1], list[i])
      <3>1. i - 1 \in 0..n
        BY <1>1
      <3>2. f[i - 1] \in RemoveState /\ f[i] = step[i][f[i - 1]]
        BY <1>4, <3>1 DEF IsLoop
      <3> QED BY <3>2
    <2>3. \A i \in 0..n : f[i] = IF i = 0 THEN RemoveStart ELSE RemoveOwner(f[i - 1], list[i])
      <3>1. \A i \in 0..n : i = 0 \/ i \in 1..n
        BY <1>1
      <3> QED BY <2>1, <2>2, <3>1
    <2> HIDE DEF n
    <2> QED BY <2>3
  <1>6. a = R(a)
    <2>1. a = CHOOSE g : g = R(g)
      BY DEF Removing, RemoveStart
    <2> HIDE DEF R, a
    <2> QED BY <1>5, <2>1
  <1>7. a[0] = RemoveStart /\ \A i \in 1..n : a[i] = RemoveOwner(a[i - 1], list[i])
    <2> HIDE DEF n, a
    <2> QED BY <1>1, <1>6
  <1> HIDE DEF a, R, step
  <1> DEFINE T == {i \in 0..n : a[i] \in RemoveState}
  <1>8. \A i \in 0..n : i \in T
    <2>1. 0 \in T
      BY <1>1, <1>2, <1>7
    <2>2. ASSUME NEW i \in 0..n, i < n, i \in T PROVE i + 1 \in T
      <3>1. i + 1 \in 1..n /\ i + 1 \in 0..n /\ (i + 1) - 1 = i
        BY <1>1, <2>2
      <3> QED BY <1>7, <2>2, <3>1, RemoveOwnerType
    <2>3. \A i \in 0..n : i < n /\ i \in T => i + 1 \in T
      BY <2>2
    <2> HIDE DEF T, n
    <2> QED BY <1>1, <2>1, <2>3, UpTo
  <1> QED BY <1>7, <1>8 DEF a

(* When no user is listed twice, a request that is let through leaves an   *)
(* owner if there was one, since an email names one active user at most;   *)
(* no user gets another row.                                               *)
LEMMA RemovingRows ==
    ASSUME UsersInv, OwnersInv, NEW list \in UserLists
    PROVE  /\ Removing(list)[Len(list)].rows \in Rows
           /\ \A u \in Uids : Removing(list)[Len(list)].rows[u] <= owners[u]
           /\ Owned /\ OwnersListedOnce /\ Removing(list)[Len(list)].ok
                => \E u \in Uids : Removing(list)[Len(list)].rows[u] > 0
  <1> DEFINE n == Len(list)
             a == Removing(list)
             T == {i \in 0..n :
                     /\ \A u \in Uids : a[i].rows[u] <= owners[u]
                     /\ Owned /\ OwnersListedOnce =>
                           /\ a[i].rows = a[i].current_owners
                           /\ a[i].ok => \E u \in Uids : a[i].rows[u] > 0}
  <1>1. list \in Seq(Emails) /\ n \in Nat
    BY UserListsAssumption, LenProperties
  <1>2. owners \in Rows
    BY DEF OwnersInv, Rows
  <1>3. /\ a[0] = RemoveStart
        /\ \A i \in 1..n : a[i] = RemoveOwner(a[i - 1], list[i])
        /\ \A i \in 0..n : a[i] \in RemoveState
    BY <1>1, <1>2, RemovingSteps
  <1> HIDE DEF n, a
  <1>4. 0 \in T
    <2>1. \A u \in Uids : owners[u] <= owners[u]
      BY <1>2 DEF Rows
    <2> QED BY <1>1, <1>3, <2>1 DEF RemoveStart, Owned
  <1>5. ASSUME NEW i \in 0..n, i < n, i \in T
        PROVE  i + 1 \in T
    <2> DEFINE found == {u \in ActiveUsers(list[i + 1]) : a[i].current_owners[u] > 0}
    <2>1. i + 1 \in 1..n /\ i + 1 \in 0..n /\ (i + 1) - 1 = i
      BY <1>1, <1>5
    <2>2. /\ a[i] \in RemoveState /\ a[i + 1] = RemoveOwner(a[i], list[i + 1])
          /\ a[i].rows \in Rows /\ a[i].current_owners \in Rows
      BY <1>3, <2>1 DEF RemoveState
    <2>3. /\ \A u \in Uids : a[i + 1].rows[u] = IF u \in found THEN 0 ELSE a[i].rows[u]
          /\ a[i + 1].rows = [u \in Uids |-> IF u \in found THEN 0 ELSE a[i].rows[u]]
          /\ a[i + 1].current_owners = [u \in Uids |-> IF u \in found THEN a[i].current_owners[u] - 1
                                                                  ELSE a[i].current_owners[u]]
          /\ a[i + 1].ok => a[i].ok /\ (found # {} => ~Single(a[i].current_owners))
      <3> DEFINE rows == [u \in Uids |-> IF u \in found THEN 0 ELSE a[i].rows[u]]
                 current == [u \in Uids |-> IF u \in found THEN a[i].current_owners[u] - 1
                                                          ELSE a[i].current_owners[u]]
                 ok == a[i].ok /\ (found # {} => ~Single(a[i].current_owners))
      <3>1. a[i + 1] = [rows |-> rows, current_owners |-> current, ok |-> ok]
        BY <2>2 DEF RemoveOwner
      <3>2. ok \in BOOLEAN
        OBVIOUS
      <3>3. a[i + 1].rows = rows /\ a[i + 1].current_owners = current /\ a[i + 1].ok = ok
        <4> HIDE DEF rows, current, ok
        <4> QED BY <3>1, <3>2
      <3>4. a[i + 1].ok => a[i].ok /\ (found # {} => ~Single(a[i].current_owners))
        BY <3>3, Zenon DEF ok
      <3> HIDE DEF found
      <3> QED BY <3>3, <3>4
    <2>4. \A u \in Uids : a[i].rows[u] \in Nat /\ owners[u] \in Nat
      BY <1>2, <2>2 DEF Rows
    <2>5. \A u \in Uids : a[i + 1].rows[u] <= owners[u]
      BY <1>5, <2>3, <2>4
    <2>6. ASSUME Owned, OwnersListedOnce
          PROVE  /\ a[i + 1].rows = a[i + 1].current_owners
                 /\ a[i + 1].ok => \E u \in Uids : a[i + 1].rows[u] > 0
      <3>1. /\ a[i].rows = a[i].current_owners
            /\ a[i].ok => \E u \in Uids : a[i].rows[u] > 0
        BY <1>5, <2>6
      <3>2. \A u \in Uids : a[i].current_owners[u] \in {0, 1}
        BY <1>5, <2>4, <2>6, <3>1 DEF OwnersListedOnce
      <3>3. \A u \in Uids : u \in found => a[i].current_owners[u] - 1 = 0
        BY <3>2
      <3>4. a[i + 1].rows = a[i + 1].current_owners
        <4> HIDE DEF found
        <4> QED BY <2>3, <3>1, <3>3
      <3>5. ASSUME a[i + 1].ok PROVE \E u \in Uids : a[i + 1].rows[u] > 0
        <4>1. CASE found = {}
          BY <2>3, <3>1, <3>5, <4>1
        <4>2. CASE found # {}
          <5>1. PICK w \in found : TRUE
            BY <4>2
          <5>2. w \in Uids /\ a[i].current_owners[w] = 1
            BY <3>2 DEF ActiveUsers, UsersInv, TypeOK
          <5>3. \A v \in found : v = w
            BY DEF ActiveUsers, UsersInv, TypeOK, OneUserPerName
          <5>4. PICK v \in Uids \ {w} : a[i].current_owners[v] # 0
            BY <2>3, <3>5, <4>2, <5>2 DEF Single
          <5>5. v \notin found /\ a[i].rows[v] > 0
            BY <3>1, <3>2, <5>3, <5>4
          <5> QED BY <2>3, <5>5
        <4> QED BY <4>1, <4>2
      <3> QED BY <3>4, <3>5
    <2> HIDE DEF found
    <2>7. Owned /\ OwnersListedOnce =>
             /\ a[i + 1].rows = a[i + 1].current_owners
             /\ a[i + 1].ok => \E u \in Uids : a[i + 1].rows[u] > 0
      BY <2>6
    <2> QED BY <2>1, <2>5, <2>7
  <1>6. n \in T
    <2>1. \A i \in 0..n : i < n /\ i \in T => i + 1 \in T
      BY <1>5
    <2> HIDE DEF T
    <2>2. \A i \in 0..n : i \in T
      BY <1>1, <1>4, <2>1, UpTo
    <2> QED BY <1>1, <2>2
  <1>7. a[n].rows \in Rows
    BY <1>1, <1>3 DEF RemoveState
  <1> QED BY <1>6, <1>7 DEF a, n

(* An operation on the package leaves the users alone, and an owner if     *)
(* there was one.                                                          *)
LEMMA CrateOwners ==
    ASSUME UsersInv, OwnersInv, CrateNext
    PROVE  OwnersInv' /\ (OwnersListedOnce /\ Owned => Owned')
  <1>0. owners \in Rows
    BY DEF OwnersInv, Rows
  <1>1. ASSUME NEW auth \in Authentications, PublishCrateVersion(auth)
        PROVE  OwnersInv' /\ (OwnersListedOnce /\ Owned => Owned')
    <2>1. CASE UNCHANGED owners
      BY <2>1 DEF OwnersInv, OwnersListedOnce, Owned
    <2>2. CASE owners' = [owners EXCEPT ![auth.uid] = 1]
      <3>1. auth.uid \in Uids
        BY <1>1, AuthenticationType DEF PublishCrateVersion, HasUid, UsersInv
      <3>2. owners' \in Rows /\ owners'[auth.uid] = 1
        BY <1>0, <2>2, <3>1 DEF Rows
      <3>3. OwnersListedOnce => OwnersListedOnce'
        BY <1>0, <2>2, <3>1 DEF OwnersListedOnce, Rows
      <3> QED BY <3>1, <3>2, <3>3 DEF OwnersInv, Owned, Rows
    <2> QED BY <1>1, <2>1, <2>2 DEF PublishCrateVersion
  <1>2. ASSUME NEW auth \in Authentications, QueueDocs(auth)
        PROVE  OwnersInv' /\ (OwnersListedOnce /\ Owned => Owned')
    BY <1>2 DEF QueueDocs, OwnersInv, OwnersListedOnce, Owned
  <1>3. ASSUME NEW auth \in Authentications, NEW list \in UserLists, AddOwners(auth, list)
        PROVE  OwnersInv' /\ (OwnersListedOnce /\ Owned => Owned')
    <2>1. /\ owners' \in Rows
          /\ \A u \in Uids : owners'[u] >= owners[u]
          /\ ListsNameOnce => \A u \in Uids : owners'[u] <= 1
      BY <1>3, AddingRows DEF AddOwners
    <2>2. Owned => Owned'
      BY <1>0, <2>1 DEF Owned, Rows
    <2> QED BY <2>1, <2>2 DEF OwnersInv, OwnersListedOnce, Rows
  <1>4. ASSUME NEW auth \in Authentications, NEW list \in UserLists, RemoveOwners(auth, list)
        PROVE  OwnersInv' /\ (OwnersListedOnce /\ Owned => Owned')
    <2>1. /\ owners' \in Rows
          /\ \A u \in Uids : owners'[u] <= owners[u]
          /\ Owned /\ OwnersListedOnce => \E u \in Uids : owners'[u] > 0
      BY <1>4, RemovingRows DEF RemoveOwners
    <2>2. OwnersListedOnce => OwnersListedOnce'
      BY <1>0, <2>1 DEF OwnersListedOnce, Rows
    <2> QED BY <2>1, <2>2 DEF OwnersInv, Owned, Rows
  <1> QED BY <1>1, <1>2, <1>3, <1>4 DEF CrateNext

(* The deletion of a user takes its row away; nothing else changes one.    *)
LEMMA UserOwners ==
    ASSUME OwnersInv, UserNext \/ TokenNext \/ UNCHANGED vars
    PROVE  OwnersInv' /\ (owners' = owners \/ users' # users)
  <1>1. CASE owners' = owners
    BY <1>1 DEF OwnersInv, OwnersListedOnce
  <1>2. ASSUME NEW auth \in Authentications, NEW e \in Emails, DeleteUser(auth, e)
        PROVE  OwnersInv' /\ users' # users
    <2>1. PICK u \in FindUser(e) : owners' = [owners EXCEPT ![u] = 0] /\ users' = users \ {u}
      BY <1>2 DEF DeleteUser
    <2>2. users' # users
      BY <2>1 DEF FindUser
    <2>3. owners' \in Rows
      BY <2>1 DEF OwnersInv, Rows
    <2>4. \A v \in Uids : owners'[v] = owners[v] \/ owners'[v] = 0
      BY <2>1 DEF OwnersInv
    <2>5. OwnersListedOnce => OwnersListedOnce'
      BY <2>4 DEF OwnersListedOnce
    <2> QED BY <2>2, <2>3, <2>5 DEF OwnersInv, Rows
  <1>3. ASSUME NEW auth \in Authentications,
               \/ \E u \in Uids, l \in Logins, admin \in BOOLEAN : UpdateUser(auth, u, l, admin)
               \/ \E e \in Emails : DeactivateUser(auth, e) \/ ReactivateUser(auth, e)
        PROVE  owners' = owners
    BY <1>3 DEF UpdateUser, DeactivateUser, ReactivateUser, crateVars
  <1>4. ASSUME NEW e \in Emails, LoginWithOauthCode(e) PROVE owners' = owners
    BY <1>4 DEF LoginWithOauthCode, crateVars
  <1>5. ASSUME TokenNext PROVE owners' = owners
    BY <1>5 DEF TokenNext, CreateToken, RevokeToken, CreateGlobalToken, RevokeGlobalToken, crateVars
  <1>6. ASSUME UNCHANGED vars PROVE owners' = owners
    BY <1>6 DEF vars, crateVars
  <1> QED BY <1>1, <1>2, <1>3, <1>4, <1>5, <1>6 DEF UserNext

-----------------------------------------------------------------------------
(* The theorems                                                            *)

(* The inductive invariant holds in every reachable state.                 *)
THEOREM Invariance == Spec => []IInv
  <1>1. Init => IInv
    BY InitInvariant DEF Init, IInv, OwnersInv, OwnersListedOnce
  <1>2. UsersInv /\ UNCHANGED vars => UsersInv'
    BY DEF vars, userVars, UsersInv, TypeOK, OneUserPerName, AdminRemains, CookiesConsistent, TokensHaveUser
  <1>3. IInv /\ [Next]_vars => IInv'
    <2> SUFFICES ASSUME IInv, [Next]_vars PROVE IInv'
      OBVIOUS
    <2>1. UsersInv'
      BY <1>2, UserStep, TokenStep, CrateStep DEF Next, IInv
    <2>2. OwnersInv'
      BY UserOwners, CrateOwners DEF Next, IInv
    <2> QED BY <2>1, <2>2 DEF IInv
  <1> QED BY <1>1, <1>3, PTL DEF Spec

(* No two users ever have the same email or the same login                 *)
(* (users.rs:80, 100, 166).                                                *)
THEOREM UniqueNames == Spec => []OneUserPerName
  <1>1. IInv => OneUserPerName
    BY DEF IInv, UsersInv
  <1> QED BY <1>1, Invariance, PTL

(* A registry with users always has an active admin (users.rs:157, 193,    *)
(* 218).                                                                   *)
THEOREM AnAdminRemains == Spec => []AdminRemains
  <1>1. IInv => AdminRemains
    BY DEF IInv, UsersInv
  <1> QED BY <1>1, Invariance, PTL

(* However old the cookie or the token of a request, the user it acts as   *)
(* is gone, or active with the email it was admitted for                   *)
(* (application.rs:867, users.rs:323).                                     *)
THEOREM NoImpersonation == Spec => []ActsAsSelf
  <1>1. IInv => ActsAsSelf
    BY ActingUser DEF IInv, ActsAsSelf
  <1> QED BY <1>1, Invariance, PTL

(* As long as no list names an account twice, no request about owners      *)
(* leaves the package without any, however long its list and whatever was  *)
(* done to the users it names (packages.rs:712, 745).                      *)
THEOREM OwnersStay ==
    ASSUME ListsNameOnce
    PROVE  Spec => OwnersRemain
  <1>1. IInv /\ [Next]_vars => (Owned /\ users' = users => Owned')
    <2> SUFFICES ASSUME IInv, [Next]_vars, Owned, users' = users PROVE Owned'
      OBVIOUS
    <2>1. OwnersListedOnce /\ UsersInv /\ OwnersInv
      BY DEF IInv, OwnersInv
    <2>2. CASE CrateNext
      BY <2>1, <2>2, CrateOwners
    <2>3. CASE UserNext \/ TokenNext \/ UNCHANGED vars
      BY <2>1, <2>3, UserOwners DEF Owned
    <2> QED BY <2>2, <2>3 DEF Next
  <1> QED BY <1>1, Invariance, PTL DEF Spec, OwnersRemain
=============================================================================
