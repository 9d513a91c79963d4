---------------------------- MODULE ServicesProofs ---------------------------
(***************************************************************************)
(* Proofs about the accounts, the cached reports and the limits on logging *)
(* in, for any emails, tokens, keys, limits and requests, and about the    *)
(* services together.                                                      *)
(*                                                                         *)
(* Accounts: only an exchange deletes a token, and it holds it until it    *)
(* has stored the next, which goes to the client the token was of, unless  *)
(* another has the same; while only one request has loaded a row, it is    *)
(* the row, so that what it saves is what it meant to change.              *)
(*                                                                         *)
(* Cache: when Redis takes a value, it is at most two delays old and gets  *)
(* a lifetime; the call that reads it there just before it expires brings  *)
(* it to memory a delay later, for a lifetime more; and from memory it     *)
(* goes nowhere.                                                           *)
(*                                                                         *)
(* LoginLimit: what is added was counted below the limit, and only the     *)
(* attempts that were counted before can still be added.                   *)
(*                                                                         *)
(* Services: a step of one service is a stutter of the others.             *)
(***************************************************************************)
EXTENDS Services, CouponsProofs

-----------------------------------------------------------------------------
(* Accounts.                                                               *)

LEMMA TokenNames ==
  None \notin Emails /\ None \notin Clients /\ None \notin Roles /\ None \notin Tokens
BY TokensAssumption

(* Every step is one of a request, or a token's expiry.                    *)
AccountWork(w) ==
  \/ Register(w) \/ LoginFind(w) \/ LoginPassword(w) \/ Issue(w)
  \/ RefreshGet(w) \/ RefreshFind(w) \/ RefreshDel(w) \/ RefreshSet(w)
  \/ ProfileFind(w) \/ ProfileSave(w) \/ RoleFind(w) \/ RoleSave(w)
  \/ DeleteUserFind(w) \/ DeleteUser(w)
  \/ AccountRefuse(w) \/ AccountFail(w)

LEMMA StepsOfAccounts ==
  ASSUME AccountsNext
  PROVE  \/ \E w \in Workers : AccountBegin(w) \/ AccountWork(w)
         \/ NextSecond \/ \E t \in Tokens : ExpireToken(t)
BY DEF AccountsNext, AccountWork

(* What a step of w's call starts from.                                    *)
LEMMA AccessOf ==
  ASSUME AccessesTyped, NEW w \in Workers
  PROVE  /\ accountCalls[w] \in AccountCall /\ AccessAddressed(accountCalls[w])
         /\ account \in [Emails -> AccountRow] /\ decided \in [Emails -> AccountRow]
         /\ rtbl \in [Tokens -> Emails \cup {None}]
         /\ session \in [Clients -> Tokens \cup {None}] /\ lapsed \subseteq Clients
         /\ signed \in [Emails -> Tokens \cup {None}] /\ crossed \subseteq Emails
BY DEF AccessesTyped, AccountsTypeOK

LEMMA SessionsTyped ==
  ASSUME AccessesTyped
  PROVE  \A c \in Clients : session[c] \in Tokens \cup {None}
BY DEF AccessesTyped, AccountsTypeOK

LEMMA NoAccessTyped == NoAccess \in AccountCall /\ AccessAddressed(NoAccess)
BY DEF NoAccess, AccountCall, AccessAddressed, Refreshing

-----------------------------------------------------------------------------
(* Types.                                                                  *)

LEMMA AccessCallTyped ==
  ASSUME AccessesTyped, NEW w \in Workers, NEW c \in AccountCall, AccessAddressed(c),
         accountCalls' = [accountCalls EXCEPT ![w] = c]
  PROVE  /\ accountCalls' \in [Workers -> AccountCall]
         /\ \A v \in Workers : AccessAddressed(accountCalls'[v])
BY DEF AccessesTyped, AccountsTypeOK

LEMMA AccessReturnTyped ==
  ASSUME AccessesTyped, NEW w \in Workers, AccountReturn(w)
  PROVE  /\ accountCalls' \in [Workers -> AccountCall]
         /\ \A v \in Workers : AccessAddressed(accountCalls'[v])
BY NoAccessTyped, AccessCallTyped DEF AccountReturn

LEMMA AccessStepTyped ==
  ASSUME AccessesTyped, NEW w \in Workers, accountCalls[w].at \notin {"idle", "refresh"},
         NEW label \in {"password", "refresh_del", "role_save", "delete_save"},
         AccountStep(w, label),
         label = "password" => accountCalls[w].at = "login",
         label = "refresh_del" => accountCalls[w].at = "refresh_user"
  PROVE  /\ accountCalls' \in [Workers -> AccountCall]
         /\ \A v \in Workers : AccessAddressed(accountCalls'[v])
<1> DEFINE c == [accountCalls[w] EXCEPT !.at = label]
<1>1. /\ c \in AccountCall /\ c.at = label
      /\ c.user = accountCalls[w].user /\ c.token = accountCalls[w].token
      /\ c.client = accountCalls[w].client
  BY AccessOf DEF AccountCall
<1>2. accountCalls' = [accountCalls EXCEPT ![w] = c]
  BY DEF AccountStep
<1> HIDE DEF c
<1>3. AccessAddressed(c)
  BY <1>1, AccessOf DEF AccessAddressed, Refreshing
<1> QED BY <1>1, <1>2, <1>3, AccessCallTyped

(* A call signs the token it is going to store.                            *)
LEMMA SignTyped ==
  ASSUME AccessesTyped, NEW w \in Workers, NEW label \in {"issue", "refresh_set"},
         Sign(w, label),
         accountCalls[w].user \in Emails, accountCalls[w].client \in Clients,
         label = "refresh_set" => accountCalls[w].token \in Tokens
  PROVE  /\ accountCalls' \in [Workers -> AccountCall]
         /\ \A v \in Workers : AccessAddressed(accountCalls'[v])
         /\ signed' \in [Emails -> Tokens \cup {None}]
         /\ accountCalls'[w].token = accountCalls[w].token
         /\ accountCalls'[w].client = accountCalls[w].client
         /\ accountCalls'[w].user = accountCalls[w].user
         /\ accountCalls'[w].at = label
<1> DEFINE u == accountCalls[w].user
<1>1. Signable(u) \subseteq Tokens
  BY AccessOf DEF Signable, FreshTokens
<1>2. PICK t \in Tokens :
        /\ accountCalls' = [accountCalls EXCEPT ![w].at = label, ![w].next = t]
        /\ signed' = [signed EXCEPT ![u] = t]
  BY <1>1 DEF Sign
<1> DEFINE c == [accountCalls[w] EXCEPT !.at = label, !.next = t]
<1>3. /\ c \in AccountCall /\ c.at = label /\ c.next = t
      /\ c.user = u /\ c.token = accountCalls[w].token /\ c.client = accountCalls[w].client
  BY AccessOf DEF AccountCall
<1>4. accountCalls' = [accountCalls EXCEPT ![w] = c]
  BY <1>2 DEF AccessesTyped, AccountsTypeOK
<1>5. signed' \in [Emails -> Tokens \cup {None}]
  BY <1>2 DEF AccessesTyped, AccountsTypeOK
<1> HIDE DEF c
<1>6. AccessAddressed(c)
  BY <1>3 DEF AccessAddressed, Refreshing
<1>7. accountCalls'[w] = c
  BY <1>4 DEF AccessesTyped, AccountsTypeOK
<1> QED BY <1>3, <1>4, <1>5, <1>6, <1>7, AccessCallTyped

(* A call gives its client the token it has signed.                        *)
LEMMA GivenTyped ==
  ASSUME AccessesTyped, NEW w \in Workers, NEW kept \in BOOLEAN, Given(w, kept),
         accountCalls[w].client \in Clients, accountCalls[w].next \in Tokens
  PROVE  /\ session' \in [Clients -> Tokens \cup {None}] /\ lapsed' \subseteq Clients
         /\ accountCalls' \in [Workers -> AccountCall]
         /\ \A v \in Workers : AccessAddressed(accountCalls'[v])
<1>1. session' \in [Clients -> Tokens \cup {None}] /\ lapsed' \subseteq Clients
  BY AccessOf DEF Given, Holders
<1> QED BY <1>1, AccessReturnTyped DEF Given

(* A request begins.                                                       *)
Begun(w) ==
  /\ AccessesTyped'
  /\ UNCHANGED <<account, decided, crossed, tokenVars>>
  /\ accountCalls[w].at = "idle"
  /\ accountCalls'[w].at \in {"login", "profile", "delete", "register", "role", "refresh"}
  /\ \/ accountCalls'[w].token = None
     \/ /\ accountCalls'[w].client \in Clients
        /\ accountCalls'[w].token = session[accountCalls'[w].client]

LEMMA AccessBegun ==
  ASSUME AccessesTyped, NEW w \in Workers, NEW c \in AccountCall, Access(w, c),
         AccessAddressed(c),
         c.at \in {"login", "profile", "delete", "register", "role", "refresh"},
         \/ c.token = None
         \/ c.client \in Clients /\ c.token = session[c.client]
  PROVE  Begun(w)
<1>1. /\ accountCalls' = [accountCalls EXCEPT ![w] = c]
      /\ UNCHANGED <<account, decided, crossed, tokenVars>>
      /\ accountCalls[w].at = "idle"
  BY DEF Access, Accessing
<1>2. AccessesTyped'
  BY <1>1, AccessCallTyped DEF AccessesTyped, AccountsTypeOK, tokenVars
<1>3. accountCalls'[w] = c
  BY <1>1 DEF AccessesTyped, AccountsTypeOK
<1> QED BY <1>1, <1>2, <1>3 DEF Begun

LEMMA BeginTyped ==
  ASSUME AccessesTyped, NEW w \in Workers, AccountBegin(w)
  PROVE  Begun(w)
<1>1. ASSUME NEW u \in Emails, NEW entry \in {"profile", "delete"},
             Access(w, [NoAccess EXCEPT !.at = entry, !.user = u])
      PROVE  Begun(w)
  <2> DEFINE d == [NoAccess EXCEPT !.at = entry, !.user = u]
  <2>1. d \in AccountCall /\ d.at = entry /\ d.user = u /\ d.token = None
    BY DEF AccountCall, NoAccess
  <2> HIDE DEF d
  <2>2. AccessAddressed(d)
    BY <2>1 DEF AccessAddressed, Refreshing
  <2>3. Access(w, d)
    BY <1>1 DEF d
  <2> QED BY <2>1, <2>2, <2>3, AccessBegun
<1>2. ASSUME NEW u \in Emails, NEW r \in Roles,
             Access(w, [NoAccess EXCEPT !.at = "role", !.user = u, !.role = r])
      PROVE  Begun(w)
  <2> DEFINE d == [NoAccess EXCEPT !.at = "role", !.user = u, !.role = r]
  <2>1. d \in AccountCall /\ d.at = "role" /\ d.user = u /\ d.token = None
    BY DEF AccountCall, NoAccess
  <2> HIDE DEF d
  <2>2. AccessAddressed(d)
    BY <2>1 DEF AccessAddressed, Refreshing
  <2>3. Access(w, d)
    BY <1>2 DEF d
  <2> QED BY <2>1, <2>2, <2>3, AccessBegun
<1>3. ASSUME NEW u \in Emails, NEW r \in Roles, NEW c \in Clients \cup {None},
             Access(w, [NoAccess EXCEPT !.at = "register", !.user = u, !.role = r, !.client = c])
      PROVE  Begun(w)
  <2> DEFINE d == [NoAccess EXCEPT !.at = "register", !.user = u, !.role = r, !.client = c]
  <2>1. d \in AccountCall /\ d.at = "register" /\ d.user = u /\ d.token = None
    BY DEF AccountCall, NoAccess
  <2> HIDE DEF d
  <2>2. AccessAddressed(d)
    BY <2>1 DEF AccessAddressed, Refreshing
  <2>3. Access(w, d)
    BY <1>3 DEF d
  <2> QED BY <2>1, <2>2, <2>3, AccessBegun
<1>4. ASSUME NEW u \in Emails, NEW c \in Clients,
             Access(w, [NoAccess EXCEPT !.at = "login", !.user = u, !.client = c])
      PROVE  Begun(w)
  <2> DEFINE d == [NoAccess EXCEPT !.at = "login", !.user = u, !.client = c]
  <2>1. d \in AccountCall /\ d.at = "login" /\ d.user = u /\ d.client = c /\ d.token = None
    BY DEF AccountCall, NoAccess
  <2> HIDE DEF d
  <2>2. AccessAddressed(d)
    BY <2>1 DEF AccessAddressed, Refreshing
  <2>3. Access(w, d)
    BY <1>4 DEF d
  <2> QED BY <2>1, <2>2, <2>3, AccessBegun
<1>5. ASSUME NEW c \in Clients, session[c] # None,
             Access(w, [NoAccess EXCEPT !.at = "refresh", !.client = c, !.token = session[c]])
      PROVE  Begun(w)
  <2> DEFINE d == [NoAccess EXCEPT !.at = "refresh", !.client = c, !.token = session[c]]
  <2>1. session[c] \in Tokens
    BY <1>5, AccessOf
  <2>2. d \in AccountCall /\ d.at = "refresh" /\ d.client = c /\ d.token = session[c]
    BY <2>1 DEF AccountCall, NoAccess
  <2> HIDE DEF d
  <2>3. AccessAddressed(d)
    BY <2>1, <2>2 DEF AccessAddressed, Refreshing
  <2>4. Access(w, d)
    BY <1>5 DEF d
  <2> QED BY <2>2, <2>3, <2>4, AccessBegun
<1> QED BY <1>1, <1>2, <1>3, <1>4, <1>5 DEF AccountBegin

LEMMA WorkTyped ==
  ASSUME AccessesTyped, NEW w \in Workers, AccountWork(w)
  PROVE  AccessesTyped'
<1> DEFINE c == accountCalls[w]
           typed == /\ accountCalls' \in [Workers -> AccountCall]
                    /\ \A v \in Workers : AccessAddressed(accountCalls'[v])
<1>1. /\ c \in AccountCall
      /\ c.at \notin {"idle", "refresh"} => c.user \in Emails
      /\ c.at \in Refreshing => c.token \in Tokens
      /\ c.at \in Refreshing \cup {"login", "password", "issue"} => c.client \in Clients
      /\ c.at \in {"issue", "refresh_set"} => c.next \in Tokens
      /\ c.role \in Roles \cup {None} /\ c.client \in Clients \cup {None}
  BY AccessOf DEF AccessAddressed, AccountCall
<1>2. Crossing(w) \subseteq crossed \cup {c.user}
  BY DEF Crossing
<1>3. CASE Register(w)
  <2>1. c.user \in Emails /\ c.at = "register"
    BY <1>1, <1>3 DEF Register, Accessing
  <2>2. typed /\ signed' \in [Emails -> Tokens \cup {None}]
    <3>1. CASE c.client # None /\ Sign(w, "issue")
      <4>1. c.client \in Clients
        BY <1>1, <3>1
      <4> QED BY <2>1, <3>1, <4>1, SignTyped
    <3>2. CASE AccountReturn(w) /\ UNCHANGED signed
      BY <3>2, AccessReturnTyped, AccessOf
    <3> QED BY <1>3, <3>1, <3>2 DEF Register
  <2>3. [state |-> "live", role |-> c.role] \in AccountRow
    BY <1>1 DEF AccountRow
  <2>4. account' \in [Emails -> AccountRow]
    BY <1>3, <2>3, AccessOf DEF Register
  <2>5. decided' \in [Emails -> AccountRow]
    BY <1>3, <2>1, <2>4, AccessOf DEF Register
  <2> QED BY <1>3, <2>2, <2>4, <2>5 DEF Register, AccessesTyped, AccountsTypeOK
<1>4. CASE LoginFind(w)
  <2>1. typed
    BY <1>4, AccessStepTyped DEF LoginFind, Accessing
  <2> QED BY <1>4, <2>1 DEF LoginFind, AccessesTyped, AccountsTypeOK, tokenVars
<1>5. CASE LoginPassword(w)
  <2>1. c.user \in Emails /\ c.client \in Clients
    BY <1>1, <1>5 DEF LoginPassword, Accessing
  <2>2. typed /\ signed' \in [Emails -> Tokens \cup {None}]
    BY <1>5, <2>1, SignTyped, AccessReturnTyped, AccessOf DEF LoginPassword
  <2> QED BY <1>5, <2>2 DEF LoginPassword, AccessesTyped, AccountsTypeOK
<1>6. CASE RefreshGet(w)
  <2> DEFINE d == [c EXCEPT !.at = "refresh_user", !.user = rtbl[c.token]]
  <2>1. c.token \in Tokens /\ rtbl[c.token] \in Emails /\ c.client \in Clients
    BY <1>1, <1>6, AccessOf DEF RefreshGet, Accessing, Refreshing
  <2>2. /\ d \in AccountCall /\ d.at = "refresh_user" /\ d.user \in Emails /\ d.token = c.token
        /\ d.client = c.client
    BY <1>1, <2>1 DEF AccountCall
  <2>3. accountCalls' = [accountCalls EXCEPT ![w] = d]
    BY <1>6 DEF RefreshGet
  <2> HIDE DEF d
  <2>4. AccessAddressed(d)
    BY <2>1, <2>2 DEF AccessAddressed
  <2>5. typed
    BY <2>2, <2>3, <2>4, AccessCallTyped
  <2> QED BY <1>6, <2>5 DEF RefreshGet, AccessesTyped, AccountsTypeOK, tokenVars
<1>7. CASE RefreshFind(w)
  <2>1. typed
    BY <1>7, AccessStepTyped, AccessReturnTyped DEF RefreshFind, Accessing
  <2> QED BY <1>7, <2>1 DEF RefreshFind, NotYetSpent, AccessesTyped, AccountsTypeOK
<1>8. CASE RefreshDel(w)
  <2>1. c.user \in Emails /\ c.client \in Clients /\ c.token \in Tokens
    BY <1>1, <1>8 DEF RefreshDel, Accessing, Refreshing
  <2>2. typed /\ signed' \in [Emails -> Tokens \cup {None}]
    BY <1>8, <2>1, SignTyped DEF RefreshDel
  <2>3. rtbl' \in [Tokens -> Emails \cup {None}]
    BY <1>8, AccessOf DEF RefreshDel, Spent
  <2> QED BY <1>8, <2>2, <2>3 DEF RefreshDel, AccessesTyped, AccountsTypeOK
<1>9. CASE Issue(w) \/ RefreshSet(w)
  <2>1. c.at \in {"issue", "refresh_set"}
    BY <1>9 DEF Issue, RefreshSet, Accessing
  <2>2. c.user \in Emails /\ c.client \in Clients /\ c.next \in Tokens
    BY <1>1, <2>1 DEF Refreshing
  <2>3. PICK kept \in BOOLEAN : Given(w, kept) /\ (Stored(w) \/ UNCHANGED rtbl)
    BY <1>9 DEF Issue, RefreshSet
  <2>4. rtbl' \in [Tokens -> Emails \cup {None}]
    BY <2>2, <2>3, AccessOf DEF Stored
  <2>5. typed /\ session' \in [Clients -> Tokens \cup {None}] /\ lapsed' \subseteq Clients
    BY <2>2, <2>3, GivenTyped
  <2> QED BY <1>9, <2>4, <2>5 DEF Issue, RefreshSet, AccessesTyped, AccountsTypeOK
<1>10. CASE ProfileFind(w)
  <2> DEFINE d == [c EXCEPT !.at = "profile_save", !.role = account[c.user].role]
  <2>1. c.user \in Emails /\ crossed' \subseteq Emails
    BY <1>1, <1>2, <1>10, AccessOf DEF ProfileFind, Accessing
  <2>2. account[c.user].role \in Roles \cup {None}
    BY <2>1, AccessOf DEF AccountRow
  <2>3. d \in AccountCall /\ d.at = "profile_save" /\ d.user = c.user
    BY <1>1, <2>2 DEF AccountCall
  <2>4. accountCalls' = [accountCalls EXCEPT ![w] = d]
    BY <1>10 DEF ProfileFind
  <2> HIDE DEF d
  <2>5. AccessAddressed(d)
    BY <2>1, <2>3 DEF AccessAddressed, Refreshing
  <2>6. typed
    BY <2>3, <2>4, <2>5, AccessCallTyped
  <2> QED BY <1>10, <2>1, <2>6 DEF ProfileFind, AccessesTyped, AccountsTypeOK, tokenVars
<1>11. CASE RoleFind(w) \/ DeleteUserFind(w)
  <2>1. typed /\ crossed' \subseteq Emails
    BY <1>1, <1>2, <1>11, AccessStepTyped, AccessOf DEF RoleFind, DeleteUserFind, Accessing
  <2> QED BY <1>11, <2>1 DEF RoleFind, DeleteUserFind, AccessesTyped, AccountsTypeOK, tokenVars
<1>12. CASE ProfileSave(w) \/ RoleSave(w)
  <2>1. typed
    BY <1>12, AccessReturnTyped DEF ProfileSave, RoleSave
  <2>2. [state |-> "live", role |-> c.role] \in AccountRow
    BY <1>1 DEF AccountRow
  <2>3. account' \in [Emails -> AccountRow]
    BY <1>12, <2>2, AccessOf DEF ProfileSave, RoleSave, Saved
  <2>4. decided' \in [Emails -> AccountRow]
    BY <1>1, <1>12, <2>3, AccessOf DEF ProfileSave, RoleSave, Accessing
  <2> QED BY <1>12, <2>1, <2>3, <2>4 DEF ProfileSave, RoleSave, AccessesTyped, AccountsTypeOK,
                                         tokenVars
<1>13. CASE DeleteUser(w)
  <2>1. typed
    BY <1>13, AccessReturnTyped DEF DeleteUser
  <2>2. \A a \in AccountRow : [a EXCEPT !.state = "deleted"] \in AccountRow
    BY DEF AccountRow
  <2>3. account' \in [Emails -> AccountRow] /\ decided' \in [Emails -> AccountRow]
    BY <1>13, <2>2, AccessOf DEF DeleteUser
  <2> QED BY <1>13, <2>1, <2>3 DEF DeleteUser, AccessesTyped, AccountsTypeOK, tokenVars
<1>14. CASE AccountRefuse(w) \/ AccountFail(w)
  <2>1. typed
    BY <1>14, AccessReturnTyped DEF AccountRefuse, AccountFail
  <2>2. lapsed' \subseteq Clients
    BY <1>14, AccessOf DEF AccountRefuse, AccountFail, Holders, tokenVars
  <2> QED BY <1>14, <2>1, <2>2 DEF AccountRefuse, AccountFail, AccessesTyped, AccountsTypeOK,
                                    tokenVars
<1> QED BY <1>3, <1>4, <1>5, <1>6, <1>7, <1>8, <1>9, <1>10, <1>11, <1>12, <1>13, <1>14
        DEF AccountWork

LEMMA ExpiryTyped ==
  ASSUME AccessesTyped, NEW t \in Tokens, ExpireToken(t)
  PROVE  AccessesTyped'
BY DEF ExpireToken, Holders, AccessesTyped, AccountsTypeOK

LEMMA SecondTyped ==
  ASSUME AccessesTyped, NextSecond
  PROVE  AccessesTyped'
BY DEF NextSecond, AccessesTyped, AccountsTypeOK
-----------------------------------------------------------------------------
(* Tokens.                                                                 *)

TokensKept == NoTwin /\ SessionsLostByFailureOnly

(* A step that gives no client a token: calls keep their tokens or start   *)
(* with their client's, a token goes only when an exchange holds it or its *)
(* holders lapse, and an exchange ends only if they do.                    *)
LEMMA TokensStay ==
  ASSUME AccessesTyped, TokensKept, session' = session, lapsed \subseteq lapsed',
         \A v \in Workers :
            \/ /\ accountCalls'[v].token = accountCalls[v].token
               /\ accountCalls'[v].client = accountCalls[v].client
            \/ accountCalls'[v].token = None
            \/ /\ accountCalls'[v].client \in Clients
               /\ accountCalls'[v].token = session[accountCalls'[v].client],
         \A t \in Tokens : rtbl[t] # None =>
            \/ rtbl'[t] # None
            \/ Holders(t) \subseteq lapsed'
            \/ \E v \in Workers : accountCalls'[v].token = t /\ accountCalls'[v].at = "refresh_set",
         \A v \in Workers : accountCalls[v].at = "refresh_set" =>
            \/ accountCalls'[v] = accountCalls[v]
            \/ Holders(accountCalls[v].token) \subseteq lapsed'
  PROVE  TokensKept'
<1>1. \A c \in Clients : session[c] \in Tokens \cup {None}
  BY SessionsTyped
<1>2. ASSUME NEW c \in Clients, c \notin lapsed', session[c] # None
      PROVE  /\ Holders(session[c]) = {c}
             /\ \A w \in Workers : accountCalls'[w].token = session[c] => accountCalls'[w].client = c
  <2>1. /\ Holders(session[c]) = {c}
        /\ \A w \in Workers : accountCalls[w].token = session[c] => accountCalls[w].client = c
    BY <1>2 DEF TokensKept, NoTwin
  <2>2. \A d \in Clients : session[d] = session[c] => d = c
    BY <2>1 DEF Holders
  <2> QED BY <1>2, <2>1, <2>2
<1>3. NoTwin'
  BY <1>2 DEF NoTwin, Holders
<1>4. ASSUME NEW c \in Clients, c \notin lapsed', session[c] # None, rtbl'[session[c]] = None
      PROVE  \E w \in Workers : accountCalls'[w].token = session[c] /\ accountCalls'[w].at = "refresh_set"
  <2>1. c \in Holders(session[c])
    BY DEF Holders
  <2>2. CASE rtbl[session[c]] # None
    BY <1>1, <1>4, <2>1, <2>2
  <2>3. CASE rtbl[session[c]] = None
    <3>1. PICK w \in Workers : accountCalls[w].token = session[c] /\ accountCalls[w].at = "refresh_set"
      BY <1>4, <2>3 DEF TokensKept, SessionsLostByFailureOnly, Accessing
    <3>2. accountCalls'[w] = accountCalls[w]
      BY <1>4, <2>1, <3>1
    <3> QED BY <3>1, <3>2
  <2> QED BY <2>2, <2>3
<1>5. SessionsLostByFailureOnly'
  BY <1>4 DEF SessionsLostByFailureOnly, Accessing
<1> QED BY <1>3, <1>5 DEF TokensKept

(* What a step of w's request leaves alone.                                *)
LEMMA OthersStay ==
  ASSUME AccessesTyped, NEW w \in Workers, AccountBegin(w) \/ AccountWork(w)
  PROVE  \A v \in Workers \ {w} : accountCalls'[v] = accountCalls[v]
<1>1. accountCalls \in [Workers -> AccountCall]
  BY DEF AccessesTyped, AccountsTypeOK
<1>2. CASE AccountBegin(w)
  BY <1>1, <1>2 DEF AccountBegin, Access
<1>3. CASE AccountWork(w)
  <2>1. CASE Register(w) \/ LoginFind(w) \/ LoginPassword(w) \/ Issue(w)
    BY <1>1, <2>1 DEF Register, LoginFind, LoginPassword, Issue, Sign, Given, AccountStep,
                      AccountReturn
  <2>2. CASE RefreshGet(w) \/ RefreshFind(w) \/ RefreshDel(w) \/ RefreshSet(w)
    BY <1>1, <2>2 DEF RefreshGet, RefreshFind, RefreshDel, RefreshSet, Sign, Given, AccountStep,
                      AccountReturn
  <2>3. CASE ProfileFind(w) \/ ProfileSave(w) \/ RoleFind(w) \/ RoleSave(w)
    BY <1>1, <2>3 DEF ProfileFind, ProfileSave, RoleFind, RoleSave, AccountStep, AccountReturn
  <2>4. CASE DeleteUserFind(w) \/ DeleteUser(w) \/ AccountRefuse(w) \/ AccountFail(w)
    BY <1>1, <2>4 DEF DeleteUserFind, DeleteUser, AccountRefuse, AccountFail, AccountStep,
                      AccountReturn
  <2> QED BY <1>3, <2>1, <2>2, <2>3, <2>4 DEF AccountWork
<1> QED BY <1>2, <1>3

LEMMA BeginKeepsTokens ==
  ASSUME AccessesTyped, TokensKept, NEW w \in Workers, AccountBegin(w)
  PROVE  TokensKept'
<1>1. \A v \in Workers \ {w} : accountCalls'[v] = accountCalls[v]
  BY OthersStay
<1> QED BY <1>1, BeginTyped, TokensStay DEF Begun, tokenVars

(* A call gives its client a token: it has stored it, and no other client  *)
(* has it, or the client is among those whose session has lapsed.          *)
LEMMA GivenKeepsTokens ==
  ASSUME AccessesTyped, TokensKept, NEW w \in Workers, NEW kept \in BOOLEAN, Given(w, kept),
         accountCalls[w].client \in Clients, accountCalls[w].next \in Tokens,
         accountCalls[w].user \in Emails,
         kept => Stored(w), ~kept => rtbl' = rtbl,
         \A v \in Workers \ {w} : accountCalls'[v] = accountCalls[v]
  PROVE  TokensKept'
<1> DEFINE c == accountCalls[w].client
           n == accountCalls[w].next
<1>1. /\ session'[c] = n /\ n # None
      /\ \A d \in Clients : d # c => session'[d] = session[d]
  BY AccessOf, TokenNames DEF Given
<1>2. accountCalls'[w].token = None
  BY DEF Given, AccountReturn, NoAccess, AccessesTyped, AccountsTypeOK
<1>3. Twin(w) => c \in lapsed' /\ Holders(n) \subseteq lapsed'
  BY DEF Given
<1>4. c \notin lapsed' => kept /\ ~Twin(w)
  BY DEF Given
<1>5. lapsed \subseteq lapsed' \cup {c}
  BY DEF Given
<1>6. \A x \in Tokens : x # n => rtbl'[x] = rtbl[x]
  BY AccessOf DEF Stored
<1>7. kept => rtbl'[n] # None
  BY AccessOf, TokenNames DEF Stored
(* The clients that hold another token than the one given.                 *)
<1>8. ASSUME NEW d \in Clients, d # c, d \notin lapsed', session[d] # None
      PROVE  /\ d \notin lapsed /\ session[d] \in Tokens /\ session[d] # n
             /\ Holders(session[d]) = {d}
             /\ \A v \in Workers : accountCalls[v].token = session[d] => accountCalls[v].client = d
  <2>1. d \notin lapsed /\ session[d] \in Tokens
    BY <1>5, <1>8, AccessOf
  <2>2. session[d] # n
    <3>1. SUFFICES ASSUME session[d] = n PROVE FALSE
      OBVIOUS
    <3>2. d \in Holders(n)
      BY <3>1 DEF Holders
    <3>3. Twin(w)
      BY <1>8, <3>2 DEF Twin
    <3> QED BY <1>3, <1>8, <3>2, <3>3
  <2> QED BY <1>8, <2>1, <2>2 DEF TokensKept, NoTwin
<1>9. ASSUME NEW d \in Clients, d \notin lapsed', session'[d] # None
      PROVE  /\ Holders(session[d])' = {d}
             /\ \A v \in Workers : accountCalls'[v].token = session'[d] => accountCalls'[v].client = d
  <2>1. CASE d = c
    <3>1. /\ Holders(n) \subseteq {c}
          /\ \A v \in Workers : accountCalls[v].token = n => accountCalls[v].client = c
      BY <1>4, <1>9, <2>1 DEF Twin
    <3>2. \A e \in Clients : session'[e] = n <=> e = c
      BY <1>1, <3>1 DEF Holders
    <3>3. Holders(session[d])' = {d}
      BY <1>1, <2>1, <3>2 DEF Holders
    <3> QED BY <1>1, <1>2, <2>1, <3>1, <3>3
  <2>2. CASE d # c
    <3>1. session'[d] = session[d]
      BY <1>1, <2>2
    <3>2. /\ session[d] # n /\ \A e \in Clients : session[e] = session[d] <=> e = d
          /\ \A v \in Workers : accountCalls[v].token = session[d] => accountCalls[v].client = d
      BY <1>8, <1>9, <2>2, <3>1 DEF Holders
    <3>3. \A e \in Clients : session'[e] = session'[d] <=> e = d
      BY <1>1, <2>2, <3>1, <3>2
    <3>4. Holders(session[d])' = {d}
      BY <3>3 DEF Holders
    <3> QED BY <1>2, <1>9, <3>1, <3>2, <3>4
  <2> QED BY <2>1, <2>2
<1>10. NoTwin'
  BY <1>9 DEF NoTwin
<1>11. ASSUME NEW d \in Clients, d \notin lapsed', session'[d] # None, rtbl'[session'[d]] = None
       PROVE  \E v \in Workers : accountCalls'[v].token = session'[d]
                                  /\ accountCalls'[v].at = "refresh_set"
  <2>1. d # c
    BY <1>1, <1>4, <1>7, <1>11
  <2>2. /\ session'[d] = session[d] /\ session[d] # None
    BY <1>1, <1>11, <2>1
  <2>3. /\ d \notin lapsed /\ session[d] \in Tokens /\ session[d] # n
        /\ \A v \in Workers : accountCalls[v].token = session[d] => accountCalls[v].client = d
    BY <1>8, <1>11, <2>1, <2>2
  <2>4. rtbl[session[d]] = None
    BY <1>6, <1>11, <2>2, <2>3
  <2>5. PICK v \in Workers : accountCalls[v].token = session[d] /\ accountCalls[v].at = "refresh_set"
    BY <2>2, <2>3, <2>4 DEF TokensKept, SessionsLostByFailureOnly, Accessing
  <2>6. v # w
    BY <2>1, <2>3, <2>5
  <2> QED BY <2>2, <2>5, <2>6
<1>12. SessionsLostByFailureOnly'
  BY <1>11 DEF SessionsLostByFailureOnly, Accessing
<1> QED BY <1>10, <1>12 DEF TokensKept

LEMMA WorkKeepsTokens ==
  ASSUME AccessesTyped, TokensKept, NEW w \in Workers, AccountWork(w)
  PROVE  TokensKept'
<1> DEFINE c == accountCalls[w]
<1>1. \A v \in Workers \ {w} : accountCalls'[v] = accountCalls[v]
  BY OthersStay
<1>2. c \in AccountCall /\ accountCalls \in [Workers -> AccountCall]
  BY DEF AccessesTyped, AccountsTypeOK
<1>3. CASE /\ c.at # "refresh_set" /\ UNCHANGED <<rtbl, session, lapsed>>
           /\ \/ accountCalls'[w].token = None
              \/ accountCalls'[w].token = c.token /\ accountCalls'[w].client = c.client
  BY <1>1, <1>3, TokensStay
<1>4. AccountReturn(w) => accountCalls'[w].token = None
  BY <1>2 DEF AccountReturn, NoAccess
<1>5. \A label : AccountStep(w, label) =>
        accountCalls'[w].token = c.token /\ accountCalls'[w].client = c.client
  BY <1>2 DEF AccountStep, AccountCall
<1>6. \A label : Sign(w, label) =>
        /\ accountCalls'[w].token = c.token /\ accountCalls'[w].client = c.client
        /\ accountCalls'[w].at = label
  BY <1>2 DEF Sign, AccountCall
<1>7. CASE Issue(w) \/ RefreshSet(w)
  <2>1. c.user \in Emails /\ c.client \in Clients /\ c.next \in Tokens
    BY <1>7, AccessOf DEF Issue, RefreshSet, Accessing, AccessAddressed, Refreshing
  <2>2. PICK kept \in BOOLEAN : /\ Given(w, kept)
                                /\ kept => Stored(w)
                                /\ ~kept => rtbl' = rtbl
    BY <1>7 DEF Issue, RefreshSet
  <2> QED BY <1>1, <2>1, <2>2, GivenKeepsTokens
<1>8. CASE RefreshDel(w)
  <2>1. c.at = "refresh_del" /\ c.token \in Tokens
    BY <1>8, AccessOf DEF RefreshDel, Accessing, AccessAddressed, Refreshing
  <2>2. /\ accountCalls'[w].at = "refresh_set"
        /\ accountCalls'[w].token = c.token /\ accountCalls'[w].client = c.client
    BY <1>6, <1>8 DEF RefreshDel
  <2>3. /\ \A x \in Tokens : x # c.token => rtbl'[x] = rtbl[x]
        /\ UNCHANGED <<session, lapsed>>
    BY <1>8, AccessOf DEF RefreshDel, Spent
  <2> QED BY <1>1, <2>1, <2>2, <2>3, TokensStay
<1>9. CASE AccountFail(w)
  <2>1. /\ accountCalls'[w].token = None /\ UNCHANGED <<rtbl, session>>
        /\ lapsed \subseteq lapsed'
        /\ c.at = "refresh_set" => Holders(c.token) \subseteq lapsed'
    BY <1>4, <1>9 DEF AccountFail, Accessing
  <2> QED BY <1>1, <2>1, TokensStay
<1>10. CASE Register(w) \/ LoginPassword(w)
  BY <1>3, <1>4, <1>6, <1>10 DEF Register, LoginPassword, Accessing
<1>11. CASE RefreshGet(w) \/ ProfileFind(w)
  BY <1>2, <1>3, <1>11 DEF RefreshGet, ProfileFind, Accessing, AccountCall, tokenVars
<1>12. CASE RefreshFind(w)
  BY <1>3, <1>4, <1>5, <1>12 DEF RefreshFind, NotYetSpent, Accessing
<1>13. CASE LoginFind(w) \/ RoleFind(w) \/ DeleteUserFind(w)
  BY <1>3, <1>5, <1>13 DEF LoginFind, RoleFind, DeleteUserFind, Accessing, tokenVars
<1>14. CASE ProfileSave(w) \/ RoleSave(w) \/ DeleteUser(w) \/ AccountRefuse(w)
  BY <1>3, <1>4, <1>14 DEF ProfileSave, RoleSave, DeleteUser, AccountRefuse, Accessing, tokenVars
<1> QED BY <1>7, <1>8, <1>9, <1>10, <1>11, <1>12, <1>13, <1>14 DEF AccountWork

LEMMA ClockKeepsTokens ==
  ASSUME AccessesTyped, TokensKept, NextSecond \/ \E t \in Tokens : ExpireToken(t)
  PROVE  TokensKept'
<1>1. CASE NextSecond
  BY <1>1, TokensStay DEF NextSecond
<1>2. ASSUME NEW t \in Tokens, ExpireToken(t) PROVE TokensKept'
  <2>1. /\ \A x \in Tokens : x # t => rtbl'[x] = rtbl[x]
        /\ lapsed' = lapsed \cup Holders(t) /\ UNCHANGED <<session, accountCalls>>
    BY <1>2, AccessOf DEF ExpireToken
  <2> QED BY <2>1, TokensStay
<1> QED BY <1>1, <1>2
-----------------------------------------------------------------------------
(* Accounts.                                                               *)

Agreed  == AccountAsDecided /\ OneChanger
SavedBy == {"profile_save", "role_save", "delete_save"}

(* OneChanger, request by request.                                         *)
LEMMA OneChangerUnfolded ==
  OneChanger <=>
    \A w \in Workers : accountCalls[w].at \in SavedBy =>
      LET u == accountCalls[w].user IN
      u \in Emails \ crossed =>
        /\ account[u].state = "live"
        /\ \A v \in Workers : accountCalls[v].user = u /\ accountCalls[v].at \in SavedBy => v = w
        /\ accountCalls[w].at = "profile_save" => accountCalls[w].role = account[u].role
BY DEF OneChanger, Changers, SavedBy, IsLive, Accessing

(* The same of the next state.                                             *)
LEMMA OneChangerFolded ==
  ASSUME \A w \in Workers : accountCalls'[w].at \in SavedBy =>
           LET u == accountCalls'[w].user IN
           u \in Emails \ crossed' =>
             /\ account'[u].state = "live"
             /\ \A v \in Workers : accountCalls'[v].user = u /\ accountCalls'[v].at \in SavedBy
                                     => v = w
             /\ accountCalls'[w].at = "profile_save" => accountCalls'[w].role = account'[u].role
  PROVE  OneChanger'
BY DEF OneChanger, Changers, SavedBy, IsLive, Accessing

(* A step that changes no account, and after which no more requests have   *)
(* one loaded.                                                             *)
LEMMA AccountsStay ==
  ASSUME Agreed, UNCHANGED <<account, decided, crossed>>,
         \A v \in Workers : \/ accountCalls'[v] = accountCalls[v]
                            \/ accountCalls'[v].at \notin SavedBy
  PROVE  Agreed'
<1>1. AccountAsDecided'
  BY DEF Agreed, AccountAsDecided
<1>2. OneChanger'
  BY OneChangerUnfolded, OneChangerFolded DEF Agreed
<1> QED BY <1>1, <1>2 DEF Agreed

(* A request loads a live account.                                         *)
LEMMA LoadAgrees ==
  ASSUME AccessesTyped, Agreed, NEW w \in Workers,
         accountCalls[w].user \in Emails, IsLive(accountCalls[w].user),
         accountCalls'[w].user = accountCalls[w].user,
         accountCalls'[w].at = "profile_save" =>
           accountCalls'[w].role = account[accountCalls[w].user].role,
         crossed' = Crossing(w), UNCHANGED <<account, decided>>,
         \A v \in Workers \ {w} : accountCalls'[v] = accountCalls[v]
  PROVE  Agreed'
<1> DEFINE u == accountCalls[w].user
<1>1. crossed \subseteq crossed'
  BY DEF Crossing
<1>2. AccountAsDecided'
  BY <1>1 DEF Agreed, AccountAsDecided
<1>3. u \notin crossed' =>
        \A v \in Workers \ {w} : ~(accountCalls[v].user = u /\ accountCalls[v].at \in SavedBy)
  BY DEF Crossing, Changers, SavedBy
<1>4. ASSUME NEW x \in Workers, accountCalls'[x].at \in SavedBy,
             accountCalls'[x].user \in Emails \ crossed'
      PROVE  LET y == accountCalls'[x].user IN
             /\ account'[y].state = "live"
             /\ \A v \in Workers : accountCalls'[v].user = y /\ accountCalls'[v].at \in SavedBy
                                     => v = x
             /\ accountCalls'[x].at = "profile_save" => accountCalls'[x].role = account'[y].role
  <2>1. CASE x = w
    BY <1>3, <1>4, <2>1 DEF IsLive
  <2>2. CASE x # w
    <3>1. accountCalls'[x] = accountCalls[x] /\ accountCalls[x].user \in Emails \ crossed
      BY <1>1, <1>4, <2>2
    <3>2. /\ account[accountCalls[x].user].state = "live"
          /\ \A v \in Workers : accountCalls[v].user = accountCalls[x].user
                                /\ accountCalls[v].at \in SavedBy => v = x
          /\ accountCalls[x].at = "profile_save" =>
               accountCalls[x].role = account[accountCalls[x].user].role
      BY <1>4, <3>1, OneChangerUnfolded DEF Agreed
    <3>3. accountCalls[x].user # u
      BY <1>3, <1>4, <2>2, <3>1
    <3> QED BY <3>1, <3>2, <3>3
  <2> QED BY <2>1, <2>2
<1>5. OneChanger'
  BY <1>4, OneChangerFolded
<1> QED BY <1>2, <1>5 DEF Agreed

(* A request saves the account it has loaded, or inserts it, and what it   *)
(* makes of it is what administrators have decided.                        *)
LEMMA SaveAgrees ==
  ASSUME AccessesTyped, Agreed, NEW w \in Workers, accountCalls[w].user \in Emails,
         accountCalls[w].user \notin crossed =>
           /\ account'[accountCalls[w].user] = decided'[accountCalls[w].user]
           /\ \A v \in Workers \ {w} : ~(accountCalls[v].user = accountCalls[w].user
                                          /\ accountCalls[v].at \in SavedBy),
         \A x \in Emails \ {accountCalls[w].user} :
           account'[x] = account[x] /\ decided'[x] = decided[x],
         crossed' = crossed,
         accountCalls'[w].at \notin SavedBy,
         \A v \in Workers \ {w} : accountCalls'[v] = accountCalls[v]
  PROVE  Agreed'
<1> DEFINE u == accountCalls[w].user
<1>1. AccountAsDecided'
  BY DEF Agreed, AccountAsDecided
<1>2. ASSUME NEW x \in Workers, accountCalls'[x].at \in SavedBy,
             accountCalls'[x].user \in Emails \ crossed'
      PROVE  LET y == accountCalls'[x].user IN
             /\ account'[y].state = "live"
             /\ \A v \in Workers : accountCalls'[v].user = y /\ accountCalls'[v].at \in SavedBy
                                     => v = x
             /\ accountCalls'[x].at = "profile_save" => accountCalls'[x].role = account'[y].role
  <2>1. x # w /\ accountCalls'[x] = accountCalls[x]
    BY <1>2
  <2>2. accountCalls[x].user # u
    BY <1>2, <2>1
  <2>3. /\ account[accountCalls[x].user].state = "live"
        /\ \A v \in Workers : accountCalls[v].user = accountCalls[x].user
                              /\ accountCalls[v].at \in SavedBy => v = x
        /\ accountCalls[x].at = "profile_save" =>
             accountCalls[x].role = account[accountCalls[x].user].role
    BY <1>2, <2>1, OneChangerUnfolded DEF Agreed
  <2> QED BY <1>2, <2>1, <2>2, <2>3
<1>3. OneChanger'
  BY <1>2, OneChangerFolded
<1> QED BY <1>1, <1>3 DEF Agreed

(* What the request that has loaded an account knows of it.                *)
LEMMA LoadedIsAsDecided ==
  ASSUME AccessesTyped, Agreed, NEW w \in Workers, accountCalls[w].at \in SavedBy
  PROVE  LET c == accountCalls[w] IN
         /\ c.user \in Emails
         /\ c.user \notin crossed =>
              /\ account[c.user] = decided[c.user] /\ account[c.user].state = "live"
              /\ c.at = "profile_save" => c.role = account[c.user].role
              /\ \A v \in Workers \ {w} : ~(accountCalls[v].user = c.user
                                             /\ accountCalls[v].at \in SavedBy)
<1>1. accountCalls[w].user \in Emails
  BY AccessOf DEF AccessAddressed, SavedBy
<1> QED BY <1>1, OneChangerUnfolded DEF Agreed, AccountAsDecided

LEMMA WorkKeepsAccounts ==
  ASSUME AccessesTyped, Agreed, NEW w \in Workers, AccountWork(w)
  PROVE  Agreed'
<1> DEFINE c == accountCalls[w]
           u == c.user
<1>1. \A v \in Workers \ {w} : accountCalls'[v] = accountCalls[v]
  BY OthersStay
<1>2. /\ accountCalls \in [Workers -> AccountCall]
      /\ account \in [Emails -> AccountRow] /\ decided \in [Emails -> AccountRow]
      /\ c.role \in Roles \cup {None}
  BY AccessOf DEF AccessesTyped, AccountsTypeOK, AccountCall
<1>3. CASE accountCalls'[w].at \notin SavedBy /\ UNCHANGED <<account, decided, crossed>>
  BY <1>1, <1>3, AccountsStay
<1>4. AccountReturn(w) => accountCalls'[w].at \notin SavedBy
  BY <1>2 DEF AccountReturn, NoAccess, SavedBy
<1>5. \A label : AccountStep(w, label) \/ Sign(w, label) =>
        accountCalls'[w].at = label /\ accountCalls'[w].user = u
  BY <1>2 DEF AccountStep, Sign, AccountCall
<1>6. CASE Register(w)
  <2>1. c.at = "register" /\ u \in Emails /\ account[u].state = "none"
    BY <1>6, AccessOf DEF Register, Accessing, AccessAddressed
  <2>2. accountCalls'[w].at \notin SavedBy
    BY <1>4, <1>5, <1>6 DEF Register, SavedBy
  <2>3. u \notin crossed => account'[u] = decided'[u]
    BY <1>2, <1>6, <2>1 DEF Register
  <2>4. u \notin crossed => \A v \in Workers : ~(accountCalls[v].user = u /\ accountCalls[v].at \in SavedBy)
    BY <2>1, OneChangerUnfolded DEF Agreed
  <2>5. \A x \in Emails \ {u} : account'[x] = account[x] /\ decided'[x] = decided[x]
    BY <1>2, <1>6 DEF Register
  <2>6. crossed' = crossed
    BY <1>6 DEF Register
  <2> QED BY <1>1, <2>1, <2>2, <2>3, <2>4, <2>5, <2>6, SaveAgrees
<1>7. CASE ProfileFind(w)
  <2>1. u \in Emails /\ IsLive(u) /\ crossed' = Crossing(w) /\ UNCHANGED <<account, decided>>
    BY <1>7, AccessOf DEF ProfileFind, Accessing, AccessAddressed
  <2>2. accountCalls'[w].role = account[u].role /\ accountCalls'[w].user = u
    BY <1>2, <1>7 DEF ProfileFind, AccountCall
  <2> QED BY <1>1, <2>1, <2>2, LoadAgrees
<1>8. CASE RoleFind(w) \/ DeleteUserFind(w)
  <2>1. u \in Emails /\ IsLive(u) /\ crossed' = Crossing(w) /\ UNCHANGED <<account, decided>>
    BY <1>8, AccessOf DEF RoleFind, DeleteUserFind, Accessing, AccessAddressed
  <2>2. accountCalls'[w].at # "profile_save" /\ accountCalls'[w].user = u
    BY <1>5, <1>8 DEF RoleFind, DeleteUserFind
  <2> QED BY <1>1, <2>1, <2>2, LoadAgrees
<1>9. CASE ProfileSave(w) \/ RoleSave(w) \/ DeleteUser(w)
  <2>1. c.at \in SavedBy
    BY <1>9 DEF ProfileSave, RoleSave, DeleteUser, Accessing, SavedBy
  <2>2. /\ accountCalls'[w].at \notin SavedBy /\ crossed' = crossed
        /\ \A x \in Emails \ {u} : account'[x] = account[x] /\ decided'[x] = decided[x]
    BY <1>2, <1>4, <1>9 DEF ProfileSave, RoleSave, DeleteUser
  <2>3. u \in Emails
    BY <2>1, LoadedIsAsDecided
  <2>4. ASSUME u \notin crossed PROVE account'[u] = decided'[u]
    <3>1. account[u] = decided[u] /\ account[u].state = "live" /\ account[u] \in AccountRow
      BY <1>2, <2>1, <2>3, <2>4, LoadedIsAsDecided
    <3>2. CASE ProfileSave(w)
      <4>1. c.role = account[u].role
        BY <2>1, <2>4, <3>2, LoadedIsAsDecided DEF ProfileSave, Accessing
      <4>2. account'[u] = [state |-> "live", role |-> c.role] /\ decided'[u] = decided[u]
        BY <1>2, <2>3, <3>2 DEF ProfileSave, Saved
      <4>3. account[u] = [state |-> "live", role |-> c.role]
        BY <3>1, <4>1 DEF AccountRow
      <4> QED BY <3>1, <4>2, <4>3
    <3>3. CASE RoleSave(w)
      BY <1>2, <2>3, <3>3 DEF RoleSave
    <3>4. CASE DeleteUser(w)
      BY <1>2, <2>3, <3>1, <3>4 DEF DeleteUser
    <3> QED BY <1>9, <3>2, <3>3, <3>4
  <2>5. u \notin crossed =>
          \A v \in Workers \ {w} : ~(accountCalls[v].user = u /\ accountCalls[v].at \in SavedBy)
    BY <2>1, LoadedIsAsDecided
  <2> QED BY <1>1, <2>2, <2>3, <2>4, <2>5, SaveAgrees
<1>10. CASE LoginFind(w) \/ LoginPassword(w) \/ RefreshFind(w) \/ RefreshDel(w)
  BY <1>3, <1>4, <1>5, <1>10 DEF LoginFind, LoginPassword, RefreshFind, RefreshDel, SavedBy
<1>11. CASE RefreshGet(w)
  BY <1>2, <1>3, <1>11 DEF RefreshGet, AccountCall, SavedBy
<1>12. CASE Issue(w) \/ RefreshSet(w) \/ AccountRefuse(w) \/ AccountFail(w)
  BY <1>3, <1>4, <1>12 DEF Issue, RefreshSet, Given, AccountRefuse, AccountFail
<1> QED BY <1>6, <1>7, <1>8, <1>9, <1>10, <1>11, <1>12 DEF AccountWork

LEMMA BeginKeepsAccounts ==
  ASSUME AccessesTyped, Agreed, NEW w \in Workers, AccountBegin(w)
  PROVE  Agreed'
<1>1. UNCHANGED <<account, decided, crossed>> /\ accountCalls'[w].at \notin SavedBy
  BY BeginTyped DEF Begun, SavedBy
<1> QED BY <1>1, OthersStay, AccountsStay

LEMMA ClockKeepsAccounts ==
  ASSUME Agreed, NextSecond \/ \E t \in Tokens : ExpireToken(t)
  PROVE  Agreed'
<1>1. UNCHANGED <<account, decided, crossed, accountCalls>>
  BY DEF NextSecond, ExpireToken
<1> QED BY <1>1, AccountsStay

-----------------------------------------------------------------------------

LEMMA AccountsInitIInv == AccountsInit => AccountsIInv
<1> SUFFICES ASSUME AccountsInit PROVE AccountsIInv
  OBVIOUS
<1>1. [state |-> "none", role |-> None] \in AccountRow
  BY DEF AccountRow
<1>2. AccessesTyped
  BY <1>1, NoAccessTyped DEF AccountsInit, AccessesTyped, AccountsTypeOK
<1>3. NoTwin /\ SessionsLostByFailureOnly /\ AccountAsDecided
  BY DEF AccountsInit, NoTwin, SessionsLostByFailureOnly, AccountAsDecided
<1>4. OneChanger
  BY DEF AccountsInit, OneChanger, Changers, NoAccess
<1> QED BY <1>2, <1>3, <1>4 DEF AccountsIInv

LEMMA AccountsStepKeepsIInv == AccountsIInv /\ [AccountsNext]_accountVars => AccountsIInv'
<1> SUFFICES ASSUME AccountsIInv, [AccountsNext]_accountVars PROVE AccountsIInv'
  OBVIOUS
<1>1. AccessesTyped /\ TokensKept /\ Agreed
  BY DEF AccountsIInv, TokensKept, Agreed
<1>2. CASE AccountsNext
  <2>1. AccessesTyped'
    BY <1>1, <1>2, StepsOfAccounts, BeginTyped, WorkTyped, ExpiryTyped, SecondTyped DEF Begun
  <2>2. TokensKept'
    BY <1>1, <1>2, StepsOfAccounts, BeginKeepsTokens, WorkKeepsTokens, ClockKeepsTokens
  <2>3. Agreed'
    BY <1>1, <1>2, StepsOfAccounts, BeginKeepsAccounts, WorkKeepsAccounts, ClockKeepsAccounts
  <2> QED BY <2>1, <2>2, <2>3 DEF AccountsIInv, TokensKept, Agreed
<1>3. CASE UNCHANGED accountVars
  BY <1>3 DEF accountVars, tokenVars, AccountsIInv, AccessesTyped, AccountsTypeOK, NoTwin, Holders,
              SessionsLostByFailureOnly, AccountAsDecided, OneChanger, Changers, IsLive, Accessing
<1> QED BY <1>2, <1>3

(* The invariant the others follow from: an exchange holds the token it    *)
(* has deleted until it has stored the next, and while only one request    *)
(* has loaded an account, it is the account (auth.service.ts:109-140,      *)
(* users.service.ts:62-113).                                               *)
THEOREM AccountsInvariant == AccountsSpec => []AccountsIInv
<1> QED BY AccountsInitIInv, AccountsStepKeepsIInv, PTL DEF AccountsSpec

(* Accounts, tokens and the locals of the requests keep their types         *)
(* (auth.service.ts, users.service.ts).                                    *)
THEOREM AccountsTypeCorrect == AccountsSpec => []AccountsTypeOK
<1>1. AccountsIInv => AccountsTypeOK
  BY DEF AccountsIInv, AccessesTyped
<1> QED BY <1>1, AccountsInvariant, PTL

(* However logins and refreshes interleave and fail, a client keeps a      *)
(* token it can exchange unless it expired, its write or its exchange      *)
(* failed, or another client of the user has the same token, signed in the *)
(* same second (auth.service.ts:109-140, 161).                             *)
THEOREM SessionsKept == AccountsSpec => []SessionsLostByFailureOnly
<1>1. AccountsIInv => SessionsLostByFailureOnly
  BY DEF AccountsIInv
<1> QED BY <1>1, AccountsInvariant, PTL

(* A profile update that overlaps no other change of its account undoes    *)
(* neither a role nor a deletion (users.service.ts:62-112).                *)
THEOREM DecisionsKept == AccountsSpec => []AccountAsDecided
<1>1. AccountsIInv => AccountAsDecided
  BY DEF AccountsIInv
<1> QED BY <1>1, AccountsInvariant, PTL

-----------------------------------------------------------------------------
(* Cache.                                                                  *)

LEMMA CacheConstantsTyped ==
  /\ \A k \in Keys : Ttl[k] \in Nat /\ Ttl[k] >= 1 /\ k # None
  /\ Delay \in Nat
BY CacheAssumption

(* A level in which every entry is typed and alive.                        *)
LevelTyped(level) ==
  /\ level \in [Keys -> Entry \cup {None}]
  /\ \A k \in Keys : level[k] # None => level[k] \in Entry /\ level[k].left \in 1..Ttl[k]

LEMMA TypesByLevel ==
  CacheTypeOK <=> /\ LevelTyped(memory) /\ LevelTyped(redisCache)
                  /\ cacheCalls \in [Workers -> CacheCall] /\ slipped \subseteq Keys
BY DEF CacheTypeOK, LevelTyped

(* One entry changes.                                                      *)
LEMMA EntryTyped ==
  ASSUME NEW level, LevelTyped(level), NEW k \in Keys, NEW e,
         e # None => e \in Entry /\ e.left \in 1..Ttl[k]
  PROVE  LevelTyped([level EXCEPT ![k] = e])
BY DEF LevelTyped

LEMMA CachedTyped ==
  ASSUME CacheTypeOK, NEW w \in Workers, cacheCalls[w].key \in Keys
  PROVE  /\ Cached(w) \in Entry
         /\ Cached(w).left = Ttl[cacheCalls[w].key] /\ Cached(w).age = cacheCalls[w].age
         /\ Cached(w).left \in 1..Ttl[cacheCalls[w].key]
<1>1. cacheCalls[w].age \in Nat /\ Ttl[cacheCalls[w].key] \in Nat \ {0}
  BY CacheAssumption DEF CacheTypeOK, CacheCall
<1>2. cacheCalls[w].old \in BOOLEAN
  BY DEF CacheTypeOK, CacheCall
<1>3. Cached(w) \in Entry
  BY <1>1, <1>2 DEF Cached, Entry
<1>4. Cached(w).left = Ttl[cacheCalls[w].key] /\ Cached(w).age = cacheCalls[w].age
  BY DEF Cached
<1> QED BY <1>1, <1>3, <1>4

LEMMA NoReadTyped == NoRead \in CacheCall /\ CallInTime(NoRead) /\ NoRead.at = "idle"
BY CacheConstantsTyped DEF NoRead, CacheCall, CallInTime

LEMMA CacheInitIInv == CacheInit => CacheIInv
<1> SUFFICES ASSUME CacheInit PROVE CacheIInv
  OBVIOUS
<1>1. LevelTyped(memory) /\ LevelTyped(redisCache)
  BY DEF CacheInit, LevelTyped
<1>2. CacheTypeOK
  BY <1>1, TypesByLevel, NoReadTyped DEF CacheInit
<1>3. StagesBounded
  BY NoReadTyped DEF CacheInit, StagesBounded, MemoryInTime, RedisInTime
<1> QED BY <1>2, <1>3 DEF CacheIInv

LEMMA PartsGiveIInv ==
  ASSUME cacheCalls' \in [Workers -> CacheCall], slipped' \subseteq Keys,
         \A v \in Workers : CallInTime(cacheCalls'[v]),
         LevelTyped(memory'), LevelTyped(redisCache'),
         \A k \in Keys : MemoryInTime(k, memory'[k]) /\ RedisInTime(k, redisCache'[k])
  PROVE  CacheIInv'
<1>1. CacheTypeOK'
  BY DEF CacheTypeOK, LevelTyped
<1>2. StagesBounded'
  BY DEF StagesBounded, CallInTime, MemoryInTime, RedisInTime
<1> QED BY <1>1, <1>2 DEF CacheIInv

(* A step of one call: what it must show of the levels and of the call.    *)
LEMMA OneCallKeepsIInv ==
  ASSUME CacheIInv, NEW w \in Workers, NEW c \in CacheCall, CallInTime(c),
         cacheCalls' = [cacheCalls EXCEPT ![w] = c], slipped' \subseteq Keys,
         LevelTyped(memory'), LevelTyped(redisCache'),
         \A k \in Keys : MemoryInTime(k, memory'[k]) /\ RedisInTime(k, redisCache'[k])
  PROVE  CacheIInv'
<1>1. cacheCalls' \in [Workers -> CacheCall]
  BY DEF CacheIInv, CacheTypeOK
<1>2. \A v \in Workers : CallInTime(cacheCalls'[v])
  BY DEF CacheIInv, CacheTypeOK, StagesBounded
<1> QED BY <1>1, <1>2, PartsGiveIInv

-----------------------------------------------------------------------------
(* getOrSet                                                                *)

LEMMA HitKeepsIInv ==
  ASSUME CacheIInv, NEW w \in Workers,
         (\E k \in Keys : GetOrSet(w, k)) \/ RedisHit(w) \/ RedisMiss(w)
  PROVE  CacheIInv'
<1> USE DEF CacheIInv
<1>1. /\ LevelTyped(memory) /\ LevelTyped(redisCache) /\ slipped \subseteq Keys
      /\ cacheCalls[w] \in CacheCall /\ CallInTime(cacheCalls[w])
      /\ \A k \in Keys : MemoryInTime(k, memory[k]) /\ RedisInTime(k, redisCache[k])
  BY TypesByLevel DEF CacheTypeOK, StagesBounded
<1>2. UNCHANGED <<memory, redisCache>>
  BY DEF GetOrSet, RedisHit, RedisMiss
<1>3. CASE \E k \in Keys : GetOrSet(w, k)
  <2>1. PICK k \in Keys : GetOrSet(w, k)
    BY <1>3
  <2> DEFINE c == [NoRead EXCEPT !.at = "get", !.key = k]
  <2>2. c \in CacheCall
    BY NoReadTyped DEF CacheCall
  <2>3. c.at = "get" /\ c.key = k /\ c.age = NoRead.age /\ c.waited = NoRead.waited
    BY NoReadTyped DEF CacheCall
  <2>4. NoRead.age = 0 /\ NoRead.waited = 0
    BY DEF NoRead
  <2>5. CallInTime(c)
    BY <2>3, <2>4, CacheConstantsTyped DEF CallInTime
  <2>6. cacheCalls' = [cacheCalls EXCEPT ![w] = c] /\ slipped' \subseteq Keys
    BY <1>1, <2>1 DEF GetOrSet
  <2> HIDE DEF c
  <2> QED BY <1>1, <1>2, <2>2, <2>5, <2>6, OneCallKeepsIInv
<1>4. CASE RedisHit(w)
  <2> DEFINE k == cacheCalls[w].key
             e == redisCache[k]
             c == [at |-> "reply", key |-> k, age |-> e.age, old |-> e.old, waited |-> 0]
  <2>1. k \in Keys /\ e # None
    BY <1>1, <1>4 DEF RedisHit, Reading, CallInTime
  <2>2. e \in Entry /\ e.left >= 1 /\ e.left \in Nat /\ e.age \in Nat
    BY <1>1, <2>1, CacheConstantsTyped DEF LevelTyped, Entry
  <2>3. e.old \in BOOLEAN
    BY <2>2 DEF Entry
  <2>4. c \in CacheCall
    BY <2>1, <2>2, <2>3 DEF CacheCall
  <2>5. e.age <= Ttl[k] - 1 + 2 * Delay
    BY <1>1, <2>1, <2>2, CacheConstantsTyped DEF RedisInTime
  <2>6. CallInTime(c)
    BY <2>1, <2>2, <2>5, CacheConstantsTyped DEF CallInTime
  <2>7. cacheCalls' = [cacheCalls EXCEPT ![w] = c] /\ slipped' \subseteq Keys
    BY <1>1, <1>4, <2>1 DEF RedisHit
  <2> HIDE DEF c
  <2> QED BY <1>1, <1>2, <2>4, <2>6, <2>7, OneCallKeepsIInv
<1>5. CASE RedisMiss(w)
  <2> DEFINE c == [cacheCalls[w] EXCEPT !.at = "compute", !.waited = 0]
  <2>1. c \in CacheCall
    BY <1>1 DEF CacheCall
  <2>2. /\ c.at = "compute" /\ c.waited = 0
        /\ c.key = cacheCalls[w].key /\ c.age = cacheCalls[w].age
    BY <1>1 DEF CacheCall
  <2>3. CallInTime(c)
    BY <1>1, <1>5, <2>2, CacheConstantsTyped DEF RedisMiss, Reading, CallInTime
  <2>4. cacheCalls' = [cacheCalls EXCEPT ![w] = c] /\ slipped' \subseteq Keys
    BY <1>1, <1>5 DEF RedisMiss, CacheStep
  <2> HIDE DEF c
  <2> QED BY <1>1, <1>2, <2>1, <2>3, <2>4, OneCallKeepsIInv
<1> QED BY <1>3, <1>4, <1>5

LEMMA FillKeepsIInv ==
  ASSUME CacheIInv, NEW w \in Workers,
         FillMemory(w) \/ SetMemory(w) \/ SetRedis(w)
  PROVE  CacheIInv'
<1> DEFINE k == cacheCalls[w].key
           e == Cached(w)
<1> USE DEF CacheIInv
<1>1. /\ LevelTyped(memory) /\ LevelTyped(redisCache) /\ slipped \subseteq Keys
      /\ cacheCalls[w] \in CacheCall /\ CallInTime(cacheCalls[w])
      /\ \A j \in Keys : MemoryInTime(j, memory[j]) /\ RedisInTime(j, redisCache[j])
  BY TypesByLevel DEF CacheTypeOK, StagesBounded
<1>2. k \in Keys /\ cacheCalls[w].age \in Nat /\ cacheCalls[w].waited \in Nat /\ slipped' = slipped
  BY <1>1 DEF FillMemory, SetMemory, SetRedis, Reading, CallInTime, CacheCall
<1>3. /\ e \in Entry /\ e.left = Ttl[k] /\ e.age = cacheCalls[w].age /\ e.left \in 1..Ttl[k]
      /\ e # None => e \in Entry /\ e.left \in 1..Ttl[k]
  BY <1>2, CachedTyped
<1> HIDE DEF e
<1>4. CASE FillMemory(w)
  <2>1. memory' = [memory EXCEPT ![k] = e] /\ redisCache' = redisCache
    BY <1>4 DEF FillMemory, LeavesRedis, e
  <2>2. LevelTyped(memory')
    BY <1>1, <1>2, <1>3, <2>1, EntryTyped
  <2>3. MemoryInTime(k, e)
    BY <1>1, <1>2, <1>3, <1>4, CacheConstantsTyped DEF FillMemory, Reading, CallInTime, MemoryInTime
  <2>4. \A j \in Keys : MemoryInTime(j, memory'[j]) /\ RedisInTime(j, redisCache'[j])
    BY <1>1, <1>2, <2>1, <2>3 DEF LevelTyped
  <2>5. cacheCalls' = [cacheCalls EXCEPT ![w] = NoRead]
    BY <1>4 DEF FillMemory, CacheReturn
  <2> QED BY <1>1, <1>2, <2>1, <2>2, <2>4, <2>5, NoReadTyped, OneCallKeepsIInv
<1>5. CASE SetMemory(w)
  <2> DEFINE c == [cacheCalls[w] EXCEPT !.at = "set", !.waited = 0]
  <2>1. memory' = [memory EXCEPT ![k] = e] /\ redisCache' = redisCache
    BY <1>5 DEF SetMemory, e
  <2>2. LevelTyped(memory')
    BY <1>1, <1>2, <1>3, <2>1, EntryTyped
  <2>3. cacheCalls[w].age <= Delay /\ MemoryInTime(k, e)
    BY <1>1, <1>2, <1>3, <1>5, CacheConstantsTyped DEF SetMemory, Reading, CallInTime, MemoryInTime
  <2>4. \A j \in Keys : MemoryInTime(j, memory'[j]) /\ RedisInTime(j, redisCache'[j])
    BY <1>1, <1>2, <2>1, <2>3 DEF LevelTyped
  <2>5. c \in CacheCall
    BY <1>1 DEF CacheCall
  <2>6. c.at = "set" /\ c.waited = 0 /\ c.key = k /\ c.age = cacheCalls[w].age
    BY <1>1 DEF CacheCall
  <2>7. CallInTime(c)
    BY <1>2, <2>3, <2>6, CacheConstantsTyped DEF CallInTime
  <2>8. cacheCalls' = [cacheCalls EXCEPT ![w] = c]
    BY <1>5 DEF SetMemory, CacheStep
  <2> HIDE DEF c
  <2> QED BY <1>1, <1>2, <2>1, <2>2, <2>4, <2>5, <2>7, <2>8, OneCallKeepsIInv
<1>6. CASE SetRedis(w)
  <2>1. redisCache' = [redisCache EXCEPT ![k] = e] /\ memory' = memory
    BY <1>6 DEF SetRedis, e
  <2>2. LevelTyped(redisCache')
    BY <1>1, <1>2, <1>3, <2>1, EntryTyped
  <2>3. RedisInTime(k, e)
    BY <1>1, <1>2, <1>3, <1>6, CacheConstantsTyped DEF SetRedis, Reading, CallInTime, RedisInTime
  <2>4. \A j \in Keys : MemoryInTime(j, memory'[j]) /\ RedisInTime(j, redisCache'[j])
    BY <1>1, <1>2, <2>1, <2>3 DEF LevelTyped
  <2>5. cacheCalls' = [cacheCalls EXCEPT ![w] = NoRead]
    BY <1>6 DEF SetRedis, CacheReturn
  <2> QED BY <1>1, <1>2, <2>1, <2>2, <2>4, <2>5, NoReadTyped, OneCallKeepsIInv
<1> QED BY <1>4, <1>5, <1>6

-----------------------------------------------------------------------------
(* Invalidation, failures and restarts take values away.                   *)

LEMMA EntryMarked ==
  ASSUME NEW e, e # None => e \in Entry
  PROVE  Aged(e) # None =>
           /\ e # None /\ Aged(e) \in Entry
           /\ Aged(e).left = e.left /\ Aged(e).age = e.age
BY DEF Aged, Entry

LEMMA InvalidateKeepsIInv ==
  ASSUME CacheIInv, NEW w \in Workers, NEW k \in Keys, InvalidateMemory(w, k)
  PROVE  CacheIInv'
<1> USE DEF CacheIInv
<1>1. /\ LevelTyped(memory) /\ LevelTyped(redisCache) /\ slipped \subseteq Keys
      /\ cacheCalls \in [Workers -> CacheCall]
      /\ \A v \in Workers : CallInTime(cacheCalls[v])
      /\ \A j \in Keys : MemoryInTime(j, memory[j]) /\ RedisInTime(j, redisCache[j])
  BY TypesByLevel DEF CacheTypeOK, StagesBounded
<1> DEFINE c == [NoRead EXCEPT !.at = "scan", !.key = k]
           e == Aged(redisCache[k])
<1>2. c \in CacheCall
  BY NoReadTyped DEF CacheCall
<1>3. c.at = "scan" /\ c.key = k /\ c.waited = 0
  <2>1. c.at = "scan" /\ c.key = k /\ c.waited = NoRead.waited
    BY NoReadTyped DEF CacheCall
  <2> QED BY <2>1 DEF NoRead
<1>4. CallInTime(c)
  BY <1>3, CacheConstantsTyped DEF CallInTime
<1>5. \A v \in Workers :
        LET d == [cacheCalls[v] EXCEPT !.old = TRUE] IN
        /\ d \in CacheCall /\ d.at = cacheCalls[v].at /\ d.key = cacheCalls[v].key
        /\ d.age = cacheCalls[v].age /\ d.waited = cacheCalls[v].waited
  BY <1>1 DEF CacheCall
<1>6. \A v \in Workers : CallInTime([cacheCalls[v] EXCEPT !.old = TRUE])
  BY <1>1, <1>5 DEF CallInTime
<1>7. \A v \in Workers : cacheCalls'[v] \in {c, cacheCalls[v], [cacheCalls[v] EXCEPT !.old = TRUE]}
  BY DEF InvalidateMemory
<1> HIDE DEF c
<1>8. \A v \in Workers : cacheCalls'[v] \in CacheCall /\ CallInTime(cacheCalls'[v])
  BY <1>1, <1>2, <1>4, <1>5, <1>6, <1>7
<1>9. cacheCalls' \in [Workers -> CacheCall]
  <2>1. cacheCalls' = [v \in Workers |-> cacheCalls'[v]]
    BY DEF InvalidateMemory
  <2> QED BY <1>8, <2>1
<1>10. LevelTyped(memory') /\ \A j \in Keys : MemoryInTime(j, memory'[j])
  BY <1>1, EntryTyped DEF InvalidateMemory, MemoryInTime, LevelTyped
<1>11. redisCache' = [redisCache EXCEPT ![k] = e]
  BY DEF InvalidateMemory
<1>12. redisCache[k] # None => redisCache[k] \in Entry /\ redisCache[k].left \in 1..Ttl[k]
  BY <1>1 DEF LevelTyped
<1>13. e # None => /\ e \in Entry /\ e.left \in 1..Ttl[k]
                   /\ redisCache[k] # None
                   /\ e.left = redisCache[k].left /\ e.age = redisCache[k].age
  BY <1>12, EntryMarked
<1> HIDE DEF e
<1>14. LevelTyped(redisCache')
  BY <1>1, <1>11, <1>13, EntryTyped
<1>15. RedisInTime(k, e)
  BY <1>1, <1>13 DEF RedisInTime
<1>16. \A j \in Keys : RedisInTime(j, redisCache'[j])
  BY <1>1, <1>11, <1>15 DEF LevelTyped
<1>17. slipped' \subseteq Keys
  BY <1>1 DEF InvalidateMemory
<1> QED BY <1>8, <1>9, <1>10, <1>14, <1>16, <1>17, PartsGiveIInv

LEMMA EndKeepsIInv ==
  ASSUME CacheIInv, NEW w \in Workers, InvalidateRedis(w) \/ CacheFail(w)
  PROVE  CacheIInv'
<1> USE DEF CacheIInv
<1>1. /\ LevelTyped(memory) /\ LevelTyped(redisCache) /\ slipped \subseteq Keys
      /\ cacheCalls[w] \in CacheCall /\ CallInTime(cacheCalls[w])
      /\ \A j \in Keys : MemoryInTime(j, memory[j]) /\ RedisInTime(j, redisCache[j])
  BY TypesByLevel DEF CacheTypeOK, StagesBounded
<1>2. cacheCalls[w].key \in Keys
  BY <1>1 DEF InvalidateRedis, CacheFail, Reading, CallInTime
<1>3. memory' = memory /\ slipped' \subseteq Keys /\ cacheCalls' = [cacheCalls EXCEPT ![w] = NoRead]
  BY <1>1, <1>2 DEF InvalidateRedis, CacheFail, CacheReturn
<1>4. LevelTyped(redisCache')
  BY <1>1, <1>2, EntryTyped DEF InvalidateRedis, CacheFail, Dropped
<1>5. \A j \in Keys : RedisInTime(j, redisCache'[j])
  BY <1>1, <1>2 DEF InvalidateRedis, CacheFail, Dropped, RedisInTime, LevelTyped
<1> QED BY <1>1, <1>3, <1>4, <1>5, NoReadTyped, OneCallKeepsIInv

LEMMA RestartKeepsIInv == CacheIInv /\ Restart => CacheIInv'
<1> SUFFICES ASSUME CacheIInv, Restart PROVE CacheIInv'
  OBVIOUS
<1>1. /\ LevelTyped(redisCache) /\ slipped \subseteq Keys
      /\ \A j \in Keys : RedisInTime(j, redisCache[j])
  BY TypesByLevel DEF CacheIInv, CacheTypeOK, StagesBounded
<1>2. LevelTyped(memory') /\ \A j \in Keys : MemoryInTime(j, memory'[j])
  BY DEF Restart, LevelTyped, MemoryInTime
<1>3. cacheCalls' \in [Workers -> CacheCall] /\ \A v \in Workers : CallInTime(cacheCalls'[v])
  BY NoReadTyped DEF Restart
<1>4. slipped' \subseteq Keys /\ redisCache' = redisCache
  BY <1>1 DEF Restart
<1> QED BY <1>1, <1>2, <1>3, <1>4, PartsGiveIInv

-----------------------------------------------------------------------------
(* Time passes.                                                            *)

LEMMA AfterInTime ==
  ASSUME NEW k \in Keys, NEW e, e # None => e \in Entry /\ e.left \in 1..Ttl[k]
  PROVE  After(e) # None =>
           /\ After(e) \in Entry /\ After(e).left \in 1..Ttl[k]
           /\ e # None /\ After(e).age + After(e).left = e.age + e.left
<1> SUFFICES ASSUME After(e) # None
             PROVE  /\ After(e) \in Entry /\ After(e).left \in 1..Ttl[k]
                    /\ e # None /\ After(e).age + After(e).left = e.age + e.left
  OBVIOUS
<1> DEFINE m == e.age + 1
           n == e.left - 1
<1>1. e # None /\ e.left # 1 /\ After(e) = [e EXCEPT !.age = m, !.left = n]
  BY DEF After
<1>2. e \in Entry /\ e.left \in 2..Ttl[k] /\ e.age \in Nat
  BY <1>1, CacheConstantsTyped DEF Entry
<1>3. m \in Nat /\ n \in Nat /\ n \in 1..Ttl[k] /\ m + n = e.age + e.left
  BY <1>2, CacheConstantsTyped
<1> HIDE DEF m, n
<1>4. After(e) \in Entry /\ After(e).age = m /\ After(e).left = n
  BY <1>1, <1>2, <1>3 DEF Entry
<1> QED BY <1>1, <1>3, <1>4

LEMMA LevelAges ==
  ASSUME NEW level, LevelTyped(level)
  PROVE  LevelTyped([k \in Keys |-> After(level[k])])
<1>1. \A k \in Keys : After(level[k]) # None =>
        After(level[k]) \in Entry /\ After(level[k]).left \in 1..Ttl[k]
  BY AfterInTime DEF LevelTyped
<1> QED BY <1>1 DEF LevelTyped

LEMMA TickKeepsIInv == CacheIInv /\ CacheTick => CacheIInv'
<1> SUFFICES ASSUME CacheIInv, CacheTick PROVE CacheIInv'
  OBVIOUS
<1> USE DEF CacheIInv
<1>1. /\ LevelTyped(memory) /\ LevelTyped(redisCache) /\ slipped \subseteq Keys
      /\ cacheCalls \in [Workers -> CacheCall]
      /\ \A v \in Workers : CallInTime(cacheCalls[v])
      /\ \A j \in Keys : MemoryInTime(j, memory[j]) /\ RedisInTime(j, redisCache[j])
  BY TypesByLevel DEF CacheTypeOK, StagesBounded
<1>2. LevelTyped(memory') /\ LevelTyped(redisCache')
  BY <1>1, LevelAges DEF CacheTick
<1>3. \A j \in Keys : MemoryInTime(j, memory'[j]) /\ RedisInTime(j, redisCache'[j])
  BY <1>1, AfterInTime DEF CacheTick, LevelTyped, MemoryInTime, RedisInTime
<1>4. slipped' = slipped
  BY DEF CacheTick
<1>5. ASSUME NEW v \in Workers
      PROVE  cacheCalls'[v] \in CacheCall /\ CallInTime(cacheCalls'[v])
  <2> DEFINE c == cacheCalls[v]
             holds == v \in Holding(c.key)
             m == c.waited + 1
             n == IF holds THEN c.age + 1 ELSE c.age
             aged == [c EXCEPT !.waited = m, !.age = n]
  <2>1. CASE Reading(v, "idle")
    BY <2>1, NoReadTyped DEF CacheTick
  <2>2. CASE ~Reading(v, "idle")
    <3>1. cacheCalls'[v] = aged /\ c.waited < Delay
      BY <2>2 DEF CacheTick
    <3>2. c \in CacheCall /\ c.waited \in Nat /\ c.age \in Nat /\ c.key \in Keys
      BY <1>1, <2>2 DEF CacheCall, CallInTime, Reading
    <3>3. holds <=> c.at \in {"reply", "compute", "set"}
      BY DEF Holding
    <3>4. m \in Nat /\ n \in Nat
      BY <3>2
    <3> HIDE DEF m, n
    <3>5. /\ aged \in CacheCall /\ aged.at = c.at /\ aged.key = c.key
          /\ aged.waited = m /\ aged.age = n
      BY <3>2, <3>4 DEF CacheCall
    <3>6. CallInTime(c) /\ Ttl[c.key] \in Nat /\ Delay \in Nat
      BY <1>1, <3>2, CacheConstantsTyped
    <3> HIDE DEF aged, c, holds
    <3>7. CallInTime(aged)
      BY <3>1, <3>2, <3>3, <3>5, <3>6 DEF CallInTime, m, n
    <3> QED BY <3>1, <3>5, <3>7
  <2> QED BY <2>1, <2>2
<1>6. cacheCalls' \in [Workers -> CacheCall]
  <2>1. cacheCalls' = [v \in Workers |-> cacheCalls'[v]]
    BY DEF CacheTick
  <2> QED BY <1>5, <2>1
<1> QED BY <1>1, <1>2, <1>3, <1>4, <1>5, <1>6, PartsGiveIInv

-----------------------------------------------------------------------------

LEMMA CacheStepKeepsIInv == CacheIInv /\ [CacheNext]_cacheVars => CacheIInv'
<1> SUFFICES ASSUME CacheIInv, [CacheNext]_cacheVars PROVE CacheIInv'
  OBVIOUS
<1>1. CASE UNCHANGED cacheVars
  BY <1>1 DEF cacheVars, CacheIInv, CacheTypeOK, StagesBounded, CallInTime, MemoryInTime, RedisInTime
<1>2. CASE CacheNext
  BY <1>2, HitKeepsIInv, FillKeepsIInv, InvalidateKeepsIInv, EndKeepsIInv, RestartKeepsIInv,
     TickKeepsIInv DEF CacheNext
<1> QED BY <1>1, <1>2

(* The invariant the others follow from: the age of an entry and what is   *)
(* left of its life are bounded where it is (cache.service.ts).            *)
THEOREM CacheInvariant == CacheSpec => []CacheIInv
<1> QED BY CacheInitIInv, CacheStepKeepsIInv, PTL DEF CacheSpec

(* Both levels hold only typed, unexpired entries.                         *)
THEOREM CacheTypeCorrect == CacheSpec => []CacheTypeOK
<1>1. CacheIInv => CacheTypeOK
  BY DEF CacheIInv
<1> QED BY <1>1, CacheInvariant, PTL

LEMMA StagesGiveAge == CacheIInv => AgeBounded
<1> SUFFICES ASSUME CacheIInv, NEW k \in Keys
             PROVE  /\ memory[k] # None => memory[k].age <= Oldest(k)
                    /\ \A w \in Holding(k) : cacheCalls[w].age <= Oldest(k)
  BY DEF AgeBounded
<1>1. Ttl[k] \in Nat /\ Ttl[k] >= 1 /\ Delay \in Nat
  BY CacheConstantsTyped
<1>2. memory[k] # None => memory[k].age <= Oldest(k)
  <2> SUFFICES ASSUME memory[k] # None PROVE memory[k].age <= Oldest(k)
    OBVIOUS
  <2>1. memory[k] \in Entry /\ memory[k].left \in 1..Ttl[k]
    BY TypesByLevel DEF CacheIInv, LevelTyped
  <2>2. memory[k].age \in Nat
    BY <2>1 DEF Entry
  <2>3. memory[k].age + memory[k].left <= 2 * Ttl[k] - 1 + 3 * Delay
    BY DEF CacheIInv, StagesBounded, MemoryInTime
  <2> QED BY <1>1, <2>1, <2>2, <2>3 DEF Oldest
<1>3. ASSUME NEW w \in Holding(k) PROVE cacheCalls[w].age <= Oldest(k)
  <2>1. w \in Workers /\ cacheCalls[w].key = k /\ cacheCalls[w].at \in {"reply", "compute", "set"}
    BY <1>3 DEF Holding
  <2>2. cacheCalls[w].age \in Nat /\ cacheCalls[w].waited \in Nat
    BY <2>1 DEF CacheIInv, CacheTypeOK, CacheCall
  <2>3. CallInTime(cacheCalls[w])
    BY <2>1 DEF CacheIInv, StagesBounded
  <2> QED BY <1>1, <2>1, <2>2, <2>3 DEF CallInTime, Oldest
<1> QED BY <1>2, <1>3

(* No report is served past the two lifetimes it can get, whatever reads,  *)
(* invalidations, failures and restarts come in between (getOrSet).        *)
THEOREM ServedInTime == CacheSpec => []AgeBounded
<1> QED BY CacheInvariant, StagesGiveAge, PTL
-----------------------------------------------------------------------------
(* InvalidatedIsGone: what is left of a key once it was invalidated.       *)

LEMMA FreshInit == CacheInit => FreshIInv
BY CacheInitIInv
   DEF CacheInit, FreshIInv, HeldIsFresh, AskersHoldNothing, Holding, Reading, NoRead

(* A step of one call that may change the entries of its key in either     *)
(* level, and nothing of another key's.                                    *)
LEMMA OneKeyStaysFresh ==
  ASSUME FreshIInv, NEW w \in Workers, NEW c \in CacheCall, NEW k \in Keys,
         cacheCalls[w].key \in {None, k}, c.key \in {None, k},
         cacheCalls' = [cacheCalls EXCEPT ![w] = c],
         c.at = "get" => c.old = FALSE,
         \A j \in Keys \ {k} : memory'[j] = memory[j] /\ redisCache'[j] = redisCache[j],
         \A j \in Keys \ {k} : j \in slipped => j \in slipped',
         k \notin slipped' => HeldIsFresh(k)'
  PROVE  AskersHoldNothing' /\ \A j \in Keys \ slipped' : HeldIsFresh(j)'
<1>1. cacheCalls \in [Workers -> CacheCall]
  BY DEF FreshIInv, CacheIInv, CacheTypeOK
<1>2. AskersHoldNothing'
  BY <1>1 DEF FreshIInv, AskersHoldNothing, Reading
<1>3. ASSUME NEW j \in Keys \ {k}, j \notin slipped' PROVE HeldIsFresh(j)'
  <2>1. HeldIsFresh(j) /\ j # None
    BY <1>3, CacheConstantsTyped DEF FreshIInv
  <2>2. Holding(j)' \subseteq Holding(j) /\ w \notin Holding(j)'
    BY <1>1, <2>1 DEF Holding
  <2>3. Invalidating(j)' <=> Invalidating(j)
    BY <1>1, <2>1 DEF Invalidating, Reading
  <2>4. \A v \in Holding(j)' : cacheCalls'[v] = cacheCalls[v]
    BY <1>1, <2>2 DEF Holding
  <2> QED BY <2>1, <2>2, <2>3, <2>4 DEF HeldIsFresh
<1> QED BY <1>2, <1>3

LEMMA CallFacts ==
  ASSUME FreshIInv, NEW w \in Workers
  PROVE  /\ cacheCalls[w] \in CacheCall /\ NoRead \in CacheCall
         /\ cacheCalls \in [Workers -> CacheCall]
         /\ memory \in [Keys -> Entry \cup {None}]
         /\ redisCache \in [Keys -> Entry \cup {None}]
         /\ ~Reading(w, "idle") => cacheCalls[w].key \in Keys
BY NoReadTyped
   DEF FreshIInv, CacheIInv, CacheTypeOK, StagesBounded, CallInTime, Reading

LEMMA ReadKeepsFresh ==
  ASSUME FreshIInv, NEW w \in Workers,
         \/ \E k \in Keys : GetOrSet(w, k)
         \/ RedisHit(w) \/ RedisMiss(w)
  PROVE  AskersHoldNothing' /\ \A j \in Keys \ slipped' : HeldIsFresh(j)'
<1> USE CallFacts
<1>1. CASE \E k \in Keys : GetOrSet(w, k)
  <2>1. PICK k \in Keys : GetOrSet(w, k)
    BY <1>1
  <2> DEFINE c == [NoRead EXCEPT !.at = "get", !.key = k]
  <2>2. cacheCalls' = [cacheCalls EXCEPT ![w] = c] /\ c.at = "get" /\ c.old = FALSE
    <3>1. c.at = "get" /\ c.old = NoRead.old
      BY DEF CacheCall
    <3>2. NoRead.old = FALSE
      BY DEF NoRead
    <3> QED BY <2>1, <3>1, <3>2 DEF GetOrSet
  <2> HIDE DEF c
  <2>3. cacheCalls[w].at = "idle" /\ UNCHANGED <<memory, redisCache, slipped>>
    BY <2>1 DEF GetOrSet, Reading
  <2>4. ASSUME NEW j \in Keys, j \notin slipped' PROVE HeldIsFresh(j)'
    <3>1. HeldIsFresh(j)
      BY <2>3, <2>4 DEF FreshIInv
    <3>2. Holding(j)' \subseteq Holding(j) /\ w \notin Holding(j)'
      BY <2>2 DEF Holding
    <3>3. Invalidating(j)' <=> Invalidating(j)
      BY <2>2, <2>3 DEF Invalidating, Reading
    <3>4. \A v \in Holding(j)' : cacheCalls'[v] = cacheCalls[v]
      BY <2>2, <3>2 DEF Holding
    <3> QED BY <2>3, <3>1, <3>2, <3>3, <3>4 DEF HeldIsFresh
  <2>5. AskersHoldNothing'
    BY <2>2 DEF FreshIInv, AskersHoldNothing, Reading
  <2> QED BY <2>4, <2>5
<1>2. CASE RedisHit(w)
  <2>0. PICK k \in Keys : k = cacheCalls[w].key
    BY <1>2 DEF RedisHit, Reading
  <2> DEFINE e == redisCache[k]
             c == [at |-> "reply", key |-> k, age |-> e.age, old |-> e.old, waited |-> 0]
  <2>1. e # None /\ Reading(w, "get")
    BY <1>2, <2>0 DEF RedisHit, Reading
  <2>2. e \in Entry
    BY <2>1
  <2>3. c \in CacheCall
    BY <2>1, <2>2 DEF CacheCall, Entry
  <2>4. cacheCalls' = [cacheCalls EXCEPT ![w] = c] /\ UNCHANGED <<memory, redisCache>>
    BY <1>2, <2>0 DEF RedisHit
  <2>5. /\ k \notin slipped' => ~Invalidating(k) /\ k \notin slipped
        /\ \A j \in Keys \ {k} : j \in slipped => j \in slipped'
    BY <1>2, <2>0 DEF RedisHit
  <2>6. ASSUME k \notin slipped' PROVE HeldIsFresh(k)'
    <3>1. HeldIsFresh(k) /\ ~Invalidating(k)
      BY <2>1, <2>5, <2>6 DEF FreshIInv
    <3>2. c.old = FALSE
      BY <2>1, <3>1 DEF HeldIsFresh
    <3>3. Holding(k)' \subseteq Holding(k) \cup {w}
      BY <2>4 DEF Holding
    <3>4. \A v \in Holding(k)' : cacheCalls'[v].old = FALSE
      <4>1. cacheCalls'[w].old = FALSE
        BY <2>4, <3>2
      <4>2. \A v \in Workers \ {w} : cacheCalls'[v] = cacheCalls[v]
        BY <2>4
      <4> QED BY <3>1, <3>3, <4>1, <4>2 DEF HeldIsFresh, Holding
    <3> QED BY <2>4, <3>1, <3>4 DEF HeldIsFresh
  <2>7. c.key = k /\ c.at = "reply"
    OBVIOUS
  <2> HIDE DEF c, e
  <2> QED BY <2>0, <2>3, <2>4, <2>5, <2>6, <2>7, OneKeyStaysFresh
<1>3. CASE RedisMiss(w)
  <2>0. PICK k \in Keys : k = cacheCalls[w].key
    BY <1>3 DEF RedisMiss, Reading
  <2> DEFINE c == [cacheCalls[w] EXCEPT !.at = "compute", !.waited = 0]
  <2>1. Reading(w, "get") /\ c.old = FALSE
    BY <1>3 DEF RedisMiss, Reading, FreshIInv, AskersHoldNothing, CacheCall
  <2>2. c \in CacheCall /\ c.key = k /\ c.at = "compute"
    BY <2>0 DEF CacheCall
  <2>3. cacheCalls' = [cacheCalls EXCEPT ![w] = c]
    BY <1>3 DEF RedisMiss, CacheStep
  <2>4. UNCHANGED <<memory, redisCache, slipped>>
    BY <1>3 DEF RedisMiss
  <2> HIDE DEF c
  <2>5. ASSUME k \notin slipped' PROVE HeldIsFresh(k)'
    <3>1. HeldIsFresh(k)
      BY <2>1, <2>4, <2>5 DEF FreshIInv
    <3>2. \A v \in Holding(k)' : cacheCalls'[v].old = FALSE
      <4>1. cacheCalls'[w].old = FALSE
        BY <2>1, <2>3
      <4>2. \A v \in Workers \ {w} : cacheCalls'[v] = cacheCalls[v]
        BY <2>3
      <4>3. Holding(k)' \subseteq Holding(k) \cup {w}
        BY <2>3 DEF Holding
      <4> QED BY <3>1, <4>1, <4>2, <4>3 DEF HeldIsFresh, Holding
    <3>3. Invalidating(k)' <=> Invalidating(k)
      BY <2>0, <2>1, <2>2, <2>3 DEF Invalidating, Reading
    <3> QED BY <2>4, <3>1, <3>2, <3>3 DEF HeldIsFresh
  <2> QED BY <2>0, <2>2, <2>3, <2>4, <2>5, OneKeyStaysFresh
<1> QED BY <1>1, <1>2, <1>3

(* What a key's freshness takes when one call becomes c.                   *)
LEMMA KeyStaysFresh ==
  ASSUME FreshIInv, NEW w \in Workers, NEW c \in CacheCall, NEW k \in Keys, HeldIsFresh(k),
         cacheCalls' = [cacheCalls EXCEPT ![w] = c],
         c.at = "idle" \/ c.old = FALSE,
         memory'[k] # None => memory'[k].old = FALSE,
         ~Invalidating(k)' /\ redisCache'[k] # None => redisCache'[k].old = FALSE
  PROVE  HeldIsFresh(k)'
<1>1. cacheCalls \in [Workers -> CacheCall]
  BY CallFacts
<1>2. \A v \in Workers \ {w} : cacheCalls'[v] = cacheCalls[v]
  BY <1>1
<1>3. cacheCalls'[w] = c
  BY <1>1
<1>4. Holding(k)' \subseteq Holding(k) \cup {w}
  BY <1>1, <1>2 DEF Holding
<1>5. w \in Holding(k)' => c.old = FALSE
  BY <1>3 DEF Holding
<1>6. \A v \in Holding(k)' : cacheCalls'[v].old = FALSE
  BY <1>2, <1>3, <1>4, <1>5 DEF HeldIsFresh, Holding
<1> QED BY <1>6 DEF HeldIsFresh

LEMMA NoReadHoldsNothing == NoRead.at = "idle" /\ NoRead.key = None
BY DEF NoRead

LEMMA FillKeepsFresh ==
  ASSUME FreshIInv, NEW w \in Workers,
         FillMemory(w) \/ SetMemory(w) \/ SetRedis(w)
  PROVE  AskersHoldNothing' /\ \A j \in Keys \ slipped' : HeldIsFresh(j)'
<1> USE CallFacts
<1>1. PICK k \in Keys : k = cacheCalls[w].key
  BY DEF FillMemory, SetMemory, SetRedis, Reading
<1> DEFINE e == Cached(w)
<1>2. e.old = cacheCalls[w].old
  BY DEF Cached
<1>3. w \in Holding(k) /\ cacheCalls[w].at # "scan" /\ slipped' = slipped
  BY <1>1 DEF FillMemory, SetMemory, SetRedis, Reading, Holding
<1>4. k \notin slipped => HeldIsFresh(k) /\ e.old = FALSE
  BY <1>1, <1>2, <1>3 DEF FreshIInv, HeldIsFresh
<1> HIDE DEF e
<1>5. /\ memory' = [memory EXCEPT ![k] = e] \/ memory' = memory
      /\ redisCache' = [redisCache EXCEPT ![k] = e] \/ redisCache' = redisCache
  BY <1>1 DEF FillMemory, LeavesRedis, SetMemory, SetRedis, e
<1>6. PICK c \in CacheCall :
        /\ cacheCalls' = [cacheCalls EXCEPT ![w] = c]
        /\ c.at # "get" /\ c.at # "scan" /\ c.key \in {None, k}
        /\ c.at = "idle" \/ c.old = cacheCalls[w].old
  <2>1. CASE FillMemory(w) \/ SetRedis(w)
    <3>1. cacheCalls' = [cacheCalls EXCEPT ![w] = NoRead]
      BY <2>1 DEF FillMemory, SetRedis, CacheReturn
    <3> QED BY <3>1, NoReadHoldsNothing
  <2>2. CASE SetMemory(w)
    <3> DEFINE c == [cacheCalls[w] EXCEPT !.at = "set", !.waited = 0]
    <3>1. c \in CacheCall /\ c.at = "set" /\ c.key = k /\ c.old = cacheCalls[w].old
      BY <1>1 DEF CacheCall
    <3>2. cacheCalls' = [cacheCalls EXCEPT ![w] = c]
      BY <2>2 DEF SetMemory, CacheStep
    <3> HIDE DEF c
    <3> QED BY <3>1, <3>2
  <2> QED BY <2>1, <2>2
<1>7. Invalidating(k)' <=> Invalidating(k)
  BY <1>3, <1>6 DEF Invalidating, Reading
<1>8. ASSUME k \notin slipped' PROVE HeldIsFresh(k)'
  <2>1. HeldIsFresh(k) /\ e.old = FALSE /\ cacheCalls[w].old = FALSE
    BY <1>2, <1>3, <1>4, <1>8 DEF e
  <2>2. memory'[k] # None => memory'[k].old = FALSE
    BY <1>5, <2>1 DEF HeldIsFresh
  <2>3. ~Invalidating(k)' /\ redisCache'[k] # None => redisCache'[k].old = FALSE
    BY <1>5, <1>7, <2>1 DEF HeldIsFresh
  <2> QED BY <1>6, <2>1, <2>2, <2>3, KeyStaysFresh
<1>9. \A j \in Keys \ {k} : memory'[j] = memory[j] /\ redisCache'[j] = redisCache[j]
  BY <1>5
<1> QED BY <1>1, <1>3, <1>6, <1>8, <1>9, OneKeyStaysFresh

LEMMA EndKeepsFresh ==
  ASSUME FreshIInv, NEW w \in Workers, InvalidateRedis(w) \/ CacheFail(w)
  PROVE  AskersHoldNothing' /\ \A j \in Keys \ slipped' : HeldIsFresh(j)'
<1> USE CallFacts
<1>1. PICK k \in Keys : k = cacheCalls[w].key
  BY DEF InvalidateRedis, CacheFail, Reading
<1>2. /\ cacheCalls' = [cacheCalls EXCEPT ![w] = NoRead] /\ memory' = memory
      /\ redisCache' = redisCache \/ redisCache' = [redisCache EXCEPT ![k] = None]
  BY <1>1 DEF InvalidateRedis, CacheFail, CacheReturn, Dropped
<1>3. slipped \subseteq slipped'
  BY DEF InvalidateRedis, CacheFail
<1>4. ASSUME k \notin slipped' PROVE HeldIsFresh(k)'
  <2>1. HeldIsFresh(k)
    BY <1>3, <1>4 DEF FreshIInv
  <2>2. CASE InvalidateRedis(w)
    <3>1. redisCache'[k] = None
      BY <1>1, <2>2 DEF InvalidateRedis, Dropped
    <3>2. memory'[k] # None => memory'[k].old = FALSE
      BY <1>2, <2>1 DEF HeldIsFresh
    <3> QED BY <1>2, <2>1, <3>1, <3>2, NoReadHoldsNothing, KeyStaysFresh
  <2>3. CASE CacheFail(w)
    <3>1. cacheCalls[w].at # "scan" /\ redisCache' = redisCache
      BY <1>1, <1>4, <2>3 DEF CacheFail, Reading
    <3>2. Invalidating(k) => Invalidating(k)'
      BY <1>2, <3>1 DEF Invalidating, Reading
    <3>3. /\ memory'[k] # None => memory'[k].old = FALSE
          /\ ~Invalidating(k)' /\ redisCache'[k] # None => redisCache'[k].old = FALSE
      BY <1>2, <2>1, <3>1, <3>2 DEF HeldIsFresh
    <3> QED BY <1>2, <2>1, <3>3, NoReadHoldsNothing, KeyStaysFresh
  <2> QED BY <2>2, <2>3
<1>5. \A j \in Keys \ {k} : memory'[j] = memory[j] /\ redisCache'[j] = redisCache[j]
  BY <1>2
<1> QED BY <1>1, <1>2, <1>3, <1>4, <1>5, NoReadHoldsNothing, OneKeyStaysFresh

-----------------------------------------------------------------------------
(* An invalidation starts; the process restarts; time passes.              *)

LEMMA InvalidateKeepsFresh ==
  ASSUME FreshIInv, NEW w \in Workers, NEW k \in Keys, InvalidateMemory(w, k)
  PROVE  AskersHoldNothing' /\ \A j \in Keys \ slipped' : HeldIsFresh(j)'
<1> USE CallFacts
<1> DEFINE c == [NoRead EXCEPT !.at = "scan", !.key = k]
<1>1. c.at = "scan" /\ c.key = k
  BY DEF CacheCall
<1> HIDE DEF c
<1>2. /\ cacheCalls'[w] = c
      /\ \A v \in Workers \ {w} :
           /\ cacheCalls'[v].at = cacheCalls[v].at /\ cacheCalls'[v].key = cacheCalls[v].key
           /\ v \notin Holding(k) => cacheCalls'[v] = cacheCalls[v]
  BY DEF InvalidateMemory, CacheCall, c
<1>3. cacheCalls[w].at = "idle"
  BY DEF InvalidateMemory, Reading
<1>4. AskersHoldNothing'
  BY <1>1, <1>2 DEF FreshIInv, AskersHoldNothing, Reading, Holding
<1>5. \A j \in Keys : Holding(j)' = Holding(j)
  BY <1>1, <1>2, <1>3 DEF Holding
<1>6. Invalidating(k)'
  BY <1>1, <1>2 DEF Invalidating, Reading
<1>7. k \notin slipped' => HeldIsFresh(k)'
  BY <1>5, <1>6 DEF InvalidateMemory, HeldIsFresh
<1>8. ASSUME NEW j \in Keys \ {k}, j \notin slipped' PROVE HeldIsFresh(j)'
  <2>1. /\ HeldIsFresh(j) /\ memory'[j] = memory[j] /\ redisCache'[j] = redisCache[j]
    BY <1>8 DEF FreshIInv, InvalidateMemory
  <2>2. Invalidating(j)' <=> Invalidating(j)
    BY <1>1, <1>2, <1>3, <1>8 DEF Invalidating, Reading
  <2>3. \A v \in Holding(j)' : cacheCalls'[v] = cacheCalls[v]
    BY <1>2, <1>3, <1>5, <1>8 DEF Holding
  <2> QED BY <1>5, <2>1, <2>2, <2>3 DEF HeldIsFresh
<1> QED BY <1>4, <1>7, <1>8

LEMMA RestartKeepsFresh ==
  FreshIInv /\ Restart => AskersHoldNothing' /\ \A j \in Keys \ slipped' : HeldIsFresh(j)'
<1> SUFFICES ASSUME FreshIInv, Restart
             PROVE  AskersHoldNothing' /\ \A j \in Keys \ slipped' : HeldIsFresh(j)'
  OBVIOUS
<1>1. \A v \in Workers : cacheCalls'[v].at = "idle"
  BY NoReadHoldsNothing DEF Restart
<1>2. AskersHoldNothing'
  BY <1>1 DEF AskersHoldNothing, Reading
<1>3. ASSUME NEW j \in Keys, j \notin slipped' PROVE HeldIsFresh(j)'
  <2>1. HeldIsFresh(j) /\ ~Invalidating(j)
    BY <1>3 DEF FreshIInv, Restart
  <2>2. memory'[j] = None /\ redisCache' = redisCache
    BY DEF Restart
  <2>3. Holding(j)' = {}
    BY <1>1 DEF Holding
  <2> QED BY <2>1, <2>2, <2>3 DEF HeldIsFresh
<1> QED BY <1>2, <1>3

LEMMA AfterKeepsOld ==
  ASSUME NEW e, e \in Entry \cup {None}, After(e) # None
  PROVE  e # None /\ After(e).old = e.old
BY DEF After, Entry

LEMMA TickKeepsFresh ==
  FreshIInv /\ CacheTick => AskersHoldNothing' /\ \A j \in Keys \ slipped' : HeldIsFresh(j)'
<1> SUFFICES ASSUME FreshIInv, CacheTick
             PROVE  AskersHoldNothing' /\ \A j \in Keys \ slipped' : HeldIsFresh(j)'
  OBVIOUS
<1>1. \A v \in Workers :
        IF cacheCalls[v].at = "idle" THEN cacheCalls'[v].at = "idle"
        ELSE /\ cacheCalls'[v].at = cacheCalls[v].at /\ cacheCalls'[v].key = cacheCalls[v].key
             /\ cacheCalls'[v].old = cacheCalls[v].old
  BY CallFacts, NoReadHoldsNothing DEF CacheTick, Reading, CacheCall
<1>2. AskersHoldNothing'
  BY <1>1 DEF FreshIInv, AskersHoldNothing, Reading
<1>3. ASSUME NEW j \in Keys, j \notin slipped' PROVE HeldIsFresh(j)'
  <2>1. HeldIsFresh(j) /\ memory[j] \in Entry \cup {None} /\ redisCache[j] \in Entry \cup {None}
    BY <1>3 DEF FreshIInv, CacheIInv, CacheTypeOK, CacheTick
  <2>2. memory'[j] = After(memory[j]) /\ redisCache'[j] = After(redisCache[j])
    BY DEF CacheTick
  <2>3. Invalidating(j)' <=> Invalidating(j)
    BY <1>1 DEF Invalidating, Reading
  <2>4. \A v \in Holding(j)' : v \in Holding(j) /\ cacheCalls'[v].old = cacheCalls[v].old
    BY <1>1 DEF Holding
  <2> QED BY <2>1, <2>2, <2>3, <2>4, AfterKeepsOld DEF HeldIsFresh
<1> QED BY <1>2, <1>3

-----------------------------------------------------------------------------

LEMMA StepKeepsFresh == FreshIInv /\ [CacheNext]_cacheVars => FreshIInv'
<1> SUFFICES ASSUME FreshIInv, [CacheNext]_cacheVars PROVE FreshIInv'
  OBVIOUS
<1>1. CacheIInv'
  BY CacheStepKeepsIInv DEF FreshIInv
<1>2. AskersHoldNothing' /\ \A j \in Keys \ slipped' : HeldIsFresh(j)'
  <2>1. CASE UNCHANGED cacheVars
    BY <2>1 DEF cacheVars, FreshIInv, HeldIsFresh, AskersHoldNothing, Holding, Invalidating, Reading
  <2>2. CASE CacheNext
    BY <2>2, ReadKeepsFresh, FillKeepsFresh, EndKeepsFresh, InvalidateKeepsFresh,
       RestartKeepsFresh, TickKeepsFresh DEF CacheNext
  <2> QED BY <2>1, <2>2
<1> QED BY <1>1, <1>2 DEF FreshIInv

(* Once a key was invalidated, neither level keeps or gets back a value    *)
(* read before it, unless a call slipped past the invalidation             *)
(* (invalidate, cache.service.ts:76-99).                                   *)
THEOREM InvalidatedStaysGone == CacheSpec => []InvalidatedIsGone
<1>1. FreshIInv => InvalidatedIsGone
  BY DEF FreshIInv, HeldIsFresh, InvalidatedIsGone
<1> QED BY <1>1, FreshInit, StepKeepsFresh, PTL DEF CacheSpec

-----------------------------------------------------------------------------
(* LoginLimit: what is added was counted below the limit, and only other   *)
(* attempts that were counted before can still be added.                   *)

LEMMA LoginConstantsTyped ==
  \A l \in Limiters : Window[l] \in Nat /\ Limit[l] \in Nat /\ Limit[l] >= 1
BY LimitAssumption

LEMMA AttemptTyped ==
  ASSUME LoginTypeOK, NEW w \in Workers
  PROVE  loginCalls[w] \in LoginCall /\ LimiterOf(w) \in Limiters
BY DEF LoginTypeOK, LoginCall, LimiterOf

LEMMA MarksTyped ==
  ASSUME LoginTypeOK, NEW l \in Limiters
  PROVE  /\ IsFiniteSet(marks[l]) /\ Cardinality(marks[l]) \in Nat
         /\ IsFiniteSet(Adding(l)) /\ Cardinality(Adding(l)) \in Nat
         /\ Cardinality(Adding(l)) <= Cardinality(Workers)
<1>1. marks[l] \in SUBSET Nat /\ \A a \in marks[l] : a <= Window[l]
  BY DEF LoginTypeOK
<1>2. IsFiniteSet(marks[l])
  BY <1>1, LoginConstantsTyped, FS_BoundedSetOfNaturals
<1>3. Adding(l) \subseteq Workers
  BY DEF Adding
<1> QED BY <1>2, <1>3, WorkersAssumption, FS_Subset, FS_CardinalityType

(* Time passes over a set of ages: no mark is added.                       *)
LEMMA OlderTyped ==
  ASSUME LoginTypeOK, NEW l \in Limiters
  PROVE  /\ Older(l) \in SUBSET Nat /\ \A a \in Older(l) : a <= Window[l]
         /\ IsFiniteSet(Older(l)) /\ Cardinality(Older(l)) <= Cardinality(marks[l])
<1> DEFINE young == {b \in marks[l] : b < Window[l]}
           age == [a \in young |-> a + 1]
<1>1. marks[l] \in SUBSET Nat /\ Window[l] \in Nat
  BY LoginConstantsTyped DEF LoginTypeOK
<1>2. Older(l) \in SUBSET Nat /\ \A a \in Older(l) : a <= Window[l]
  BY <1>1 DEF Older
<1>3. age \in Surjection(young, Older(l))
  BY DEF Surjection, Older
<1>4. young \subseteq marks[l] /\ IsFiniteSet(marks[l])
  BY MarksTyped
<1> HIDE DEF young, age
<1>5. IsFiniteSet(young) /\ Cardinality(young) <= Cardinality(marks[l])
  BY <1>4, FS_Subset
<1>6. IsFiniteSet(Older(l)) /\ Cardinality(Older(l)) <= Cardinality(young)
  BY <1>3, <1>5, FS_Surjection
<1>7. Cardinality(young) \in Nat /\ Cardinality(Older(l)) \in Nat /\ Cardinality(marks[l]) \in Nat
  BY <1>4, <1>5, <1>6, FS_CardinalityType
<1> QED BY <1>2, <1>5, <1>6, <1>7

LEMMA LoginInitTyped == LoginInit => LoginTypeOK
BY DEF LoginInit, LoginTypeOK, LoginCall, NoAttempt, Limiters

LEMMA LoginNextTyped == LoginTypeOK /\ [LoginNext]_loginVars => LoginTypeOK'
<1> SUFFICES ASSUME LoginTypeOK, [LoginNext]_loginVars PROVE LoginTypeOK'
  OBVIOUS
<1> USE LoginConstantsTyped
<1>1. ASSUME NEW w \in Workers, Attempt(w) \/ CountAndRefuse(w) \/ Answer(w) PROVE LoginTypeOK'
  BY <1>1 DEF LoginTypeOK, LoginCall, Attempt, CountAndRefuse, Answer, LoginStep, NotKept,
              NoAttempt, Limiters
<1>2. ASSUME NEW w \in Workers, CountAndPass(w) PROVE LoginTypeOK'
  <2>1. loginCalls[w] \in LoginCall /\ Window[LimiterOf(w)] \in Nat
    BY AttemptTyped
  <2>2. [loginCalls[w] EXCEPT !.at = "add", !.start = Window[LimiterOf(w)]] \in LoginCall
    BY <2>1 DEF LoginCall
  <2> QED BY <1>2, <2>2 DEF LoginTypeOK, CountAndPass, LoginStep
<1>3. ASSUME NEW w \in Workers, Add(w) PROVE LoginTypeOK'
  <2>1. loginCalls[w] \in LoginCall /\ LimiterOf(w) \in Limiters
    BY AttemptTyped
  <2>2. [loginCalls[w] EXCEPT !.at = "trim"] \in LoginCall
    BY <2>1 DEF LoginCall
  <2>3. marks' = [marks EXCEPT ![LimiterOf(w)] = @ \cup {0}]
        /\ loginCalls' = [loginCalls EXCEPT ![w] = [loginCalls[w] EXCEPT !.at = "trim"]]
    BY <1>3 DEF Add, LoginStep
  <2> QED BY <2>1, <2>2, <2>3 DEF LoginTypeOK
<1>4. ASSUME NEW w \in Workers, Trim(w) PROVE LoginTypeOK'
  <2> DEFINE call == IF LimiterOf(w) = "bruteForce"
                     THEN [NoAttempt EXCEPT !.at = "count", !.limiter = "login"]
                     ELSE [loginCalls[w] EXCEPT !.at = "authenticate"]
  <2>1. loginCalls[w] \in LoginCall /\ LimiterOf(w) \in Limiters
    BY AttemptTyped
  <2>2. call \in LoginCall
    BY <2>1 DEF LoginCall, NoAttempt, Limiters
  <2>3. marks' = [marks EXCEPT ![LimiterOf(w)] = {a \in @ : a < loginCalls[w].start}]
        /\ loginCalls' = [loginCalls EXCEPT ![w] = call]
    BY <1>4 DEF Trim, LoginStep
  <2> HIDE DEF call
  <2> QED BY <2>1, <2>2, <2>3 DEF LoginTypeOK
<1>5. CASE Tick
  <2>1. \A l \in Limiters : Older(l) \in SUBSET Nat /\ \A a \in Older(l) : a <= Window[l]
    BY OlderTyped
  <2>2. \A w \in Workers : loginCalls[w] \in LoginCall
                           /\ [loginCalls[w] EXCEPT !.start = @ + 1] \in LoginCall
    BY DEF LoginTypeOK, LoginCall
  <2> QED BY <1>5, <2>1, <2>2 DEF LoginTypeOK, Tick
<1>6. CASE UNCHANGED loginVars
  BY <1>6 DEF LoginTypeOK, loginVars
<1> QED BY <1>1, <1>2, <1>3, <1>4, <1>5, <1>6 DEF LoginNext, LoginWork

LEMMA LoginInitBounded == LoginInit => OvershootBounded
<1> SUFFICES ASSUME LoginInit, NEW l \in Limiters
             PROVE  Cardinality(marks[l]) + Cardinality(Adding(l))
                      < Limit[l] + Cardinality(Workers)
  BY DEF OvershootBounded
<1>1. marks[l] = {} /\ Adding(l) = {}
  BY DEF LoginInit, NoAttempt, Adding, Attempting
<1>2. Cardinality(Workers) \in Nat
  BY WorkersAssumption, FS_CardinalityType
<1> QED BY <1>1, <1>2, LoginConstantsTyped, FS_EmptySet

(* Fewer marks, and nobody added.                                          *)
LEMMA FewerStaysBounded ==
  ASSUME LoginTypeOK, OvershootBounded,
         \A l \in Limiters :
           /\ IsFiniteSet(marks'[l]) /\ Cardinality(marks'[l]) <= Cardinality(marks[l])
           /\ Adding(l)' \subseteq Adding(l)
  PROVE  OvershootBounded'
<1> SUFFICES ASSUME NEW l \in Limiters
             PROVE  Cardinality(marks'[l]) + Cardinality(Adding(l)')
                      < Limit[l] + Cardinality(Workers)
  BY DEF OvershootBounded, Adding
<1>1. /\ Cardinality(marks[l]) \in Nat /\ Cardinality(Adding(l)) \in Nat
      /\ IsFiniteSet(Adding(l)) /\ Limit[l] \in Nat /\ Cardinality(Workers) \in Nat
  BY MarksTyped, LoginConstantsTyped, WorkersAssumption, FS_CardinalityType
<1>2. IsFiniteSet(Adding(l)') /\ Cardinality(Adding(l)') <= Cardinality(Adding(l))
  BY <1>1, FS_Subset
<1>3. Cardinality(Adding(l)') \in Nat /\ Cardinality(marks'[l]) \in Nat
  BY <1>2, FS_CardinalityType
<1>4. Cardinality(marks[l]) + Cardinality(Adding(l)) < Limit[l] + Cardinality(Workers)
  BY DEF OvershootBounded
<1> QED BY <1>1, <1>2, <1>3, <1>4

LEMMA LoginNextBounded ==
  ASSUME LoginTypeOK, LoginTypeOK', OvershootBounded, [LoginNext]_loginVars
  PROVE  OvershootBounded'
<1> USE LoginConstantsTyped
<1>1. \A l \in Limiters :
        /\ IsFiniteSet(marks[l]) /\ Cardinality(marks[l]) \in Nat
        /\ IsFiniteSet(Adding(l)) /\ Cardinality(Adding(l)) \in Nat
  BY MarksTyped
<1>2. Cardinality(Workers) \in Nat
  BY WorkersAssumption, FS_CardinalityType
<1>3. ASSUME NEW w \in Workers, CountAndPass(w) PROVE OvershootBounded'
  <2> DEFINE m == LimiterOf(w)
  <2>1. /\ m \in Limiters /\ Cardinality(marks[m]) < Limit[m] /\ marks' = marks
        /\ loginCalls' = [loginCalls EXCEPT ![w] =
             [loginCalls[w] EXCEPT !.at = "add", !.start = Window[m]]]
    BY <1>3, AttemptTyped DEF CountAndPass, Members, LoginStep
  <2>2. ASSUME NEW l \in Limiters
        PROVE  Cardinality(marks'[l]) + Cardinality(Adding(l)')
                 < Limit[l] + Cardinality(Workers)
    <3>1. CASE l = m
      <4>1. Adding(l)' \subseteq Workers
        BY DEF Adding
      <4>2. Cardinality(Adding(l)') <= Cardinality(Workers) /\ Cardinality(Adding(l)') \in Nat
        BY <4>1, WorkersAssumption, FS_Subset, FS_CardinalityType
      <4> QED BY <1>1, <1>2, <2>1, <3>1, <4>2
    <3>2. CASE l # m
      <4>1. Adding(l)' = Adding(l)
        BY <1>3, <2>1, <3>2 DEF LoginTypeOK, LoginCall, Adding, Attempting, LimiterOf, CountAndPass
      <4> QED BY <2>1, <4>1 DEF OvershootBounded
    <3> QED BY <3>1, <3>2
  <2> QED BY <2>2 DEF OvershootBounded, Adding
<1>4. ASSUME NEW w \in Workers, Add(w) PROVE OvershootBounded'
  <2> DEFINE m == LimiterOf(w)
  <2>1. /\ m \in Limiters /\ loginCalls[w] \in LoginCall
        /\ loginCalls[w].at = "add"
        /\ marks' = [marks EXCEPT ![m] = @ \cup {0}]
        /\ loginCalls' = [loginCalls EXCEPT ![w] = [loginCalls[w] EXCEPT !.at = "trim"]]
    BY <1>4, AttemptTyped DEF Add, LoginStep, Attempting
  <2>2. ASSUME NEW l \in Limiters
        PROVE  Cardinality(marks'[l]) + Cardinality(Adding(l)')
                 < Limit[l] + Cardinality(Workers)
    <3>1. CASE l = m
      <4>1. w \in Adding(l) /\ Adding(l)' = Adding(l) \ {w}
        BY <2>1, <3>1 DEF LoginTypeOK, LoginCall, Adding, Attempting, LimiterOf
      <4>2. /\ Cardinality(Adding(l)') = Cardinality(Adding(l)) - 1
            /\ Cardinality(Adding(l)') \in Nat
        BY <1>1, <4>1, FS_RemoveElement, FS_CardinalityType
      <4>3. marks'[l] = marks[l] \cup {0}
        BY <2>1, <3>1 DEF LoginTypeOK
      <4>4. Cardinality(marks'[l]) <= Cardinality(marks[l]) + 1 /\ Cardinality(marks'[l]) \in Nat
        <5>1. /\ IsFiniteSet(marks[l] \cup {0})
              /\ Cardinality(marks[l] \cup {0})
                   = IF 0 \in marks[l] THEN Cardinality(marks[l]) ELSE Cardinality(marks[l]) + 1
          BY <1>1, FS_AddElement
        <5> QED BY <1>1, <4>3, <5>1
      <4>5. Cardinality(marks[l]) + Cardinality(Adding(l)) < Limit[l] + Cardinality(Workers)
        BY DEF OvershootBounded
      <4> QED BY <1>1, <1>2, <4>2, <4>4, <4>5
    <3>2. CASE l # m
      <4>1. Adding(l)' = Adding(l) /\ marks'[l] = marks[l]
        BY <2>1, <3>2 DEF LoginTypeOK, LoginCall, Adding, Attempting, LimiterOf
      <4> QED BY <4>1 DEF OvershootBounded
    <3> QED BY <3>1, <3>2
  <2> QED BY <2>2 DEF OvershootBounded, Adding
<1>5. ASSUME NEW w \in Workers, Trim(w) PROVE OvershootBounded'
  <2>1. \A l \in Limiters : marks'[l] \subseteq marks[l]
    BY <1>5 DEF Trim, LoginTypeOK
  <2>2. \A l \in Limiters :
          IsFiniteSet(marks'[l]) /\ Cardinality(marks'[l]) <= Cardinality(marks[l])
    BY <1>1, <2>1, FS_Subset
  <2>3. /\ loginCalls[w].at = "trim"
        /\ \A v \in Workers : v # w => loginCalls'[v] = loginCalls[v]
        /\ loginCalls'[w].at # "add"
    BY <1>5, AttemptTyped DEF Trim, LoginStep, LoginTypeOK, LoginCall, NoAttempt, Attempting
  <2>4. \A l \in Limiters : Adding(l)' \subseteq Adding(l)
    BY <2>3 DEF Adding, Attempting, LimiterOf
  <2> QED BY <2>2, <2>4, FewerStaysBounded
<1>6. CASE Tick
  <2>1. \A l \in Limiters :
          IsFiniteSet(marks'[l]) /\ Cardinality(marks'[l]) <= Cardinality(marks[l])
    BY <1>6, OlderTyped DEF Tick
  <2>2. \A v \in Workers :
          loginCalls'[v].at = loginCalls[v].at /\ loginCalls'[v].limiter = loginCalls[v].limiter
    BY <1>6 DEF Tick, LoginTypeOK, LoginCall
  <2>3. \A l \in Limiters : Adding(l)' \subseteq Adding(l)
    BY <2>2 DEF Adding, Attempting, LimiterOf
  <2> QED BY <2>1, <2>3, FewerStaysBounded
<1>7. ASSUME NEW w \in Workers, Attempt(w) \/ CountAndRefuse(w) \/ Answer(w)
      PROVE  OvershootBounded'
  <2>1. marks' = marks
    BY <1>7 DEF Attempt, CountAndRefuse, Answer, NotKept
  <2>2. /\ \A v \in Workers : v # w => loginCalls'[v] = loginCalls[v]
        /\ loginCalls'[w].at # "add"
    BY <1>7 DEF Attempt, CountAndRefuse, Answer, LoginStep, LoginTypeOK, NoAttempt
  <2>3. \A l \in Limiters : Adding(l)' \subseteq Adding(l)
    BY <2>2 DEF Adding, Attempting, LimiterOf
  <2> QED BY <1>1, <2>1, <2>3, FewerStaysBounded
<1>8. CASE UNCHANGED loginVars
  BY <1>8 DEF loginVars, OvershootBounded, Adding, Attempting, LimiterOf
<1> QED BY <1>3, <1>4, <1>5, <1>6, <1>7, <1>8 DEF LoginNext, LoginWork

(* The sorted sets hold only ages within their window.                     *)
THEOREM LoginTypesCorrect == LoginSpec => []LoginTypeOK
<1> QED BY LoginInitTyped, LoginNextTyped, PTL DEF LoginSpec

(* However many attempts are counted together, a window never holds its    *)
(* limit and as many more as requests are served at once                   *)
(* (rate-limit.service.ts:19-25).                                          *)
THEOREM OvershootIsBounded == LoginSpec => []OvershootBounded
<1>1. LoginTypeOK /\ LoginTypeOK' /\ OvershootBounded /\ [LoginNext]_loginVars
        => OvershootBounded'
  BY LoginNextBounded
<1> QED BY <1>1, LoginInitBounded, LoginTypesCorrect, PTL DEF LoginSpec

-----------------------------------------------------------------------------
(* Services: none writes what another reads.                               *)

LEMMA ServicesStep ==
  [ServicesNext]_servicesVars =>
    /\ [CouponsNext]_couponVars /\ [AccountsNext]_accountVars
    /\ [LoginNext]_loginVars /\ [CacheNext]_cacheVars
BY DEF ServicesNext, CouponsTurn, AccountsTurn, LoginTurn, CacheTurn, servicesVars

(* Interleaved with the others in any way, each service behaves as its own *)
(* specification says, so all that is proved of it alone holds of them     *)
(* together (app.module.ts:64-73).                                         *)
THEOREM EachServiceAsSpecified ==
  ServicesSpec => CouponsSpec /\ AccountsSpec /\ LoginSpec /\ CacheSpec
<1>1. ServicesInit => CouponsInit /\ AccountsInit /\ LoginInit /\ CacheInit
  BY DEF ServicesInit
<1> QED BY <1>1, ServicesStep, PTL
        DEF ServicesSpec, CouponsSpec, AccountsSpec, LoginSpec, CacheSpec

(* The variables of the four services keep their types.                    *)
THEOREM ServicesTypesCorrect == ServicesSpec => []ServicesTypeOK
<1>1. CouponsTypeOK /\ AccountsTypeOK /\ LoginTypeOK /\ CacheTypeOK => ServicesTypeOK
  BY DEF ServicesTypeOK
<1> QED BY <1>1, EachServiceAsSpecified, CouponsTypeCorrect, AccountsTypeCorrect,
           LoginTypesCorrect, CacheTypeCorrect, PTL

(* Nothing that is promised of the coupons, the accounts, the login limits *)
(* or the cache is lost when they run side by side (app.module.ts:64-73).  *)
THEOREM ServicesKeepTheirPromises ==
  ServicesSpec => [](/\ UsesAreCounted /\ PerUserLimit
                     /\ SessionsLostByFailureOnly /\ AccountAsDecided
                     /\ AgeBounded /\ InvalidatedIsGone /\ OvershootBounded)
<1> QED BY EachServiceAsSpecified, UsesCounted, LimitPassedByOverlapOnly, SessionsKept,
           DecisionsKept, ServedInTime, InvalidatedStaysGone, OvershootIsBounded, PTL
=============================================================================
