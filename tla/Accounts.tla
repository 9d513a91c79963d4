------------------------------ MODULE Accounts ------------------------------
(***************************************************************************)
(* The auth and the users service: accounts in the users table, refresh    *)
(* tokens in Redis.  An account is named by its email, which the unique    *)
(* index keeps to one row, deleted ones included; that update may change   *)
(* the email is left out.  Access tokens are signed and not stored: they   *)
(* are no part of the state.                                               *)
(***************************************************************************)
EXTENDS Requests

CONSTANTS
  Emails,
  Clients,    \* browsers and devices, each with the one session it keeps
  Roles,
  Tokens      \* refresh tokens that can be signed

ASSUME TokensAssumption == None \notin Emails \cup Clients \cup Roles \cup Tokens

VARIABLES
  account,      \* [Emails -> AccountRow]
  rtbl,         \* [Tokens -> Emails \cup {None}]: the keys rtbl:<refresh token>
  session,      \* [Clients -> Tokens \cup {None}]: the last token each was given
  signed,       \* [Emails -> Tokens \cup {None}]: what signing for each user has
                \* yielded in the current second
  accountCalls, \* [Workers -> AccountCall]
  decided,      \* [Emails -> AccountRow]: what administrators last made of each
                \* account (history)
  crossed,      \* accounts with overlapping changes (history)
  lapsed        \* clients whose token expired, failed to be stored or exchanged,
                \* or is another client's as well (history)

tokenVars   == <<rtbl, session, signed, lapsed>>
accountVars == <<account, accountCalls, decided, crossed, tokenVars>>

AccountRow  == [state : {"none", "live", "deleted"}, role : Roles \cup {None}]
AccountCall == [at : {"idle", "register", "login", "password", "issue",
                      "refresh", "refresh_user", "refresh_del", "refresh_set",
                      "profile", "profile_save", "role", "role_save", "delete", "delete_save"},
                user : Emails \cup {None},
                role : Roles \cup {None},     \* of the entity it loaded, or the one to set
                client : Clients \cup {None},
                token : Tokens \cup {None},   \* the one it exchanges
                next : Tokens \cup {None}]    \* the one it signed and stores
NoAccess    == [at |-> "idle", user |-> None, role |-> None, client |-> None,
                token |-> None, next |-> None]

AccountsInit ==
  /\ account = [u \in Emails |-> [state |-> "none", role |-> None]]
  /\ rtbl = [t \in Tokens |-> None]
  /\ session = [c \in Clients |-> None]
  /\ signed = [u \in Emails |-> None]
  /\ accountCalls = [w \in Workers |-> NoAccess]
  /\ decided = account
  /\ crossed = {}
  /\ lapsed = {}

Accessing(w, label)   == accountCalls[w].at = label
AccountReturn(w)      == accountCalls' = [accountCalls EXCEPT ![w] = NoAccess]
AccountStep(w, label) == accountCalls' = [accountCalls EXCEPT ![w].at = label]

(* A token signed in a new second differs from every other.                *)
FreshTokens == {t \in Tokens : /\ rtbl[t] = None
                               /\ \A c \in Clients : session[c] # t
                               /\ \A u \in Emails : signed[u] # t
                               /\ \A w \in Workers : t \notin {accountCalls[w].token,
                                                                accountCalls[w].next}}

(* The payload is the user's id and the second: within it, signing again   *)
(* for the user yields the same token.                                     *)
Signable(u) == IF signed[u] # None THEN {signed[u]} ELSE FreshTokens

Sign(w, label) ==
  \E t \in Signable(accountCalls[w].user) :
    /\ accountCalls' = [accountCalls EXCEPT ![w].at = label, ![w].next = t]
    /\ signed' = [signed EXCEPT ![accountCalls[w].user] = t]

Holders(t) == {c \in Clients : session[c] = t}

(* Another client holds, or is exchanging, the token that w's call signed. *)
Twin(w) ==
  LET c == accountCalls[w] IN
  \/ Holders(c.next) \ {c.client} # {}
  \/ \E v \in Workers : accountCalls[v].token = c.next /\ accountCalls[v].client # c.client

(* The call stores the token, or fails to, and its client gets it.         *)
Stored(w) == rtbl' = [rtbl EXCEPT ![accountCalls[w].next] = accountCalls[w].user]
Given(w, kept) ==
  LET c == accountCalls[w] IN
  /\ session' = [session EXCEPT ![c.client] = c.next]
  /\ lapsed' = IF Twin(w) THEN lapsed \cup Holders(c.next) \cup {c.client}
               ELSE IF kept THEN lapsed \ {c.client} ELSE lapsed \cup {c.client}
  /\ AccountReturn(w)

IsLive(u) == account[u].state = "live"

(* Calls that have loaded u's row and will save or delete it.              *)
Changers(u) == {w \in Workers : accountCalls[w].user = u
                  /\ accountCalls[w].at \in {"profile_save", "role_save", "delete_save"}}
Crossing(w) == LET u == accountCalls[w].user IN
               IF Changers(u) \ {w} = {} THEN crossed ELSE crossed \cup {u}

-----------------------------------------------------------------------------

Access(w, call) ==
  /\ Accessing(w, "idle")
  /\ accountCalls' = [accountCalls EXCEPT ![w] = call]
  /\ UNCHANGED <<account, decided, crossed, tokenVars>>

(* register, and create by an administrator, which signs no token.         *)
Register(w) ==
  LET u == accountCalls[w].user IN
  /\ Accessing(w, "register")
  /\ account[u].state = "none"
  /\ account' = [account EXCEPT ![u] = [state |-> "live", role |-> accountCalls[w].role]]
  /\ decided' = [decided EXCEPT ![u] = account'[u]]
  /\ \/ accountCalls[w].client # None /\ Sign(w, "issue")
     \/ accountCalls[w].client = None /\ AccountReturn(w) /\ UNCHANGED signed
  /\ UNCHANGED <<rtbl, session, crossed, lapsed>>

LoginFind(w) ==
  /\ Accessing(w, "login")
  /\ IsLive(accountCalls[w].user)
  /\ AccountStep(w, "password")
  /\ UNCHANGED <<account, decided, crossed, tokenVars>>

(* bcrypt.compare                                                          *)
LoginPassword(w) ==
  /\ Accessing(w, "password")
  /\ \/ Sign(w, "issue")
     \/ AccountReturn(w) /\ UNCHANGED signed
  /\ UNCHANGED <<account, rtbl, session, decided, crossed, lapsed>>

(* A failure to store the token is caught: the client gets it all the same.*)
Issue(w) ==
  /\ Accessing(w, "issue")
  /\ \/ Stored(w) /\ Given(w, TRUE)
     \/ UNCHANGED rtbl /\ Given(w, FALSE)
  /\ UNCHANGED <<account, signed, decided, crossed>>

RefreshGet(w) ==
  LET t == accountCalls[w].token IN
  /\ Accessing(w, "refresh")
  /\ rtbl[t] # None
  /\ accountCalls' = [accountCalls EXCEPT ![w].at = "refresh_user", ![w].user = rtbl[t]]
  /\ UNCHANGED <<account, decided, crossed, tokenVars>>

(* The user is looked up before the token is deleted, so that a refusal    *)
(* costs nothing.                                                          *)
Spent(t)        == [rtbl EXCEPT ![t] = None]
SpentEarly(w)   == Spent(accountCalls[w].token)
NotYetSpent(w)  == rtbl

RefreshFind(w) ==
  /\ Accessing(w, "refresh_user")
  /\ rtbl' = NotYetSpent(w)
  /\ IF IsLive(accountCalls[w].user) THEN AccountStep(w, "refresh_del") ELSE AccountReturn(w)
  /\ UNCHANGED <<account, session, signed, decided, crossed, lapsed>>

(* A failure to delete is caught: the token stays valid.                   *)
RefreshDel(w) ==
  /\ Accessing(w, "refresh_del")
  /\ rtbl' = Spent(accountCalls[w].token) \/ UNCHANGED rtbl
  /\ Sign(w, "refresh_set")
  /\ UNCHANGED <<account, session, decided, crossed, lapsed>>

RefreshSet(w) ==
  /\ Accessing(w, "refresh_set")
  /\ Stored(w)
  /\ Given(w, TRUE)
  /\ UNCHANGED <<account, signed, decided, crossed>>

(* update loads the user and hashes a password, updateRole refuses for an  *)
(* administrator other than oneself: the caller may then be refused.       *)
ProfileFind(w) ==
  /\ Accessing(w, "profile")
  /\ IsLive(accountCalls[w].user)
  /\ accountCalls' = [accountCalls EXCEPT ![w].at = "profile_save",
                        ![w].role = account[accountCalls[w].user].role]
  /\ crossed' = Crossing(w)
  /\ UNCHANGED <<account, decided, tokenVars>>

(* The save writes back every column of the entity, its role and its empty *)
(* deletedAt included, where the row differs by now.                       *)
SavedDefault(c) == [state |-> "live", role |-> CHOOSE r \in Roles : TRUE]
Saved(c)        == [state |-> "live", role |-> c.role]

ProfileSave(w) ==
  /\ Accessing(w, "profile_save")
  /\ account' = [account EXCEPT ![accountCalls[w].user] = Saved(accountCalls[w])]
  /\ AccountReturn(w)
  /\ UNCHANGED <<decided, crossed, tokenVars>>

RoleFind(w) ==
  /\ Accessing(w, "role")
  /\ IsLive(accountCalls[w].user)
  /\ AccountStep(w, "role_save")
  /\ crossed' = Crossing(w)
  /\ UNCHANGED <<account, decided, tokenVars>>

RoleSave(w) ==
  LET c == accountCalls[w] IN
  /\ Accessing(w, "role_save")
  /\ account' = [account EXCEPT ![c.user] = [state |-> "live", role |-> c.role]]
  /\ decided' = [decided EXCEPT ![c.user] = account'[c.user]]
  /\ AccountReturn(w)
  /\ UNCHANGED <<crossed, tokenVars>>

DeleteUserFind(w) ==
  /\ Accessing(w, "delete")
  /\ IsLive(accountCalls[w].user)
  /\ AccountStep(w, "delete_save")
  /\ crossed' = Crossing(w)
  /\ UNCHANGED <<account, decided, tokenVars>>

DeleteUser(w) ==
  LET u == accountCalls[w].user IN
  /\ Accessing(w, "delete_save")
  /\ account' = [account EXCEPT ![u].state = "deleted"]
  /\ decided' = [decided EXCEPT ![u].state = "deleted"]
  /\ AccountReturn(w)
  /\ UNCHANGED <<crossed, tokenVars>>

(* Email taken, by the check or by the index; user not found; not stored.  *)
AccountRefuse(w) ==
  LET c == accountCalls[w] IN
  /\ CASE c.at = "register" -> account[c.user].state # "none"
       [] c.at \in {"login", "profile", "role", "delete"} -> ~IsLive(c.user)
       [] c.at = "refresh"  -> rtbl[c.token] = None
       [] OTHER             -> FALSE
  /\ AccountReturn(w)
  /\ UNCHANGED <<account, decided, crossed, tokenVars>>

(* A statement or a Redis command fails, where nothing catches it, or the  *)
(* process dies.  Once a refresh has deleted the token, it is lost.        *)
AccountFail(w) ==
  /\ ~Accessing(w, "idle")
  /\ lapsed' = IF Accessing(w, "refresh_set")
               THEN lapsed \cup Holders(accountCalls[w].token) ELSE lapsed
  /\ AccountReturn(w)
  /\ UNCHANGED <<account, rtbl, session, signed, decided, crossed>>

(* Redis drops a token at the end of getRefreshTokenExpiry, which no token *)
(* reaches in the second that signs it.                                    *)
ExpireToken(t) ==
  /\ rtbl[t] # None
  /\ \A u \in Emails : signed[u] # t
  /\ rtbl' = [rtbl EXCEPT ![t] = None]
  /\ lapsed' = lapsed \cup Holders(t)
  /\ UNCHANGED <<account, session, signed, accountCalls, decided, crossed>>

(* The clock of the tokens, in whole seconds, moves on.                    *)
NextSecond ==
  /\ \E u \in Emails : signed[u] # None
  /\ signed' = [u \in Emails |-> None]
  /\ UNCHANGED <<account, rtbl, session, accountCalls, decided, crossed, lapsed>>

(* A client that refreshes sends the token it holds; an administrator's    *)
(* create names no client.                                                 *)
AccountBegin(w) ==
  \/ \E u \in Emails, entry \in {"profile", "delete"} :
       Access(w, [NoAccess EXCEPT !.at = entry, !.user = u])
  \/ \E u \in Emails, r \in Roles :
       Access(w, [NoAccess EXCEPT !.at = "role", !.user = u, !.role = r])
  \/ \E u \in Emails, r \in Roles, c \in Clients \cup {None} :
       Access(w, [NoAccess EXCEPT !.at = "register", !.user = u, !.role = r, !.client = c])
  \/ \E u \in Emails, c \in Clients :
       Access(w, [NoAccess EXCEPT !.at = "login", !.user = u, !.client = c])
  \/ \E c \in Clients :
       /\ session[c] # None
       /\ Access(w, [NoAccess EXCEPT !.at = "refresh", !.client = c, !.token = session[c]])

AccountsNext ==
  \/ \E w \in Workers :
       \/ AccountBegin(w)
       \/ Register(w) \/ LoginFind(w) \/ LoginPassword(w) \/ Issue(w)
       \/ RefreshGet(w) \/ RefreshFind(w) \/ RefreshDel(w) \/ RefreshSet(w)
       \/ ProfileFind(w) \/ ProfileSave(w) \/ RoleFind(w) \/ RoleSave(w)
       \/ DeleteUserFind(w) \/ DeleteUser(w)
       \/ AccountRefuse(w) \/ AccountFail(w)
  \/ \E t \in Tokens : ExpireToken(t)
  \/ NextSecond

AccountsSpec == AccountsInit /\ [][AccountsNext]_accountVars
-----------------------------------------------------------------------------

AccountsTypeOK ==
  /\ account \in [Emails -> AccountRow]
  /\ rtbl \in [Tokens -> Emails \cup {None}]
  /\ session \in [Clients -> Tokens \cup {None}]
  /\ signed \in [Emails -> Tokens \cup {None}]
  /\ accountCalls \in [Workers -> AccountCall]
  /\ decided \in [Emails -> AccountRow]
  /\ crossed \subseteq Emails
  /\ lapsed \subseteq Clients

(* A client keeps a token it can exchange: the one it holds is stored, or  *)
(* being exchanged, unless it expired, its write or exchange failed, or    *)
(* another client of the user has the same one, signed in the same second; *)
(* a refused refresh leaves it as it was (auth.service.ts:109-140, 161).   *)
SessionsLostByFailureOnly ==
  \A c \in Clients \ lapsed :
    LET t == session[c] IN
    t # None => \/ rtbl[t] # None
                \/ \E w \in Workers : accountCalls[w].token = t /\ Accessing(w, "refresh_set")

(* An account is what administrators last made of it, in role and          *)
(* deletion, unless changes of it overlapped: a profile update that ran    *)
(* alone neither undoes a role nor a deletion (users.service.ts:62-112).   *)
AccountAsDecided == \A u \in Emails \ crossed : account[u] = decided[u]

(* What the proofs keep: a call past its first step knows its user, one    *)
(* that refreshes its token, and one that stores a token its client; the   *)
(* token of a client whose session has not lapsed is no other client's;    *)
(* while changes of an account do not overlap, the one that is under way   *)
(* holds the account as it still is.                                       *)
Refreshing == {"refresh", "refresh_user", "refresh_del", "refresh_set"}
AccessAddressed(c) ==
  /\ c.at \notin {"idle", "refresh"} => c.user \in Emails
  /\ c.at \in Refreshing => c.token \in Tokens
  /\ c.at \in Refreshing \cup {"login", "password", "issue"} => c.client \in Clients
  /\ c.at \in {"issue", "refresh_set"} => c.next \in Tokens
AccessesTyped == AccountsTypeOK /\ \A w \in Workers : AccessAddressed(accountCalls[w])
NoTwin ==
  \A c \in Clients \ lapsed : session[c] # None =>
    /\ Holders(session[c]) = {c}
    /\ \A w \in Workers : accountCalls[w].token = session[c] => accountCalls[w].client = c
OneChanger ==
  \A u \in Emails \ crossed : \A w \in Changers(u) :
    /\ IsLive(u) /\ Changers(u) = {w}
    /\ Accessing(w, "profile_save") => accountCalls[w].role = account[u].role

AccountsIInv ==
  AccessesTyped /\ NoTwin /\ SessionsLostByFailureOnly /\ AccountAsDecided /\ OneChanger
=============================================================================
