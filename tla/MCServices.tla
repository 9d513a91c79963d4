----------------------------- MODULE MCServices -----------------------------
(* A finite instance of the services.  None writes what another reads, so  *)
(* a behaviour holds the requests of one of them: "service" is drawn at    *)
(* the start.                                                              *)
EXTENDS Services, TLC

CONSTANTS u1, u2, e1, c1, c2, cp1, t1, t2, admin, customer, k1, w1, w2

VARIABLE service

TwoUsers   == {u1, u2}
OneEmail   == {e1}
OneCoupon  == {cp1}
TwoClients == {c1, c2}
TheTokens  == {t1, t2}
TwoRoles   == {admin, customer}
OneReport  == {k1}
TwoWorkers == {w1, w2}

Windows    == [l \in Limiters |-> IF l = "login" THEN 3 ELSE 5]
Limits     == [l \in Limiters |-> IF l = "login" THEN 2 ELSE 3]
TwoTicks   == [k \in Keys |-> 2]

oneServiceVars == <<service, servicesVars>>

(* The accounts serve either the calls of clients, with accounts of one    *)
(* role, and deletions, or the calls that change a row: what a profile or  *)
(* a role is matters to no token, and a token to no row.                   *)
Sessions == {"login", "password", "issue", "refresh", "refresh_user", "refresh_del", "refresh_set"}
Changes  == {"profile", "profile_save", "role", "role_save"}
OneRole == \A w \in Workers : accountCalls'[w].role # admin
Serving(labels) == \A w \in Workers : accountCalls'[w].at \notin labels

OneServiceInit == service \in {"coupons", "accounts", "sessions", "login", "cache"} /\ ServicesInit

OneServiceNext ==
  \/ service = "coupons" /\ CouponsTurn /\ UNCHANGED service
  \/ service = "accounts" /\ AccountsTurn /\ Serving(Sessions) /\ UNCHANGED service
  \/ service = "sessions" /\ AccountsTurn /\ Serving(Changes) /\ OneRole /\ UNCHANGED service
  \/ service = "login" /\ LoginTurn /\ UNCHANGED service
  \/ service = "cache" /\ CacheTurn /\ UNCHANGED service

(* LoginFairness, for the behaviours that hold attempts to log in.         *)
InLogin(step) == service = "login" /\ step /\ LoginTurn /\ UNCHANGED service

OneServiceSpec ==
  /\ OneServiceInit
  /\ [][OneServiceNext]_oneServiceVars
  /\ WF_oneServiceVars(InLogin(Tick))
  /\ \A w \in Workers : /\ WF_oneServiceVars(InLogin(LoginWork(w)))
                        /\ WF_oneServiceVars(InLogin(Attempt(w)))
=============================================================================
