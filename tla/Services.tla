------------------------------- MODULE Services ------------------------------
(***************************************************************************)
(* The coupons, the accounts, the limits on logging in and the cached      *)
(* reports as the application runs them: side by side, each serving its    *)
(* requests, in any interleaving.  None writes what another reads.         *)
(***************************************************************************)
EXTENDS Coupons, Accounts, LoginLimit, Cache

servicesVars == <<couponVars, accountVars, loginVars, cacheVars>>

ServicesInit == CouponsInit /\ AccountsInit /\ LoginInit /\ CacheInit

CouponsTurn  == CouponsNext /\ UNCHANGED <<accountVars, loginVars, cacheVars>>
AccountsTurn == AccountsNext /\ UNCHANGED <<couponVars, loginVars, cacheVars>>
LoginTurn    == LoginNext /\ UNCHANGED <<couponVars, accountVars, cacheVars>>
CacheTurn    == CacheNext /\ UNCHANGED <<couponVars, accountVars, loginVars>>

ServicesNext == CouponsTurn \/ AccountsTurn \/ LoginTurn \/ CacheTurn

ServicesSpec == ServicesInit /\ [][ServicesNext]_servicesVars /\ LoginFairness
-----------------------------------------------------------------------------

(* The variables of the four services have their types.                    *)
ServicesTypeOK == CouponsTypeOK /\ AccountsTypeOK /\ LoginTypeOK /\ CacheTypeOK
=============================================================================
