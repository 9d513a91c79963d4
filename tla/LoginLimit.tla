------------------------------ MODULE LoginLimit ----------------------------
(***************************************************************************)
(* The two rate limits an attempt to log in passes: BruteForceGuard, then  *)
(* the controller's own.  checkLimit keeps, for each key, a sorted set of  *)
(* the times of the attempts it let pass.  Times are kept as ages, which   *)
(* Tick advances, so that no clock has to be bounded.  One client, with    *)
(* one address and one user agent; Redis answers every command.            *)
(***************************************************************************)
EXTENDS Requests

CONSTANTS Window, Limit     \* [Limiters -> Nat]: windowMs, in ticks, and max

Limiters == {"bruteForce", "login"}

ASSUME LimitAssumption ==
  Window \in [Limiters -> Nat] /\ Limit \in [Limiters -> Nat \ {0}]

VARIABLES
  marks,        \* [Limiters -> SUBSET Nat]: ages of the members of the set
  loginCalls    \* [Workers -> LoginCall]

loginVars == <<marks, loginCalls>>

LoginCall == [at : {"idle", "count", "add", "trim", "authenticate"},
              limiter : Limiters,
              start : Nat]      \* age of windowStart

NoAttempt == [at |-> "idle", limiter |-> "bruteForce", start |-> 0]

LoginInit ==
  /\ marks = [l \in Limiters |-> {}]
  /\ loginCalls = [w \in Workers |-> NoAttempt]

Attempting(w, label) == loginCalls[w].at = label
LimiterOf(w)         == loginCalls[w].limiter
LoginStep(w, call)   == loginCalls' = [loginCalls EXCEPT ![w] = call]

-----------------------------------------------------------------------------

Attempt(w) ==
  /\ Attempting(w, "idle")
  /\ LoginStep(w, [NoAttempt EXCEPT !.at = "count"])
  /\ UNCHANGED marks

(* ZCOUNT windowStart inf.  A member older than its window is not kept:    *)
(* nothing counts it.                                                      *)
MembersBefore(l) == Cardinality({a \in marks[l] : a >= Window[l]})
Members(l)       == Cardinality(marks[l])

CountAndPass(w) ==
  /\ Attempting(w, "count")
  /\ Members(LimiterOf(w)) < Limit[LimiterOf(w)]
  /\ LoginStep(w, [loginCalls[w] EXCEPT !.at = "add", !.start = Window[LimiterOf(w)]])
  /\ UNCHANGED marks

(* The exception of the guard or the controller; the attempt is not kept.  *)
KeepsRefused(l) == [marks EXCEPT ![l] = @ \cup {0}]
NotKept(l)      == marks

CountAndRefuse(w) ==
  /\ Attempting(w, "count")
  /\ Members(LimiterOf(w)) >= Limit[LimiterOf(w)]
  /\ marks' = NotKept(LimiterOf(w))
  /\ LoginStep(w, NoAttempt)

(* ZADD now now: attempts of the same instant are one member.              *)
Add(w) ==
  /\ Attempting(w, "add")
  /\ marks' = [marks EXCEPT ![LimiterOf(w)] = @ \cup {0}]
  /\ LoginStep(w, [loginCalls[w] EXCEPT !.at = "trim"])

(* ZREMRANGEBYSCORE 0 windowStart, with the windowStart of the count; then *)
(* the next limiter, or the password.                                      *)
Trim(w) ==
  LET l == LimiterOf(w) IN
  /\ Attempting(w, "trim")
  /\ marks' = [marks EXCEPT ![l] = {a \in @ : a < loginCalls[w].start}]
  /\ LoginStep(w, IF l = "bruteForce"
                  THEN [NoAttempt EXCEPT !.at = "count", !.limiter = "login"]
                  ELSE [loginCalls[w] EXCEPT !.at = "authenticate"])

(* authService.login answers, one way or the other.                        *)
Answer(w) ==
  /\ Attempting(w, "authenticate")
  /\ LoginStep(w, NoAttempt)
  /\ UNCHANGED marks

(* Time passes: every member and every windowStart gets older, members up  *)
(* to the window and windowStart until no member is older than it.         *)
Older(l) == {a + 1 : a \in {b \in marks[l] : b < Window[l]}}

Tick ==
  /\ marks' = [l \in Limiters |-> Older(l)]
  /\ loginCalls' = [w \in Workers |->
       IF loginCalls[w].at \in {"add", "trim"} /\ loginCalls[w].start <= Window[LimiterOf(w)]
       THEN [loginCalls[w] EXCEPT !.start = @ + 1] ELSE loginCalls[w]]

LoginWork(w) == CountAndPass(w) \/ CountAndRefuse(w) \/ Add(w) \/ Trim(w) \/ Answer(w)

LoginNext == Tick \/ \E w \in Workers : Attempt(w) \/ LoginWork(w)

(* Time goes on, calls go on, and the client keeps trying.                 *)
LoginFairness ==
  /\ WF_loginVars(Tick)
  /\ \A w \in Workers : WF_loginVars(LoginWork(w)) /\ WF_loginVars(Attempt(w))

LoginSpec == LoginInit /\ [][LoginNext]_loginVars
-----------------------------------------------------------------------------

LoginTypeOK ==
  /\ marks \in [Limiters -> SUBSET Nat]
  /\ \A l \in Limiters : \A a \in marks[l] : a <= Window[l]
  /\ loginCalls \in [Workers -> LoginCall]

(* Attempts counted together all pass before any of them is added, so a    *)
(* window can hold more than its limit, but by fewer than the requests     *)
(* served at once (rate-limit.service.ts:19-25).                           *)
Adding(l) == {w \in Workers : Attempting(w, "add") /\ LimiterOf(w) = l}
OvershootBounded ==
  \A l \in Limiters :
    Cardinality(marks[l]) + Cardinality(Adding(l)) < Limit[l] + Cardinality(Workers)

(* A refused attempt does not extend the ban: a client that keeps trying   *)
(* gets through to the password again (rate-limit.service.ts:21-23).       *)
RefusalIsTemporary ==
  (\E w \in Workers : ~Attempting(w, "idle")) ~> (\E w \in Workers : Attempting(w, "authenticate"))
=============================================================================
