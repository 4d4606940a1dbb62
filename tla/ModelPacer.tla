------------------------------ MODULE ModelPacer ------------------------------
(***************************************************************************)
(* The request budget that the stage processes of a batch share for one    *)
(* model (tools/drone_documents/rate_limit.py): a small file read and      *)
(* rewritten under a file lock.  A request reserves its estimated tokens   *)
(* before it starts and corrects the reservation to what the provider      *)
(* counted; an answer 429 lowers the budget and stops everyone for a time. *)
(***************************************************************************)
EXTENDS Integers, FiniteSets, FiniteSetsExt

CONSTANTS
    Clients,
    Estimates, Actuals,     \* thousands of tokens a request is estimated at and may use
    Limit, Lowest,          \* tokens a minute: the configured budget and its floor
    Cooldown,               \* seconds after a 429
    Streak, Calm,           \* successes and quiet seconds after which the budget is raised
    TimeStep, LastSecond, MaxLimited    \* bounds of an instance

ASSUME PacerAssumption ==
    /\ Estimates \cup Actuals \subseteq Nat /\ 0 \notin Estimates
    /\ {Lowest, Streak, TimeStep} \subseteq Nat \ {0} /\ Limit \in Nat /\ Limit >= Lowest
    /\ {Cooldown, Calm, LastSecond, MaxLimited} \subseteq Nat
    /\ IsFiniteSet(Clients)
    /\ \E m \in Estimates \cup Actuals : \A t \in Estimates \cup Actuals : m >= t
    \* the code divides without rounding; whole seconds do at the configured budget
    /\ \A t \in Estimates \cup Actuals : (t * 60000) % Limit = 0

VARIABLES
    second,     \* the clock
    budget,     \* effective_tpm
    nextAt, cooldownUntil, lastLimitAt,
    successes,
    reserved,   \* [Clients -> tokens of the request in flight, or 0]
    spent,      \* tokens of all requests: counted ones, and estimates of those in flight
    limits      \* answers 429

pacerVars == <<second, budget, nextAt, cooldownUntil, lastLimitAt, successes, reserved, spent,
               limits>>

PacerInit ==
    /\ second = 0 /\ budget = Limit
    /\ nextAt = 0 /\ cooldownUntil = 0 /\ lastLimitAt = -1 - Calm
    /\ successes = 0 /\ spent = 0 /\ limits = 0
    /\ reserved = [c \in Clients |-> 0]

Later(x, y) == IF x > y THEN x ELSE y
Seconds(tokens) == (tokens * 60000) \div budget

(* acquire: sleeping clients look again and again; the one that finds the  *)
(* time has come reserves in the same step.                                *)
Acquire(c, tokens) ==
    /\ reserved[c] = 0
    /\ Later(nextAt, cooldownUntil) <= second
    /\ nextAt' = second + Seconds(tokens)
    /\ reserved' = [reserved EXCEPT ![c] = tokens]
    /\ spent' = spent + tokens
    /\ UNCHANGED <<second, budget, cooldownUntil, lastLimitAt, successes, limits>>

(* Mutant: the reservation is given back as a whole. *)
CorrectedFully(c, tokens) == Later(second, nextAt - Seconds(reserved[c]))

Corrected(c, tokens) == Later(second, nextAt + Seconds(tokens) - Seconds(reserved[c]))

(* The correction is made at the budget of the moment. *)
SucceedRequest(c, tokens) ==
    /\ reserved[c] # 0
    /\ nextAt' = IF tokens > 0 THEN Corrected(c, tokens) ELSE nextAt
    /\ successes' = (successes + 1) % Streak
    /\ budget' = IF successes' = 0 /\ second - lastLimitAt > Calm
                 THEN Min({Limit, (budget * 6) \div 5}) ELSE budget
    /\ spent' = IF tokens > 0 THEN spent + tokens - reserved[c] ELSE spent  \* 0: not told
    /\ reserved' = [reserved EXCEPT ![c] = 0]
    /\ UNCHANGED <<second, cooldownUntil, lastLimitAt, limits>>

LimitRequest(c) ==
    /\ reserved[c] # 0 /\ limits < MaxLimited /\ limits' = limits + 1
    /\ cooldownUntil' = Later(cooldownUntil, second + Cooldown)
    /\ budget' = Later(Lowest, (budget * 7) \div 10)
    /\ lastLimitAt' = second
    /\ reserved' = [reserved EXCEPT ![c] = 0]
    /\ spent' = spent - reserved[c]     \* the provider refused it
    /\ UNCHANGED <<second, nextAt, successes>>

(* Another failure, or the process dies: the reservation stays charged.    *)
LoseRequest(c) ==
    /\ reserved[c] # 0
    /\ reserved' = [reserved EXCEPT ![c] = 0]
    /\ UNCHANGED <<second, budget, nextAt, cooldownUntil, lastLimitAt, successes, spent, limits>>

PassTime ==
    /\ second + TimeStep <= LastSecond
    /\ second' = second + TimeStep
    /\ UNCHANGED <<budget, nextAt, cooldownUntil, lastLimitAt, successes, reserved, spent, limits>>

PacerNext ==
    \/ \E c \in Clients :
          \/ \E tokens \in Estimates : Acquire(c, tokens)
          \/ \E tokens \in Actuals : SucceedRequest(c, tokens)
          \/ LimitRequest(c) \/ LoseRequest(c)
    \/ PassTime

PacerSpec == PacerInit /\ [][PacerNext]_pacerVars

-----------------------------------------------------------------------------
(* Properties. *)

(* The budget stays between its floor and its limit. *)
PacerTypeOK ==
    /\ budget \in Lowest .. Limit
    /\ second \in 0 .. LastSecond /\ nextAt >= 0 /\ cooldownUntil >= 0
    /\ reserved \in [Clients -> Estimates \cup {0}]

(* The processes together keep to the configured budget: what they spent   *)
(* never exceeds what it allows for the time since the start by more than  *)
(* one request for each of them, however reservations, corrections and     *)
(* cool-downs of different processes follow each other.                    *)
BudgetIsKept ==
    spent * 60000 <= second * Limit + Cardinality(Clients) * Max(Estimates \cup Actuals) * 60000

(* The budget is in its bounds and kept by the processes together. *)
QuotaIsShared == PacerTypeOK /\ BudgetIsKept
=============================================================================
