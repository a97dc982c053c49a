---------------------------- MODULE RetryPolicy ----------------------------
(***************************************************************************)
(* ut_retry_state_t: how often an operation is attempted and how long its  *)
(* caller waits between two attempts. The caller begins an attempt, and    *)
(* reports its success or failure; after an exhausted operation, or when   *)
(* it gives up, it resets the state and uses the policy again.             *)
(***************************************************************************)
EXTENDS Naturals

CONSTANTS
  Policy,       \* policies tried, valid or not
  Fixed, Exponential

ASSUME PolicyAssumption ==
  /\ Fixed # Exponential
  /\ Policy \subseteq [max_attempts : Nat, base_delay : Nat, max_delay : Nat,
                       backoff : {Fixed, Exponential}]

VARIABLES
  retry,     \* policy and attempts
  waited     \* history: the delay of the last failure of this operation and
             \* the attempts made then, attempts 0 if none

retryVars == <<retry, waited>>

NoWait == [delay |-> 0, attempts |-> 0]

(* ut_retry_init(), valid_policy(): any other policy is refused.           *)
ValidPolicy(policy) ==
  /\ policy.max_attempts # 0
  /\ policy.base_delay <= policy.max_delay
  /\ policy.backoff \in {Fixed, Exponential}

ASSUME SomePolicyIsValid == \E policy \in Policy : ValidPolicy(policy)

RetryInit ==
  /\ retry = [policy |-> CHOOSE policy \in Policy : ValidPolicy(policy),
              attempts |-> 0]
  /\ waited = NoWait

Initialize(policy) ==
  /\ ValidPolicy(policy)
  /\ retry' = [policy |-> policy, attempts |-> 0]
  /\ waited' = NoWait

CanAttempt == retry.attempts < retry.policy.max_attempts

BeginAttempt ==
  /\ CanAttempt
  /\ retry' = [retry EXCEPT !.attempts = @ + 1]
  /\ UNCHANGED waited

(* Mistake: doubled without a look at the limit.                           *)
Unclamped(policy, n) == policy.base_delay * 2 ^ n

(* The delay after n doublings, each clamped before it is made.            *)
Doubled(policy, n) ==
  LET value[k \in 0 .. n] ==
        IF k = 0 THEN policy.base_delay
        ELSE IF value[k - 1] > policy.max_delay \div 2
             THEN policy.max_delay
             ELSE 2 * value[k - 1]
  IN IF policy.base_delay = 0 THEN 0 ELSE value[n]

(* ut_retry_failure() when it returns OK: after the last attempt it is     *)
(* EXHAUSTED, before the first one INVALID_ARGUMENT.                       *)
Failure ==
  /\ retry.attempts # 0 /\ CanAttempt
  /\ waited' = [delay |-> IF retry.policy.backoff = Exponential
                          THEN Doubled(retry.policy, retry.attempts - 1)
                          ELSE retry.policy.base_delay,
                attempts |-> retry.attempts]
  /\ UNCHANGED retry

(* ut_retry_success() and ut_retry_reset().                                *)
Reset ==
  /\ retry' = [retry EXCEPT !.attempts = 0]
  /\ waited' = NoWait

RetryNext ==
  \/ \E policy \in Policy : Initialize(policy)
  \/ BeginAttempt \/ Failure \/ Reset

RetrySpec == RetryInit /\ [][RetryNext]_retryVars

-----------------------------------------------------------------------------

(* From one failure to the next the wait doubles until it reaches the      *)
(* limit of the policy and stays there, attempts that were not reported    *)
(* counted in; it never shrinks, and a fixed policy always waits the same. *)
BackoffGrows ==
  [][Failure =>
       /\ waited'.delay \in retry.policy.base_delay .. retry.policy.max_delay
       /\ retry.policy.backoff = Fixed => waited'.delay = retry.policy.base_delay
       /\ waited.attempts + 1 = retry.attempts /\ waited.attempts # 0
            /\ retry.policy.backoff = Exponential =>
          waited'.delay = IF 2 * waited.delay > retry.policy.max_delay
                          THEN retry.policy.max_delay
                          ELSE 2 * waited.delay]_retryVars
=============================================================================
