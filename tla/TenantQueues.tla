---------------------------- MODULE TenantQueues ----------------------------
(***************************************************************************)
(* What the fair scheduler promises to the code that submits ingestion     *)
(* jobs: every tenant has one FIFO line, jobs are handed to Celery from    *)
(* the head of a line, never more than Capacity of them wait in Celery,    *)
(* they start in the order they were handed over, and a job vanishes only  *)
(* in a failure.                                                           *)
(***************************************************************************)
EXTENDS Naturals, Sequences

CONSTANTS Tenants,      \* the tenants
          Jobs,         \* the jobs
          Owner,        \* Owner[j]: the tenant that submitted job j
          Capacity      \* how many handed-over jobs may wait in Celery

VARIABLES pending,      \* pending[t]: the jobs of t not handed over yet
          handed,       \* the jobs handed over and not started, in order
          faultsLeft    \* how many more failures the environment may cause

vars == <<pending, handed, faultsLeft>>

Waiting(j) == \/ \E i \in DOMAIN pending[Owner[j]] : pending[Owner[j]][i] = j
              \/ \E i \in DOMAIN handed : handed[i] = j

Init == /\ pending = [t \in Tenants |-> <<>>]
        /\ handed = <<>>
        /\ faultsLeft \in Nat

\* A failure may strike without a visible effect.
FaultsMayPass == faultsLeft' <= faultsLeft

Accept(j) == /\ ~ Waiting(j)
             /\ pending' = [pending EXCEPT ![Owner[j]] = Append(@, j)]
             /\ UNCHANGED <<handed, faultsLeft>>

HandOver(t) == /\ pending[t] # <<>>
               /\ Len(handed) < Capacity
               /\ handed' = Append(handed, Head(pending[t]))
               /\ pending' = [pending EXCEPT ![t] = Tail(@)]
               /\ FaultsMayPass

Start == /\ handed # <<>>
         /\ handed' = Tail(handed)
         /\ UNCHANGED <<pending, faultsLeft>>

\* Only a failure makes a job vanish, and it takes the head of one line.
Lose(t) == /\ pending[t] # <<>>
           /\ faultsLeft' < faultsLeft
           /\ pending' = [pending EXCEPT ![t] = Tail(@)]
           /\ UNCHANGED handed

HarmlessFault == faultsLeft' < faultsLeft /\ UNCHANGED <<pending, handed>>

Next == \/ \E j \in Jobs : Accept(j)
        \/ \E t \in Tenants : HandOver(t) \/ Lose(t)
        \/ Start
        \/ HarmlessFault

Spec == Init /\ [][Next]_vars
=============================================================================
