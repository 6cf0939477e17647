----------------------------- MODULE MailQueue -----------------------------
(***************************************************************************)
(* What the mail outbox promises to the code that enqueues into it,        *)
(* whatever the workers, the database and the provider do: every mail is   *)
(* handed to the provider at most MaxAttempts times, never once its        *)
(* outcome has been recorded, and "sent" is only recorded for a mail that  *)
(* the provider has accepted.  There are no workers, leases or clocks in   *)
(* this module; MailOutbox implements it.                                  *)
(***************************************************************************)
EXTENDS Naturals

CONSTANTS
    Mails,       \* identities of the messages
    MaxAttempts  \* maxDeliveryAttempts

VARIABLES
    outcome,     \* per mail: not enqueued, open, or its recorded outcome
    deliveries   \* per mail: times the provider accepted it

queueVars == <<outcome, deliveries>>

QueueInit ==
    /\ outcome = [m \in Mails |-> "absent"]
    /\ deliveries = [m \in Mails |-> 0]

\* A business transaction that enqueues the mail commits.
Submit(m) ==
    /\ outcome[m] = "absent"
    /\ outcome' = [outcome EXCEPT ![m] = "open"]
    /\ UNCHANGED deliveries

\* The provider accepts the mail; a repeated delivery is allowed (at least once).
Hand(m) ==
    /\ outcome[m] = "open"
    /\ deliveries[m] < MaxAttempts
    /\ deliveries' = [deliveries EXCEPT ![m] = @ + 1]
    /\ UNCHANGED outcome

\* Outcomes are recorded: for a set of mails, because one expiry scan closes several.
Close(S, result) ==
    /\ S # {}
    /\ \A m \in S : /\ outcome[m] = "open"
                    /\ result = "sent" => deliveries[m] > 0
    /\ outcome' = [m \in Mails |-> IF m \in S THEN result ELSE outcome[m]]
    /\ UNCHANGED deliveries

QueueNext ==
    \/ \E m \in Mails : Submit(m) \/ Hand(m)
    \/ \E S \in SUBSET Mails, result \in {"sent", "failed"} : Close(S, result)

QueueSpec == QueueInit /\ [][QueueNext]_queueVars
=============================================================================
