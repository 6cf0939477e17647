------------------------------- MODULE Hasher -------------------------------
(***************************************************************************)
(* The bounded password hasher (internal/platform/password).  Hash and     *)
(* Verify hold one of a fixed number of slots, the places of a buffered    *)
(* channel, while they compute.                                            *)
(*                                                                         *)
(* The channel is external: senders that find it full wait in order, and a *)
(* receive hands the place on to the first of them.  A select with two     *)
(* ready cases takes either.                                               *)
(***************************************************************************)
EXTENDS Naturals, FiniteSets, Sequences, SequencesExt

CONSTANTS
    Callers,     \* goroutines that call Hash or Verify
    Concurrency  \* places of the channel

ASSUME HasherConstants == IsFiniteSet(Callers) /\ Concurrency \in Nat \ {0}

VARIABLES
    used,       \* places taken in the channel
    waiters,    \* senders blocked on the channel, in order
    pc,         \* where each caller is
    cancelled   \* callers whose context is cancelled

slotVars == <<used, waiters, pc, cancelled>>

SlotInit ==
  /\ used = 0
  /\ waiters = <<>>
  /\ pc = [c \in Callers |-> "idle"]
  /\ cancelled = {}

----------------------------------------------------------------------------
Goto(c, label) == pc' = [pc EXCEPT ![c] = label]

\* Hash or Verify is called; acquire looks at the context first.
Call(c) ==
  /\ pc[c] = "idle"
  /\ Goto(c, "acquire")
  /\ UNCHANGED <<used, waiters, cancelled>>

Cancel(c) ==
  /\ pc[c] # "idle"
  /\ cancelled' = cancelled \union {c}
  /\ UNCHANGED <<used, waiters, pc>>

\* Every call has a context of its own.
Return(c) == Goto(c, "idle") /\ cancelled' = cancelled \ {c}

\* The context is over before, or is the ready case of the select.
Decline(c) ==
  /\ pc[c] = "acquire" /\ c \in cancelled
  /\ Return(c)
  /\ UNCHANGED <<used, waiters>>

\* A place is free and the select takes it.
Take(c) ==
  /\ pc[c] = "acquire" /\ used < Concurrency
  /\ used' = used + 1
  /\ Goto(c, "acquired")
  /\ UNCHANGED <<waiters, cancelled>>

\* No place is free: the select blocks on channel and context.
Wait(c) ==
  /\ pc[c] = "acquire" /\ used = Concurrency
  /\ waiters' = Append(waiters, c)
  /\ Goto(c, "waiting")
  /\ UNCHANGED <<used, cancelled>>

\* The context ends the wait.
GiveUp(c) ==
  /\ pc[c] = "waiting" /\ c \in cancelled
  /\ \E i \in DOMAIN waiters : waiters[i] = c /\ waiters' = RemoveAt(waiters, i)
  /\ Return(c)
  /\ UNCHANGED used

\* <-h.slots: the place goes to the first waiter, or becomes free; c returns.
Release(c) ==
  /\ cancelled' = cancelled \ {c}
  /\ IF waiters = <<>>
       THEN used' = used - 1 /\ Goto(c, "idle") /\ UNCHANGED waiters
       ELSE /\ waiters' = Tail(waiters)
            /\ pc' = [d \in Callers |-> CASE d = Head(waiters) -> "acquired"
                                          [] d = c -> "idle"
                                          [] OTHER -> pc[d]]
            /\ UNCHANGED used

\* Faulty variant: a context that ended during the wait returns without giving
\* the place back.
RecheckLeaking(c) ==
  /\ pc[c] = "acquired"
  /\ IF c \in cancelled THEN Return(c) /\ UNCHANGED <<used, waiters>>
     ELSE Goto(c, "working") /\ UNCHANGED <<used, waiters, cancelled>>

\* acquire looks at the context again and gives the place back when it is over.
Recheck(c) ==
  /\ pc[c] = "acquired"
  /\ IF c \in cancelled THEN Release(c)
     ELSE Goto(c, "working") /\ UNCHANGED <<used, waiters, cancelled>>

\* Faulty variant: the early return for a cancelled context skips the release.
FinishLeaking(c) ==
  /\ pc[c] = "working"
  /\ IF c \in cancelled THEN Return(c) /\ UNCHANGED <<used, waiters>> ELSE Release(c)

\* Hash and Verify compute, whatever becomes of the context; the deferred
\* function gives the place back on every way out.
Finish(c) ==
  /\ pc[c] = "working"
  /\ Release(c)

SlotNext == \E c \in Callers :
  \/ Call(c) \/ Cancel(c)
  \/ Decline(c) \/ Take(c) \/ Wait(c) \/ GiveUp(c) \/ Recheck(c) \/ Finish(c)

\* Goroutines run, and the hash functions come to an end.
SlotFairness == \A c \in Callers :
  WF_slotVars(Decline(c) \/ Take(c) \/ Wait(c) \/ GiveUp(c) \/ Recheck(c) \/ Finish(c))

SlotSpec == SlotInit /\ [][SlotNext]_slotVars /\ SlotFairness

----------------------------------------------------------------------------
\* Properties

Holders == {c \in Callers : pc[c] \in {"acquired", "working"}}

\* No place is lost and none is used twice: the places taken are exactly the
\* callers that hold one, never more than the limit on concurrent hashing, and
\* nobody waits while a place is free.
SlotsHeld ==
  /\ used = Cardinality(Holders) /\ used <= Concurrency
  /\ waiters # <<>> => used = Concurrency
  /\ ToSet(waiters) = {c \in Callers : pc[c] = "waiting"}

\* Every call ends, cancelled or not, although others keep calling.
CallsEnd == \A c \in Callers : pc[c] # "idle" ~> pc[c] = "idle"
=============================================================================
