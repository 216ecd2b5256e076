------------------------------- MODULE MacTx -------------------------------
(***************************************************************************)
(* What one call of the MAC send entry point promises, with channel access *)
(* hidden: a send is a run of at most MaxRetries attempts; every attempt   *)
(* ends in one outcome (a channel-access failure code or the result of the *)
(* physical transmit); a collision, or any failure of a frame that asks    *)
(* for an acknowledgment, is retried; anything else ends the send.  The   *)
(* result reported to the caller is the outcome of the last attempt.       *)
(***************************************************************************)
EXTENDS Naturals

CONSTANTS
  Outcomes,      \* every outcome an attempt can end in
  ERR_NONE,      \* the outcome of a successful attempt
  ERR_COLLISION, \* the outcome of a transmit that collided
  MaxRetries,    \* the fixed retry budget of mac_send
  NULL

VARIABLES
  busy,      \* a send call is in progress
  ack,       \* the frame of the current (or last) call requests an ACK
  attempts,  \* attempts finished in the current call
  last,      \* outcome of the last finished attempt, NULL before the first
  reported   \* result handed back by the last completed call

avars == <<busy, ack, attempts, last, reported>>

\* An outcome worth another attempt.
Retryable(o, a) == o = ERR_COLLISION \/ (a /\ o # ERR_NONE)

\* The call has nothing left to try.
Finished == attempts > 0 /\ (attempts = MaxRetries \/ ~Retryable(last, ack))

AInit ==
  /\ busy = FALSE
  /\ ack \in BOOLEAN
  /\ attempts = 0
  /\ last = NULL
  /\ reported = NULL

Start(a) ==
  /\ ~busy
  /\ busy' = TRUE
  /\ ack' = a
  /\ attempts' = 0
  /\ last' = NULL
  /\ UNCHANGED reported

Attempt(o) ==
  /\ busy
  /\ ~Finished
  /\ attempts' = attempts + 1
  /\ last' = o
  /\ UNCHANGED <<busy, ack, reported>>

Complete ==
  /\ busy
  /\ Finished
  /\ busy' = FALSE
  /\ reported' = last
  /\ UNCHANGED <<ack, attempts, last>>

ANext ==
  \/ \E a \in BOOLEAN : Start(a)
  \/ \E o \in Outcomes : Attempt(o)
  \/ Complete

\* A started call always comes to an end.
ASpec == AInit /\ [][ANext]_avars /\ WF_avars(Complete)
                                  /\ WF_avars(\E o \in Outcomes : Attempt(o))
=============================================================================
