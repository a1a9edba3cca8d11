------------------------------- MODULE Worker -------------------------------
(***************************************************************************)
(* The worker of a server process (checkout.worker.ts): every ten seconds  *)
(* it works through the refunds, which Refund models, and through the      *)
(* confirmations, which Confirmation models.  The two loops touch no row   *)
(* of each other's.                                                        *)
(***************************************************************************)
EXTENDS Refund

CONSTANTS Jobs, Kind, Addressed, None,  \* as in Confirmation
          MaxClaims,                    \* bound: claims of a job
          MaxStalls                     \* bound: mails a dead processor hands back

VARIABLES job, work, fed, noticed, mail, sent, stalls, overrun  \* as in Confirmation

confirmation == <<job, work, fed, noticed, mail, sent, stalls, overrun>>

Delivery == INSTANCE Confirmation WITH MaxAttempts <- MaxClaims

(* A completed job was delivered, no two workers have one job under a live  *)
(* lease, and nobody gets two emails that no processor died on.             *)
ConfirmationsSafe == Delivery!ConfirmationsSafe
=============================================================================
