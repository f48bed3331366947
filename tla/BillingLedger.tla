--------------------------- MODULE BillingLedger ---------------------------
(***************************************************************************)
(* billing-service: credit grants, billing windows and the durable ledger  *)
(* commands that carry their effects from PostgreSQL to TigerBeetle.       *)
(*                                                                         *)
(* One (org, product) and one SKU.  A thread is an HTTP request handler or *)
(* a River worker; between two of its steps every other thread may run.    *)
(* One step is one PostgreSQL transaction (READ COMMITTED) or one call to  *)
(* TigerBeetle.  A PostgreSQL error and a process crash both make the      *)
(* thread give up where it stands (Crash); time shows only as the expiry   *)
(* of a command's 30 second lease.                                         *)
(***************************************************************************)
EXTENDS Funding

CONSTANTS
    Windows,        \* billing_windows, one per source identity
    Requests,       \* request handlers
    Sweepers,       \* River workers of the ledger-dispatch scanner
    None,           \* no window, no command
    Entitled,       \* grants ensureCurrentEntitlements materialises
    Amount,         \* Amount[g]: credit_grants.amount
    Charge,         \* Charge[w]: reserved charge units of the window
    OverageConsent, \* contract with overage_policy bill_published_rate
    MaxAttempts,    \* ledgerCommandMaxAttempts
    MaxFaults       \* bound on ledger errors and crashes

Threads == Requests \cup Sweepers

\* A ledger command is named after its aggregate: its idempotency key is
\* "grant_deposit:<grant>" or "settle_window:<window>".
Commands == Grants \cup Windows

ASSUME LedgerAssumption ==
    /\ IsFiniteSet(Windows)
    /\ Receivable \notin Windows
    /\ Grants \cap Windows = {}
    /\ Requests \cap Sweepers = {}
    /\ None \notin Commands
    /\ Entitled \subseteq Grants
    /\ Amount \in [Grants -> Amounts]
    /\ Charge \in [Windows -> Amounts]
    /\ OverageConsent \in BOOLEAN
    /\ MaxAttempts \in Nat \ {0}
    /\ MaxFaults \in Nat

VARIABLES
    grantState,   \* credit_grants.ledger_posting_state
    windowState,  \* billing_windows.state
    reserved,     \* legs: amount_reserved per window and source
    posted,       \* legs: amount_posted per window and source
    cmdState,     \* billing_ledger_commands.state
    cmdAttempts,  \* billing_ledger_commands.attempts, up to MaxAttempts
    leaseHeld,    \* lease_expires_at lies in the future
    accounts,     \* TigerBeetle: grant accounts that exist
    credits,      \* TigerBeetle: credits_posted of the grant accounts
    debits,       \* TigerBeetle: debits_posted of the grant accounts
    applied,      \* TigerBeetle: commands whose transfers exist
    thread,       \* what each thread is doing
    faults        \* ledger errors and crashes so far

pgVars == <<grantState, windowState, reserved, posted>>
cmdVars == <<cmdState, cmdAttempts, leaseHeld>>
tbVars == <<accounts, credits, debits, applied>>
vars == <<pgVars, cmdVars, tbVars, thread, faults>>

GrantStates == {"absent", "pending", "in_progress", "posted", "retryable_failed"}
WindowStates == {"absent", "reserved", "active", "settling", "settled", "voided"}
CommandStates == {"absent", "pending", "in_progress", "retryable_failed",
                  "posted", "dead_letter"}
Steps == {"idle", "entitle", "authorize", "prepare", "lease", "accounts",
          "transfers", "mark_posted", "mark_failed", "grant_failed", "complete"}

(***************************************************************************)
(* pc      the next step                                                   *)
(* caller  whose dispatch this is: SettleWindow, the deposit of a grant,   *)
(*         or the ledger-dispatch scanner                                  *)
(* target  the aggregate whose command is dispatched and completed         *)
(* attempt attempts of the command as the lease returned them              *)
(* bill    charge units SettleWindow bills                                 *)
(* want    the window a ReserveWindow call is after                        *)
(* todo    grants PostPendingGrantDeposits still has to deposit            *)
(* listed  grants ListGrantBalancesForReservation locked                   *)
(* balance their TigerBeetle balances as hydrateGrantLedgerBalances read   *)
(***************************************************************************)
ThreadStates ==
    [pc : Steps, caller : {"none", "settle", "deposit", "sweep"},
     target : Commands \cup {None}, attempt : 0..MaxAttempts, bill : Amounts,
     want : Windows \cup {None}, todo : SUBSET Grants,
     listed : SUBSET Grants, balance : [Grants -> Int]]

Idle == [pc |-> "idle", caller |-> "none", target |-> None, attempt |-> 0,
         bill |-> 0, want |-> None, todo |-> {}, listed |-> {},
         balance |-> [g \in Grants |-> 0]]

NoLegs == [s \in Sources |-> 0]

Init ==
    /\ grantState = [g \in Grants |-> "absent"]
    /\ windowState = [w \in Windows |-> "absent"]
    /\ reserved = [w \in Windows |-> NoLegs]
    /\ posted = [w \in Windows |-> NoLegs]
    /\ cmdState = [c \in Commands |-> "absent"]
    /\ cmdAttempts = [c \in Commands |-> 0]
    /\ leaseHeld = [c \in Commands |-> FALSE]
    /\ accounts = {}
    /\ credits = [g \in Grants |-> 0]
    /\ debits = [g \in Grants |-> 0]
    /\ applied = {}
    /\ thread = [t \in Threads |-> Idle]
    /\ faults = 0
----------------------------------------------------------------------------
(* Helpers.                                                                *)

Goto(t, step) == thread' = [thread EXCEPT ![t].pc = step]

Return(t) == thread' = [thread EXCEPT ![t] = Idle]

\* FOR UPDATE OF g: the rows a reservation transaction has locked.
Locked(g) == \E t \in Threads : thread[t].pc = "authorize" /\ g \in thread[t].listed

\* ON CONFLICT (idempotency_key) DO NOTHING: an existing command is kept.
CreateLedgerCommand(c) ==
    /\ cmdState' = [cmdState EXCEPT ![c] = IF @ = "absent" THEN "pending" ELSE @]
    /\ UNCHANGED <<cmdAttempts, leaseHeld>>

\* An open hold: amount_posted while settling, amount_reserved before.
Hold(w, g) ==
    CASE windowState[w] \in {"reserved", "active"} -> reserved[w][g]
      [] windowState[w] = "settling" -> posted[w][g]
      [] OTHER -> 0

\* ListAuthorizedGrantUsage for one grant.
AuthorizedUsage(g) == SumOf(Windows, [w \in Windows |-> Hold(w, g)])
----------------------------------------------------------------------------
(* Grants and their deposits.                                              *)

\* The purchase or promo grant row is inserted, then deposited.
DepositCredits(t, g) ==
    /\ thread[t].pc = "idle"
    /\ g \notin Entitled
    /\ grantState' = [grantState EXCEPT ![g] = IF @ = "absent" THEN "pending" ELSE @]
    /\ thread' = [thread EXCEPT ![t].pc = "entitle", ![t].todo = {g}]
    /\ UNCHANGED <<windowState, reserved, posted, cmdVars, tbVars, faults>>

\* The current period's grants, then the list of the ones not deposited.
EnsureCurrentEntitlements(t, w) ==
    /\ thread[t].pc = "idle"
    /\ w \in Windows => windowState[w] = "absent"
    /\ grantState' = [g \in Grants |-> IF g \in Entitled /\ grantState[g] = "absent"
                                        THEN "pending" ELSE grantState[g]]
    /\ thread' = [thread EXCEPT ![t].pc = "entitle", ![t].want = w,
                    ![t].todo = {g \in Grants :
                        grantState'[g] \in {"pending", "retryable_failed"}}]
    /\ UNCHANGED <<windowState, reserved, posted, cmdVars, tbVars, faults>>

PostGrantDeposit(t, g) ==
    /\ thread[t].pc = "entitle"
    /\ g \in thread[t].todo
    /\ ~ Locked(g)
    /\ CreateLedgerCommand(g)
    /\ grantState' = [grantState EXCEPT ![g] = IF @ = "posted" THEN @ ELSE "in_progress"]
    /\ thread' = [thread EXCEPT ![t].pc = "lease", ![t].caller = "deposit",
                                ![t].target = g, ![t].todo = @ \ {g}]
    /\ UNCHANGED <<windowState, reserved, posted, tbVars, faults>>

\* Every listed grant was deposited and no window is asked for.
EntitlementsEnsured(t) ==
    /\ thread[t].pc = "entitle"
    /\ thread[t].todo = {}
    /\ thread[t].want = None
    /\ Return(t)
    /\ UNCHANGED <<pgVars, cmdVars, tbVars, faults>>
----------------------------------------------------------------------------
(* Dispatch of a ledger command: lease, TigerBeetle calls, outcome.        *)

\* Mutant: an expired lease is not taken over.
LeasableOnce(c) == cmdState[c] \in {"pending", "retryable_failed"}

Leasable(c) ==
    \/ cmdState[c] \in {"pending", "retryable_failed"}
    \/ cmdState[c] = "in_progress" /\ ~ leaseHeld[c]

LeaseLedgerCommand(t) ==
    /\ thread[t].pc = "lease"
    /\ LET c == thread[t].target
           n == IF cmdAttempts[c] < MaxAttempts THEN cmdAttempts[c] + 1 ELSE MaxAttempts
       IN  /\ Leasable(c)
           /\ cmdState' = [cmdState EXCEPT ![c] = "in_progress"]
           /\ cmdAttempts' = [cmdAttempts EXCEPT ![c] = n]
           /\ leaseHeld' = [leaseHeld EXCEPT ![c] = TRUE]
           /\ thread' = [thread EXCEPT ![t].attempt = n,
                            ![t].pc = IF c \in Grants THEN "accounts" ELSE "transfers"]
    /\ UNCHANGED <<pgVars, tbVars, faults>>

\* No row to lease: dispatchLedgerCommand returns nil and the caller goes on.
LeaseRefused(t) ==
    /\ thread[t].pc = "lease"
    /\ ~ Leasable(thread[t].target)
    /\ Goto(t, "complete")
    /\ UNCHANGED <<pgVars, cmdVars, tbVars, faults>>

CreateAccounts(t) ==
    /\ thread[t].pc = "accounts"
    /\ accounts' = accounts \cup {thread[t].target}
    /\ Goto(t, "transfers")
    /\ UNCHANGED <<pgVars, cmdVars, credits, debits, applied, faults>>

\* debits_must_not_exceed_credits on every customer grant account.
ExceedsCredits(c) ==
    /\ c \in Windows
    /\ c \notin applied
    /\ \E g \in Grants : debits[g] + posted[c][g] > credits[g]

\* Mutant: a retry allocates new transfer ids.
ApplyTransfersAgain(c) ==
    /\ ~ ExceedsCredits(c)
    /\ applied' = applied \cup {c}
    /\ credits' = [g \in Grants |-> IF c = g THEN credits[g] + Amount[g] ELSE credits[g]]
    /\ debits' = [g \in Grants |-> IF c \in Windows
                                    THEN debits[g] + posted[c][g] ELSE debits[g]]

(***************************************************************************)
(* TigerBeetle: the linked transfers of a command exist or take effect     *)
(* together.  A transfer id that exists is accepted again without effect.  *)
(***************************************************************************)
ApplyTransfers(c) ==
    /\ ~ ExceedsCredits(c)
    /\ applied' = applied \cup {c}
    /\ credits' = [g \in Grants |-> IF c = g /\ c \notin applied
                                     THEN credits[g] + Amount[g] ELSE credits[g]]
    /\ debits' = [g \in Grants |-> IF c \in Windows \ applied
                                    THEN debits[g] + posted[c][g] ELSE debits[g]]

CreateTransfers(t) ==
    /\ thread[t].pc = "transfers"
    /\ ApplyTransfers(thread[t].target)
    /\ Goto(t, "mark_posted")
    /\ UNCHANGED <<pgVars, cmdVars, accounts, faults>>

TransfersRefused(t) ==
    /\ thread[t].pc = "transfers"
    /\ ExceedsCredits(thread[t].target)
    /\ Goto(t, "mark_failed")
    /\ UNCHANGED <<pgVars, cmdVars, tbVars, faults>>

\* Mutant: the error of the call is dropped.
LedgerErrorIgnored(t) ==
    /\ thread[t].pc \in {"accounts", "transfers"}
    /\ faults < MaxFaults
    /\ faults' = faults + 1
    /\ Goto(t, "mark_posted")
    /\ UNCHANGED <<pgVars, cmdVars, tbVars>>

\* The call fails and has no effect.
LedgerUnavailable(t) ==
    /\ thread[t].pc \in {"accounts", "transfers"}
    /\ faults < MaxFaults
    /\ faults' = faults + 1
    /\ Goto(t, "mark_failed")
    /\ UNCHANGED <<pgVars, cmdVars, tbVars>>

\* The transfers take effect but the caller sees an error.
AcknowledgementLost(t) ==
    /\ thread[t].pc = "transfers"
    /\ faults < MaxFaults
    /\ faults' = faults + 1
    /\ ApplyTransfers(thread[t].target)
    /\ Goto(t, "mark_failed")
    /\ UNCHANGED <<pgVars, cmdVars, accounts>>

MarkLedgerCommandPosted(t) ==
    /\ thread[t].pc = "mark_posted"
    /\ cmdState' = [cmdState EXCEPT ![thread[t].target] = "posted"]
    /\ leaseHeld' = [leaseHeld EXCEPT ![thread[t].target] = FALSE]
    /\ Goto(t, "complete")
    /\ UNCHANGED <<pgVars, cmdAttempts, tbVars, faults>>

\* The update is not conditional on the state or on the attempt.
MarkLedgerCommandFailed(t) ==
    /\ thread[t].pc = "mark_failed"
    /\ cmdState' = [cmdState EXCEPT ![thread[t].target] =
            IF thread[t].attempt >= MaxAttempts THEN "dead_letter" ELSE "retryable_failed"]
    /\ leaseHeld' = [leaseHeld EXCEPT ![thread[t].target] = FALSE]
    /\ IF thread[t].caller = "deposit" THEN Goto(t, "grant_failed") ELSE Return(t)
    /\ UNCHANGED <<pgVars, cmdAttempts, tbVars, faults>>

\* The failure could not be recorded; that error is dropped, and a deposit
\* still marks its grant.
FailureNotRecorded(t) ==
    /\ thread[t].pc = "mark_failed"
    /\ thread[t].caller = "deposit"
    /\ faults < MaxFaults
    /\ faults' = faults + 1
    /\ Goto(t, "grant_failed")
    /\ UNCHANGED <<pgVars, cmdVars, tbVars>>

MarkGrantLedgerPostingFailed(t) ==
    /\ thread[t].pc = "grant_failed"
    /\ ~ Locked(thread[t].target)
    /\ grantState' = [grantState EXCEPT ![thread[t].target] = "retryable_failed"]
    /\ Return(t)
    /\ UNCHANGED <<windowState, reserved, posted, cmdVars, tbVars, faults>>

\* The aggregate's own transition.  A deposit goes on with the next grant.
MarkGrantLedgerPostingPosted(t) ==
    /\ thread[t].pc = "complete"
    /\ thread[t].target \in Grants
    /\ ~ Locked(thread[t].target)
    /\ grantState' = [grantState EXCEPT ![thread[t].target] = "posted"]
    /\ IF thread[t].caller = "deposit"
          THEN thread' = [thread EXCEPT ![t].pc = "entitle", ![t].caller = "none",
                                        ![t].target = None, ![t].attempt = 0]
          ELSE Return(t)
    /\ UNCHANGED <<windowState, reserved, posted, cmdVars, tbVars, faults>>

MarkWindowSettlementPosted(t) ==
    /\ thread[t].pc = "complete"
    /\ thread[t].target \in Windows
    /\ windowState' = [windowState EXCEPT ![thread[t].target] =
                            IF @ = "settling" THEN "settled" ELSE @]
    /\ Return(t)
    /\ UNCHANGED <<grantState, reserved, posted, cmdVars, tbVars, faults>>
----------------------------------------------------------------------------
(* The ledger-dispatch scanner.                                            *)

Unfinished(c) ==
    \/ c \in Grants /\ grantState[c] # "posted"
    \/ c \in Windows /\ windowState[c] = "settling"

\* Mutant: a posted command whose aggregate is unfinished is not listed.
DispatchUnpostedOnly(t, c) ==
    /\ thread[t].pc = "idle"
    /\ Leasable(c)
    /\ thread' = [thread EXCEPT ![t].caller = "sweep", ![t].target = c, ![t].pc = "lease"]
    /\ UNCHANGED <<pgVars, cmdVars, tbVars, faults>>

\* One command of ListPendingLedgerCommands, dispatched or only completed.
DispatchPendingLedgerCommands(t, c) ==
    /\ thread[t].pc = "idle"
    /\ Leasable(c) \/ (cmdState[c] = "posted" /\ Unfinished(c))
    /\ thread' = [thread EXCEPT ![t].caller = "sweep", ![t].target = c,
                    ![t].pc = IF cmdState[c] = "posted" THEN "complete" ELSE "lease"]
    /\ UNCHANGED <<pgVars, cmdVars, tbVars, faults>>

LeaseExpires(c) ==
    /\ leaseHeld[c]
    /\ leaseHeld' = [leaseHeld EXCEPT ![c] = FALSE]
    /\ UNCHANGED <<pgVars, cmdState, cmdAttempts, tbVars, thread, faults>>
----------------------------------------------------------------------------
(* Billing windows.                                                        *)

\* pg_advisory_xact_lock on the (org, product), held until commit.
ProductLockFree == \A t \in Threads : thread[t].pc # "authorize"

\* Mutant: the balance is the amount column, not what the ledger holds.
HydrateFromGrantRows(t) ==
    /\ thread[t].pc = "entitle"
    /\ thread[t].todo = {}
    /\ thread[t].want \in Windows
    /\ ProductLockFree
    /\ LET open == {g \in Grants : grantState[g] # "absent"}
       IN  IF windowState[thread[t].want] = "absent"
           THEN thread' = [thread EXCEPT ![t].pc = "authorize", ![t].listed = open,
                    ![t].balance = [g \in Grants |-> IF g \in open THEN Amount[g] ELSE 0]]
           ELSE Return(t)
    /\ UNCHANGED <<pgVars, cmdVars, tbVars, faults>>

\* Lock, list the open grants, read their balances from TigerBeetle.
HydrateGrantLedgerBalances(t) ==
    /\ thread[t].pc = "entitle"
    /\ thread[t].todo = {}
    /\ thread[t].want \in Windows
    /\ ProductLockFree
    /\ LET open == {g \in Grants : grantState[g] # "absent"}
       IN  IF open \subseteq accounts /\ windowState[thread[t].want] = "absent"
           THEN thread' = [thread EXCEPT ![t].pc = "authorize", ![t].listed = open,
                    ![t].balance = [g \in Grants |->
                        IF g \in open THEN credits[g] - debits[g] ELSE 0]]
           ELSE Return(t)    \* ErrAccountNotFound, or the row exists already
    /\ UNCHANGED <<pgVars, cmdVars, tbVars, faults>>

\* TigerBeetle balance less the holds, a later read, never below zero.
Available(t, s) ==
    IF s = Receivable
    THEN IF OverageConsent THEN Charge[thread[t].want] ELSE 0
    ELSE LET left == thread[t].balance[s] - AuthorizedUsage(s)
         IN  IF left > 0 THEN left ELSE 0

\* Read the holds, fund the window, insert it with its legs, commit.
ReserveWindow(t) ==
    /\ thread[t].pc = "authorize"
    /\ LET w == thread[t].want
           legs == Waterfall([s \in Sources |-> Available(t, s)], Charge[w])
       IN  IF SumOf(Sources, legs) < Charge[w]
           THEN UNCHANGED pgVars        \* ErrInsufficientBalance
           ELSE /\ windowState' = [windowState EXCEPT ![w] = "reserved"]
                /\ reserved' = [reserved EXCEPT ![w] = legs]
                /\ UNCHANGED <<grantState, posted>>
    /\ Return(t)
    /\ UNCHANGED <<cmdVars, tbVars, faults>>

ActivateWindow(w) ==
    /\ windowState[w] = "reserved"
    /\ windowState' = [windowState EXCEPT ![w] = "active"]
    /\ UNCHANGED <<grantState, reserved, posted, cmdVars, tbVars, thread, faults>>

\* Mutant: a window that is being settled can be voided.
VoidAnyOpenWindow(w) ==
    /\ windowState[w] \in {"reserved", "active", "settling"}
    /\ windowState' = [windowState EXCEPT ![w] = "voided"]
    /\ posted' = [posted EXCEPT ![w] = NoLegs]
    /\ UNCHANGED <<grantState, reserved, cmdVars, tbVars, thread, faults>>

VoidWindow(w) ==
    /\ windowState[w] \in {"reserved", "active"}
    /\ windowState' = [windowState EXCEPT ![w] = "voided"]
    /\ posted' = [posted EXCEPT ![w] = NoLegs]
    /\ UNCHANGED <<grantState, reserved, cmdVars, tbVars, thread, faults>>

\* Load the window and compute the bill; usage past the reservation is
\* written off.
SettleWindow(t, w, actual) ==
    /\ thread[t].pc = "idle"
    /\ windowState[w] \in {"reserved", "active"}
    /\ thread' = [thread EXCEPT ![t].pc = "prepare", ![t].caller = "settle",
                    ![t].target = w,
                    ![t].bill = IF actual > Charge[w] THEN Charge[w] ELSE actual]
    /\ UNCHANGED <<pgVars, cmdVars, tbVars, faults>>

\* Mutant: the state loaded before the transaction is trusted.
PrepareWithoutRecheck(t) ==
    /\ thread[t].pc = "prepare"
    /\ LET w == thread[t].target
           legs == Waterfall(reserved[w], thread[t].bill)
       IN  /\ windowState' = [windowState EXCEPT ![w] = "settling"]
           /\ posted' = [posted EXCEPT ![w] = legs]
           /\ IF \E g \in Grants : legs[g] > 0
              THEN CreateLedgerCommand(w) /\ Goto(t, "lease")
              ELSE UNCHANGED cmdVars /\ Goto(t, "complete")
    /\ UNCHANGED <<grantState, reserved, tbVars, faults>>

(***************************************************************************)
(* The prepare transaction.  A window that left reserved/active since the  *)
(* load is left alone, and so is a settlement with no grant-backed leg     *)
(* left without a command: both go straight to the completion.             *)
(***************************************************************************)
PrepareBillingWindowSettlement(t) ==
    /\ thread[t].pc = "prepare"
    /\ LET w == thread[t].target
           legs == Waterfall(reserved[w], thread[t].bill)
       IN  IF windowState[w] \in {"reserved", "active"}
           THEN /\ windowState' = [windowState EXCEPT ![w] = "settling"]
                /\ posted' = [posted EXCEPT ![w] = legs]
                /\ IF \E g \in Grants : legs[g] > 0
                   THEN CreateLedgerCommand(w) /\ Goto(t, "lease")
                   ELSE UNCHANGED cmdVars /\ Goto(t, "complete")
           ELSE UNCHANGED <<windowState, posted, cmdVars>> /\ Goto(t, "complete")
    /\ UNCHANGED <<grantState, reserved, tbVars, faults>>
----------------------------------------------------------------------------
Crash(t) ==
    /\ thread[t].pc # "idle"
    /\ faults < MaxFaults
    /\ faults' = faults + 1
    /\ Return(t)
    /\ UNCHANGED <<pgVars, cmdVars, tbVars>>

\* The steps a thread takes once it has started.
ThreadStep(t) ==
    \/ \E g \in Grants : PostGrantDeposit(t, g)
    \/ EntitlementsEnsured(t)
    \/ LeaseLedgerCommand(t)
    \/ LeaseRefused(t)
    \/ CreateAccounts(t)
    \/ CreateTransfers(t)
    \/ TransfersRefused(t)
    \/ LedgerUnavailable(t)
    \/ AcknowledgementLost(t)
    \/ MarkLedgerCommandPosted(t)
    \/ MarkLedgerCommandFailed(t)
    \/ FailureNotRecorded(t)
    \/ MarkGrantLedgerPostingFailed(t)
    \/ MarkGrantLedgerPostingPosted(t)
    \/ MarkWindowSettlementPosted(t)
    \/ HydrateGrantLedgerBalances(t)
    \/ ReserveWindow(t)
    \/ PrepareBillingWindowSettlement(t)

StartRequest(t) ==
    \/ \E g \in Grants : DepositCredits(t, g)
    \/ \E w \in Windows \cup {None} : EnsureCurrentEntitlements(t, w)
    \/ \E w \in Windows : \E actual \in 0..Charge[w] + 1 : SettleWindow(t, w, actual)

Next ==
    \/ \E t \in Threads : ThreadStep(t)
    \/ \E t \in Requests : StartRequest(t)
    \/ \E t \in Sweepers, c \in Commands : DispatchPendingLedgerCommands(t, c)
    \/ \E t \in Threads : Crash(t)
    \/ \E w \in Windows : ActivateWindow(w)
    \/ \E w \in Windows : VoidWindow(w)
    \/ \E c \in Commands : LeaseExpires(c)

Spec == Init /\ [][Next]_vars
----------------------------------------------------------------------------
(* Properties.                                                             *)

TypeOK ==
    /\ grantState \in [Grants -> GrantStates]
    /\ windowState \in [Windows -> WindowStates]
    /\ reserved \in [Windows -> [Sources -> Amounts]]
    /\ posted \in [Windows -> [Sources -> Amounts]]
    /\ cmdState \in [Commands -> CommandStates]
    /\ cmdAttempts \in [Commands -> 0..MaxAttempts]
    /\ leaseHeld \in [Commands -> BOOLEAN]
    /\ accounts \subseteq Grants
    /\ credits \in [Grants -> Nat]
    /\ debits \in [Grants -> Nat]
    /\ applied \subseteq Commands
    /\ thread \in [Threads -> ThreadStates]
    /\ faults \in 0..MaxFaults

GrantBacked(w) == \E g \in Grants : posted[w][g] > 0

\* Spend the ledger carries for the grant on behalf of the windows in W.
SpendOf(W, g) == SumOf(W, [w \in Windows |-> posted[w][g]])

\* Retries, lost acknowledgements, expired leases and crashes never spend or
\* deposit twice: the ledger carries exactly the posted legs of the windows
\* whose transfers exist and the amount of each deposited grant.
LedgerExactlyOnce ==
    \A g \in Grants :
        /\ debits[g] = SpendOf(applied \cap Windows, g)
        /\ credits[g] = IF g \in applied THEN Amount[g] ELSE 0

\* A window that was voided was never charged, whatever settlement calls
\* raced with VoidWindow.
VoidedNeverCharged ==
    \A w \in Windows : windowState[w] = "voided" => w \notin applied

\* Whatever marked a window settled, a grant-backed spend is in the ledger or
\* its command is still in the outbox, not posted and not lost.
SpendNeverLost ==
    \A w \in Windows :
        (windowState[w] \in {"settling", "settled"} /\ GrantBacked(w))
            => \/ w \in applied
               \/ cmdState[w] \in {"pending", "in_progress", "retryable_failed", "dead_letter"}

\* A reservation is only ever funded by deposits TigerBeetle holds, although
\* ListGrantBalancesForReservation does not look at ledger_posting_state.
FundedByDeposits ==
    \A w \in Windows, g \in Grants : reserved[w][g] > 0 => g \in applied

\* From the prepare transaction on the legs are what the persisted command
\* pays, and a terminal window never leaves its state.
SettlementFrozen ==
    [][\A w \in Windows :
        /\ windowState[w] \in {"settling", "settled", "voided"} =>
                posted'[w] = posted[w] /\ reserved'[w] = reserved[w]
        /\ windowState[w] \in {"settled", "voided"} => windowState'[w] = windowState[w]
      ]_vars

\* What a thread knows where it stands: the command it dispatches exists, it
\* acknowledges only transfers that exist, and the window it is about to
\* insert is still absent and funded by balances of deposited grants only.
ThreadCoherent(t) ==
    LET th == thread[t]
    IN  /\ th.caller = "deposit" => th.target \in Grants
        /\ th.pc \in {"accounts", "grant_failed"} => th.target \in Grants
        /\ th.pc = "prepare" => th.target \in Windows
        /\ th.pc \in {"lease", "transfers", "mark_posted", "mark_failed", "complete"} =>
                th.target \in Commands
        /\ th.pc \in {"lease", "accounts", "transfers", "mark_posted", "mark_failed"} =>
                cmdState[th.target] # "absent"
        /\ th.pc = "mark_posted" => th.target \in applied
        /\ th.pc = "authorize" =>
                /\ th.want \in Windows
                /\ windowState[th.want] = "absent"
                /\ \A g \in Grants : th.balance[g] > 0 => g \in applied

\* A command is posted only if its transfers exist, transfers exist only if
\* their command does, a window has a command only once it was prepared, and
\* then always if a leg of it is grant-backed.
CommandsMatch ==
    /\ \A c \in Commands : cmdState[c] = "posted" => c \in applied
    /\ \A c \in applied : cmdState[c] # "absent"
    /\ \A w \in Windows : cmdState[w] # "absent" => windowState[w] \in {"settling", "settled"}
    /\ \A w \in Windows : (windowState[w] \in {"settling", "settled"} /\ GrantBacked(w)) =>
            cmdState[w] # "absent"

\* Between any two steps the outbox, the domain rows and the ledger agree, with
\* each other and with what every thread knows, and one thread at most is
\* between reading balances and committing a reservation.
OutboxCoherent ==
    /\ \A t \in Threads : ThreadCoherent(t)
    /\ \A t, u \in Threads : thread[t].pc = "authorize" /\ thread[u].pc = "authorize" => t = u
    /\ CommandsMatch

Contract == INSTANCE WindowContract
    WITH window <- windowState, legs <- posted, paid <- applied \cap Windows,
         Legs <- [Sources -> Amounts]

\* With all its threads, retries and failures the code keeps what
\* WindowContract promises: each window moves forward only, and its grants pay
\* the prepared legs once, after the preparation.
KeepsContract == Contract!Spec
----------------------------------------------------------------------------
(* Liveness.  Threads that have started keep going, past the locks that    *)
(* PostgreSQL hands over in order of arrival; River keeps running the      *)
(* ledger-dispatch scanner, and a lease that nobody ends expires.          *)

FairSpec ==
    /\ Spec
    /\ \A t \in Threads : SF_vars(ThreadStep(t))
    /\ \A t \in Sweepers : WF_vars(\E c \in Commands : DispatchPendingLedgerCommands(t, c))
    /\ \A c \in Commands : WF_vars(LeaseExpires(c))

\* A settlement that spends grant credit reaches TigerBeetle and ends settled
\* without anyone calling again, or its command is dead-lettered.
SettlementReachesLedger ==
    \A w \in Windows :
        (windowState[w] = "settling" /\ GrantBacked(w))
            ~> \/ windowState[w] = "settled" /\ w \in applied
               \/ cmdState[w] = "dead_letter"

\* A deposit that was started makes its grant spendable without anyone
\* calling again, or its command is dead-lettered.
DepositReachesLedger ==
    \A g \in Grants :
        cmdState[g] = "pending" ~> \/ grantState[g] = "posted" /\ g \in applied
                                   \/ cmdState[g] = "dead_letter"
============================================================================
