---------------------------- MODULE VMLeases ----------------------------
(***************************************************************************)
(* The lease life cycle of vm-orchestrator: the RPC handlers of server.go, *)
(* the actor that owns each lease and its mailbox, the boot goroutine and  *)
(* the host resources it claims step by step (ZFS clone, network slot,     *)
(* Firecracker process), the exec goroutine, the SQLite host ledger, and a *)
(* crash and restart of the daemon with its startup recovery.              *)
(*                                                                         *)
(* Abstractions.                                                           *)
(*  - A call c makes one RPC; the exec a StartExec call creates carries    *)
(*    the name of the call.                                                *)
(*  - Time is what remains to a deadline: Tick brings every deadline one   *)
(*    unit closer, and a lease is overdue when nothing remains.            *)
(*  - runtime.Cleanup, a boot step and a ledger transaction are atomic.    *)
(*  - A boot step may fail for any reason of the host; a canceled boot     *)
(*    context makes the next step fail.  The ledger writes that fail and   *)
(*    the restarts are at most MaxFaults together.                         *)
(*  - Telemetry, lease events, spans and read-only RPCs change no state    *)
(*    modelled here.                                                       *)
(***************************************************************************)
EXTENDS Naturals, Sequences, FiniteSets

CONSTANTS
    Leases,       \* lease ids newHostID returns, numbered in order of use
    Calls,        \* the RPCs callers make, numbered in order of arrival
    Keys,         \* idempotency keys
    Slots,        \* guest network slots, numbered from 0
    NoLease, NoCall,
    MailboxCap,   \* capacity of an actor's mailbox (16 in the code)
    TTL,          \* ttl_seconds of a lease spec, in units of Tick
    Extend,       \* extend_seconds of a renewal
    MaxRemaining, \* the 24 hour cap of RenewLease
    MaxFaults     \* failed ledger writes and restarts, together

ASSUME LeasesAssumption ==
    /\ Leases \subseteq Nat /\ Calls \subseteq Nat
    /\ NoLease \notin Leases /\ NoCall \notin Calls
    /\ Slots \subseteq Nat /\ IsFiniteSet(Slots)
    /\ MailboxCap \in Nat \ {0} /\ TTL \in Nat \ {0} /\ Extend \in Nat
    /\ MaxRemaining \in Nat /\ TTL <= MaxRemaining
    /\ MaxFaults \in Nat

VARIABLES
    row,       \* leases.state in the host ledger
    actor,     \* vmActor: goroutine, state, runtime, active exec, map entry
    mailbox,   \* vmActor.mailbox
    remaining, \* what is left of vmActor.expires (and of leases.expires)
    boot,      \* where the boot goroutine is
    canceled,  \* its context was canceled
    disk,      \* leases whose ZFS clones exist
    slot,      \* network_slots: the lease and whether a pid is attached
    proc,      \* leases whose Firecracker process exists
    execRow,   \* execs.state in the host ledger
    executing, \* execs whose goroutine has not returned
    call,      \* the RPCs
    idem,      \* idempotency rows, per scope and key
    draining,
    faults, restarts

vars == <<row, actor, mailbox, remaining, boot, canceled, disk, slot, proc,
          execRow, executing, call, idem, draining, faults, restarts>>
host == <<disk, slot, proc>>
execs == <<execRow, executing>>

Terminal == {"released", "expired", "crashed"}
RowStates == {"none", "acquiring", "ready"} \cup Terminal
BootSteps == {"none", "clone", "network", "jailer", "attach", "guest", "up",
              "failed", "sent"}
Ops == {"acquire", "renew", "release", "start", "cancel", "commit"}

\* The scope of an idempotency row: AcquireLease, or StartExec on a lease.
Scopes == Leases \cup {NoLease}

Commands == [op : Ops \cup {"boot", "done"}, from : Calls \cup {NoCall},
             ok : BOOLEAN]

NoActor == [run |-> "none", state |-> "none", known |-> FALSE,
            runtime |-> FALSE, active |-> NoCall]
NewCall == [op |-> "none", lease |-> NoLease, key |-> NoCall, pc |-> "new",
            arg |-> 0, exec |-> NoCall, out |-> "none"]
FreeSlot == [lease |-> NoLease, pid |-> FALSE]

Init ==
    /\ row = [l \in Leases |-> "none"]
    /\ actor = [l \in Leases |-> NoActor]
    /\ mailbox = [l \in Leases |-> <<>>]
    /\ remaining = [l \in Leases |-> 0]
    /\ boot = [l \in Leases |-> "none"]
    /\ canceled = {} /\ disk = {} /\ proc = {}
    /\ slot = [s \in Slots |-> FreeSlot]
    /\ execRow = [c \in Calls |-> "none"] /\ executing = {}
    /\ call = [c \in Calls |-> NewCall]
    /\ idem = [s \in Scopes |-> [k \in Keys |-> NoLease]]
    /\ draining = FALSE /\ faults = 0 /\ restarts = 0

----------------------------------------------------------------------------
(* Helpers *)

Running(l) == actor[l].run = "running"

\* Calls and leases are numbered in the order they begin.
Begins(c) == call[c].pc = "new" /\ \A d \in Calls : d < c => call[d].pc # "new"
Fresh(l) == actor[l].run = "none" /\ \A m \in Leases : m < l => actor[m].run # "none"

MinOf(a, b) == IF a <= b THEN a ELSE b
Cmd(op, c) == [op |-> op, from |-> c, ok |-> TRUE]

\* vmActor.send: a select over the mailbox, the actor's done channel and a
\* two second timer.  A stopped actor still has a mailbox with room.
Accepts(l) == Len(mailbox[l]) < MailboxCap
Refuses(l) == ~Running(l) \/ Len(mailbox[l]) = MailboxCap
Enqueue(l, cmd) == mailbox' = [mailbox EXCEPT ![l] = Append(@, cmd)]

\* Replies go to a channel of capacity one: a caller that has left is not
\* disturbed.  AcquireLease and StartExec have a step left after the reply.
Reply(c, ok) ==
    call' = IF c \in Calls /\ call[c].pc = "wait"
            THEN [call EXCEPT ![c] = [@ EXCEPT
                     !.pc = IF call[c].op \in {"acquire", "start"} THEN "replied" ELSE "done",
                     !.out = IF ok THEN "ok" ELSE "err", !.arg = 0]]
            ELSE call

\* LeaseRuntime.Cleanup and Allocator.Release: the lease's datasets, process
\* and network slot are gone.
FreeSlotOf(l) == [s \in Slots |-> IF slot[s].lease = l THEN FreeSlot ELSE slot[s]]
Cleanup(l) ==
    /\ disk' = disk \ {l}
    /\ slot' = FreeSlotOf(l)
    /\ proc' = proc \ {l}

\* finishLease: UPDATE ... WHERE state NOT IN (terminal states).
FinishLease(l, state) ==
    [row EXCEPT ![l] = IF @ \in Terminal \cup {"none"} THEN @ ELSE state]

\* A ledger write that fails spends one of the faults.
StoreFails == faults + restarts < MaxFaults /\ faults' = faults + 1
StoreWorks == UNCHANGED faults

----------------------------------------------------------------------------
(* RPC handlers *)

\* AcquireLease up to the acquireCmd: a key already answered returns the
\* prior lease, a draining daemon refuses, otherwise a fresh lease gets an
\* actor.
AcquireLease(c, k) ==
    /\ Begins(c)
    /\ \/ /\ idem[NoLease][k] # NoLease
          /\ call' = [call EXCEPT ![c] = [@ EXCEPT !.op = "acquire", !.key = k,
                          !.lease = idem[NoLease][k], !.pc = "done", !.out = "ok"]]
          /\ UNCHANGED <<actor, mailbox, remaining>>
       \/ /\ idem[NoLease][k] = NoLease /\ draining
          /\ call' = [call EXCEPT ![c] = [@ EXCEPT !.op = "acquire", !.key = k,
                          !.pc = "done", !.out = "err"]]
          /\ UNCHANGED <<actor, mailbox, remaining>>
       \/ /\ idem[NoLease][k] = NoLease /\ ~draining
          /\ \E l \in Leases :
                /\ Fresh(l)
                /\ actor' = [actor EXCEPT ![l] = [run |-> "running",
                                 state |-> "acquiring", known |-> TRUE,
                                 runtime |-> FALSE, active |-> NoCall]]
                /\ remaining' = [remaining EXCEPT ![l] = TTL]
                /\ Enqueue(l, Cmd("acquire", c))
                /\ call' = [call EXCEPT ![c] = [@ EXCEPT !.op = "acquire",
                                !.key = k, !.lease = l, !.pc = "wait"]]
    /\ UNCHANGED <<row, boot, canceled, host, execs, idem, draining, faults, restarts>>

\* AcquireLease after the reply: the key is stored for a success (the first
\* row of a key stays), an error forgets the actor without stopping it.
AcquireAnswered(c) ==
    /\ call[c].op = "acquire" /\ call[c].pc = "replied"
    /\ call' = [call EXCEPT ![c].pc = "done"]
    /\ IF call[c].out = "ok"
       THEN /\ idem' = [idem EXCEPT ![NoLease][call[c].key] =
                           IF @ = NoLease THEN call[c].lease ELSE @]
            /\ UNCHANGED actor
       ELSE /\ actor' = [actor EXCEPT ![call[c].lease].known = FALSE]
            /\ UNCHANGED idem
    /\ UNCHANGED <<row, mailbox, remaining, boot, canceled, host, execs,
                   draining, faults, restarts>>

\* RenewLease reads the persisted deadline and adds the extension, at most 24
\* hours ahead, before its command reaches the actor.
RenewLease(c, l) ==
    /\ Begins(c) /\ row[l] # "none"
    /\ call' = [call EXCEPT ![c] = [@ EXCEPT !.op = "renew", !.lease = l,
                    !.pc = IF actor[l].known THEN "found" ELSE "done",
                    !.out = IF actor[l].known THEN "none" ELSE "err",
                    !.arg = MinOf(remaining[l] + Extend, MaxRemaining)]]
    /\ UNCHANGED <<row, actor, mailbox, remaining, boot, canceled, host, execs,
                   idem, draining, faults, restarts>>

\* ReleaseLease: without an actor the persisted state is the answer.
ReleaseLease(c, l) ==
    /\ Begins(c) /\ row[l] # "none"
    /\ call' = [call EXCEPT ![c] = [@ EXCEPT !.op = "release", !.lease = l,
                    !.pc = IF actor[l].known THEN "found" ELSE "done",
                    !.out = IF actor[l].known THEN "none" ELSE "ok"]]
    /\ UNCHANGED <<row, actor, mailbox, remaining, boot, canceled, host, execs,
                   idem, draining, faults, restarts>>

\* StartExec: a key already answered returns the prior exec; otherwise the
\* handler waits until the lease is ready and inserts the pending exec row.
StartExec(c, l, k) ==
    /\ Begins(c) /\ row[l] # "none"
    /\ IF idem[l][k] # NoLease
       THEN /\ call' = [call EXCEPT ![c] = [@ EXCEPT !.op = "start", !.key = k,
                            !.lease = l, !.exec = idem[l][k], !.pc = "done",
                            !.out = "ok"]]
            /\ UNCHANGED execRow
       ELSE \/ /\ actor[l].known /\ row[l] = "ready"
               /\ execRow' = [execRow EXCEPT ![c] = "pending"]
               /\ call' = [call EXCEPT ![c] = [@ EXCEPT !.op = "start", !.key = k,
                               !.lease = l, !.exec = c, !.pc = "found"]]
            \/ /\ ~actor[l].known \/ row[l] \in Terminal
               /\ call' = [call EXCEPT ![c] = [@ EXCEPT !.op = "start", !.key = k,
                               !.lease = l, !.pc = "done", !.out = "err"]]
               /\ UNCHANGED execRow
    /\ UNCHANGED <<row, actor, mailbox, remaining, boot, canceled, host, executing,
                   idem, draining, faults, restarts>>

\* StartExec after the reply stores the key of an accepted exec.
StartAnswered(c) ==
    /\ call[c].op = "start" /\ call[c].pc = "replied"
    /\ call' = [call EXCEPT ![c].pc = "done"]
    /\ idem' = IF call[c].out = "ok" /\ idem[call[c].lease][call[c].key] = NoLease
               THEN [idem EXCEPT ![call[c].lease][call[c].key] = c] ELSE idem
    /\ UNCHANGED <<row, actor, mailbox, remaining, boot, canceled, host, execs,
                   draining, faults, restarts>>

\* CancelExec of one exec, and CommitFilesystemMount or CheckpointGoldenVM:
\* an actor must be known.
ActorCall(c, l, op, e) ==
    /\ Begins(c) /\ row[l] # "none"
    /\ call' = [call EXCEPT ![c] = [@ EXCEPT !.op = op, !.lease = l, !.exec = e,
                    !.pc = IF actor[l].known THEN "found" ELSE "done",
                    !.out = IF actor[l].known THEN "none" ELSE "err"]]
    /\ UNCHANGED <<row, actor, mailbox, remaining, boot, canceled, host, execs,
                   idem, draining, faults, restarts>>

\* The send of every handler.  AcquireLease and StartExec report a refused
\* send; the others ignore its result and wait for a reply all the same.
SendCommand(c) ==
    LET l == call[c].lease IN
    /\ call[c].pc = "found"
    /\ \/ /\ Accepts(l) /\ actor[l].run # "none"
          /\ Enqueue(l, Cmd(call[c].op, c))
          /\ call' = [call EXCEPT ![c].pc = "wait"]
       \/ /\ Refuses(l)
          /\ call' = [call EXCEPT ![c] =
                 IF @.op = "start" THEN [@ EXCEPT !.pc = "done", !.out = "err"]
                                   ELSE [@ EXCEPT !.pc = "wait"]]
          /\ UNCHANGED mailbox
    /\ UNCHANGED <<row, actor, remaining, boot, canceled, host, execs, idem,
                   draining, faults, restarts>>

\* AcquireLease and StartExec stop waiting when the caller's context ends; the
\* other handlers wait without one.
CallTimesOut(c) ==
    /\ call[c].op \in {"acquire", "start"} /\ call[c].pc = "wait"
    /\ call' = [call EXCEPT ![c] = [@ EXCEPT !.pc = "done", !.out = "timeout"]]
    /\ UNCHANGED <<row, actor, mailbox, remaining, boot, canceled, host, execs,
                   idem, draining, faults, restarts>>

----------------------------------------------------------------------------
(* The boot goroutine *)

\* A boot step that fails undoes what the earlier steps claimed, except that
\* bootDataset registers the process for cleanup only after AttachPID.
BootFails(l) ==
    /\ boot[l] \in {"clone", "network", "jailer", "attach", "guest"}
    /\ boot' = [boot EXCEPT ![l] = "failed"]
    /\ disk' = disk \ {l}
    /\ slot' = FreeSlotOf(l)
    /\ proc' = IF boot[l] = "attach" THEN proc ELSE proc \ {l}
    /\ UNCHANGED <<row, actor, mailbox, remaining, canceled, execs, call, idem,
                   draining, faults, restarts>>

BootStep(l, from, to) ==
    /\ boot[l] = from /\ l \notin canceled
    /\ boot' = [boot EXCEPT ![l] = to]
    /\ UNCHANGED <<row, actor, mailbox, remaining, canceled, execs, call, idem,
                   draining, faults, restarts>>

\* prepareLeaseRoot and prepareLeaseFilesystems.
BootClone(l) ==
    /\ BootStep(l, "clone", "network")
    /\ disk' = disk \cup {l}
    /\ UNCHANGED <<slot, proc>>

\* setupNetwork and Allocator.Acquire: the lowest free slot.
BootNetwork(l) ==
    /\ BootStep(l, "network", "jailer")
    /\ \E s \in Slots :
          /\ slot[s].lease = NoLease
          /\ \A t \in Slots : slot[t].lease = NoLease => s <= t
          /\ slot' = [slot EXCEPT ![s] = [lease |-> l, pid |-> FALSE]]
    /\ UNCHANGED <<disk, proc>>

\* StartJailer.
BootJailer(l) ==
    /\ BootStep(l, "jailer", "attach")
    /\ proc' = proc \cup {l}
    /\ UNCHANGED <<disk, slot>>

\* Allocator.AttachPID.
BootAttach(l) ==
    /\ BootStep(l, "attach", "guest")
    /\ slot' = [s \in Slots |-> IF slot[s].lease = l
                                THEN [slot[s] EXCEPT !.pid = TRUE] ELSE slot[s]]
    /\ UNCHANGED <<disk, proc>>

\* activateFirecracker and the guest handshake.
BootGuest(l) ==
    /\ BootStep(l, "guest", "up")
    /\ UNCHANGED host

\* Mutant: the runtime of a refused send is not cleaned up.
SendBootResult(l) ==
    /\ boot[l] \in {"up", "failed"}
    /\ boot' = [boot EXCEPT ![l] = "sent"]
    /\ \/ /\ Accepts(l)
          /\ Enqueue(l, [op |-> "boot", from |-> NoCall, ok |-> boot[l] = "up"])
       \/ Refuses(l) /\ UNCHANGED mailbox
    /\ UNCHANGED <<row, actor, remaining, canceled, host, execs, call, idem,
                   draining, faults, restarts>>

\* bootLease after BootLease: the result is sent to the actor, and the
\* runtime is cleaned up only when the send was refused.
BootSend(l) ==
    /\ boot[l] \in {"up", "failed"}
    /\ boot' = [boot EXCEPT ![l] = "sent"]
    /\ \/ /\ Accepts(l)
          /\ Enqueue(l, [op |-> "boot", from |-> NoCall, ok |-> boot[l] = "up"])
          /\ UNCHANGED host
       \/ /\ Refuses(l)
          /\ IF boot[l] = "up" THEN Cleanup(l) ELSE UNCHANGED host
          /\ UNCHANGED mailbox
    /\ UNCHANGED <<row, actor, remaining, canceled, execs, call, idem, draining,
                   faults, restarts>>

----------------------------------------------------------------------------
(* The actor: one action per handler of vmActor.run *)

Takes(l, op) ==
    /\ Running(l) /\ mailbox[l] # <<>> /\ Head(mailbox[l]).op = op
    /\ mailbox' = [mailbox EXCEPT ![l] = Tail(@)]

\* handleAcquire: the lease row and the boot goroutine.
HandleAcquire(l) ==
    /\ Takes(l, "acquire")
    /\ remaining' = [remaining EXCEPT ![l] = TTL]
    /\ \/ /\ StoreWorks
          /\ row' = [row EXCEPT ![l] = "acquiring"]
          /\ boot' = [boot EXCEPT ![l] = "clone"]
          /\ Reply(Head(mailbox[l]).from, TRUE)
       \/ /\ StoreFails
          /\ Reply(Head(mailbox[l]).from, FALSE)
          /\ UNCHANGED <<row, boot>>
    /\ UNCHANGED <<actor, canceled, host, execs, idem, draining, restarts>>

\* handleBootComplete: a failed boot crashes the lease; a runtime makes it
\* ready, unless the ready row cannot be written.
HandleBootComplete(l) ==
    LET ok == Head(mailbox[l]).ok IN
    /\ Takes(l, "boot")
    /\ \/ /\ ok /\ row[l] = "acquiring" /\ StoreWorks
          /\ actor' = [actor EXCEPT ![l] = [@ EXCEPT !.runtime = TRUE, !.state = "ready"]]
          /\ row' = [row EXCEPT ![l] = "ready"]
          /\ UNCHANGED host
       \/ /\ \/ ~ok /\ StoreWorks
             \/ ok /\ row[l] # "acquiring" /\ StoreWorks
             \/ ok /\ StoreFails
          /\ actor' = [actor EXCEPT ![l] = [@ EXCEPT !.run = "stopped", !.state = "crashed",
                                                     !.known = FALSE]]
          /\ row' = FinishLease(l, "crashed")
          /\ IF ok THEN Cleanup(l) ELSE UNCHANGED host
    /\ UNCHANGED <<remaining, boot, canceled, execs, call, idem, draining, restarts>>

\* handleRenew: the actor takes the deadline the handler computed.
HandleRenew(l) ==
    LET c == Head(mailbox[l]).from IN
    /\ Takes(l, "renew")
    /\ remaining' = [remaining EXCEPT ![l] = IF @ = 0 THEN @ ELSE call[c].arg]
    /\ Reply(c, remaining[l] > 0)
    /\ UNCHANGED <<row, actor, boot, canceled, host, execs, idem, draining,
                   faults, restarts>>

\* Mutant: the row of a lease that never became ready is not finished.
EndReadyLease(l, state) ==
    /\ canceled' = canceled \cup {l}
    /\ IF actor[l].runtime THEN Cleanup(l) ELSE UNCHANGED host
    /\ StoreWorks
    /\ row' = IF actor[l].runtime THEN FinishLease(l, state) ELSE row
    /\ actor' = [actor EXCEPT ![l] = [NoActor EXCEPT !.run = "stopped", !.state = state]]

\* handleRelease: cancel the boot and the exec, clean up the runtime the actor
\* owns, finish the row, forget the actor.  A failed finish leaves the map
\* entry, and the actor stops either way.
EndLease(l, state) ==
    /\ canceled' = canceled \cup {l}
    /\ IF actor[l].runtime THEN Cleanup(l) ELSE UNCHANGED host
    /\ \/ /\ StoreWorks
          /\ row' = FinishLease(l, state)
          /\ actor' = [actor EXCEPT ![l] = [NoActor EXCEPT !.run = "stopped",
                                                           !.state = state]]
       \/ /\ StoreFails
          /\ actor' = [actor EXCEPT ![l] = [NoActor EXCEPT !.run = "stopped",
                           !.state = state,
                           !.known = actor[l].known /\ state = "released"]]
          /\ UNCHANGED row

HandleRelease(l) ==
    /\ Takes(l, "release")
    /\ EndLease(l, "released")
    /\ Reply(Head(mailbox[l]).from, faults' = faults)
    /\ UNCHANGED <<remaining, boot, execs, idem, draining, restarts>>

\* Mutant: an active exec holds the lease open.
OverdueAndIdle(l) == Running(l) /\ remaining[l] = 0 /\ actor[l].active = NoCall

\* The one second ticker of vmActor.run.
Overdue(l) == Running(l) /\ remaining[l] = 0

Expire(l) ==
    /\ Overdue(l)
    /\ EndLease(l, "expired")
    /\ UNCHANGED <<mailbox, remaining, boot, execs, call, idem, draining, restarts>>

\* Mutant: the active exec is not looked at.
ReadyLease(l) == actor[l].state = "ready" /\ actor[l].runtime

\* The guards of handleStartExec, handleCommitFilesystemMount and
\* handleCheckpointGoldenVM.
IdleLease(l) == actor[l].state = "ready" /\ actor[l].runtime /\ actor[l].active = NoCall

\* handleStartExec: a ready lease with no active exec gets one; its row becomes
\* running.  A failed row write cancels the exec, which stays active until its
\* goroutine reports.
HandleStartExec(l) ==
    LET e == Head(mailbox[l]).from IN
    /\ Takes(l, "start")
    /\ \/ /\ ~IdleLease(l) /\ StoreWorks
          /\ Reply(e, FALSE)
          /\ UNCHANGED <<actor, execs>>
       \/ /\ IdleLease(l)
          /\ actor' = [actor EXCEPT ![l].active = e]
          /\ executing' = executing \cup {e}
          /\ \/ /\ StoreWorks
                /\ execRow' = [execRow EXCEPT ![e] = "running"]
                /\ Reply(e, TRUE)
             \/ /\ StoreFails
                /\ Reply(e, FALSE)
                /\ UNCHANGED execRow
    /\ UNCHANGED <<row, remaining, boot, canceled, host, idem, draining, restarts>>

\* handleCommitFilesystemMount and handleCheckpointGoldenVM: a ready lease
\* without an active exec; the storage work itself may fail.
HandleCommit(l) ==
    /\ Takes(l, "commit")
    /\ \E ok \in BOOLEAN :
          /\ ok => IdleLease(l)
          /\ Reply(Head(mailbox[l]).from, ok)
    /\ UNCHANGED <<row, actor, remaining, boot, canceled, host, execs, idem,
                   draining, faults, restarts>>

\* handleCancelExec: accepted for the active exec only; the guest is asked to
\* stop, and the goroutine still reports on its own.
HandleCancelExec(l) ==
    LET c == Head(mailbox[l]).from IN
    /\ Takes(l, "cancel")
    /\ Reply(c, actor[l].active = call[c].exec)
    /\ UNCHANGED <<row, actor, remaining, boot, canceled, host, execs, idem,
                   draining, faults, restarts>>

\* runtime.Exec returns and its goroutine sends the outcome; a refused send is
\* dropped.
ExecReturns(e, ok) ==
    LET l == call[e].lease IN
    /\ e \in executing
    /\ executing' = executing \ {e}
    /\ \/ Accepts(l) /\ Enqueue(l, [op |-> "done", from |-> e, ok |-> ok])
       \/ Refuses(l) /\ UNCHANGED mailbox
    /\ UNCHANGED <<row, actor, remaining, boot, canceled, host, execRow, call,
                   idem, draining, faults, restarts>>

\* Mutant: only a successful exec is recorded.
FinishSuccess(e, ok) == [execRow EXCEPT ![e] = IF ok THEN "exited" ELSE @]

\* finishExec: no condition on the state of the row.
FinishExec(e, ok) == [execRow EXCEPT ![e] = IF ok THEN "exited" ELSE "failed"]

\* handleExecDone: the active exec is cleared and its row finished.
HandleExecDone(l) ==
    LET cmd == Head(mailbox[l]) IN
    /\ Takes(l, "done")
    /\ actor' = [actor EXCEPT ![l].active = IF @ = cmd.from THEN NoCall ELSE @]
    /\ \/ StoreWorks /\ execRow' = FinishExec(cmd.from, cmd.ok)
       \/ StoreFails /\ UNCHANGED execRow
    /\ UNCHANGED <<row, remaining, boot, canceled, host, executing, call, idem,
                   draining, restarts>>

----------------------------------------------------------------------------
(* Time, shutdown, restart *)

Sooner(n) == IF n = 0 THEN 0 ELSE n - 1

\* One unit of time for every deadline, the ones still in flight included.
Tick ==
    /\ \E l \in Leases : Running(l) /\ remaining[l] > 0
    /\ remaining' = [l \in Leases |-> Sooner(remaining[l])]
    /\ call' = [c \in Calls |-> [call[c] EXCEPT !.arg = Sooner(@)]]
    /\ UNCHANGED <<row, actor, mailbox, boot, canceled, host, execs, idem,
                   draining, faults, restarts>>

StartDrain ==
    /\ ~draining
    /\ draining' = TRUE
    /\ UNCHANGED <<row, actor, mailbox, remaining, boot, canceled, host, execs,
                   call, idem, faults, restarts>>

\* APIServer.Close, after the drain: a release for every known actor.
Close(l) ==
    /\ draining /\ actor[l].known /\ Accepts(l)
    /\ \A i \in 1 .. Len(mailbox[l]) : mailbox[l][i] # Cmd("release", NoCall)
    /\ Enqueue(l, Cmd("release", NoCall))
    /\ UNCHANGED <<row, actor, remaining, boot, canceled, host, execs, call, idem,
                   draining, faults, restarts>>

\* Mutant: only the age of a slot counts.
RecoverByAge(alive, young) ==
    [s \in Slots |-> IF s \in young THEN slot[s] ELSE FreeSlot]

\* Allocator.Recover: an allocated slot stays when its process is the one
\* attached and alive, or when no process is attached and the slot is young.
Recover(alive, young) ==
    [s \in Slots |->
        IF \/ slot[s].pid /\ slot[s].lease \in alive
           \/ ~slot[s].pid /\ s \in young
        THEN slot[s] ELSE FreeSlot]

\* Mutant: only leases that were booting are marked.
MarkBooting ==
    [l \in Leases |-> IF row[l] = "acquiring" THEN "crashed" ELSE row[l]]

\* markUnownedActiveLeasesCrashed.
MarkUnowned ==
    [l \in Leases |-> IF row[l] \in {"acquiring", "ready"} THEN "crashed" ELSE row[l]]

\* The daemon dies (goroutines, actors and waiting calls with it; some
\* Firecracker processes may survive) and NewAPIServer starts again.
Restart ==
    /\ faults + restarts < MaxFaults
    /\ restarts' = restarts + 1
    /\ \E alive \in SUBSET proc, young \in SUBSET Slots :
          /\ proc' = alive
          /\ slot' = Recover(alive, young)
    /\ row' = MarkUnowned
    /\ actor' = [l \in Leases |-> IF actor[l].run = "none" THEN actor[l]
                                  ELSE [NoActor EXCEPT !.run = "stopped"]]
    /\ mailbox' = [l \in Leases |-> <<>>]
    /\ boot' = [l \in Leases |-> IF boot[l] = "none" THEN "none" ELSE "sent"]
    /\ executing' = {}
    /\ call' = [c \in Calls |-> IF call[c].pc \in {"new", "done"} THEN call[c]
                                ELSE [call[c] EXCEPT !.pc = "done", !.out = "err"]]
    /\ draining' = FALSE
    /\ UNCHANGED <<remaining, canceled, disk, execRow, idem, faults>>

----------------------------------------------------------------------------
ActorStep(l) ==
    \/ HandleAcquire(l) \/ HandleBootComplete(l) \/ HandleRenew(l)
    \/ HandleRelease(l) \/ HandleStartExec(l) \/ HandleCommit(l)
    \/ HandleCancelExec(l) \/ HandleExecDone(l) \/ Expire(l)

BootGoroutine(l) ==
    \/ BootFails(l) \/ BootClone(l) \/ BootNetwork(l) \/ BootJailer(l)
    \/ BootAttach(l) \/ BootGuest(l) \/ BootSend(l)

CallStep(c) ==
    \/ \E k \in Keys : AcquireLease(c, k)
    \/ \E l \in Leases : RenewLease(c, l) \/ ReleaseLease(c, l)
    \/ \E l \in Leases, k \in Keys : StartExec(c, l, k)
    \/ \E l \in Leases : ActorCall(c, l, "commit", NoCall)
    \/ \E l \in Leases, e \in Calls :
          execRow[e] # "none" /\ ActorCall(c, l, "cancel", e)
    \/ AcquireAnswered(c) \/ StartAnswered(c) \/ SendCommand(c) \/ CallTimesOut(c)

Next ==
    \/ \E c \in Calls : CallStep(c)
    \/ \E c \in Calls, ok \in BOOLEAN : ExecReturns(c, ok)
    \/ \E l \in Leases : ActorStep(l) \/ BootGoroutine(l) \/ Close(l)
    \/ Tick \/ StartDrain \/ Restart

\* The goroutines of a running daemon are scheduled and time passes; callers,
\* execs and the host owe nothing.
Fairness ==
    /\ \A l \in Leases : WF_vars(ActorStep(l))
    /\ WF_vars(Tick)

Spec == Init /\ [][Next]_vars
FairSpec == Spec /\ Fairness

----------------------------------------------------------------------------
(* Properties *)

HoldsSlot(l) == \E s \in Slots : slot[s].lease = l
BootInFlight(l) == boot[l] \notin {"none", "sent"}
BootResultIn(l) == \E i \in 1 .. Len(mailbox[l]) :
                      mailbox[l][i].op = "boot" /\ mailbox[l][i].ok

\* A lease the ledger calls ready is served: its actor runs and owns a booted
\* VM with its disk, its process and its attached network slot.  GetLease and
\* StartExec answer from the row alone, across actor exits, failed boots and
\* restarts (server.go handleBootComplete, handleRelease,
\* markUnownedActiveLeasesCrashed).  A failed ledger write may break it.
ReadyIsServed ==
    \A l \in Leases : row[l] = "ready" /\ faults = 0 =>
        /\ Running(l) /\ actor[l].known /\ actor[l].runtime
        /\ l \in disk /\ l \in proc
        /\ \E s \in Slots : slot[s] = [lease |-> l, pid |-> TRUE]

\* What a terminal lease may leave on the host while the daemon lives: nothing,
\* unless its boot goroutine is still at work, or the boot result went into the
\* mailbox of an actor that no longer reads it, or AttachPID failed and left
\* the process alone (server.go bootLease, orchestrator.go bootDataset).
LeftoversAreKnown ==
    \A l \in Leases : row[l] \in Terminal /\ ~Running(l) /\ restarts = 0 =>
        \/ BootInFlight(l) \/ BootResultIn(l)
        \/ l \notin disk /\ ~HoldsSlot(l)

\* A successful ReleaseLease answer is true: the row is terminal, whether the
\* actor did it, had already stopped, or the daemon restarted in between.
ReleaseIsFinal ==
    \A c \in Calls : call[c].op = "release" /\ call[c].out = "ok" /\ faults = 0 =>
        row[call[c].lease] \in Terminal

\* At most one exec runs in a VM, whatever retries, cancellations and late
\* outcomes do (handleStartExec, handleExecDone).
OneExecPerLease ==
    \A e, f \in executing : call[e].lease = call[f].lease => e = f

\* An exec row that says running belongs to the active exec of a live actor, or
\* its lease is over: on a live lease a poller of GetExec is never left with an
\* outcome nobody will write.
RunningExecIsOwned ==
    \A e \in Calls : execRow[e] = "running" /\ faults = 0 =>
        LET l == call[e].lease IN
        row[l] \in Terminal \/ (Running(l) /\ actor[l].active = e)

\* A slot whose attached process is alive keeps its lease: no boot, cleanup or
\* startup recovery hands a live VM's address to another lease.
LiveVMKeepsItsSlot ==
    [][\A s \in Slots : slot[s].pid /\ slot[s].lease \in proc' => slot'[s] = slot[s]]_vars

\* A terminal lease row never changes again, whichever of release, expiry,
\* failed boot and restart come after (finishLease).
TerminalRowIsFinal ==
    [][\A l \in Leases : row[l] \in Terminal => row'[l] = row[l]]_vars

\* The host ends every lease by itself: a live row reaches a terminal state
\* with no call, exec or boot having to cooperate, unless a ledger write fails.
LeaseEnds ==
    \A l \in Leases : row[l] \in {"acquiring", "ready"}
                        ~> row[l] \in Terminal \/ faults > 0
=============================================================================
