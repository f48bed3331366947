------------------------- MODULE VMLeasesProofs -------------------------
(***************************************************************************)
(* Theorems about VMLeases, for any number of leases, calls and network    *)
(* slots, any mailbox and any number of faults and restarts.               *)
(*                                                                         *)
(* Three invariants, each resting on the ones before it.  IInv says what   *)
(* the mailbox of an actor may hold: the command that acquires the lease   *)
(* is its first message and comes before the row and the boot; an exec is  *)
(* in one place at a time, as a start command, as a running goroutine or   *)
(* as a report of its end.  JInv ties what callers are told to the rows,   *)
(* and HInv what the host holds for a lease to its boot, its mailbox and   *)
(* its actor.                                                              *)
(***************************************************************************)
EXTENDS VMLeases, TLAPS

ActorRows == [run : {"none", "running", "stopped"}, state : RowStates, known : BOOLEAN,
              runtime : BOOLEAN, active : Calls \cup {NoCall}]
SlotRows == [lease : Leases \cup {NoLease}, pid : BOOLEAN]
CallRows == [op : Ops \cup {"none"}, lease : Leases \cup {NoLease}, key : Keys \cup {NoCall},
             pc : {"new", "found", "wait", "replied", "done"}, arg : Nat,
             exec : Calls \cup {NoCall, NoLease}, out : {"none", "ok", "err", "timeout"}]

Types ==
  /\ row \in [Leases -> RowStates]
  /\ actor \in [Leases -> ActorRows]
  /\ mailbox \in [Leases -> Seq(Commands)]
  /\ remaining \in [Leases -> Nat]
  /\ boot \in [Leases -> BootSteps]
  /\ slot \in [Slots -> SlotRows]
  /\ executing \subseteq Calls
  /\ call \in [Calls -> CallRows]
  /\ idem \in [Scopes -> [Keys -> Leases \cup Calls \cup {NoLease}]]
  /\ \A k \in Keys : idem[NoLease][k] \in Leases \cup {NoLease}
  /\ \A l \in Leases, k \in Keys : idem[l][k] \in Calls \cup {NoLease}

\* A start command or the report of an exec.
OfExec(x) == x.op \in {"start", "done"}

\* What is true of a message x to lease l, with the execs and the calls as they are.
Message(l, x, running, calls) ==
  /\ x.op \in Ops \ {"release"} => x.from \in Calls
  /\ OfExec(x) => /\ x.from \in Calls /\ x.from \notin running
                  /\ calls[x.from].lease = l /\ calls[x.from].pc \notin {"new", "found"}

Mails ==
  \A l \in Leases : \A i \in 1 .. Len(mailbox[l]) :
    /\ Message(l, mailbox[l][i], executing, call)
    /\ mailbox[l][i].op = "acquire" => i = 1 /\ row[l] = "none" /\ boot[l] = "none"
    /\ \A k \in 1 .. Len(mailbox[l]) :
         OfExec(mailbox[l][i]) /\ OfExec(mailbox[l][k]) /\ mailbox[l][i].from = mailbox[l][k].from => i = k

\* A lease id that was not used yet.
Unused ==
  \A l \in Leases : actor[l].run = "none" =>
    mailbox[l] = <<>> /\ row[l] = "none" /\ boot[l] = "none" /\ ~actor[l].known

Waits ==
  \A c \in Calls :
    /\ call[c].pc = "found" => call[c].op \in Ops \ {"acquire"}
    /\ call[c].pc \in {"found", "wait", "replied"} =>
         call[c].lease \in Leases /\ actor[call[c].lease].run # "none"

Owned ==
  \A e \in executing :
    /\ call[e].pc \notin {"new", "found"} /\ call[e].lease \in Leases
    /\ actor[call[e].lease].run # "none"
    /\ Running(call[e].lease) => actor[call[e].lease].active = e

\* A slot has its pid from AttachPID on.
Attached ==
  \A s \in Slots : slot[s].pid =>
    slot[s].lease \in Leases /\ boot[slot[s].lease] \in {"guest", "up", "sent"}

IInv == Types /\ Mails /\ Unused /\ Waits /\ Owned /\ Attached /\ OneExecPerLease

-----------------------------------------------------------------------------
(* How the pieces change. *)

\* A call that has sent its command keeps its lease.
Later ==
  \A c \in Calls : call[c].pc \notin {"new", "found"} =>
    call'[c].pc \notin {"new", "found"} /\ call'[c].lease = call[c].lease

\* Mailboxes are left alone or lose their first message.
Shrinks ==
  \A l \in Leases : \/ mailbox'[l] = mailbox[l]
                    \/ mailbox[l] # <<>> /\ mailbox'[l] = Tail(mailbox[l])

\* A lease whose mailbox was left alone keeps an empty row and no boot.
StaysEmpty ==
  \A l \in Leases : mailbox'[l] = mailbox[l] /\ row[l] = "none" /\ boot[l] = "none" =>
    row'[l] = "none" /\ boot'[l] = "none"

\* A message stays what it is.
LEMMA MessageStays ==
  ASSUME Later, executing' \subseteq executing, NEW l, NEW x, Message(l, x, executing, call)
  PROVE  Message(l, x, executing', call')
BY Zenon DEF Message, OfExec, Later

\* Taking a message keeps what is known of the others.
LEMMA MailsShrink ==
  ASSUME Types, Mails, Shrinks, Later, StaysEmpty, executing' \subseteq executing
  PROVE  Mails'
<1> SUFFICES ASSUME NEW l \in Leases, NEW i \in 1 .. Len(mailbox'[l])
             PROVE  /\ Message(l, mailbox'[l][i], executing', call')
                    /\ mailbox'[l][i].op = "acquire" => i = 1 /\ row'[l] = "none" /\ boot'[l] = "none"
                    /\ \A k \in 1 .. Len(mailbox'[l]) :
                         OfExec(mailbox'[l][i]) /\ OfExec(mailbox'[l][k])
                           /\ mailbox'[l][i].from = mailbox'[l][k].from => i = k
  BY Zenon DEF Mails
<1>0. mailbox[l] \in Seq(Commands)
  BY Zenon DEF Types
<1>1. CASE mailbox'[l] = mailbox[l]
  <2>1. Message(l, mailbox[l][i], executing, call)
    BY <1>1, Zenon DEF Mails
  <2>2. Message(l, mailbox'[l][i], executing', call')
    BY <1>1, <2>1, MessageStays, Zenon
  <2> QED
    BY <1>1, <2>2, Zenon DEF Mails, StaysEmpty
<1>2. CASE mailbox[l] # <<>> /\ mailbox'[l] = Tail(mailbox[l])
  <2>1. /\ \A k \in 1 .. Len(mailbox'[l]) : k + 1 \in 1 .. Len(mailbox[l]) /\ mailbox'[l][k] = mailbox[l][k + 1]
    BY <1>0, <1>2
  <2>2. Message(l, mailbox[l][i + 1], executing, call) /\ mailbox[l][i + 1].op # "acquire"
    BY <2>1 DEF Mails
  <2>3. Message(l, mailbox'[l][i], executing', call')
    BY <2>1, <2>2, MessageStays, Zenon
  <2>4. \A k \in 1 .. Len(mailbox'[l]) :
          OfExec(mailbox'[l][i]) /\ OfExec(mailbox'[l][k])
            /\ mailbox'[l][i].from = mailbox'[l][k].from => i + 1 = k + 1
    <3> SUFFICES ASSUME NEW k \in 1 .. Len(mailbox'[l]),
                        OfExec(mailbox'[l][i]), OfExec(mailbox'[l][k]),
                        mailbox'[l][i].from = mailbox'[l][k].from
                 PROVE  i + 1 = k + 1
      BY Zenon
    <3>1. /\ i + 1 \in 1 .. Len(mailbox[l]) /\ k + 1 \in 1 .. Len(mailbox[l])
          /\ OfExec(mailbox[l][i + 1]) /\ OfExec(mailbox[l][k + 1])
          /\ mailbox[l][i + 1].from = mailbox[l][k + 1].from
      BY <2>1, Zenon
    <3> QED
      BY ONLY <3>1, Mails, l \in Leases, Zenon DEF Mails
  <2>5. \A k \in 1 .. Len(mailbox'[l]) : i + 1 = k + 1 => i = k
    BY <1>0, <1>2
  <2> QED
    BY <2>1, <2>2, <2>3, <2>4, <2>5, Zenon
<1> QED
  BY <1>1, <1>2, Zenon DEF Shrinks

\* Sending a message that fits keeps what is known of the others.
LEMMA MailsGrow ==
  ASSUME Types, Mails, Later, executing' \subseteq executing, row' = row,
         \A m \in Leases : boot[m] = "none" => boot'[m] = "none",
         NEW l \in Leases, NEW x \in Commands, mailbox' = [mailbox EXCEPT ![l] = Append(@, x)],
         Message(l, x, executing', call'),
         x.op = "acquire" => mailbox[l] = <<>> /\ row[l] = "none" /\ boot[l] = "none",
         OfExec(x) => \A k \in 1 .. Len(mailbox[l]) :
                        ~(OfExec(mailbox[l][k]) /\ mailbox[l][k].from = x.from)
  PROVE  Mails' /\ mailbox' \in [Leases -> Seq(Commands)]
<1>1. /\ mailbox' \in [Leases -> Seq(Commands)]
      /\ \A m \in Leases : m # l => mailbox'[m] = mailbox[m]
      /\ mailbox'[l] = Append(mailbox[l], x) /\ mailbox[l] \in Seq(Commands)
  BY DEF Types
<1>2. /\ Len(mailbox'[l]) = Len(mailbox[l]) + 1 /\ Len(mailbox[l]) \in Nat
      /\ mailbox'[l][Len(mailbox[l]) + 1] = x
      /\ \A k \in 1 .. Len(mailbox[l]) : mailbox'[l][k] = mailbox[l][k]
  BY <1>1
<1>3. ASSUME NEW m \in Leases, NEW i \in 1 .. Len(mailbox'[m])
      PROVE  /\ Message(m, mailbox'[m][i], executing', call')
             /\ mailbox'[m][i].op = "acquire" => i = 1 /\ row'[m] = "none" /\ boot'[m] = "none"
             /\ \A k \in 1 .. Len(mailbox'[m]) :
                  OfExec(mailbox'[m][i]) /\ OfExec(mailbox'[m][k])
                    /\ mailbox'[m][i].from = mailbox'[m][k].from => i = k
  <2>1. CASE m # l
    <3>1. Message(m, mailbox[m][i], executing, call)
      BY <1>1, <1>3, <2>1, Zenon DEF Mails
    <3>2. Message(m, mailbox'[m][i], executing', call')
      BY <1>1, <2>1, <3>1, MessageStays, Zenon
    <3> QED
      BY <1>1, <1>3, <2>1, <3>2, ZenonT(30) DEF Mails
  <2>2. CASE m = l /\ i = Len(mailbox[l]) + 1
    <3>1. Message(m, mailbox'[m][i], executing', call')
      BY <1>2, <2>2, Zenon DEF Message
    <3>2. mailbox'[m][i].op = "acquire" => i = 1 /\ row'[m] = "none" /\ boot'[m] = "none"
      BY <1>2, <2>2
    <3>3. \A k \in 1 .. Len(mailbox'[m]) : k = i \/ k \in 1 .. Len(mailbox[l])
      BY <1>2, <2>2
    <3> QED
      BY <1>2, <2>2, <3>1, <3>2, <3>3
  <2>3. CASE m = l /\ i \in 1 .. Len(mailbox[l])
    <3>1. Message(m, mailbox[m][i], executing, call)
      BY <2>3, Zenon DEF Mails
    <3>2. Message(m, mailbox'[m][i], executing', call')
      BY <1>2, <2>3, <3>1, MessageStays, Zenon
    <3>3. \A k \in 1 .. Len(mailbox'[m]) : k = Len(mailbox[l]) + 1 \/ k \in 1 .. Len(mailbox[l])
      BY <1>2, <2>3
    <3>4. mailbox'[m][i].op = "acquire" => i = 1 /\ row'[m] = "none" /\ boot'[m] = "none"
      BY <1>2, <2>3 DEF Mails
    <3>5. \A k \in 1 .. Len(mailbox[l]) :
            OfExec(mailbox[l][i]) /\ OfExec(mailbox[l][k]) /\ mailbox[l][i].from = mailbox[l][k].from => i = k
      BY <2>3, Zenon DEF Mails
    <3> QED
      BY <1>2, <2>3, <3>2, <3>3, <3>4, <3>5
  <2>4. m = l => i = Len(mailbox[l]) + 1 \/ i \in 1 .. Len(mailbox[l])
    BY <1>2, <1>3
  <2> QED
    BY <2>1, <2>2, <2>3, <2>4, Zenon
<1> QED
  BY <1>1, <1>3, Zenon DEF Mails

\* Actors are not created, do not start again, and keep the exec that runs.
Steady ==
  \A l \in Leases :
    /\ actor[l].run = "none" => actor'[l] = actor[l]
    /\ actor[l].run # "none" => actor'[l].run # "none"
    /\ actor'[l].run = "running" =>
         /\ actor[l].run = "running"
         /\ actor[l].active \in executing => actor'[l].active = actor[l].active

\* Nothing happens to a lease id that is not used.
StaysUnused ==
  \A l \in Leases : actor'[l].run = "none" =>
    mailbox'[l] = mailbox[l] /\ row'[l] = row[l] /\ boot'[l] = boot[l]

\* What a step may do to the network slots: free them, unless the process the
\* slot is attached to lives.
SlotsFreed ==
  /\ slot' \in [Slots -> SlotRows]
  /\ \A s \in Slots : slot'[s].pid => slot[s].pid /\ slot'[s].lease = slot[s].lease
  /\ \A s \in Slots : slot[s].pid /\ slot[s].lease \in proc' => slot'[s] = slot[s]

BootGoesOn ==
  \A l \in Leases : boot[l] \in {"guest", "up", "sent"} => boot'[l] \in {"guest", "up", "sent"}

RowStep == \A l \in Leases : row[l] \in Terminal => row'[l] = row[l]
SlotStep == \A s \in Slots : slot[s].pid /\ slot[s].lease \in proc' => slot'[s] = slot[s]
Good == IInv' /\ RowStep /\ SlotStep

\* A running exec keeps its owner while no exec starts.
LEMMA OwnedStays ==
  ASSUME Types, Owned, OneExecPerLease, Later, executing' \subseteq executing, Steady
  PROVE  Owned' /\ OneExecPerLease'
<1>1. ASSUME NEW e \in executing'
      PROVE  /\ call'[e].pc \notin {"new", "found"} /\ call'[e].lease \in Leases
             /\ call'[e].lease = call[e].lease
             /\ actor'[call'[e].lease].run # "none"
             /\ actor'[call'[e].lease].run = "running" => actor'[call'[e].lease].active = e
  <2>1. e \in executing /\ e \in Calls
    BY <1>1, Zenon DEF Types
  <2>2. /\ call[e].pc \notin {"new", "found"} /\ call[e].lease \in Leases
        /\ actor[call[e].lease].run # "none"
        /\ actor[call[e].lease].run = "running" => actor[call[e].lease].active = e
    BY <2>1, Zenon DEF Owned, Running
  <2>3. call'[e].pc \notin {"new", "found"} /\ call'[e].lease = call[e].lease
    BY <2>1, <2>2, Zenon DEF Later
  <2> QED
    BY <2>1, <2>2, <2>3, Zenon DEF Steady
<1>2. Owned'
  BY <1>1, Zenon DEF Owned, Running
<1>3. OneExecPerLease'
  BY <1>1, Zenon DEF OneExecPerLease
<1> QED
  BY <1>2, <1>3, Zenon

\* A lease id that is not used stays so.
LEMMA UnusedStays ==
  ASSUME Unused, Steady, StaysUnused
  PROVE  Unused'
BY Zenon DEF Unused, Steady, StaysUnused

\* Freeing slots keeps the attached ones in step with the boots.
LEMMA AttachedStays ==
  ASSUME Attached, SlotsFreed, BootGoesOn
  PROVE  Attached' /\ SlotStep
<1>1. Attached'
  BY Zenon DEF Attached, SlotsFreed, BootGoesOn
<1> QED
  BY <1>1, Zenon DEF SlotsFreed, SlotStep

\* A step that starts no exec and sends no message.
LEMMA Quiet ==
  ASSUME IInv, Types', Waits', Later, Shrinks, StaysEmpty, Steady, StaysUnused,
         executing' \subseteq executing, SlotsFreed, BootGoesOn, RowStep
  PROVE  Good
<1>1. Mails'
  BY MailsShrink, Zenon DEF IInv
<1>2. Owned' /\ OneExecPerLease'
  BY OwnedStays, Zenon DEF IInv
<1>3. Unused'
  BY UnusedStays, Zenon DEF IInv
<1>4. Attached' /\ SlotStep
  BY AttachedStays, Zenon DEF IInv
<1> QED
  BY <1>1, <1>2, <1>3, <1>4, Zenon DEF IInv, Good

\* A step that starts no exec and sends message x to lease l.
LEMMA Sends ==
  ASSUME IInv, Types', Waits', Later, Steady, executing' \subseteq executing,
         SlotsFreed, BootGoesOn, row' = row,
         \A m \in Leases : boot[m] = "none" => boot'[m] = "none",
         NEW l \in Leases, NEW x \in Commands, Enqueue(l, x), actor[l].run # "none",
         Message(l, x, executing', call'), x.op # "acquire",
         OfExec(x) => \A k \in 1 .. Len(mailbox[l]) :
                        ~(OfExec(mailbox[l][k]) /\ mailbox[l][k].from = x.from)
  PROVE  Good
<1>1. Mails'
  BY MailsGrow, Zenon DEF IInv, Enqueue
<1>2. Owned' /\ OneExecPerLease'
  BY OwnedStays, Zenon DEF IInv
<1>3. Unused'
  <2>1. \A m \in Leases : m # l => mailbox'[m] = mailbox[m]
    BY Zenon DEF Enqueue, IInv, Types
  <2> QED
    BY <2>1, Zenon DEF IInv, Unused, Steady
<1>4. Attached' /\ SlotStep
  BY AttachedStays, Zenon DEF IInv
<1> QED
  BY <1>1, <1>2, <1>3, <1>4, Zenon DEF IInv, Good, RowStep

-----------------------------------------------------------------------------
(* The calls. *)

\* What the step of a call keeps: everything but the calls, the rows of execs,
\* the idempotency rows and which actors are known.
LEMMA CallChange ==
  ASSUME IInv, UNCHANGED <<row, mailbox, remaining, boot, slot, proc, executing>>,
         Types', Waits', Later, Steady
  PROVE  Good
<1>1. Shrinks /\ StaysEmpty /\ StaysUnused /\ BootGoesOn /\ RowStep /\ executing' \subseteq executing
  BY Zenon DEF Shrinks, StaysEmpty, StaysUnused, BootGoesOn, RowStep
<1>2. SlotsFreed
  BY Zenon DEF SlotsFreed, IInv, Types
<1> QED
  BY <1>1, <1>2, Quiet, Zenon

\* A call c that has begun with row r.
LEMMA CallBegins ==
  ASSUME IInv, NEW c \in Calls, NEW r \in CallRows, call[c].pc = "new",
         call' = [call EXCEPT ![c] = r],
         UNCHANGED <<row, actor, mailbox, remaining, boot, slot, proc, executing, idem>>,
         r.pc = "found" => r.op \in Ops \ {"acquire"},
         r.pc \in {"found", "done"},
         r.pc = "found" => r.lease \in Leases /\ actor[r.lease].run # "none"
  PROVE  Good
<1>1. /\ call' \in [Calls -> CallRows] /\ call'[c] = r
      /\ \A d \in Calls : d # c => call'[d] = call[d]
  BY Zenon DEF IInv, Types
<1>2. Types'
  BY <1>1, Zenon DEF IInv, Types
<1>3. Waits'
  BY <1>1, Zenon DEF IInv, Waits
<1>4. Later
  BY <1>1, Zenon DEF Later
<1>5. Steady
  BY Zenon DEF Steady
<1> QED
  BY <1>2, <1>3, <1>4, <1>5, CallChange, Zenon

\* A lease with a row has an actor.
LEMMA UsedLease ==
  ASSUME IInv, NEW l \in Leases, row[l] # "none"
  PROVE  actor[l].run # "none"
BY Zenon DEF IInv, Unused

\* RenewLease keeps the invariant.
LEMMA RenewStep ==
  ASSUME IInv, NEW c \in Calls, NEW l \in Leases, RenewLease(c, l)
  PROVE  Good
<1> DEFINE a == MinOf(remaining[l] + Extend, MaxRemaining)
           pc == IF actor[l].known THEN "found" ELSE "done"
           out == IF actor[l].known THEN "none" ELSE "err"
           r == [call[c] EXCEPT !.op = "renew", !.lease = l, !.pc = pc, !.out = out, !.arg = a]
<1>1. call[c].pc = "new" /\ call' = [call EXCEPT ![c] = r] /\ row[l] # "none"
  BY Zenon DEF RenewLease, Begins, IInv, Types
<1>2. UNCHANGED <<row, actor, mailbox, remaining, boot, slot, proc, executing, idem>>
  BY Zenon DEF RenewLease, host, execs
<1>3. a \in Nat
  BY LeasesAssumption DEF IInv, Types, MinOf
<1> HIDE DEF a
<1>0. pc \in {"found", "done"} /\ out \in {"none", "err"}
  BY Zenon
<1> HIDE DEF pc, out
<1>4. call[c] \in CallRows
  BY Zenon DEF IInv, Types
<1>5. /\ r \in CallRows /\ r.pc \in {"found", "done"} /\ r.op \in Ops \ {"acquire"} /\ r.lease = l
  BY <1>0, <1>3, <1>4, ZenonT(60) DEF CallRows, Ops
<1> HIDE DEF r
<1> QED
  BY <1>1, <1>2, <1>5, CallBegins, UsedLease, Zenon

\* ReleaseLease keeps the invariant.
LEMMA ReleaseStep ==
  ASSUME IInv, NEW c \in Calls, NEW l \in Leases, ReleaseLease(c, l)
  PROVE  Good
<1> DEFINE pc == IF actor[l].known THEN "found" ELSE "done"
           out == IF actor[l].known THEN "none" ELSE "ok"
           r == [call[c] EXCEPT !.op = "release", !.lease = l, !.pc = pc, !.out = out]
<1>1. call[c].pc = "new" /\ call' = [call EXCEPT ![c] = r] /\ row[l] # "none"
  BY Zenon DEF ReleaseLease, Begins, IInv, Types
<1>2. UNCHANGED <<row, actor, mailbox, remaining, boot, slot, proc, executing, idem>>
  BY Zenon DEF ReleaseLease, host, execs
<1>0. pc \in {"found", "done"} /\ out \in {"none", "ok"}
  BY Zenon
<1> HIDE DEF pc, out
<1>4. call[c] \in CallRows
  BY Zenon DEF IInv, Types
<1>5. /\ r \in CallRows /\ r.pc \in {"found", "done"} /\ r.op \in Ops \ {"acquire"} /\ r.lease = l
  BY <1>0, <1>4, ZenonT(60) DEF CallRows, Ops
<1> HIDE DEF r
<1> QED
  BY <1>1, <1>2, <1>5, CallBegins, UsedLease, Zenon

\* CancelExec, CommitFilesystemMount and CheckpointGoldenVM keep it.
LEMMA ActorCallStep ==
  ASSUME IInv, NEW c \in Calls, NEW l \in Leases, NEW op \in {"commit", "cancel"},
         NEW e \in Calls \cup {NoCall}, ActorCall(c, l, op, e)
  PROVE  Good
<1> DEFINE pc == IF actor[l].known THEN "found" ELSE "done"
           out == IF actor[l].known THEN "none" ELSE "err"
           r == [call[c] EXCEPT !.op = op, !.lease = l, !.exec = e, !.pc = pc, !.out = out]
<1>1. call[c].pc = "new" /\ call' = [call EXCEPT ![c] = r] /\ row[l] # "none"
  BY Zenon DEF ActorCall, Begins, IInv, Types
<1>2. UNCHANGED <<row, actor, mailbox, remaining, boot, slot, proc, executing, idem>>
  BY Zenon DEF ActorCall, host, execs
<1>0. pc \in {"found", "done"} /\ out \in {"none", "err"}
  BY Zenon
<1> HIDE DEF pc, out
<1>4. call[c] \in CallRows
  BY Zenon DEF IInv, Types
<1>3. op \in Ops \ {"acquire"}
  BY Zenon DEF Ops
<1>5. /\ r \in CallRows /\ r.pc \in {"found", "done"} /\ r.op \in Ops \ {"acquire"} /\ r.lease = l
  BY <1>0, <1>3, <1>4, ZenonT(60) DEF CallRows
<1> HIDE DEF r
<1> QED
  BY <1>1, <1>2, <1>5, CallBegins, UsedLease, Zenon

\* StartExec keeps the invariant.
LEMMA StartStep ==
  ASSUME IInv, NEW c \in Calls, NEW l \in Leases, NEW k \in Keys, StartExec(c, l, k)
  PROVE  Good
<1> DEFINE r == [call[c] EXCEPT !.op = "start", !.key = k, !.lease = l, !.exec = idem[l][k],
                    !.pc = "done", !.out = "ok"]
           q == [call[c] EXCEPT !.op = "start", !.key = k, !.lease = l, !.exec = c, !.pc = "found"]
           t == [call[c] EXCEPT !.op = "start", !.key = k, !.lease = l, !.pc = "done", !.out = "err"]
<1>1. /\ call[c].pc = "new" /\ row[l] # "none"
      /\ \/ call' = [call EXCEPT ![c] = r]
         \/ call' = [call EXCEPT ![c] = q]
         \/ call' = [call EXCEPT ![c] = t]
  BY Zenon DEF StartExec, Begins, IInv, Types
<1>2. UNCHANGED <<row, actor, mailbox, remaining, boot, slot, proc, executing, idem>>
  BY Zenon DEF StartExec, host
<1>4. call[c] \in CallRows /\ idem[l][k] \in Calls \cup {NoLease}
  BY Zenon DEF IInv, Types
<1>5. r \in CallRows /\ r.pc = "done" /\ t \in CallRows /\ t.pc = "done"
  <2>1. r \in CallRows /\ r.pc = "done"
    BY <1>4, ZenonT(40) DEF CallRows, Ops
  <2>2. t \in CallRows /\ t.pc = "done"
    BY <1>4, ZenonT(40) DEF CallRows, Ops
  <2> QED
    BY <2>1, <2>2, Zenon
<1>6. q \in CallRows /\ q.pc = "found" /\ q.op \in Ops \ {"acquire"} /\ q.lease = l
  BY <1>4, ZenonT(40) DEF CallRows, Ops
<1> HIDE DEF r, q, t
<1>7. CASE call' = [call EXCEPT ![c] = r]
  BY <1>1, <1>2, <1>5, <1>7, CallBegins, Zenon
<1>8. CASE call' = [call EXCEPT ![c] = t]
  BY <1>1, <1>2, <1>5, <1>8, CallBegins, Zenon
<1>9. CASE call' = [call EXCEPT ![c] = q]
  BY <1>1, <1>2, <1>6, <1>9, CallBegins, UsedLease, Zenon
<1> QED
  BY <1>1, <1>7, <1>8, <1>9, Zenon

\* A call c at pc "wait" or "replied" that moves to row r.
LEMMA CallMoves ==
  ASSUME IInv, NEW c \in Calls, NEW r \in CallRows, call[c].pc \in {"wait", "replied"},
         call' = [call EXCEPT ![c] = r], r.lease = call[c].lease,
         r.pc \in {"wait", "replied", "done"}, Steady
  PROVE  call' \in [Calls -> CallRows] /\ Waits' /\ Later
<1>1. /\ call' \in [Calls -> CallRows] /\ call'[c] = r
      /\ \A d \in Calls : d # c => call'[d] = call[d]
  BY Zenon DEF IInv, Types
<1>2. Waits'
  <2>1. ASSUME NEW d \in Calls
        PROVE  /\ call'[d].pc = "found" => call'[d].op \in Ops \ {"acquire"}
               /\ call'[d].pc \in {"found", "wait", "replied"} =>
                    call'[d].lease \in Leases /\ actor'[call'[d].lease].run # "none"
    <3>1. CASE d = c
      BY <1>1, <3>1 DEF IInv, Waits, Steady
    <3>2. CASE d # c
      BY <1>1, <3>2, Zenon DEF IInv, Waits, Steady
    <3> QED
      BY <3>1, <3>2, Zenon
  <2> QED
    BY <2>1, Zenon DEF Waits
<1>3. Later
  BY <1>1, Zenon DEF Later
<1> QED
  BY <1>1, <1>2, <1>3, Zenon

\* A caller that leaves keeps the invariant.
LEMMA TimeoutStep ==
  ASSUME IInv, NEW c \in Calls, CallTimesOut(c)
  PROVE  Good
<1> DEFINE r == [call[c] EXCEPT !.pc = "done", !.out = "timeout"]
<1>1. call[c].pc = "wait" /\ call' = [call EXCEPT ![c] = r]
  BY Zenon DEF CallTimesOut, IInv, Types
<1>2. UNCHANGED <<row, actor, mailbox, remaining, boot, slot, proc, executing, idem>>
  BY Zenon DEF CallTimesOut, host, execs
<1>3. call[c] \in CallRows
  BY Zenon DEF IInv, Types
<1>4. r \in CallRows /\ r.pc = "done" /\ r.lease = call[c].lease
  BY <1>3, Zenon DEF CallRows
<1> HIDE DEF r
<1>5. Steady
  BY <1>2, Zenon DEF Steady
<1>6. call' \in [Calls -> CallRows] /\ Waits' /\ Later
  BY <1>1, <1>4, <1>5, CallMoves, Zenon
<1>7. Types'
  BY <1>2, <1>6, Zenon DEF IInv, Types
<1> QED
  BY <1>2, <1>5, <1>6, <1>7, CallChange, Zenon

\* The idempotency row of StartExec keeps the invariant.
LEMMA StartAnsweredStep ==
  ASSUME IInv, NEW c \in Calls, StartAnswered(c)
  PROVE  Good
<1> DEFINE r == [call[c] EXCEPT !.pc = "done"]
           l == call[c].lease
           k == call[c].key
<1>1. call[c].pc = "replied" /\ call' = [call EXCEPT ![c] = r]
  BY Zenon DEF StartAnswered, IInv, Types
<1>2. UNCHANGED <<row, actor, mailbox, remaining, boot, slot, proc, executing>>
  BY Zenon DEF StartAnswered, host, execs
<1>3. call[c] \in CallRows /\ l \in Leases
  BY <1>1, Zenon DEF IInv, Types, Waits
<1>4. r \in CallRows /\ r.pc = "done" /\ r.lease = call[c].lease
  BY <1>3, Zenon DEF CallRows
<1>5. Steady
  BY <1>2, Zenon DEF Steady
<1>6. call' \in [Calls -> CallRows] /\ Waits' /\ Later
  BY <1>1, <1>4, <1>5, CallMoves, Zenon
<1>7. idem' = idem \/ idem' = [idem EXCEPT ![l] = [@ EXCEPT ![k] = c]]
  BY Zenon DEF StartAnswered
<1> HIDE DEF r, l, k
<1>8. /\ idem' \in [Scopes -> [Keys -> Leases \cup Calls \cup {NoLease}]]
      /\ \A j \in Keys : idem'[NoLease][j] \in Leases \cup {NoLease}
      /\ \A m \in Leases, j \in Keys : idem'[m][j] \in Calls \cup {NoLease}
  <2>1. CASE idem' = idem
    BY <2>1, Zenon DEF IInv, Types
  <2>2. CASE idem' = [idem EXCEPT ![l] = [@ EXCEPT ![k] = c]]
    <3>1. /\ idem \in [Scopes -> [Keys -> Leases \cup Calls \cup {NoLease}]]
          /\ l \in Scopes /\ NoLease \in Scopes /\ l # NoLease /\ Leases \subseteq Scopes
      BY <1>3, LeasesAssumption, Zenon DEF IInv, Types, Scopes
    <3>2. /\ DOMAIN idem[l] = Keys
          /\ [idem[l] EXCEPT ![k] = c] \in [Keys -> Leases \cup Calls \cup {NoLease}]
          /\ \A j \in Keys : [idem[l] EXCEPT ![k] = c][j] \in {idem[l][j], c}
      BY <3>1, Zenon
    <3>3. /\ idem' \in [Scopes -> [Keys -> Leases \cup Calls \cup {NoLease}]]
          /\ \A m \in Scopes : m # l => idem'[m] = idem[m]
          /\ idem'[l] = [idem[l] EXCEPT ![k] = c]
      BY <2>2, <3>1, <3>2, Zenon
    <3> QED
      BY <3>1, <3>2, <3>3, <1>3, ZenonT(60) DEF IInv, Types
  <2> QED
    BY <1>7, <2>1, <2>2, Zenon
<1>9. Types'
  BY <1>2, <1>6, <1>8, Zenon DEF IInv, Types
<1> QED
  BY <1>2, <1>5, <1>6, <1>9, CallChange, Zenon

\* The idempotency row of AcquireLease, or the actor it forgets, keeps it.
LEMMA AcquireAnsweredStep ==
  ASSUME IInv, NEW c \in Calls, AcquireAnswered(c)
  PROVE  Good
<1> DEFINE r == [call[c] EXCEPT !.pc = "done"]
           l == call[c].lease
           k == call[c].key
           v == IF idem[NoLease][k] = NoLease THEN l ELSE idem[NoLease][k]
<1>1. call[c].pc = "replied" /\ call' = [call EXCEPT ![c] = r]
  BY Zenon DEF AcquireAnswered, IInv, Types
<1>2. UNCHANGED <<row, mailbox, remaining, boot, slot, proc, executing>>
  BY Zenon DEF AcquireAnswered, host, execs
<1>3. call[c] \in CallRows /\ l \in Leases
  BY <1>1, Zenon DEF IInv, Types, Waits
<1>4. r \in CallRows /\ r.pc = "done" /\ r.lease = call[c].lease
  BY <1>3, Zenon DEF CallRows
<1>5. actor' = actor \/ actor' = [actor EXCEPT ![l] = [@ EXCEPT !.known = FALSE]]
  BY Zenon DEF AcquireAnswered
<1>6. actor' \in [Leases -> ActorRows] /\ Steady
  <2>1. CASE actor' = actor
    BY <2>1, Zenon DEF Steady, IInv, Types
  <2>2. CASE actor' = [actor EXCEPT ![l] = [@ EXCEPT !.known = FALSE]]
    <3>1. actor[l] \in ActorRows /\ actor \in [Leases -> ActorRows]
      BY <1>3, Zenon DEF IInv, Types
    <3>2. /\ [actor[l] EXCEPT !.known = FALSE] \in ActorRows
          /\ [actor[l] EXCEPT !.known = FALSE].run = actor[l].run
          /\ [actor[l] EXCEPT !.known = FALSE].active = actor[l].active
      BY <3>1, Zenon DEF ActorRows
    <3>3. /\ actor' \in [Leases -> ActorRows] /\ actor'[l].run = actor[l].run
          /\ actor'[l].active = actor[l].active
          /\ \A m \in Leases : m # l => actor'[m] = actor[m]
      BY <1>3, <2>2, <3>1, <3>2, Zenon
    <3>4. actor[l].run # "none"
      BY <1>1, Zenon DEF IInv, Waits
    <3> QED
      BY <3>3, <3>4, Zenon DEF Steady
  <2> QED
    BY <1>5, <2>1, <2>2, Zenon
<1>7. call' \in [Calls -> CallRows] /\ Waits' /\ Later
  BY <1>1, <1>4, <1>6, CallMoves, Zenon
<1>8. idem' = idem \/ idem' = [idem EXCEPT ![NoLease] = [@ EXCEPT ![k] = v]]
  BY Zenon DEF AcquireAnswered, Scopes, IInv, Types
<1> HIDE DEF r, l, k
<1>9. /\ idem' \in [Scopes -> [Keys -> Leases \cup Calls \cup {NoLease}]]
      /\ \A j \in Keys : idem'[NoLease][j] \in Leases \cup {NoLease}
      /\ \A m \in Leases, j \in Keys : idem'[m][j] \in Calls \cup {NoLease}
  <2>1. CASE idem' = idem
    BY <2>1, Zenon DEF IInv, Types
  <2>2. CASE idem' = [idem EXCEPT ![NoLease] = [@ EXCEPT ![k] = v]]
    <3>1. /\ idem \in [Scopes -> [Keys -> Leases \cup Calls \cup {NoLease}]]
          /\ NoLease \in Scopes /\ NoLease \notin Leases /\ Leases \subseteq Scopes
          /\ \A j \in Keys : idem[NoLease][j] \in Leases \cup {NoLease}
      BY LeasesAssumption, Zenon DEF IInv, Types, Scopes
    <3>2. k \in Keys => v \in Leases
      BY <1>3, <3>1, Zenon
    <3> HIDE DEF v
    <3>3. /\ [idem[NoLease] EXCEPT ![k] = v] \in [Keys -> Leases \cup {NoLease}]
      BY <3>1, <3>2, Zenon
    <3>4. /\ idem'[NoLease] = [idem[NoLease] EXCEPT ![k] = v]
          /\ \A m \in Scopes : m # NoLease => idem'[m] = idem[m]
          /\ DOMAIN idem' = Scopes /\ idem' = [m \in Scopes |-> idem'[m]]
      BY <2>2, <3>1, ZenonT(30)
    <3>5. idem' \in [Scopes -> [Keys -> Leases \cup Calls \cup {NoLease}]]
      BY <3>1, <3>3, <3>4, SMTT(30)
    <3> QED
      BY <3>1, <3>3, <3>4, <3>5, Zenon DEF IInv, Types
  <2> QED
    BY <1>8, <2>1, <2>2, Zenon
<1>10. Types'
  BY <1>2, <1>6, <1>7, <1>9, Zenon DEF IInv, Types
<1> QED
  BY <1>2, <1>6, <1>7, <1>10, CallChange, Zenon

\* AcquireLease finds an empty mailbox for its fresh lease.
LEMMA AcquireStep ==
  ASSUME IInv, NEW c \in Calls, NEW k \in Keys, AcquireLease(c, k)
  PROVE  Good
<1>1. call[c] \in CallRows /\ idem[NoLease][k] \in Leases \cup {NoLease} /\ call[c].pc = "new"
  BY ZenonT(30) DEF IInv, Types, AcquireLease, Begins
<1>2. UNCHANGED <<row, boot, slot, proc, executing, idem>>
  BY Zenon DEF AcquireLease, host, execs
<1>3. CASE UNCHANGED <<actor, mailbox, remaining>>
  <2> DEFINE r == [call[c] EXCEPT !.op = "acquire", !.key = k, !.lease = idem[NoLease][k],
                     !.pc = "done", !.out = "ok"]
             t == [call[c] EXCEPT !.op = "acquire", !.key = k, !.pc = "done", !.out = "err"]
  <2>1. call' = [call EXCEPT ![c] = r] \/ call' = [call EXCEPT ![c] = t]
    <3>1. \A l \in Leases : ~Enqueue(l, Cmd("acquire", c))
      <4> SUFFICES ASSUME NEW l \in Leases, Enqueue(l, Cmd("acquire", c)) PROVE FALSE
        BY Zenon
      <4>1. mailbox[l] \in Seq(Commands) /\ Cmd("acquire", c) \in Commands
        BY Zenon DEF IInv, Types, Commands, Cmd, Ops
      <4>2. mailbox'[l] = Append(mailbox[l], Cmd("acquire", c))
        BY Zenon DEF Enqueue, IInv, Types
      <4>3. Len(mailbox'[l]) = Len(mailbox[l]) + 1 /\ Len(mailbox[l]) \in Nat
        BY <4>1, <4>2
      <4> QED
        BY <1>3, <4>3
    <3> QED
      BY <3>1, Zenon DEF AcquireLease
  <2>2. r \in CallRows /\ r.pc = "done" /\ t \in CallRows /\ t.pc = "done"
    BY <1>1, ZenonT(30) DEF CallRows, Ops
  <2> HIDE DEF r, t
  <2>3. CASE call' = [call EXCEPT ![c] = r]
    BY <1>1, <1>2, <1>3, <2>2, <2>3, CallBegins, Zenon
  <2>4. CASE call' = [call EXCEPT ![c] = t]
    BY <1>1, <1>2, <1>3, <2>2, <2>4, CallBegins, Zenon
  <2> QED
    BY <2>1, <2>3, <2>4, Zenon
<1>4. ASSUME NEW l \in Leases, Fresh(l),
             actor' = [actor EXCEPT ![l] = [run |-> "running", state |-> "acquiring", known |-> TRUE,
                                            runtime |-> FALSE, active |-> NoCall]],
             remaining' = [remaining EXCEPT ![l] = TTL],
             Enqueue(l, Cmd("acquire", c)),
             call' = [call EXCEPT ![c] = [@ EXCEPT !.op = "acquire", !.key = k, !.lease = l, !.pc = "wait"]]
      PROVE  Good
  <2> DEFINE r == [call[c] EXCEPT !.op = "acquire", !.key = k, !.lease = l, !.pc = "wait"]
             x == Cmd("acquire", c)
             a == [run |-> "running", state |-> "acquiring", known |-> TRUE,
                   runtime |-> FALSE, active |-> NoCall]
  <2>1. call' = [call EXCEPT ![c] = r]
    BY <1>4, Zenon
  <2>2. /\ r \in CallRows /\ r.pc = "wait" /\ r.lease = l
        /\ x \in Commands /\ x.op = "acquire" /\ x.from = c
        /\ a \in ActorRows /\ a.run = "running"
    BY <1>1, Zenon DEF CallRows, Ops, Commands, Cmd, ActorRows, RowStates
  <2>3. /\ actor' = [actor EXCEPT ![l] = a] /\ mailbox' = [mailbox EXCEPT ![l] = Append(@, x)]
    BY <1>4, Zenon DEF Enqueue
  <2> HIDE DEF r, x, a
  <2>4. /\ call' \in [Calls -> CallRows] /\ call'[c] = r
        /\ \A d \in Calls : d # c => call'[d] = call[d]
    BY <2>1, <2>2, Zenon DEF IInv, Types
  <2>5. /\ actor' \in [Leases -> ActorRows] /\ actor'[l] = a
        /\ \A m \in Leases : m # l => actor'[m] = actor[m]
    BY <2>2, <2>3, Zenon DEF IInv, Types
  <2>6. actor[l].run = "none" /\ mailbox[l] = <<>> /\ row[l] = "none" /\ boot[l] = "none"
    BY <1>4, Zenon DEF IInv, Unused, Fresh
  <2>7. Later
    BY <1>1, <2>4, Zenon DEF Later
  <2>8. Message(l, x, executing', call')
    BY <2>2, Zenon DEF Message, OfExec
  <2>9. Mails' /\ mailbox' \in [Leases -> Seq(Commands)]
    <3>1. ~OfExec(x)
      BY <2>2, Zenon DEF OfExec
    <3>2. executing' \subseteq executing /\ row' = row
          /\ \A m \in Leases : boot[m] = "none" => boot'[m] = "none"
      BY <1>2, Zenon
    <3> QED
      BY <2>2, <2>3, <2>6, <2>7, <2>8, <3>1, <3>2, MailsGrow, Zenon DEF IInv
  <2>10. Types'
    <3>1. remaining' \in [Leases -> Nat]
      BY <1>4, LeasesAssumption, Zenon DEF IInv, Types
    <3> QED
      BY <1>2, <2>4, <2>5, <2>9, <3>1, Zenon DEF IInv, Types
  <2>11. Unused'
    <3>1. \A m \in Leases : m # l => mailbox'[m] = mailbox[m]
      BY <2>3, Zenon DEF IInv, Types
    <3> QED
      BY <1>2, <2>2, <2>5, <3>1, ZenonT(30) DEF IInv, Unused
  <2>12. Waits'
    BY <2>2, <2>4, <2>5 DEF IInv, Waits
  <2>13. \A e \in executing : e \in Calls /\ e # c /\ call'[e] = call[e] /\ call[e].lease # l
    <3>1. \A e \in executing : e \in Calls /\ call[e].pc # "new" /\ actor[call[e].lease].run # "none"
      BY Zenon DEF IInv, Types, Owned
    <3> QED
      BY <1>1, <2>4, <2>6, <3>1, Zenon
  <2>14. Owned' /\ OneExecPerLease'
    <3>1. Owned'
      BY <1>2, <2>5, <2>13 DEF IInv, Owned, Running
    <3>2. OneExecPerLease'
      BY <1>2, <2>13 DEF IInv, OneExecPerLease
    <3> QED
      BY <3>1, <3>2, Zenon
  <2>15. Attached' /\ SlotStep /\ RowStep
    BY <1>2, Zenon DEF IInv, Attached, SlotStep, RowStep
  <2> QED
    BY <2>9, <2>10, <2>11, <2>12, <2>14, <2>15, Zenon DEF IInv, Good
<1> QED
  BY <1>3, <1>4, Zenon DEF AcquireLease

\* The send of a handler is the only message of its exec.
LEMMA SendStep ==
  ASSUME IInv, NEW c \in Calls, SendCommand(c)
  PROVE  Good
<1> DEFINE l == call[c].lease
           x == Cmd(call[c].op, c)
<1>1. /\ call[c] \in CallRows /\ call[c].pc = "found" /\ l \in Leases
      /\ actor[l].run # "none" /\ call[c].op \in Ops \ {"acquire"}
  BY Zenon DEF IInv, Types, Waits, SendCommand
<1>2. UNCHANGED <<row, actor, remaining, boot, slot, proc, executing, idem>>
  BY Zenon DEF SendCommand, host, execs
<1>3. x \in Commands /\ x.op = call[c].op /\ x.from = c
  BY <1>1, Zenon DEF Commands, Cmd
<1> DEFINE w == [call[c] EXCEPT !.pc = "wait"]
           t == [call[c] EXCEPT !.pc = "done", !.out = "err"]
<1>4. \/ Enqueue(l, x) /\ call' = [call EXCEPT ![c] = w]
      \/ UNCHANGED mailbox /\ (call' = [call EXCEPT ![c] = w] \/ call' = [call EXCEPT ![c] = t])
  BY Zenon DEF SendCommand
<1>5. /\ w \in CallRows /\ w.pc = "wait" /\ w.lease = l
      /\ t \in CallRows /\ t.pc = "done" /\ t.lease = l
  BY <1>1, Zenon DEF CallRows
<1> HIDE DEF w, t, x
<1>6. /\ call' \in [Calls -> CallRows] /\ call'[c] \in {w, t}
      /\ \A d \in Calls : d # c => call'[d] = call[d]
  BY <1>4, <1>5, Zenon DEF IInv, Types
<1>7. Waits' /\ Later /\ Steady
  <2>1. Waits'
    BY <1>1, <1>2, <1>5, <1>6, Zenon DEF IInv, Waits
  <2>2. Later
    BY <1>1, <1>6, Zenon DEF Later
  <2> QED
    BY <1>2, <2>1, <2>2, Zenon DEF Steady
<1>8. CASE UNCHANGED mailbox
  <2>1. Types'
    BY <1>2, <1>6, <1>8, Zenon DEF IInv, Types
  <2> QED
    BY <1>2, <1>7, <1>8, <2>1, CallChange, Zenon
<1>9. CASE Enqueue(l, x) /\ call' = [call EXCEPT ![c] = w]
  <2>1. call'[c] = w
    BY <1>9, Zenon DEF IInv, Types
  <2>2. Message(l, x, executing', call')
    <3>1. c \notin executing
      BY <1>1, Zenon DEF IInv, Owned
    <3> QED
      BY <1>1, <1>2, <1>3, <1>5, <2>1, <3>1, Zenon DEF Message, OfExec
  <2>3. \A j \in 1 .. Len(mailbox[l]) : ~(OfExec(mailbox[l][j]) /\ mailbox[l][j].from = x.from)
    BY <1>1, <1>3, SMTT(30) DEF IInv, Mails, Message
  <2>4. mailbox' \in [Leases -> Seq(Commands)]
    BY <1>1, <1>3, <1>9 DEF IInv, Types, Enqueue
  <2>5. Types'
    BY <1>2, <1>6, <2>4, Zenon DEF IInv, Types
  <2>6. SlotsFreed /\ BootGoesOn /\ executing' \subseteq executing
    BY <1>2, Zenon DEF SlotsFreed, BootGoesOn, IInv, Types
  <2>7. \A m \in Leases : boot[m] = "none" => boot'[m] = "none"
    BY <1>2, Zenon
  <2> HIDE DEF l
  <2> QED
    BY <1>1, <1>2, <1>3, <1>7, <1>9, <2>2, <2>3, <2>5, <2>6, <2>7, Sends, Zenon
<1> QED
  BY <1>4, <1>8, <1>9, Zenon

\* Every step of an RPC keeps the invariant.
LEMMA CallSteps ==
  ASSUME IInv, NEW c \in Calls, CallStep(c)
  PROVE  Good
BY AcquireStep, RenewStep, ReleaseStep, StartStep, ActorCallStep, AcquireAnsweredStep,
   StartAnsweredStep, SendStep, TimeoutStep, Zenon DEF CallStep

-----------------------------------------------------------------------------
(* The boot goroutine. *)

\* The cleanup of a lease frees its slots and ends its process.
LEMMA CleanupFrees ==
  ASSUME IInv, NEW l \in Leases, slot' = FreeSlotOf(l), \A m \in proc' : m # l
  PROVE  SlotsFreed
<1>1. slot \in [Slots -> SlotRows] /\ FreeSlot \in SlotRows /\ FreeSlot.pid = FALSE
  BY Zenon DEF IInv, Types, SlotRows, FreeSlot
<1>2. \A s \in Slots : slot'[s] = IF slot[s].lease = l THEN FreeSlot ELSE slot[s]
  BY Zenon DEF FreeSlotOf
<1>3. slot' \in [Slots -> SlotRows]
  BY <1>1, Zenon DEF FreeSlotOf
<1> QED
  BY <1>1, <1>2, <1>3, Zenon DEF SlotsFreed

\* A step that leaves the host alone frees no slot.
LEMMA HostKept ==
  ASSUME IInv, UNCHANGED <<slot, proc>>
  PROVE  SlotsFreed
BY Zenon DEF IInv, Types, SlotsFreed

\* A boot step of lease l other than the one that attaches the process.
LEMMA BootChange ==
  ASSUME IInv, NEW l \in Leases, NEW to \in BootSteps \ {"none"}, boot[l] # "none",
         boot' = [boot EXCEPT ![l] = to],
         UNCHANGED <<row, actor, mailbox, remaining, executing, call, idem>>,
         SlotsFreed, Attached'
  PROVE  Good
<1>1. /\ boot' \in [Leases -> BootSteps] /\ boot'[l] # "none"
      /\ \A m \in Leases : m # l => boot'[m] = boot[m]
  BY Zenon DEF IInv, Types
<1>2. Types'
  BY <1>1, Zenon DEF IInv, Types, SlotsFreed
<1>3. Waits' /\ Later /\ Steady /\ Shrinks /\ RowStep /\ executing' \subseteq executing
  BY Zenon DEF IInv, Waits, Later, Steady, Shrinks, RowStep
<1>4. StaysEmpty
  BY <1>1, Zenon DEF StaysEmpty
<1>5. Unused'
  BY <1>1, Zenon DEF IInv, Unused
<1>6. Mails'
  BY <1>3, <1>4, MailsShrink, Zenon DEF IInv
<1>7. Owned' /\ OneExecPerLease'
  BY <1>3, OwnedStays, Zenon DEF IInv
<1>8. SlotStep
  BY Zenon DEF SlotsFreed, SlotStep
<1> QED
  BY <1>2, <1>3, <1>5, <1>6, <1>7, <1>8, Zenon DEF IInv, Good

\* A failed boot step frees a slot whose process is not attached or is ended.
LEMMA BootFailsStep ==
  ASSUME IInv, NEW l \in Leases, BootFails(l)
  PROVE  Good
<1>1. /\ boot' = [boot EXCEPT ![l] = "failed"] /\ boot[l] # "none" /\ slot' = FreeSlotOf(l)
      /\ UNCHANGED <<row, actor, mailbox, remaining, executing, call, idem>>
  BY Zenon DEF BootFails, execs
<1>2. /\ slot \in [Slots -> SlotRows] /\ FreeSlot \in SlotRows /\ FreeSlot.pid = FALSE
      /\ \A s \in Slots : slot'[s] = IF slot[s].lease = l THEN FreeSlot ELSE slot[s]
      /\ slot' \in [Slots -> SlotRows]
  BY <1>1, Zenon DEF IInv, Types, SlotRows, FreeSlot, FreeSlotOf
<1>3. SlotsFreed
  <2>1. CASE boot[l] = "attach"
    <3>1. \A s \in Slots : slot[s].pid => slot[s].lease # l
      BY <2>1, Zenon DEF IInv, Attached
    <3> QED
      BY <1>2, <3>1, Zenon DEF SlotsFreed
  <2>2. CASE boot[l] # "attach"
    <3>1. \A m \in proc' : m # l
      BY <2>2, Zenon DEF BootFails
    <3> QED
      BY <1>1, <3>1, CleanupFrees, Zenon
  <2> QED
    BY <2>1, <2>2, Zenon
<1>4. Attached'
  <2>1. \A m \in Leases : m # l => boot'[m] = boot[m]
    BY <1>1, Zenon DEF IInv, Types
  <2> QED
    BY <1>2, <2>1 DEF IInv, Attached
<1> QED
  BY <1>1, <1>3, <1>4, BootChange, Zenon DEF BootSteps

\* A boot step that leaves the slots alone.
LEMMA BootHostKept ==
  ASSUME IInv, NEW l \in Leases, NEW from, NEW to \in BootSteps \ {"none"}, from # "none",
         from = "guest" => to = "up", from \notin {"up", "sent"},
         BootStep(l, from, to), UNCHANGED slot
  PROVE  Good
<1>1. /\ boot' = [boot EXCEPT ![l] = to] /\ boot[l] = from
      /\ UNCHANGED <<row, actor, mailbox, remaining, executing, call, idem>>
  BY Zenon DEF BootStep, execs
<1>2. SlotsFreed
  BY Zenon DEF SlotsFreed, IInv, Types
<1>3. boot'[l] = to /\ \A m \in Leases : m # l => boot'[m] = boot[m]
  BY <1>1, Zenon DEF IInv, Types
<1>4. Attached'
  BY <1>1, <1>3 DEF IInv, Attached
<1> QED
  BY <1>1, <1>2, <1>4, BootChange, Zenon

\* Allocator.Acquire takes a slot nobody is attached to.
LEMMA BootNetworkStep ==
  ASSUME IInv, NEW l \in Leases, BootNetwork(l)
  PROVE  Good
<1>1. PICK t \in Slots : slot[t].lease = NoLease /\ slot' = [slot EXCEPT ![t] = [lease |-> l, pid |-> FALSE]]
  BY Zenon DEF BootNetwork
<1>2. /\ boot' = [boot EXCEPT ![l] = "jailer"] /\ boot[l] = "network"
      /\ UNCHANGED <<row, actor, mailbox, remaining, executing, call, idem, proc>>
  BY Zenon DEF BootNetwork, BootStep, execs
<1>3. /\ slot' \in [Slots -> SlotRows] /\ slot'[t].pid = FALSE
      /\ \A s \in Slots : s # t => slot'[s] = slot[s]
  BY <1>1, Zenon DEF IInv, Types, SlotRows
<1>4. slot[t].pid # TRUE
  BY <1>1, LeasesAssumption, Zenon DEF IInv, Attached
<1>5. SlotsFreed
  BY <1>3, <1>4, Zenon DEF SlotsFreed
<1>6. \A m \in Leases : m # l => boot'[m] = boot[m]
  BY <1>2, Zenon DEF IInv, Types
<1>7. Attached'
  BY <1>2, <1>3, <1>6 DEF IInv, Attached
<1> QED
  BY <1>2, <1>5, <1>7, BootChange, Zenon DEF BootSteps

\* Allocator.AttachPID changes slots that had no process.
LEMMA BootAttachStep ==
  ASSUME IInv, NEW l \in Leases, BootAttach(l)
  PROVE  Good
<1>1. /\ boot' = [boot EXCEPT ![l] = "guest"] /\ boot[l] = "attach"
      /\ UNCHANGED <<row, actor, mailbox, remaining, executing, call, idem, proc>>
  BY Zenon DEF BootAttach, BootStep, execs
<1>2. slot' = [s \in Slots |-> IF slot[s].lease = l THEN [slot[s] EXCEPT !.pid = TRUE] ELSE slot[s]]
  BY Zenon DEF BootAttach
<1>3. \A s \in Slots : slot[s] \in SlotRows /\ [slot[s] EXCEPT !.pid = TRUE] \in SlotRows
                       /\ [slot[s] EXCEPT !.pid = TRUE].lease = slot[s].lease
  BY ZenonT(30) DEF IInv, Types, SlotRows
<1>4. /\ slot' \in [Slots -> SlotRows] /\ \A s \in Slots : slot'[s].lease = slot[s].lease
      /\ \A s \in Slots : slot[s].lease # l => slot'[s] = slot[s]
  BY <1>2, <1>3, Zenon
<1>5. \A s \in Slots : slot[s].pid => slot[s].lease # l
  BY <1>1, Zenon DEF IInv, Attached
<1>6. /\ boot' \in [Leases -> BootSteps] /\ boot'[l] = "guest"
      /\ \A m \in Leases : m # l => boot'[m] = boot[m]
  BY <1>1, Zenon DEF IInv, Types, BootSteps
<1>7. Types'
  BY <1>1, <1>4, <1>6, Zenon DEF IInv, Types
<1>8. Attached' /\ SlotStep
  <2>1. Attached'
    BY <1>4, <1>6 DEF IInv, Attached
  <2>2. SlotStep
    BY <1>4, <1>5, Zenon DEF SlotStep
  <2> QED
    BY <2>1, <2>2, Zenon
<1>9. Waits' /\ Later /\ Steady /\ Shrinks /\ RowStep /\ executing' \subseteq executing
  BY <1>1, Zenon DEF IInv, Waits, Later, Steady, Shrinks, RowStep
<1>10. StaysEmpty /\ Unused'
  <2>1. StaysEmpty
    BY <1>1, <1>6, Zenon DEF StaysEmpty
  <2>2. Unused'
    BY <1>1, <1>6, Zenon DEF IInv, Unused
  <2> QED
    BY <2>1, <2>2, Zenon
<1>11. Mails'
  BY <1>9, <1>10, MailsShrink, Zenon DEF IInv
<1>12. Owned' /\ OneExecPerLease'
  BY <1>9, OwnedStays, Zenon DEF IInv
<1> QED
  BY <1>7, <1>8, <1>9, <1>10, <1>11, <1>12, Zenon DEF IInv, Good

\* The boot result, sent or cleaned up, keeps the invariant.
LEMMA BootSendStep ==
  ASSUME IInv, NEW l \in Leases, BootSend(l)
  PROVE  Good
<1> DEFINE x == [op |-> "boot", from |-> NoCall, ok |-> boot[l] = "up"]
<1>1. /\ boot' = [boot EXCEPT ![l] = "sent"] /\ boot[l] \in {"up", "failed"}
      /\ UNCHANGED <<row, actor, remaining, executing, call, idem>>
  BY Zenon DEF BootSend, execs
<1>2. /\ boot' \in [Leases -> BootSteps] /\ boot'[l] = "sent"
      /\ \A m \in Leases : m # l => boot'[m] = boot[m]
  BY <1>1, Zenon DEF IInv, Types, BootSteps
<1>3. BootGoesOn /\ \A m \in Leases : boot[m] = "none" => boot'[m] = "none"
  BY <1>1, <1>2, Zenon DEF BootGoesOn
<1>4. CASE Enqueue(l, x) /\ UNCHANGED host
  <2>1. x \in Commands /\ x.op = "boot"
    BY Zenon DEF Commands
  <2> HIDE DEF x
  <2>2. mailbox' \in [Leases -> Seq(Commands)]
    BY <1>4, <2>1 DEF IInv, Types, Enqueue
  <2>3. SlotsFreed
    BY <1>4, HostKept, Zenon DEF host
  <2>4. Types'
    BY <1>1, <1>2, <2>2, <2>3, ZenonT(30) DEF IInv, Types, SlotsFreed
  <2>5. Waits' /\ Later /\ Steady /\ executing' \subseteq executing /\ row' = row
    BY <1>1, Zenon DEF IInv, Waits, Later, Steady
  <2>6. actor[l].run # "none"
    BY <1>1, Zenon DEF IInv, Unused
  <2>7. Message(l, x, executing', call') /\ ~OfExec(x)
    BY <2>1, Zenon DEF Message, OfExec, Ops
  <2> QED
    BY <1>3, <1>4, <2>1, <2>3, <2>4, <2>5, <2>6, <2>7, Sends, Zenon
<1>5. CASE UNCHANGED mailbox /\ (Cleanup(l) \/ UNCHANGED host)
  <2>1. SlotsFreed
    BY <1>5, CleanupFrees, HostKept, Zenon DEF Cleanup, host
  <2>2. Attached'
    BY <1>3, <2>1, AttachedStays, Zenon DEF IInv
  <2> QED
    BY <1>1, <1>5, <2>1, <2>2, BootChange, Zenon DEF BootSteps
<1> QED
  BY <1>4, <1>5, Zenon DEF BootSend

\* Every step of a boot goroutine keeps the invariant.
LEMMA BootGoroutineSteps ==
  ASSUME IInv, NEW l \in Leases, BootGoroutine(l)
  PROVE  Good
<1>1. ASSUME BootClone(l) PROVE Good
  BY <1>1, BootHostKept, Zenon DEF BootClone, BootSteps
<1>2. ASSUME BootJailer(l) PROVE Good
  BY <1>2, BootHostKept, Zenon DEF BootJailer, BootSteps
<1>3. ASSUME BootGuest(l) PROVE Good
  BY <1>3, BootHostKept, Zenon DEF BootGuest, BootSteps, host
<1> QED
  BY <1>1, <1>2, <1>3, BootFailsStep, BootNetworkStep, BootAttachStep, BootSendStep, Zenon DEF BootGoroutine

-----------------------------------------------------------------------------
(* The actor. *)

\* The message an actor takes is the first of its mailbox.
LEMMA Taken ==
  ASSUME IInv, NEW l \in Leases, NEW op, Takes(l, op)
  PROVE  /\ mailbox' \in [Leases -> Seq(Commands)] /\ mailbox[l] # <<>>
         /\ mailbox'[l] = Tail(mailbox[l])
         /\ \A m \in Leases : m # l => mailbox'[m] = mailbox[m]
         /\ 1 \in 1 .. Len(mailbox[l]) /\ Head(mailbox[l]) = mailbox[l][1]
         /\ Head(mailbox[l]) \in Commands /\ Head(mailbox[l]).op = op
         /\ Message(l, Head(mailbox[l]), executing, call)
         /\ Running(l) /\ Shrinks
<1>1. /\ Running(l) /\ mailbox[l] # <<>> /\ Head(mailbox[l]).op = op
      /\ mailbox' = [mailbox EXCEPT ![l] = Tail(@)]
  BY Zenon DEF Takes
<1>2. mailbox \in [Leases -> Seq(Commands)] /\ mailbox[l] \in Seq(Commands)
  BY Zenon DEF IInv, Types
<1>3. /\ 1 \in 1 .. Len(mailbox[l]) /\ Head(mailbox[l]) = mailbox[l][1]
      /\ Head(mailbox[l]) \in Commands /\ Tail(mailbox[l]) \in Seq(Commands)
  BY <1>1, <1>2
<1>4. /\ mailbox' \in [Leases -> Seq(Commands)] /\ mailbox'[l] = Tail(mailbox[l])
      /\ \A m \in Leases : m # l => mailbox'[m] = mailbox[m]
  BY <1>1, <1>2, <1>3, Zenon
<1>5. Message(l, mailbox[l][1], executing, call)
  BY <1>3, Zenon DEF IInv, Mails
<1>6. Shrinks
  BY <1>1, <1>4, Zenon DEF Shrinks
<1> QED
  BY <1>1, <1>3, <1>4, <1>5, <1>6, Zenon

\* A reply moves only a call that waits.
LEMMA ReplyMoves ==
  ASSUME IInv, NEW c, NEW ok \in BOOLEAN, Reply(c, ok), Steady
  PROVE  call' \in [Calls -> CallRows] /\ Waits' /\ Later
<1>1. CASE c \in Calls /\ call[c].pc = "wait"
  <2> DEFINE p == IF call[c].op \in {"acquire", "start"} THEN "replied" ELSE "done"
             o == IF ok THEN "ok" ELSE "err"
             r == [call[c] EXCEPT !.pc = p, !.out = o, !.arg = 0]
  <2>1. call' = [call EXCEPT ![c] = r]
    BY <1>1, Zenon DEF Reply
  <2>2. call[c] \in CallRows
    BY <1>1, Zenon DEF IInv, Types
  <2>3. p \in {"replied", "done"} /\ o \in {"ok", "err"}
    BY Zenon
  <2> HIDE DEF p, o
  <2>4. r \in CallRows /\ r.lease = call[c].lease /\ r.pc \in {"replied", "done"}
    BY <2>2, <2>3, ZenonT(30) DEF CallRows
  <2> HIDE DEF r
  <2> QED
    BY <1>1, <2>1, <2>4, CallMoves, Zenon
<1>2. CASE ~(c \in Calls /\ call[c].pc = "wait")
  <2>1. call' = call
    BY <1>2, Zenon DEF Reply
  <2> QED
    BY <2>1, Zenon DEF IInv, Types, Waits, Later, Steady
<1> QED
  BY <1>1, <1>2, Zenon

\* A message taken that changes only the call it answers and the deadline.
LEMMA Answered ==
  ASSUME IInv, NEW l \in Leases, NEW op, Takes(l, op), NEW c, NEW ok \in BOOLEAN, Reply(c, ok),
         remaining' \in [Leases -> Nat], UNCHANGED <<row, actor, boot, slot, proc, executing, idem>>
  PROVE  Good
<1>1. Steady /\ RowStep /\ BootGoesOn /\ StaysEmpty /\ executing' \subseteq executing
  BY Zenon DEF Steady, RowStep, BootGoesOn, StaysEmpty
<1>2. call' \in [Calls -> CallRows] /\ Waits' /\ Later
  BY <1>1, ReplyMoves, Zenon
<1>3. /\ mailbox' \in [Leases -> Seq(Commands)] /\ Shrinks /\ Running(l)
      /\ \A m \in Leases : m # l => mailbox'[m] = mailbox[m]
  BY Taken, Zenon
<1>4. StaysUnused
  BY <1>3, Zenon DEF StaysUnused, Running
<1>5. Types'
  BY <1>2, <1>3, Zenon DEF IInv, Types
<1>6. SlotsFreed
  BY HostKept, Zenon
<1> QED
  BY <1>1, <1>2, <1>3, <1>4, <1>5, <1>6, Quiet, Zenon

\* handleRenew keeps the invariant.
LEMMA RenewHandled ==
  ASSUME IInv, NEW l \in Leases, HandleRenew(l)
  PROVE  Good
<1> DEFINE c == Head(mailbox[l]).from
<1>1. /\ Takes(l, "renew") /\ Reply(c, remaining[l] > 0)
      /\ remaining' = [remaining EXCEPT ![l] = IF @ = 0 THEN @ ELSE call[c].arg]
      /\ UNCHANGED <<row, actor, boot, slot, proc, executing, idem>>
  BY Zenon DEF HandleRenew, host, execs
<1>2. c \in Calls
  BY <1>1, Taken, SMTT(30) DEF Message, Ops
<1>3. call[c].arg \in Nat
  BY <1>2, Zenon DEF IInv, Types, CallRows
<1> HIDE DEF c
<1>4. remaining' \in [Leases -> Nat]
  BY <1>1, <1>3, Zenon DEF IInv, Types
<1>5. (remaining[l] > 0) \in BOOLEAN
  OBVIOUS
<1> QED
  BY <1>1, <1>4, <1>5, Answered, Zenon

\* handleCommitFilesystemMount and handleCheckpointGoldenVM keep it.
LEMMA CommitHandled ==
  ASSUME IInv, NEW l \in Leases, HandleCommit(l)
  PROVE  Good
<1>1. PICK ok \in BOOLEAN : Reply(Head(mailbox[l]).from, ok)
  BY Zenon DEF HandleCommit
<1>2. Takes(l, "commit") /\ UNCHANGED <<row, actor, remaining, boot, slot, proc, executing, idem>>
  BY Zenon DEF HandleCommit, host, execs
<1>3. remaining' \in [Leases -> Nat]
  BY <1>2, Zenon DEF IInv, Types
<1> QED
  BY <1>1, <1>2, <1>3, Answered, Zenon

\* handleCancelExec keeps the invariant.
LEMMA CancelHandled ==
  ASSUME IInv, NEW l \in Leases, HandleCancelExec(l)
  PROVE  Good
<1> DEFINE c == Head(mailbox[l]).from
<1>1. /\ Takes(l, "cancel") /\ Reply(c, actor[l].active = call[c].exec)
      /\ UNCHANGED <<row, actor, remaining, boot, slot, proc, executing, idem>>
  BY Zenon DEF HandleCancelExec, host, execs
<1>2. (actor[l].active = call[c].exec) \in BOOLEAN
  BY Zenon
<1>3. remaining' \in [Leases -> Nat]
  BY <1>1, Zenon DEF IInv, Types
<1> HIDE DEF c
<1> QED
  BY <1>1, <1>2, <1>3, Answered, Zenon

\* The tail of a sequence is another sequence.
LEMMA TailDiffers ==
  ASSUME NEW S, NEW s \in Seq(S), s # <<>>
  PROVE  Tail(s) # s
<1>1. Len(Tail(s)) = Len(s) - 1 /\ Len(s) \in Nat
  OBVIOUS
<1>2. \A n \in Nat : n - 1 # n
  OBVIOUS
<1> QED
  BY ONLY <1>1, <1>2, Zenon

\* The acquire command finds a row that was never written.
LEMMA AcquireHandled ==
  ASSUME IInv, NEW l \in Leases, HandleAcquire(l)
  PROVE  Good
<1> DEFINE c == Head(mailbox[l]).from
<1>1. /\ Takes(l, "acquire") /\ remaining' = [remaining EXCEPT ![l] = TTL]
      /\ UNCHANGED <<actor, slot, proc, executing, idem>>
  BY Zenon DEF HandleAcquire, host, execs
<1>2. /\ \/ /\ row' = [row EXCEPT ![l] = "acquiring"] /\ boot' = [boot EXCEPT ![l] = "clone"]
            /\ Reply(c, TRUE)
         \/ Reply(c, FALSE) /\ UNCHANGED <<row, boot>>
  BY Zenon DEF HandleAcquire
<1>3. remaining' \in [Leases -> Nat]
  BY <1>1, LeasesAssumption, Zenon DEF IInv, Types
<1> HIDE DEF c
<1>4. CASE Reply(c, FALSE) /\ UNCHANGED <<row, boot>>
  BY <1>1, <1>3, <1>4, Answered, ZenonT(30)
<1>5. CASE row' = [row EXCEPT ![l] = "acquiring"] /\ boot' = [boot EXCEPT ![l] = "clone"] /\ Reply(c, TRUE)
  <2>1. /\ mailbox' \in [Leases -> Seq(Commands)] /\ Shrinks /\ Running(l)
        /\ mailbox'[l] = Tail(mailbox[l]) /\ mailbox[l] # <<>>
        /\ \A m \in Leases : m # l => mailbox'[m] = mailbox[m]
        /\ 1 \in 1 .. Len(mailbox[l]) /\ mailbox[l][1].op = "acquire"
    BY <1>1, Taken, SMTT(30)
  <2>2. row[l] = "none" /\ boot[l] = "none"
    BY <2>1, Zenon DEF IInv, Mails
  <2>3. /\ row' \in [Leases -> RowStates] /\ boot' \in [Leases -> BootSteps]
        /\ \A m \in Leases : m # l => row'[m] = row[m] /\ boot'[m] = boot[m]
    BY <1>5, Zenon DEF IInv, Types, RowStates, BootSteps
  <2>4. mailbox'[l] # mailbox[l]
    <3>1. mailbox[l] \in Seq(Commands)
      BY Zenon DEF IInv, Types
    <3> QED
      BY <2>1, <3>1, TailDiffers, Zenon
  <2>5. Steady /\ executing' \subseteq executing
    BY <1>1, Zenon DEF Steady
  <2>6. call' \in [Calls -> CallRows] /\ Waits' /\ Later
    BY <1>5, <2>5, ReplyMoves, Zenon
  <2>7. StaysEmpty
    BY <2>3, <2>4, Zenon DEF StaysEmpty
  <2>8. StaysUnused
    BY <1>1, <2>1, <2>3, Zenon DEF StaysUnused, Running
  <2>9. RowStep /\ BootGoesOn
    BY <2>2, <2>3, Zenon DEF RowStep, BootGoesOn, Terminal
  <2>10. SlotsFreed
    BY <1>1, HostKept, Zenon
  <2>11. Types'
    BY <1>1, <1>3, <2>1, <2>3, <2>6, Zenon DEF IInv, Types
  <2> QED
    BY <2>1, <2>5, <2>6, <2>7, <2>8, <2>9, <2>10, <2>11, Quiet, Zenon
<1> QED
  BY <1>2, <1>4, <1>5, Zenon

\* A lease that ends: its row is finished if it was not, its actor stops.
LEMMA Ended ==
  ASSUME IInv, NEW l \in Leases, Running(l), NEW a \in ActorRows, NEW st \in Terminal,
         a.run = "stopped", actor' = [actor EXCEPT ![l] = a],
         row' = FinishLease(l, st) \/ row' = row,
         SlotsFreed, mailbox' \in [Leases -> Seq(Commands)], Shrinks,
         \A m \in Leases : m # l => mailbox'[m] = mailbox[m],
         UNCHANGED <<remaining, boot, executing, idem>>,
         \/ UNCHANGED call
         \/ \E c : \E ok \in BOOLEAN : Reply(c, ok)
  PROVE  Good
<1>1. /\ actor' \in [Leases -> ActorRows] /\ actor'[l] = a
      /\ \A m \in Leases : m # l => actor'[m] = actor[m]
  BY Zenon DEF IInv, Types
<1>2. Steady
  BY <1>1, Zenon DEF Steady, Running
<1>3. call' \in [Calls -> CallRows] /\ Waits' /\ Later
  <2>1. CASE UNCHANGED call
    BY <1>2, <2>1, Zenon DEF IInv, Types, Waits, Later, Steady
  <2>2. CASE \E c : \E ok \in BOOLEAN : Reply(c, ok)
    BY <1>2, <2>2, ReplyMoves, Zenon
  <2> QED
    BY <2>1, <2>2, Zenon
<1>4. /\ row' \in [Leases -> RowStates] /\ RowStep
      /\ \A m \in Leases : row[m] = "none" => row'[m] = "none"
      /\ \A m \in Leases : m # l => row'[m] = row[m]
  <2>1. CASE row' = row
    BY <2>1, Zenon DEF RowStep, IInv, Types
  <2>2. CASE row' = FinishLease(l, st)
    BY <2>2, Zenon DEF RowStep, FinishLease, IInv, Types, RowStates, Terminal
  <2> QED
    BY <2>1, <2>2, Zenon
<1>5. StaysEmpty /\ BootGoesOn /\ executing' \subseteq executing
  BY <1>4, Zenon DEF StaysEmpty, BootGoesOn
<1>6. StaysUnused
  BY <1>1, <1>4, Zenon DEF StaysUnused
<1>7. Types'
  BY <1>1, <1>3, <1>4, Zenon DEF IInv, Types, SlotsFreed
<1> QED
  BY <1>2, <1>3, <1>4, <1>5, <1>6, <1>7, Quiet, Zenon

\* A cleanup, or none, only frees slots.
LEMMA CleanedOrKept ==
  ASSUME IInv, NEW l \in Leases, Cleanup(l) \/ UNCHANGED host
  PROVE  SlotsFreed
BY CleanupFrees, HostKept, Zenon DEF Cleanup, host

\* The actor record of an ended lease.
LEMMA StoppedRow ==
  ASSUME NEW st \in Terminal, NEW kn \in BOOLEAN
  PROVE  /\ [NoActor EXCEPT !.run = "stopped", !.state = st] \in ActorRows
         /\ [NoActor EXCEPT !.run = "stopped", !.state = st].run = "stopped"
         /\ [NoActor EXCEPT !.run = "stopped", !.state = st, !.known = kn] \in ActorRows
         /\ [NoActor EXCEPT !.run = "stopped", !.state = st, !.known = kn].run = "stopped"
BY Zenon DEF NoActor, ActorRows, RowStates

\* What EndLease does to the row, the actor and the host.
LEMMA LeaseEnded ==
  ASSUME IInv, NEW l \in Leases, Running(l), NEW st \in Terminal, EndLease(l, st)
  PROVE  /\ SlotsFreed
         /\ row' = FinishLease(l, st) \/ row' = row
         /\ \E a \in ActorRows : a.run = "stopped" /\ actor' = [actor EXCEPT ![l] = a]
<1>1. SlotsFreed
  BY CleanedOrKept, Zenon DEF EndLease
<1>2. actor[l].known \in BOOLEAN
  BY Zenon DEF IInv, Types, ActorRows
<1> DEFINE k == actor[l].known /\ st = "released"
<1>3. k \in BOOLEAN
  BY <1>2, Zenon
<1>4. \/ row' = FinishLease(l, st) /\ actor' = [actor EXCEPT ![l] = [NoActor EXCEPT !.run = "stopped", !.state = st]]
      \/ row' = row /\ actor' = [actor EXCEPT ![l] = [NoActor EXCEPT !.run = "stopped", !.state = st, !.known = k]]
  BY Zenon DEF EndLease
<1> HIDE DEF k
<1> QED
  BY <1>1, <1>3, <1>4, StoppedRow, Zenon

\* handleRelease keeps the invariant.
LEMMA ReleaseHandled ==
  ASSUME IInv, NEW l \in Leases, HandleRelease(l)
  PROVE  Good
<1>1. Takes(l, "release") /\ EndLease(l, "released") /\ "released" \in Terminal
  BY Zenon DEF HandleRelease, Terminal
<1>2. /\ mailbox' \in [Leases -> Seq(Commands)] /\ Shrinks /\ Running(l)
      /\ \A m \in Leases : m # l => mailbox'[m] = mailbox[m]
  BY <1>1, Taken, Zenon
<1>3. \E c : \E ok \in BOOLEAN : Reply(c, ok)
  <2>1. Reply(Head(mailbox[l]).from, faults' = faults) /\ (faults' = faults) \in BOOLEAN
    BY Zenon DEF HandleRelease
  <2> QED
    BY <2>1, Zenon
<1>4. UNCHANGED <<remaining, boot, executing, idem>>
  BY Zenon DEF HandleRelease, execs
<1> QED
  BY <1>1, <1>2, <1>3, <1>4, LeaseEnded, Ended, Zenon

\* The ticker keeps the invariant.
LEMMA ExpireStep ==
  ASSUME IInv, NEW l \in Leases, Expire(l)
  PROVE  Good
<1>1. EndLease(l, "expired") /\ "expired" \in Terminal /\ Running(l)
  BY Zenon DEF Expire, Overdue, Terminal
<1>2. UNCHANGED <<mailbox, remaining, boot, executing, idem, call>>
  BY Zenon DEF Expire, execs
<1>3. mailbox' \in [Leases -> Seq(Commands)] /\ Shrinks
  BY <1>2, Zenon DEF IInv, Types, Shrinks
<1> QED
  BY <1>1, <1>2, <1>3, LeaseEnded, Ended, Zenon

\* handleBootComplete writes ready only over acquiring.
LEMMA BootHandled ==
  ASSUME IInv, NEW l \in Leases, HandleBootComplete(l)
  PROVE  Good
<1>1. Takes(l, "boot") /\ UNCHANGED <<remaining, boot, executing, idem, call>>
  BY Zenon DEF HandleBootComplete, execs
<1>2. /\ mailbox' \in [Leases -> Seq(Commands)] /\ Shrinks /\ Running(l)
      /\ \A m \in Leases : m # l => mailbox'[m] = mailbox[m]
  BY <1>1, Taken, Zenon
<1>3. actor[l] \in ActorRows
  BY Zenon DEF IInv, Types
<1>4. CASE /\ actor' = [actor EXCEPT ![l] = [@ EXCEPT !.run = "stopped", !.state = "crashed", !.known = FALSE]]
           /\ row' = FinishLease(l, "crashed") /\ (Cleanup(l) \/ UNCHANGED host)
  <2> DEFINE a == [actor[l] EXCEPT !.run = "stopped", !.state = "crashed", !.known = FALSE]
  <2>1. a \in ActorRows /\ a.run = "stopped" /\ "crashed" \in Terminal
    BY <1>3, Zenon DEF ActorRows, RowStates, Terminal
  <2>2. actor' = [actor EXCEPT ![l] = a]
    BY <1>4, Zenon
  <2> HIDE DEF a
  <2>3. SlotsFreed
    BY <1>4, CleanedOrKept, Zenon
  <2> QED
    BY <1>1, <1>2, <1>4, <2>1, <2>2, <2>3, Ended, Zenon
<1>5. CASE /\ row[l] = "acquiring" /\ row' = [row EXCEPT ![l] = "ready"] /\ UNCHANGED host
           /\ actor' = [actor EXCEPT ![l] = [@ EXCEPT !.runtime = TRUE, !.state = "ready"]]
  <2> DEFINE a == [actor[l] EXCEPT !.runtime = TRUE, !.state = "ready"]
  <2>1. a \in ActorRows /\ a.run = actor[l].run /\ a.active = actor[l].active
    BY <1>3, ZenonT(30) DEF ActorRows, RowStates
  <2>2. actor' = [actor EXCEPT ![l] = a]
    BY <1>5, Zenon
  <2> HIDE DEF a
  <2>3. /\ actor' \in [Leases -> ActorRows] /\ actor'[l] = a
        /\ \A m \in Leases : m # l => actor'[m] = actor[m]
    BY <2>1, <2>2, Zenon DEF IInv, Types
  <2>4. /\ row' \in [Leases -> RowStates] /\ \A m \in Leases : m # l => row'[m] = row[m]
    BY <1>5, Zenon DEF IInv, Types, RowStates
  <2>5. Steady
    BY <1>2, <2>1, <2>3, Zenon DEF Steady, Running
  <2>6. Waits' /\ Later /\ executing' \subseteq executing
    BY <1>1, <2>5, Zenon DEF IInv, Waits, Later, Steady
  <2>7. RowStep /\ StaysEmpty /\ BootGoesOn
    BY <1>1, <1>5, <2>4, Zenon DEF RowStep, StaysEmpty, BootGoesOn, Terminal
  <2>8. StaysUnused
    BY <1>1, <1>2, <2>1, <2>3, <2>4, Zenon DEF StaysUnused, Running
  <2>9. SlotsFreed
    BY <1>5, HostKept, Zenon DEF host
  <2>10. Types'
    BY <1>1, <1>2, <2>3, <2>4, <2>9, Zenon DEF IInv, Types, SlotsFreed
  <2> QED
    BY <1>2, <2>5, <2>6, <2>7, <2>8, <2>9, <2>10, Quiet, Zenon
<1> QED
  BY <1>4, <1>5, Zenon DEF HandleBootComplete

\* A report of an exec that has ended never clears another one that runs.
LEMMA DoneHandled ==
  ASSUME IInv, NEW l \in Leases, HandleExecDone(l)
  PROVE  Good
<1> DEFINE d == Head(mailbox[l]).from
           a == [actor[l] EXCEPT !.active = IF actor[l].active = d THEN NoCall ELSE actor[l].active]
<1>1. /\ Takes(l, "done") /\ actor' = [actor EXCEPT ![l] = a]
      /\ UNCHANGED <<row, remaining, boot, slot, proc, executing, call, idem>>
  BY Zenon DEF HandleExecDone, host
<1>2. /\ mailbox' \in [Leases -> Seq(Commands)] /\ Shrinks /\ Running(l)
      /\ \A m \in Leases : m # l => mailbox'[m] = mailbox[m]
      /\ Head(mailbox[l]).op = "done" /\ Message(l, Head(mailbox[l]), executing, call)
  BY <1>1, Taken, Zenon
<1>3. d \notin executing
  BY <1>2, Zenon DEF Message, OfExec
<1>4. actor[l] \in ActorRows
  BY Zenon DEF IInv, Types
<1>5. a \in ActorRows /\ a.run = actor[l].run /\ (actor[l].active \in executing => a.active = actor[l].active)
  BY <1>3, <1>4, Zenon DEF ActorRows
<1> HIDE DEF a, d
<1>6. /\ actor' \in [Leases -> ActorRows] /\ actor'[l] = a
      /\ \A m \in Leases : m # l => actor'[m] = actor[m]
  BY <1>1, <1>5, Zenon DEF IInv, Types
<1>7. Steady
  BY <1>2, <1>5, <1>6, Zenon DEF Steady, Running
<1>8. Waits' /\ Later /\ executing' \subseteq executing
  BY <1>1, <1>7, ZenonT(30) DEF IInv, Waits, Later, Steady
<1>9. RowStep /\ StaysEmpty /\ BootGoesOn
  BY <1>1, Zenon DEF RowStep, StaysEmpty, BootGoesOn
<1>10. StaysUnused
  BY <1>1, <1>2, <1>5, <1>6, Zenon DEF StaysUnused, Running
<1>11. SlotsFreed
  BY <1>1, HostKept, Zenon
<1>12. Types'
  BY <1>1, <1>2, <1>6, Zenon DEF IInv, Types
<1> QED
  BY <1>2, <1>7, <1>8, <1>9, <1>10, <1>11, <1>12, Quiet, Zenon

\* An exec starts only where no other runs.
LEMMA StartHandled ==
  ASSUME IInv, NEW l \in Leases, HandleStartExec(l)
  PROVE  Good
<1> DEFINE e == Head(mailbox[l]).from
           a == [actor[l] EXCEPT !.active = e]
<1>1. Takes(l, "start") /\ UNCHANGED <<row, remaining, boot, slot, proc, idem>>
  BY Zenon DEF HandleStartExec, host
<1>2. /\ mailbox' \in [Leases -> Seq(Commands)] /\ Shrinks /\ Running(l)
      /\ mailbox'[l] = Tail(mailbox[l]) /\ mailbox[l] # <<>>
      /\ \A m \in Leases : m # l => mailbox'[m] = mailbox[m]
      /\ 1 \in 1 .. Len(mailbox[l]) /\ Head(mailbox[l]) = mailbox[l][1]
      /\ Head(mailbox[l]).op = "start" /\ Message(l, Head(mailbox[l]), executing, call)
  BY <1>1, Taken, ZenonT(30)
<1>3. /\ e \in Calls /\ e \notin executing /\ call[e].lease = l
      /\ call[e].pc \notin {"new", "found"} /\ OfExec(mailbox[l][1]) /\ mailbox[l][1].from = e
  BY <1>2, Zenon DEF Message, OfExec
<1>4. remaining' \in [Leases -> Nat]
  BY <1>1, Zenon DEF IInv, Types
<1>5. CASE Reply(e, FALSE) /\ UNCHANGED <<actor, execs>>
  BY <1>1, <1>4, <1>5, Answered, Zenon DEF execs
<1>6. CASE /\ IdleLease(l) /\ actor' = [actor EXCEPT ![l] = a] /\ executing' = executing \cup {e}
           /\ \E ok \in BOOLEAN : Reply(e, ok)
  <2>1. actor[l] \in ActorRows /\ actor[l].active = NoCall /\ actor[l].run = "running"
    BY <1>2, <1>6, Zenon DEF IInv, Types, IdleLease, Running
  <2>2. a \in ActorRows /\ a.run = "running" /\ a.active = e
    BY <1>3, <2>1, Zenon DEF ActorRows
  <2> HIDE DEF a, e
  <2>3. /\ actor' \in [Leases -> ActorRows] /\ actor'[l] = a
        /\ \A m \in Leases : m # l => actor'[m] = actor[m]
    BY <1>6, <2>2, Zenon DEF IInv, Types
  <2>4. \A f \in executing : f \in Calls /\ call[f].lease \in Leases /\ call[f].lease # l
                             /\ call[f].pc \notin {"new", "found"}
    <3>1. \A f \in executing : /\ f \in Calls /\ call[f].pc \notin {"new", "found"} /\ call[f].lease \in Leases
                               /\ call[f].lease = l => actor[l].active = f
      BY <1>2, ZenonT(30) DEF IInv, Types, Owned
    <3> QED
      BY <2>1, <3>1, LeasesAssumption, Zenon
  <2>5. Steady
    <3>1. NoCall \notin executing
      BY LeasesAssumption, Zenon DEF IInv, Types
    <3> QED
      BY <2>1, <2>2, <2>3, <3>1, Zenon DEF Steady
  <2>6. call' \in [Calls -> CallRows] /\ Waits' /\ Later
    BY <1>6, <2>5, ReplyMoves, Zenon
  <2>7. /\ call'[e].lease = l /\ call'[e].pc \notin {"new", "found"}
        /\ \A f \in executing : call'[f].lease = call[f].lease /\ call'[f].pc \notin {"new", "found"}
    BY <1>3, <2>4, <2>6, Zenon DEF Later
  <2>8. Owned'
    <3>1. ASSUME NEW f \in executing'
          PROVE  /\ call'[f].pc \notin {"new", "found"} /\ call'[f].lease \in Leases
                 /\ actor'[call'[f].lease].run # "none"
                 /\ actor'[call'[f].lease].run = "running" => actor'[call'[f].lease].active = f
      <4>1. CASE f = e
        BY <2>2, <2>3, <2>7, <4>1, Zenon
      <4>2. CASE f \in executing
        <5>1. /\ actor[call[f].lease].run # "none"
              /\ actor[call[f].lease].run = "running" => actor[call[f].lease].active = f
          BY <4>2, Zenon DEF IInv, Owned, Running
        <5> QED
          BY <2>3, <2>4, <2>7, <4>2, <5>1, Zenon
      <4> QED
        BY <1>6, <3>1, <4>1, <4>2, Zenon
    <3> QED
      BY <3>1, Zenon DEF Owned, Running
  <2>9. OneExecPerLease'
    <3>1. \A f, g \in executing : call[f].lease = call[g].lease => f = g
      BY Zenon DEF IInv, OneExecPerLease
    <3>2. executing' = executing \cup {e}
      BY <1>6, Zenon
    <3>3. ASSUME NEW f \in executing', NEW g \in executing', call'[f].lease = call'[g].lease
          PROVE  f = g
      <4>1. CASE f \in executing /\ g \in executing
        BY ONLY <2>7, <3>1, <3>3, <4>1, Zenon
      <4>2. CASE f = e /\ g \in executing
        BY ONLY <2>4, <2>7, <3>3, <4>2, Zenon
      <4>3. CASE f \in executing /\ g = e
        BY ONLY <2>4, <2>7, <3>3, <4>3, Zenon
      <4> QED
        BY ONLY <3>2, <3>3, <4>1, <4>2, <4>3, Zenon
    <3> QED
      BY <3>3, Zenon DEF OneExecPerLease
  <2>10. Mails'
    <3>1. ASSUME NEW m \in Leases, NEW i \in 1 .. Len(mailbox'[m])
          PROVE  /\ Message(m, mailbox'[m][i], executing', call')
                 /\ mailbox'[m][i].op = "acquire" => i = 1 /\ row'[m] = "none" /\ boot'[m] = "none"
                 /\ \A k \in 1 .. Len(mailbox'[m]) :
                      OfExec(mailbox'[m][i]) /\ OfExec(mailbox'[m][k])
                        /\ mailbox'[m][i].from = mailbox'[m][k].from => i = k
      <4> DEFINE o == IF m = l THEN 1 ELSE 0
      <4>0. mailbox[m] \in Seq(Commands) /\ mailbox[l] \in Seq(Commands)
        BY Zenon DEF IInv, Types
      <4>1. \A k \in 1 .. Len(mailbox'[m]) : k + o \in 1 .. Len(mailbox[m]) /\ mailbox'[m][k] = mailbox[m][k + o]
        <5>1. CASE m = l
          <6>1. mailbox'[m] = Tail(mailbox[m]) /\ mailbox[m] # <<>> /\ o = 1
            BY <1>2, <5>1, Zenon
          <6> HIDE DEF o
          <6> QED
            BY ONLY <4>0, <6>1
        <5>2. CASE m # l
          <6>1. mailbox'[m] = mailbox[m] /\ o = 0
            BY <1>2, <5>2, Zenon
          <6> HIDE DEF o
          <6> QED
            BY ONLY <4>0, <6>1
        <5> QED
          BY <5>1, <5>2, Zenon
      <4>2. /\ Message(m, mailbox[m][i + o], executing, call)
            /\ mailbox[m][i + o].op = "acquire" => i + o = 1 /\ row[m] = "none" /\ boot[m] = "none"
        BY <3>1, <4>1, Zenon DEF IInv, Mails
      <4>3. OfExec(mailbox[m][i + o]) => mailbox[m][i + o].from # e
        <5>1. CASE m = l
          <6>1. i + o # 1
            BY <1>2, <4>0, <5>1, SMTT(30)
          <6>2. i + o \in 1 .. Len(mailbox[l]) /\ 1 \in 1 .. Len(mailbox[l])
            BY <1>2, <3>1, <4>1, <5>1, Zenon
          <6>3. \A k, n \in 1 .. Len(mailbox[l]) :
                  OfExec(mailbox[l][k]) /\ OfExec(mailbox[l][n]) /\ mailbox[l][k].from = mailbox[l][n].from => k = n
            BY Zenon DEF IInv, Mails
          <6> QED
            BY ONLY <1>3, <5>1, <6>1, <6>2, <6>3, Zenon
        <5>2. CASE m # l
          BY <1>3, <4>2, <5>2, ZenonT(30) DEF Message
        <5> QED
          BY <5>1, <5>2, Zenon
      <4>4. Message(m, mailbox[m][i + o], executing', call')
        BY <1>6, <2>6, <4>2, <4>3, ZenonT(30) DEF Message, Later, OfExec
      <4>5. \A k \in 1 .. Len(mailbox'[m]) :
               OfExec(mailbox'[m][i]) /\ OfExec(mailbox'[m][k])
                 /\ mailbox'[m][i].from = mailbox'[m][k].from => i + o = k + o
        <5>1. \A j \in 1 .. Len(mailbox[m]) :
                OfExec(mailbox[m][i + o]) /\ OfExec(mailbox[m][j])
                  /\ mailbox[m][i + o].from = mailbox[m][j].from => i + o = j
          BY <3>1, <4>1, Zenon DEF IInv, Mails
        <5> QED
          BY <3>1, <4>1, <5>1, ZenonT(30)
      <4>6. o \in {0, 1} /\ Len(mailbox'[m]) \in Nat
        BY <1>2
      <4> HIDE DEF o
      <4>7. \A k \in 1 .. Len(mailbox'[m]) : i + o = k + o => i = k
        BY <4>6
      <4>8. i + o = 1 => i = 1
        BY <4>6, SMTT(30)
      <4> QED
        BY <1>1, <3>1, <4>1, <4>2, <4>4, <4>5, <4>7, <4>8, Zenon
    <3> QED
      BY <3>1, Zenon DEF Mails
  <2>11. Unused'
    BY <1>1, <1>2, <2>2, <2>3, ZenonT(30) DEF IInv, Unused
  <2>12. Types'
    BY <1>1, <1>2, <1>3, <1>6, <2>3, <2>6, ZenonT(30) DEF IInv, Types
  <2>13. Attached' /\ SlotStep /\ RowStep
    BY <1>1, Zenon DEF IInv, Attached, SlotStep, RowStep
  <2> QED
    BY <2>6, <2>8, <2>9, <2>10, <2>11, <2>12, <2>13, Zenon DEF IInv, Good
<1> QED
  BY <1>5, <1>6, Zenon DEF HandleStartExec

\* Every handler of an actor keeps the invariant.
LEMMA ActorSteps ==
  ASSUME IInv, NEW l \in Leases, ActorStep(l)
  PROVE  Good
BY AcquireHandled, BootHandled, RenewHandled, ReleaseHandled, StartHandled, CommitHandled,
   CancelHandled, DoneHandled, ExpireStep, Zenon DEF ActorStep

-----------------------------------------------------------------------------
(* Execs that return, time, shutdown and restart. *)

\* The report of an exec is its only message.
LEMMA ExecReturnsStep ==
  ASSUME IInv, NEW e \in Calls, NEW ok \in BOOLEAN, ExecReturns(e, ok)
  PROVE  Good
<1> DEFINE l == call[e].lease
           x == [op |-> "done", from |-> e, ok |-> ok]
<1>1. /\ e \in executing /\ executing' = executing \ {e}
      /\ Enqueue(l, x) \/ UNCHANGED mailbox
      /\ UNCHANGED <<row, actor, remaining, boot, slot, proc, call, idem>>
  BY Zenon DEF ExecReturns, host
<1>2. l \in Leases /\ call[e].pc \notin {"new", "found"} /\ actor[l].run # "none"
  BY <1>1, Zenon DEF IInv, Owned
<1>3. x \in Commands /\ x.op = "done" /\ x.from = e
  BY Zenon DEF Commands
<1> HIDE DEF x
<1>4. Waits' /\ Later /\ Steady /\ BootGoesOn /\ RowStep /\ executing' \subseteq executing
  BY <1>1, Zenon DEF IInv, Waits, Later, Steady, BootGoesOn, RowStep
<1>5. SlotsFreed
  BY <1>1, HostKept, Zenon
<1>6. CASE UNCHANGED mailbox
  <2>1. Types'
    BY <1>1, <1>6, Zenon DEF IInv, Types
  <2>2. Shrinks /\ StaysEmpty /\ StaysUnused
    BY <1>1, <1>6, ZenonT(30) DEF Shrinks, StaysEmpty, StaysUnused
  <2> QED
    BY <1>4, <1>5, <2>1, <2>2, Quiet, Zenon
<1>7. CASE Enqueue(l, x)
  <2>1. mailbox' \in [Leases -> Seq(Commands)]
    <3>1. mailbox \in [Leases -> Seq(Commands)] /\ mailbox' = [mailbox EXCEPT ![l] = Append(@, x)]
      BY <1>7, Zenon DEF IInv, Types, Enqueue
    <3>2. Append(mailbox[l], x) \in Seq(Commands)
      BY ONLY <1>2, <1>3, <3>1, SMTT(30)
    <3> QED
      BY ONLY <1>2, <3>1, <3>2, Zenon
  <2>2. Types'
    BY <1>1, <2>1, Zenon DEF IInv, Types
  <2>3. Message(l, x, executing', call')
    BY <1>1, <1>2, <1>3, Zenon DEF Message, OfExec, Ops
  <2>4. \A k \in 1 .. Len(mailbox[l]) : ~(OfExec(mailbox[l][k]) /\ mailbox[l][k].from = x.from)
    BY <1>1, <1>2, <1>3, Zenon DEF IInv, Mails, Message
  <2>5. row' = row /\ \A m \in Leases : boot[m] = "none" => boot'[m] = "none"
    BY <1>1, Zenon
  <2> HIDE DEF l
  <2> QED
    BY <1>2, <1>3, <1>4, <1>5, <1>7, <2>2, <2>3, <2>4, <2>5, Sends, Zenon
<1> QED
  BY <1>1, <1>6, <1>7, Zenon

\* APIServer.Close sends to actors that exist.
LEMMA CloseStep ==
  ASSUME IInv, NEW l \in Leases, Close(l)
  PROVE  Good
<1> DEFINE x == Cmd("release", NoCall)
<1>1. /\ Enqueue(l, x) /\ actor[l].known
      /\ UNCHANGED <<row, actor, remaining, boot, slot, proc, executing, call, idem>>
  BY Zenon DEF Close, host, execs
<1>2. x \in Commands /\ x.op = "release"
  BY Zenon DEF Commands, Cmd, Ops
<1> HIDE DEF x
<1>3. Waits' /\ Later /\ Steady /\ BootGoesOn /\ executing' \subseteq executing
  BY <1>1, Zenon DEF IInv, Waits, Later, Steady, BootGoesOn
<1>4. SlotsFreed
  BY <1>1, HostKept, Zenon
<1>5. mailbox' \in [Leases -> Seq(Commands)]
  BY <1>1, <1>2 DEF IInv, Types, Enqueue
<1>6. Types'
  BY <1>1, <1>5, Zenon DEF IInv, Types
<1>7. Message(l, x, executing', call') /\ ~OfExec(x)
  BY <1>2, Zenon DEF Message, OfExec, Ops
<1>8. actor[l].run # "none"
  BY <1>1, Zenon DEF IInv, Unused
<1>9. row' = row /\ \A m \in Leases : boot[m] = "none" => boot'[m] = "none"
  BY <1>1, Zenon
<1> QED
  BY <1>1, <1>2, <1>3, <1>4, <1>6, <1>7, <1>8, <1>9, Sends, ZenonT(30)

\* Time keeps the invariant.
LEMMA TickStep ==
  ASSUME IInv, Tick
  PROVE  Good
<1>1. /\ remaining' = [l \in Leases |-> Sooner(remaining[l])]
      /\ call' = [c \in Calls |-> [call[c] EXCEPT !.arg = Sooner(@)]]
      /\ UNCHANGED <<row, actor, mailbox, boot, slot, proc, executing, idem>>
  BY Zenon DEF Tick, host, execs
<1>2. \A n \in Nat : Sooner(n) \in Nat
  BY DEF Sooner
<1>3. remaining' \in [Leases -> Nat]
  BY <1>1, <1>2, Zenon DEF IInv, Types
<1>4. \A c \in Calls : /\ call'[c] \in CallRows /\ call'[c].pc = call[c].pc
                       /\ call'[c].lease = call[c].lease /\ call'[c].op = call[c].op
  <2> SUFFICES ASSUME NEW c \in Calls
               PROVE  /\ call'[c] \in CallRows /\ call'[c].pc = call[c].pc
                      /\ call'[c].lease = call[c].lease /\ call'[c].op = call[c].op
    BY Zenon
  <2>1. call[c] \in CallRows
    BY Zenon DEF IInv, Types
  <2>2. call[c].arg \in Nat
    BY <2>1, Zenon DEF CallRows
  <2> DEFINE n == Sooner(call[c].arg)
  <2>3. n \in Nat /\ call'[c] = [call[c] EXCEPT !.arg = n]
    BY <1>1, <1>2, <2>2, Zenon
  <2> HIDE DEF n
  <2> QED
    BY <2>1, <2>3, Zenon DEF CallRows
<1>5. call' \in [Calls -> CallRows]
  BY <1>1, <1>4, Zenon
<1>6. Types'
  BY <1>1, <1>3, <1>5, Zenon DEF IInv, Types
<1>7. Waits' /\ Later /\ Steady
  BY <1>1, <1>4, Zenon DEF IInv, Waits, Later, Steady
<1>8. SlotsFreed /\ RowStep /\ BootGoesOn /\ Shrinks /\ StaysEmpty /\ StaysUnused /\ executing' \subseteq executing
  BY <1>1, Zenon DEF IInv, Types, SlotsFreed, RowStep, BootGoesOn, Shrinks, StaysEmpty, StaysUnused
<1> QED
  BY <1>6, <1>7, <1>8, Quiet, Zenon

\* Steps that leave alone everything the invariant speaks of.
LEMMA Stutters ==
  ASSUME IInv, UNCHANGED <<row, actor, mailbox, remaining, boot, slot, proc, executing, call, idem>>
  PROVE  Good
<1>1. Types' /\ Waits' /\ Later /\ Steady
  BY Zenon DEF IInv, Types, Waits, Later, Steady
<1> QED
  BY <1>1, CallChange, Zenon

\* A restart empties the mailboxes and keeps the slots of live processes.
LEMMA RestartStep ==
  ASSUME IInv, Restart
  PROVE  Good
<1>1. PICK alive \in SUBSET proc, young \in SUBSET Slots : proc' = alive /\ slot' = Recover(alive, young)
  BY ZenonT(30) DEF Restart
<1>2. /\ row' = MarkUnowned /\ mailbox' = [l \in Leases |-> <<>>] /\ executing' = {}
      /\ actor' = [l \in Leases |-> IF actor[l].run = "none" THEN actor[l]
                                    ELSE [NoActor EXCEPT !.run = "stopped"]]
      /\ boot' = [l \in Leases |-> IF boot[l] = "none" THEN "none" ELSE "sent"]
      /\ call' = [c \in Calls |-> IF call[c].pc \in {"new", "done"} THEN call[c]
                                  ELSE [call[c] EXCEPT !.pc = "done", !.out = "err"]]
      /\ UNCHANGED <<remaining, idem>>
  BY ZenonT(30) DEF Restart
<1>3. /\ row' \in [Leases -> RowStates] /\ RowStep
      /\ \A l \in Leases : row[l] = "none" => row'[l] = "none"
  BY <1>2, ZenonT(30) DEF MarkUnowned, IInv, Types, RowStates, RowStep, Terminal
<1>4. /\ boot' \in [Leases -> BootSteps] /\ \A l \in Leases : boot[l] = "none" => boot'[l] = "none"
      /\ \A l \in Leases : boot[l] # "none" => boot'[l] = "sent"
  BY <1>2, Zenon DEF BootSteps
<1>5. /\ [NoActor EXCEPT !.run = "stopped"] \in ActorRows /\ [NoActor EXCEPT !.run = "stopped"].run = "stopped"
      /\ [NoActor EXCEPT !.run = "stopped"].known = FALSE
  BY Zenon DEF NoActor, ActorRows, RowStates
<1>6. /\ actor' \in [Leases -> ActorRows]
      /\ \A l \in Leases : actor'[l].run = "none" <=> actor[l].run = "none"
      /\ \A l \in Leases : actor[l].run = "none" => actor'[l] = actor[l]
  BY <1>2, <1>5, Zenon DEF IInv, Types
<1>7. \A c \in Calls : /\ call'[c] \in CallRows /\ call'[c].pc \in {"new", "done"}
  <2> SUFFICES ASSUME NEW c \in Calls PROVE call'[c] \in CallRows /\ call'[c].pc \in {"new", "done"}
    BY Zenon
  <2>1. call[c] \in CallRows
    BY Zenon DEF IInv, Types
  <2>2. /\ [call[c] EXCEPT !.pc = "done", !.out = "err"] \in CallRows
        /\ [call[c] EXCEPT !.pc = "done", !.out = "err"].pc = "done"
    BY <2>1, ZenonT(30) DEF CallRows
  <2>3. call'[c] = IF call[c].pc \in {"new", "done"} THEN call[c]
                   ELSE [call[c] EXCEPT !.pc = "done", !.out = "err"]
    BY <1>2, Zenon
  <2> QED
    BY <2>1, <2>2, <2>3, Zenon
<1>8. call' \in [Calls -> CallRows] /\ Waits'
  BY <1>2, <1>7, ZenonT(30) DEF Waits
<1>9. /\ mailbox' \in [Leases -> Seq(Commands)] /\ \A l \in Leases : mailbox'[l] = <<>>
  <2>1. <<>> \in Seq(Commands)
    BY SMTT(30)
  <2> QED
    BY ONLY <1>2, <2>1, Zenon
<1>10. Mails' /\ Owned' /\ OneExecPerLease'
  <2>1. \A l \in Leases : Len(mailbox'[l]) = 0
    BY <1>9, SMTT(30)
  <2>2. Mails'
    BY <2>1, SMTT(30) DEF Mails
  <2> QED
    BY <1>2, <2>2, Zenon DEF Owned, OneExecPerLease
<1>11. Unused'
  BY <1>3, <1>4, <1>6, <1>9, Zenon DEF IInv, Unused
<1>12. /\ slot' \in [Slots -> SlotRows] /\ FreeSlot.pid = FALSE
       /\ \A s \in Slots : slot'[s] = IF \/ slot[s].pid /\ slot[s].lease \in alive
                                         \/ ~slot[s].pid /\ s \in young
                                      THEN slot[s] ELSE FreeSlot
  <2>1. FreeSlot \in SlotRows /\ FreeSlot.pid = FALSE
    BY Zenon DEF FreeSlot, SlotRows
  <2> QED
    BY <1>1, <2>1, Zenon DEF Recover, IInv, Types
<1>13. SlotStep
  BY <1>1, <1>12, Zenon DEF SlotStep
<1>14. Attached'
  BY <1>4, <1>12, Zenon DEF IInv, Attached
<1>15. Types'
  BY <1>2, <1>3, <1>4, <1>6, <1>8, <1>9, <1>12, Zenon DEF IInv, Types
<1> QED
  BY <1>3, <1>8, <1>10, <1>11, <1>13, <1>14, <1>15, Zenon DEF IInv, Good

-----------------------------------------------------------------------------
\* Every step keeps the invariant, the terminal rows and the slots of live VMs.
LEMMA NextKeeps ==
  ASSUME IInv, [Next]_vars
  PROVE  Good
<1>1. ASSUME StartDrain PROVE Good
  BY <1>1, Stutters, Zenon DEF StartDrain, host, execs
<1>2. ASSUME UNCHANGED vars PROVE Good
  BY <1>2, Stutters, Zenon DEF vars
<1> QED
  BY <1>1, <1>2, CallSteps, ExecReturnsStep, ActorSteps, BootGoroutineSteps, CloseStep, TickStep,
     RestartStep, Zenon DEF Next

\* The invariant is inductive.
THEOREM Invariance == Spec => []IInv
<1>1. Init => IInv
  <2> SUFFICES ASSUME Init PROVE IInv
    BY Zenon
  <2> USE DEF Init
  <2>1. NoActor \in ActorRows /\ NoActor.run = "none" /\ NoActor.known = FALSE
    BY Zenon DEF NoActor, ActorRows, RowStates
  <2>2. NewCall \in CallRows /\ NewCall.pc = "new"
    BY Zenon DEF NewCall, CallRows
  <2>3. FreeSlot \in SlotRows /\ FreeSlot.pid = FALSE
    BY Zenon DEF FreeSlot, SlotRows
  <2>4. Types
    BY <2>1, <2>2, <2>3, SMTT(30) DEF Types, RowStates, BootSteps, Scopes
  <2>5. Mails
    <3>1. \A l \in Leases : Len(mailbox[l]) = 0
      BY Zenon
    <3> QED
      BY <3>1, SMTT(30) DEF Mails
  <2>6. Unused /\ Waits /\ Owned /\ Attached /\ OneExecPerLease
    BY <2>1, <2>2, <2>3, Zenon DEF Unused, Waits, Owned, Attached, OneExecPerLease
  <2> QED
    BY <2>4, <2>5, <2>6, Zenon DEF IInv
<1>2. IInv /\ [Next]_vars => IInv'
  BY NextKeeps, Zenon DEF Good
<1> QED
  BY <1>1, <1>2, PTL DEF Spec

\* At most one exec runs in a VM, whatever retries, cancellations, late
\* outcomes and restarts do (handleStartExec, handleExecDone).
THEOREM OneExec == Spec => []OneExecPerLease
<1>1. IInv => OneExecPerLease
  BY Zenon DEF IInv
<1> QED
  BY <1>1, Invariance, PTL

\* A terminal lease row never changes again (handleAcquire, finishLease,
\* setLeaseReady, markUnownedActiveLeasesCrashed).
THEOREM TerminalStays == Spec => TerminalRowIsFinal
<1>1. IInv /\ [Next]_vars => [\A l \in Leases : row[l] \in Terminal => row'[l] = row[l]]_vars
  BY NextKeeps, Zenon DEF Good, RowStep
<1> QED
  BY <1>1, Invariance, PTL DEF Spec, TerminalRowIsFinal

\* No boot, cleanup or recovery takes the network slot of a live VM
\* (Allocator.Acquire, AttachPID, Release, Recover).
THEOREM SlotKept == Spec => LiveVMKeepsItsSlot
<1>1. IInv /\ [Next]_vars =>
        [\A s \in Slots : slot[s].pid /\ slot[s].lease \in proc' => slot'[s] = slot[s]]_vars
  BY NextKeeps, Zenon DEF Good, SlotStep
<1> QED
  BY <1>1, Invariance, PTL DEF Spec, LiveVMKeepsItsSlot

-----------------------------------------------------------------------------
(* What callers are told.  While no ledger write has failed, a lease whose  *)
(* row is live has a running actor that the daemon knows, so that a release *)
(* that finds none may answer from the row, and an exec whose row says      *)
(* running has an actor that will hear of its end.                          *)

InMail(l) == {mailbox[l][i] : i \in 1 .. Len(mailbox[l])}

\* Every handler but AcquireLease has found a row.
Booked ==
  \A c \in Calls :
    /\ call[c].pc = "new" => call[c].op = "none"
    /\ call[c].pc # "new" /\ call[c].op # "acquire" =>
         call[c].lease \in Leases /\ row[call[c].lease] # "none"

\* A command in a mailbox was sent by a call with this operation on this lease.
Addressed ==
  \A l \in Leases : \A x \in InMail(l) : x.op \in Ops /\ x.from \in Calls =>
    call[x.from].op = x.op /\ call[x.from].lease = l /\ call[x.from].pc \notin {"new", "found"}

\* Live rows have running actors, running actors are known.
Live ==
  faults = 0 => \A l \in Leases :
    /\ Running(l) => actor[l].known
    /\ row[l] \in {"acquiring", "ready"} => Running(l)

\* AcquireLease is refused only when the row could not be written.
Refused ==
  faults = 0 => \A c \in Calls : call[c].op = "acquire" /\ call[c].pc = "replied" => call[c].out = "ok"

\* An exec that has a running row was taken from a mailbox.
Begun ==
  \A e \in Calls : execRow[e] = "running" => call[e].pc \notin {"new", "found"} /\ call[e].op = "start"

ExecTypes == execRow \in [Calls -> {"none", "pending", "running", "exited", "failed"}]

JInv ==
  /\ faults \in Nat /\ ExecTypes
  /\ Booked /\ Addressed /\ Live /\ Refused /\ Begun /\ ReleaseIsFinal /\ RunningExecIsOwned

\* A call that has begun keeps its operation and its lease.
CallsKept ==
  \A c \in Calls : call[c].pc # "new" =>
    /\ call'[c].pc # "new" /\ call'[c].op = call[c].op /\ call'[c].lease = call[c].lease
    /\ call[c].pc # "found" => call'[c].pc # "found"

\* A row is not lost, and a terminal one stays.
RowsKept ==
  \A l \in Leases : /\ row[l] # "none" => row'[l] # "none"
                    /\ row[l] \in Terminal => row'[l] = row[l]

\* The calls that begin have found a row.
Opens ==
  \A c \in Calls : call[c].pc = "new" =>
    /\ call'[c].pc = "new" => call'[c].op = "none"
    /\ call'[c].pc # "new" /\ call'[c].op # "acquire" =>
         call'[c].lease \in Leases /\ row'[call'[c].lease] # "none"

\* The commands that are sent come from calls.
Sent ==
  \A l \in Leases : \A x \in InMail(l)' :
    \/ x \in InMail(l)
    \/ x.op \in Ops /\ x.from \in Calls =>
         call'[x.from].op = x.op /\ call'[x.from].lease = l /\ call'[x.from].pc \notin {"new", "found"}

\* A release that is answered finds a terminal row.
Releases ==
  \A c \in Calls : call'[c].op = "release" /\ call'[c].out = "ok" /\ faults' = 0 =>
    \/ call[c].op = "release" /\ call[c].out = "ok"
    \/ row'[call'[c].lease] \in Terminal

\* An exec that starts to run becomes the active one.
Starts ==
  \A e \in Calls : execRow'[e] = "running" /\ execRow[e] # "running" =>
    /\ call'[e].pc \notin {"new", "found"} /\ call'[e].op = "start"
    /\ actor'[call'[e].lease].run = "running" /\ actor'[call'[e].lease].active = e

\* The active exec stays the active one, unless its lease ends.
Stays ==
  faults' = 0 => \A e \in Calls, l \in Leases :
    /\ execRow[e] = "running" /\ execRow'[e] = "running" /\ call[e].lease = l
    /\ row[l] # "none" /\ Running(l) /\ actor[l].active = e
    => row'[l] \in Terminal \/ (actor'[l].run = "running" /\ actor'[l].active = e)

\* What a step must do to keep the invariant.
LEMMA Told ==
  ASSUME JInv, CallsKept, RowsKept, faults' \in Nat, faults' = 0 => faults = 0,
         ExecTypes', Opens, Sent, Live', Refused', Releases, Starts, Stays
  PROVE  JInv'
<1>1. Booked'
  <2> SUFFICES ASSUME NEW c \in Calls
               PROVE  /\ call'[c].pc = "new" => call'[c].op = "none"
                      /\ call'[c].pc # "new" /\ call'[c].op # "acquire" =>
                           call'[c].lease \in Leases /\ row'[call'[c].lease] # "none"
    BY Zenon DEF Booked
  <2>1. CASE call[c].pc = "new"
    BY <2>1, Zenon DEF Opens
  <2>2. CASE call[c].pc # "new"
    BY <2>2, Zenon DEF CallsKept, RowsKept, JInv, Booked
  <2> QED
    BY <2>1, <2>2, Zenon
<1>2. Addressed'
  <2> SUFFICES ASSUME NEW l \in Leases, NEW x \in InMail(l)', x.op \in Ops, x.from \in Calls
               PROVE  call'[x.from].op = x.op /\ call'[x.from].lease = l
                      /\ call'[x.from].pc \notin {"new", "found"}
    BY Zenon DEF Addressed
  <2>1. CASE x \in InMail(l)
    BY <2>1, Zenon DEF JInv, Addressed, CallsKept
  <2>2. CASE x \notin InMail(l)
    BY <2>2, Zenon DEF Sent
  <2> QED
    BY <2>1, <2>2, Zenon
<1>3. Begun'
  <2> SUFFICES ASSUME NEW e \in Calls, execRow'[e] = "running"
               PROVE  call'[e].pc \notin {"new", "found"} /\ call'[e].op = "start"
    BY Zenon DEF Begun
  <2>1. CASE execRow[e] = "running"
    BY <2>1, Zenon DEF JInv, Begun, CallsKept
  <2>2. CASE execRow[e] # "running"
    BY <2>2, Zenon DEF Starts
  <2> QED
    BY <2>1, <2>2, Zenon
<1>4. ReleaseIsFinal'
  <2> SUFFICES ASSUME NEW c \in Calls, call'[c].op = "release", call'[c].out = "ok", faults' = 0
               PROVE  row'[call'[c].lease] \in Terminal
    BY Zenon DEF ReleaseIsFinal
  <2>1. CASE call[c].op = "release" /\ call[c].out = "ok"
    <3>1. call[c].pc # "new" /\ call[c].lease \in Leases
      BY <2>1, Zenon DEF JInv, Booked
    <3>2. call'[c].lease = call[c].lease /\ row[call[c].lease] \in Terminal
      BY <2>1, <3>1, Zenon DEF JInv, ReleaseIsFinal, CallsKept
    <3> QED
      BY <3>1, <3>2, Zenon DEF RowsKept
  <2> QED
    BY <2>1, Zenon DEF Releases
<1>5. RunningExecIsOwned'
  <2> SUFFICES ASSUME NEW e \in Calls, execRow'[e] = "running", faults' = 0
               PROVE  \/ row'[call'[e].lease] \in Terminal
                      \/ actor'[call'[e].lease].run = "running" /\ actor'[call'[e].lease].active = e
    BY Zenon DEF RunningExecIsOwned, Running
  <2>1. CASE execRow[e] = "running"
    <3>1. call[e].pc # "new" /\ call[e].lease \in Leases /\ row[call[e].lease] # "none"
      BY <2>1, Zenon DEF JInv, Booked, Begun
    <3>2. call'[e].lease = call[e].lease
      BY <3>1, Zenon DEF CallsKept
    <3>3. row[call[e].lease] \in Terminal \/ (Running(call[e].lease) /\ actor[call[e].lease].active = e)
      BY <2>1, Zenon DEF JInv, RunningExecIsOwned
    <3>4. CASE row[call[e].lease] \in Terminal
      BY <3>1, <3>2, <3>4, Zenon DEF RowsKept
    <3>5. CASE Running(call[e].lease) /\ actor[call[e].lease].active = e
      <4> DEFINE l == call[e].lease
      <4>1. l \in Leases /\ call[e].lease = l /\ row[l] # "none" /\ Running(l) /\ actor[l].active = e
        BY <3>1, <3>5, Zenon
      <4> HIDE DEF l
      <4>2. row'[l] \in Terminal \/ (actor'[l].run = "running" /\ actor'[l].active = e)
        BY <2>1, <4>1, Zenon DEF Stays
      <4> QED
        BY <3>2, <4>1, <4>2, Zenon
    <3> QED
      BY <3>3, <3>4, <3>5, Zenon
  <2>2. CASE execRow[e] # "running"
    BY <2>2, Zenon DEF Starts
  <2> QED
    BY <2>1, <2>2, Zenon
<1> QED
  BY <1>1, <1>2, <1>3, <1>4, <1>5, Zenon DEF JInv

\* What a mailbox holds after a message was taken.
LEMMA MailTaken ==
  ASSUME IInv, Shrinks, NEW l \in Leases
  PROVE  InMail(l)' \subseteq InMail(l)
<1>1. mailbox[l] \in Seq(Commands)
  BY Zenon DEF IInv, Types
<1>2. CASE mailbox'[l] = mailbox[l]
  BY <1>2, Zenon DEF InMail
<1>3. CASE mailbox[l] # <<>> /\ mailbox'[l] = Tail(mailbox[l])
  <2>1. \A k \in 1 .. Len(mailbox'[l]) : k + 1 \in 1 .. Len(mailbox[l]) /\ mailbox'[l][k] = mailbox[l][k + 1]
    BY <1>1, <1>3
  <2> QED
    BY <2>1, Zenon DEF InMail
<1> QED
  BY <1>2, <1>3, Zenon DEF Shrinks

\* What a mailbox holds after a message was sent.
LEMMA MailSent ==
  ASSUME IInv, NEW l \in Leases, NEW x \in Commands, Enqueue(l, x), NEW m \in Leases
  PROVE  InMail(m)' \subseteq InMail(m) \cup (IF m = l THEN {x} ELSE {})
<1>1. mailbox \in [Leases -> Seq(Commands)] /\ mailbox' = [mailbox EXCEPT ![l] = Append(@, x)]
  BY Zenon DEF IInv, Types, Enqueue
<1>2. CASE m # l
  BY <1>1, <1>2, Zenon DEF InMail
<1>3. CASE m = l
  <2>1. mailbox'[l] = Append(mailbox[l], x) /\ mailbox[l] \in Seq(Commands)
    BY <1>1, Zenon
  <2>2. \A k \in 1 .. Len(mailbox'[l]) : \/ k \in 1 .. Len(mailbox[l]) /\ mailbox'[l][k] = mailbox[l][k]
                                         \/ mailbox'[l][k] = x
    BY ONLY <2>1, x \in Commands, SMTT(30)
  <2> QED
    BY <1>3, <2>2, Zenon DEF InMail
<1> QED
  BY <1>2, <1>3, Zenon

\* Steps that leave rows, actors and faults alone.
LEMMA CallTold ==
  ASSUME JInv, UNCHANGED <<row, actor, faults>>, CallsKept, Opens, Sent, Refused', Releases,
         ExecTypes', \A e \in Calls : execRow'[e] = "running" => execRow[e] = "running"
  PROVE  JInv'
<1>1. RowsKept /\ Starts /\ Stays
  BY Zenon DEF RowsKept, Starts, Stays, Running
<1>2. Live'
  BY Zenon DEF JInv, Live, Running
<1>3. faults' \in Nat /\ (faults' = 0 => faults = 0)
  BY Zenon DEF JInv
<1> QED
  BY <1>1, <1>2, <1>3, Told, Zenon

\* A call c that begins with row r.
LEMMA CallEnters ==
  ASSUME IInv, JInv, NEW c \in Calls, NEW r, call[c].pc = "new", call' = [call EXCEPT ![c] = r],
         UNCHANGED <<row, actor, mailbox, faults>>, r.pc \in {"found", "done"},
         r.op # "acquire" => r.lease \in Leases /\ row[r.lease] # "none",
         r.op = "release" /\ r.out = "ok" /\ faults = 0 => row[r.lease] \in Terminal,
         ExecTypes', \A e \in Calls : execRow'[e] = "running" => execRow[e] = "running"
  PROVE  JInv'
<1>1. call'[c] = r /\ \A d \in Calls : d # c => call'[d] = call[d]
  BY Zenon DEF IInv, Types
<1>2. CallsKept
  BY <1>1, Zenon DEF CallsKept
<1>3. Opens
  <2> SUFFICES ASSUME NEW d \in Calls, call[d].pc = "new"
               PROVE  /\ call'[d].pc = "new" => call'[d].op = "none"
                      /\ call'[d].pc # "new" /\ call'[d].op # "acquire" =>
                           call'[d].lease \in Leases /\ row'[call'[d].lease] # "none"
    BY Zenon DEF Opens
  <2>1. CASE d = c
    BY <1>1, <2>1, Zenon
  <2>2. CASE d # c
    BY <1>1, <2>2, Zenon DEF JInv, Booked
  <2> QED
    BY <2>1, <2>2, Zenon
<1>4. Sent
  BY Zenon DEF Sent, InMail
<1>5. Refused'
  <2> SUFFICES ASSUME faults = 0, NEW d \in Calls, call'[d].op = "acquire", call'[d].pc = "replied"
               PROVE  call'[d].out = "ok"
    BY Zenon DEF Refused
  <2>1. d # c
    BY <1>1, Zenon
  <2> QED
    BY <1>1, <2>1, Zenon DEF JInv, Refused
<1>6. Releases
  <2> SUFFICES ASSUME NEW d \in Calls, call'[d].op = "release", call'[d].out = "ok", faults' = 0
               PROVE  (call[d].op = "release" /\ call[d].out = "ok") \/ row'[call'[d].lease] \in Terminal
    BY Zenon DEF Releases
  <2> QED
    BY <1>1, Zenon
<1> QED
  BY <1>2, <1>3, <1>4, <1>5, <1>6, CallTold, Zenon

\* The handlers that begin, AcquireLease apart.
LEMMA CallsEnter ==
  ASSUME IInv, JInv, NEW c \in Calls, NEW l \in Leases,
         \/ RenewLease(c, l) \/ ReleaseLease(c, l)
         \/ \E k \in Keys : StartExec(c, l, k)
         \/ \E op \in {"commit", "cancel"}, e \in Calls \cup {NoCall} : ActorCall(c, l, op, e)
  PROVE  JInv'
<1>1. call[c] \in CallRows
  BY Zenon DEF IInv, Types
<1>2. call[c].pc = "new" /\ row[l] # "none" /\ UNCHANGED <<row, actor, mailbox, faults>>
  BY Zenon DEF RenewLease, ReleaseLease, StartExec, ActorCall, Begins
<1>0. UNCHANGED execRow => ExecTypes'
  BY Zenon DEF JInv, ExecTypes
<1>3. CASE RenewLease(c, l)
  <2> DEFINE a == MinOf(remaining[l] + Extend, MaxRemaining)
             r == [call[c] EXCEPT !.op = "renew", !.lease = l,
                     !.pc = IF actor[l].known THEN "found" ELSE "done",
                     !.out = IF actor[l].known THEN "none" ELSE "err", !.arg = a]
  <2>1. call' = [call EXCEPT ![c] = r] /\ execRow' = execRow
    BY <1>3, Zenon DEF RenewLease, execs
  <2> HIDE DEF a
  <2>2. r.pc \in {"found", "done"} /\ r.op = "renew" /\ r.lease = l
    BY <1>1, ZenonT(30) DEF CallRows
  <2> HIDE DEF r
  <2> QED
    BY <1>0, <1>2, <2>1, <2>2, CallEnters, Zenon
<1>4. CASE ReleaseLease(c, l)
  <2> DEFINE r == [call[c] EXCEPT !.op = "release", !.lease = l,
                     !.pc = IF actor[l].known THEN "found" ELSE "done",
                     !.out = IF actor[l].known THEN "none" ELSE "ok"]
  <2>1. call' = [call EXCEPT ![c] = r] /\ execRow' = execRow
    BY <1>4, Zenon DEF ReleaseLease, execs
  <2>2. r.pc \in {"found", "done"} /\ r.op = "release" /\ r.lease = l /\ (r.out = "ok" => ~actor[l].known)
    BY <1>1, ZenonT(30) DEF CallRows
  <2> HIDE DEF r
  <2>3. ASSUME r.out = "ok", faults = 0 PROVE row[l] \in Terminal
    <3>1. row[l] \notin {"acquiring", "ready"}
      BY <2>2, <2>3, Zenon DEF JInv, Live
    <3>2. row[l] \in RowStates
      BY Zenon DEF IInv, Types
    <3> QED
      BY <1>2, <3>1, <3>2, Zenon DEF RowStates
  <2> QED
    BY <1>0, <1>2, <2>1, <2>2, <2>3, CallEnters, Zenon
<1>5. ASSUME NEW k \in Keys, StartExec(c, l, k) PROVE JInv'
  <2> DEFINE r == [call[c] EXCEPT !.op = "start", !.key = k, !.lease = l, !.exec = idem[l][k],
                      !.pc = "done", !.out = "ok"]
             q == [call[c] EXCEPT !.op = "start", !.key = k, !.lease = l, !.exec = c, !.pc = "found"]
             t == [call[c] EXCEPT !.op = "start", !.key = k, !.lease = l, !.pc = "done", !.out = "err"]
  <2>1. /\ \/ call' = [call EXCEPT ![c] = r]
           \/ call' = [call EXCEPT ![c] = q]
           \/ call' = [call EXCEPT ![c] = t]
        /\ execRow' = execRow \/ execRow' = [execRow EXCEPT ![c] = "pending"]
    BY <1>5, Zenon DEF StartExec
  <2>2. r.pc = "done" /\ r.op = "start" /\ r.lease = l
    BY <1>1, ZenonT(30) DEF CallRows
  <2>3. q.pc = "found" /\ q.op = "start" /\ q.lease = l
    BY <1>1, ZenonT(30) DEF CallRows
  <2>4. t.pc = "done" /\ t.op = "start" /\ t.lease = l
    BY <1>1, ZenonT(30) DEF CallRows
  <2> HIDE DEF r, q, t
  <2>5. ExecTypes' /\ \A e \in Calls : execRow'[e] = "running" => execRow[e] = "running"
    BY <2>1, Zenon DEF JInv, ExecTypes
  <2>6. CASE call' = [call EXCEPT ![c] = r]
    BY <1>2, <2>2, <2>5, <2>6, CallEnters, Zenon
  <2>7. CASE call' = [call EXCEPT ![c] = q]
    BY <1>2, <2>3, <2>5, <2>7, CallEnters, ZenonT(30)
  <2>8. CASE call' = [call EXCEPT ![c] = t]
    BY <1>2, <2>4, <2>5, <2>8, CallEnters, Zenon
  <2> QED
    BY <2>1, <2>6, <2>7, <2>8, Zenon
<1>6. ASSUME NEW op \in {"commit", "cancel"}, NEW e \in Calls \cup {NoCall}, ActorCall(c, l, op, e) PROVE JInv'
  <2> DEFINE r == [call[c] EXCEPT !.op = op, !.lease = l, !.exec = e,
                      !.pc = IF actor[l].known THEN "found" ELSE "done",
                      !.out = IF actor[l].known THEN "none" ELSE "err"]
  <2>1. call' = [call EXCEPT ![c] = r] /\ execRow' = execRow
    BY <1>6, Zenon DEF ActorCall, execs
  <2>2. r.pc \in {"found", "done"} /\ r.op = op /\ r.lease = l
    BY <1>1, ZenonT(30) DEF CallRows
  <2> HIDE DEF r
  <2> QED
    BY <1>0, <1>2, <2>1, <2>2, CallEnters, Zenon
<1> QED
  BY <1>3, <1>4, <1>5, <1>6, Zenon

\* A call c that was sent moves on to row r, and its answer is not a release.
LEMMA CallAdvances ==
  ASSUME IInv, JInv, NEW c \in Calls, NEW r, call[c].pc # "new", call' = [call EXCEPT ![c] = r],
         UNCHANGED <<row, actor, execRow, faults>>,
         r.op = call[c].op, r.lease = call[c].lease, r.pc \in {"wait", "done"},
         r.out = call[c].out \/ r.out # "ok", Sent
  PROVE  JInv'
<1>1. call'[c] = r /\ \A d \in Calls : d # c => call'[d] = call[d]
  BY Zenon DEF IInv, Types
<1>2. CallsKept /\ ExecTypes'
  BY <1>1, Zenon DEF CallsKept, JInv, ExecTypes
<1>3. Opens
  BY <1>1, Zenon DEF Opens, JInv, Booked
<1>4. Refused'
  <2> SUFFICES ASSUME faults = 0, NEW d \in Calls, call'[d].op = "acquire", call'[d].pc = "replied"
               PROVE  call'[d].out = "ok"
    BY Zenon DEF Refused
  <2>1. d # c
    BY <1>1, Zenon
  <2> QED
    BY <1>1, <2>1, Zenon DEF JInv, Refused
<1>5. Releases
  <2> SUFFICES ASSUME NEW d \in Calls, call'[d].op = "release", call'[d].out = "ok"
               PROVE  call[d].op = "release" /\ call[d].out = "ok"
    BY Zenon DEF Releases
  <2> QED
    BY <1>1, Zenon
<1> QED
  BY <1>2, <1>3, <1>4, <1>5, CallTold, Zenon

\* Commands that are sent, callers that leave, keys that are stored.
LEMMA CallsAdvance ==
  ASSUME IInv, JInv, NEW c \in Calls, SendCommand(c) \/ CallTimesOut(c) \/ StartAnswered(c)
  PROVE  JInv'
<1>1. call[c] \in CallRows /\ call[c].pc \in {"found", "wait", "replied"} /\ call[c].lease \in Leases
  BY Zenon DEF IInv, Types, Waits, SendCommand, CallTimesOut, StartAnswered
<1>2. UNCHANGED <<row, actor, execRow, faults>>
  BY Zenon DEF SendCommand, CallTimesOut, StartAnswered, execs
<1>3. UNCHANGED mailbox => Sent
  BY Zenon DEF Sent, InMail
<1>4. CASE CallTimesOut(c)
  <2> DEFINE r == [call[c] EXCEPT !.pc = "done", !.out = "timeout"]
  <2>1. call' = [call EXCEPT ![c] = r] /\ UNCHANGED mailbox
    BY <1>4, Zenon DEF CallTimesOut
  <2>2. r.op = call[c].op /\ r.lease = call[c].lease /\ r.pc = "done" /\ r.out = "timeout"
    BY <1>1, ZenonT(30) DEF CallRows
  <2> HIDE DEF r
  <2> QED
    BY <1>1, <1>2, <1>3, <2>1, <2>2, CallAdvances, Zenon
<1>5. CASE StartAnswered(c)
  <2> DEFINE r == [call[c] EXCEPT !.pc = "done"]
  <2>1. call' = [call EXCEPT ![c] = r] /\ UNCHANGED mailbox
    BY <1>5, Zenon DEF StartAnswered
  <2>2. r.op = call[c].op /\ r.lease = call[c].lease /\ r.pc = "done" /\ r.out = call[c].out
    BY <1>1, ZenonT(30) DEF CallRows
  <2> HIDE DEF r
  <2> QED
    BY <1>1, <1>2, <1>3, <2>1, <2>2, CallAdvances, Zenon
<1>6. CASE SendCommand(c)
  <2> DEFINE l == call[c].lease
             x == Cmd(call[c].op, c)
             w == [call[c] EXCEPT !.pc = "wait"]
             t == [call[c] EXCEPT !.pc = "done", !.out = "err"]
  <2>1. \/ Enqueue(l, x) /\ call' = [call EXCEPT ![c] = w]
        \/ UNCHANGED mailbox /\ (call' = [call EXCEPT ![c] = w] \/ call' = [call EXCEPT ![c] = t])
    BY <1>6, Zenon DEF SendCommand
  <2>2. w.op = call[c].op /\ w.lease = l /\ w.pc = "wait" /\ w.out = call[c].out
    BY <1>1, ZenonT(30) DEF CallRows
  <2>3. t.op = call[c].op /\ t.lease = l /\ t.pc = "done" /\ t.out = "err"
    BY <1>1, ZenonT(30) DEF CallRows
  <2>4. x \in Commands /\ x.op = call[c].op /\ x.from = c
    <3>1. call[c].op \in Ops
      BY <1>6, Zenon DEF IInv, Waits, SendCommand
    <3> QED
      BY <3>1, Zenon DEF Commands, Cmd
  <2> HIDE DEF w, t, x
  <2>5. CASE Enqueue(l, x) /\ call' = [call EXCEPT ![c] = w]
    <3>1. call'[c] = w
      BY <2>5, Zenon DEF IInv, Types
    <3>2. Sent
      <4> SUFFICES ASSUME NEW m \in Leases, NEW y \in InMail(m)', y \notin InMail(m)
                   PROVE  call'[y.from].op = y.op /\ call'[y.from].lease = m
                          /\ call'[y.from].pc \notin {"new", "found"}
        BY Zenon DEF Sent
      <4>1. l \in Leases
        BY <1>1, Zenon
      <4> HIDE DEF l
      <4>2. m = l /\ y = x
        BY <2>4, <2>5, <4>1, MailSent, Zenon
      <4> QED
        BY <2>2, <2>4, <3>1, <4>2, Zenon
    <3> QED
      BY <1>1, <1>2, <2>2, <2>5, <3>2, CallAdvances, Zenon
  <2>6. CASE UNCHANGED mailbox /\ call' = [call EXCEPT ![c] = w]
    BY <1>1, <1>2, <1>3, <2>2, <2>6, CallAdvances, Zenon
  <2>7. CASE UNCHANGED mailbox /\ call' = [call EXCEPT ![c] = t]
    BY <1>1, <1>2, <1>3, <2>3, <2>7, CallAdvances, Zenon
  <2> QED
    BY <2>1, <2>5, <2>6, <2>7, Zenon
<1> QED
  BY <1>4, <1>5, <1>6, Zenon

\* Steps that leave the calls alone but for their deadlines.
LEMMA OthersTold ==
  ASSUME JInv, UNCHANGED <<row, actor, execRow, faults>>, Sent,
         \A c \in Calls : /\ call'[c].op = call[c].op /\ call'[c].lease = call[c].lease
                          /\ call'[c].pc = call[c].pc /\ call'[c].out = call[c].out
  PROVE  JInv'
<1>1. CallsKept /\ Releases /\ ExecTypes'
  BY Zenon DEF CallsKept, Releases, JInv, ExecTypes
<1>2. Opens
  BY Zenon DEF Opens, JInv, Booked
<1>3. Refused'
  BY Zenon DEF Refused, JInv
<1> QED
  BY <1>1, <1>2, <1>3, CallTold, Zenon

\* Boots, execs that return and a closing server send no command of a call.
LEMMA OthersSend ==
  ASSUME IInv, NEW l \in Leases,
         \/ UNCHANGED mailbox
         \/ \E x \in Commands : Enqueue(l, x) /\ ~(x.op \in Ops /\ x.from \in Calls)
  PROVE  Sent
<1>1. CASE UNCHANGED mailbox
  BY <1>1, Zenon DEF Sent, InMail
<1>2. ASSUME NEW x \in Commands, Enqueue(l, x), ~(x.op \in Ops /\ x.from \in Calls) PROVE Sent
  <2> SUFFICES ASSUME NEW m \in Leases, NEW y \in InMail(m)', y \notin InMail(m)
               PROVE  ~(y.op \in Ops /\ y.from \in Calls)
    BY Zenon DEF Sent
  <2>1. y = x
    BY <1>2, MailSent, Zenon
  <2> QED
    BY <1>2, <2>1, Zenon
<1> QED
  BY <1>1, <1>2, Zenon

\* Boot goroutines, exec goroutines, time and shutdown.
LEMMA OthersMove ==
  ASSUME IInv, JInv,
         \/ \E l \in Leases : BootGoroutine(l) \/ Close(l)
         \/ \E e \in Calls, ok \in BOOLEAN : ExecReturns(e, ok)
         \/ Tick \/ StartDrain \/ UNCHANGED vars
  PROVE  JInv'
<1>1. UNCHANGED mailbox => Sent
  BY Zenon DEF Sent, InMail
<1>2. ASSUME NEW l \in Leases, BootGoroutine(l) PROVE JInv'
  <2>1. UNCHANGED <<row, actor, execRow, faults, call>>
    BY <1>2, ZenonT(30) DEF BootGoroutine, BootFails, BootClone, BootNetwork, BootJailer, BootAttach,
       BootGuest, BootSend, BootStep, execs
  <2>2. UNCHANGED mailbox \/ BootSend(l)
    BY <1>2, ZenonT(30) DEF BootGoroutine, BootFails, BootClone, BootNetwork, BootJailer, BootAttach,
       BootGuest, BootStep
  <2>3. ASSUME BootSend(l) PROVE Sent
    <3> DEFINE x == [op |-> "boot", from |-> NoCall, ok |-> boot[l] = "up"]
    <3>1. UNCHANGED mailbox \/ Enqueue(l, x)
      BY <2>3, Zenon DEF BootSend
    <3>2. x \in Commands /\ x.op = "boot"
      BY Zenon DEF Commands
    <3> HIDE DEF x
    <3> QED
      BY <3>1, <3>2, OthersSend, Zenon DEF Ops
  <2> QED
    BY <1>1, <2>1, <2>2, <2>3, OthersTold, Zenon
<1>3. ASSUME NEW l \in Leases, Close(l) PROVE JInv'
  <2> DEFINE x == Cmd("release", NoCall)
  <2>1. UNCHANGED <<row, actor, execRow, faults, call>> /\ Enqueue(l, x)
    BY <1>3, Zenon DEF Close, execs
  <2>2. x \in Commands /\ x.from \notin Calls
    BY LeasesAssumption, Zenon DEF Commands, Cmd, Ops
  <2> HIDE DEF x
  <2>3. Sent
    BY <2>1, <2>2, OthersSend, Zenon
  <2> QED
    BY <2>1, <2>3, OthersTold, Zenon
<1>4. ASSUME NEW e \in Calls, NEW ok \in BOOLEAN, ExecReturns(e, ok) PROVE JInv'
  <2> DEFINE x == [op |-> "done", from |-> e, ok |-> ok]
             l == call[e].lease
  <2>1. /\ UNCHANGED <<row, actor, execRow, faults, call>> /\ e \in executing
        /\ UNCHANGED mailbox \/ Enqueue(l, x)
    BY <1>4, Zenon DEF ExecReturns
  <2>2. x \in Commands /\ x.op = "done" /\ l \in Leases
    BY <2>1, Zenon DEF Commands, IInv, Owned
  <2> HIDE DEF x, l
  <2>3. Sent
    BY <2>1, <2>2, OthersSend, Zenon DEF Ops
  <2> QED
    BY <2>1, <2>3, OthersTold, Zenon
<1>5. ASSUME Tick PROVE JInv'
  <2>1. /\ call' = [c \in Calls |-> [call[c] EXCEPT !.arg = Sooner(@)]]
        /\ UNCHANGED <<row, actor, mailbox, execRow, faults>>
    BY <1>5, Zenon DEF Tick, execs
  <2>2. ASSUME NEW c \in Calls
        PROVE  /\ call'[c].op = call[c].op /\ call'[c].lease = call[c].lease
               /\ call'[c].pc = call[c].pc /\ call'[c].out = call[c].out
    <3> DEFINE n == Sooner(call[c].arg)
    <3>1. call[c] \in CallRows /\ call'[c] = [call[c] EXCEPT !.arg = n]
      BY <2>1, Zenon DEF IInv, Types
    <3> HIDE DEF n
    <3> QED
      BY <3>1, Zenon DEF CallRows
  <2> QED
    BY <1>1, <2>1, <2>2, OthersTold, Zenon
<1>6. ASSUME StartDrain \/ UNCHANGED vars PROVE JInv'
  BY <1>1, <1>6, OthersTold, Zenon DEF StartDrain, execs, vars
<1> QED
  BY <1>2, <1>3, <1>4, <1>5, <1>6, Zenon

\* AcquireLease gives a fresh lease an actor, which the daemon knows.
LEMMA AcquireTold ==
  ASSUME IInv, JInv, NEW c \in Calls, NEW k \in Keys, AcquireLease(c, k)
  PROVE  JInv'
<1>1. call[c] \in CallRows /\ call[c].pc = "new" /\ UNCHANGED <<row, execRow, faults>>
  BY Zenon DEF IInv, Types, AcquireLease, Begins, execs
<1>2. ExecTypes' /\ \A e \in Calls : execRow'[e] = execRow[e]
  BY <1>1, Zenon DEF JInv, ExecTypes
<1> DEFINE r == [call[c] EXCEPT !.op = "acquire", !.key = k, !.lease = idem[NoLease][k],
                   !.pc = "done", !.out = "ok"]
           t == [call[c] EXCEPT !.op = "acquire", !.key = k, !.pc = "done", !.out = "err"]
<1>3. CASE UNCHANGED <<actor, mailbox>> /\ call' = [call EXCEPT ![c] = r]
  <2>1. r.op = "acquire" /\ r.pc = "done"
    BY <1>1, ZenonT(30) DEF CallRows
  <2> HIDE DEF r
  <2> QED
    BY <1>1, <1>2, <1>3, <2>1, CallEnters, Zenon
<1>4. CASE UNCHANGED <<actor, mailbox>> /\ call' = [call EXCEPT ![c] = t]
  <2>1. t.op = "acquire" /\ t.pc = "done"
    BY <1>1, ZenonT(30) DEF CallRows
  <2> HIDE DEF t
  <2> QED
    BY <1>1, <1>2, <1>4, <2>1, CallEnters, Zenon
<1>5. ASSUME NEW l \in Leases, Fresh(l),
             actor' = [actor EXCEPT ![l] = [run |-> "running", state |-> "acquiring", known |-> TRUE,
                                            runtime |-> FALSE, active |-> NoCall]],
             Enqueue(l, Cmd("acquire", c)),
             call' = [call EXCEPT ![c] = [@ EXCEPT !.op = "acquire", !.key = k, !.lease = l, !.pc = "wait"]]
      PROVE  JInv'
  <2> DEFINE q == [call[c] EXCEPT !.op = "acquire", !.key = k, !.lease = l, !.pc = "wait"]
             x == Cmd("acquire", c)
             a == [run |-> "running", state |-> "acquiring", known |-> TRUE,
                   runtime |-> FALSE, active |-> NoCall]
  <2>1. /\ q.op = "acquire" /\ q.pc = "wait" /\ q.lease = l
        /\ x \in Commands /\ x.op = "acquire" /\ x.from = c
        /\ a.run = "running" /\ a.known
    BY <1>1, ZenonT(30) DEF CallRows, Ops, Commands, Cmd
  <2>2. call' = [call EXCEPT ![c] = q] /\ actor' = [actor EXCEPT ![l] = a] /\ Enqueue(l, x)
    BY <1>5, Zenon
  <2> HIDE DEF q, x, a
  <2>3. call'[c] = q /\ \A d \in Calls : d # c => call'[d] = call[d]
    BY <2>2, Zenon DEF IInv, Types
  <2>4. actor'[l] = a /\ \A m \in Leases : m # l => actor'[m] = actor[m]
    BY <2>2, Zenon DEF IInv, Types
  <2>5. row[l] = "none"
    BY <1>5, Zenon DEF IInv, Unused, Fresh
  <2>6. CallsKept /\ RowsKept
    BY <1>1, <2>3, Zenon DEF CallsKept, RowsKept
  <2>7. faults' \in Nat /\ (faults' = 0 => faults = 0)
    BY <1>1, Zenon DEF JInv
  <2>8. Opens
    <3> SUFFICES ASSUME NEW d \in Calls, call[d].pc = "new"
                 PROVE  /\ call'[d].pc = "new" => call'[d].op = "none"
                        /\ call'[d].pc # "new" /\ call'[d].op # "acquire" =>
                             call'[d].lease \in Leases /\ row'[call'[d].lease] # "none"
      BY Zenon DEF Opens
    <3>1. CASE d = c
      BY <2>1, <2>3, <3>1, Zenon
    <3>2. CASE d # c
      BY <2>3, <3>2, Zenon DEF JInv, Booked
    <3> QED
      BY <3>1, <3>2, Zenon
  <2>9. Sent
    <3> SUFFICES ASSUME NEW m \in Leases, NEW y \in InMail(m)', y \notin InMail(m)
                 PROVE  call'[y.from].op = y.op /\ call'[y.from].lease = m
                        /\ call'[y.from].pc \notin {"new", "found"}
      BY Zenon DEF Sent
    <3>1. m = l /\ y = x
      BY <2>1, <2>2, MailSent, Zenon
    <3> QED
      BY <2>1, <2>3, <3>1, Zenon
  <2>10. Live'
    <3> SUFFICES ASSUME faults = 0, NEW m \in Leases
                 PROVE  /\ actor'[m].run = "running" => actor'[m].known
                        /\ row[m] \in {"acquiring", "ready"} => actor'[m].run = "running"
      BY <1>1, Zenon DEF Live, Running
    <3>1. CASE m = l
      BY <2>1, <2>4, <3>1, Zenon
    <3>2. CASE m # l
      BY <2>4, <3>2, Zenon DEF JInv, Live, Running
    <3> QED
      BY <3>1, <3>2, Zenon
  <2>11. Refused'
    <3> SUFFICES ASSUME faults = 0, NEW d \in Calls, call'[d].op = "acquire", call'[d].pc = "replied"
                 PROVE  call'[d].out = "ok"
      BY <1>1, Zenon DEF Refused
    <3>1. d # c
      BY <2>1, <2>3, Zenon
    <3> QED
      BY <2>3, <3>1, Zenon DEF JInv, Refused
  <2>12. Releases
    <3> SUFFICES ASSUME NEW d \in Calls, call'[d].op = "release", call'[d].out = "ok"
                 PROVE  call[d].op = "release" /\ call[d].out = "ok"
      BY Zenon DEF Releases
    <3>1. d # c
      BY <2>1, <2>3, Zenon
    <3> QED
      BY <2>3, <3>1, Zenon
  <2>13. Starts
    BY <1>2, Zenon DEF Starts
  <2>14. Stays
    <3> SUFFICES ASSUME NEW e \in Calls, NEW m \in Leases, row[m] # "none", Running(m), actor[m].active = e
                 PROVE  actor'[m].run = "running" /\ actor'[m].active = e
      BY Zenon DEF Stays
    <3>1. m # l
      BY <2>5, Zenon
    <3> QED
      BY <2>4, <3>1, Zenon DEF Running
  <2> QED
    BY <1>2, <2>6, <2>7, <2>8, <2>9, <2>10, <2>11, <2>12, <2>13, <2>14, Told, ZenonT(30)
<1>6. \/ UNCHANGED <<actor, mailbox>> /\ (call' = [call EXCEPT ![c] = r] \/ call' = [call EXCEPT ![c] = t])
      \/ \E l \in Leases :
            /\ Fresh(l)
            /\ actor' = [actor EXCEPT ![l] = [run |-> "running", state |-> "acquiring", known |-> TRUE,
                                              runtime |-> FALSE, active |-> NoCall]]
            /\ Enqueue(l, Cmd("acquire", c))
            /\ call' = [call EXCEPT ![c] = [@ EXCEPT !.op = "acquire", !.key = k, !.lease = l, !.pc = "wait"]]
  BY Zenon DEF AcquireLease
<1> QED
  BY <1>3, <1>4, <1>5, <1>6, Zenon

\* Only an acquisition that was refused forgets its actor.
LEMMA AcquireAnsweredTold ==
  ASSUME IInv, JInv, NEW c \in Calls, AcquireAnswered(c)
  PROVE  JInv'
<1> DEFINE r == [call[c] EXCEPT !.pc = "done"]
<1>1. /\ call[c].op = "acquire" /\ call[c].pc = "replied" /\ call' = [call EXCEPT ![c] = r]
      /\ UNCHANGED <<row, mailbox, execRow, faults>> /\ (call[c].out = "ok" => UNCHANGED actor)
  BY Zenon DEF AcquireAnswered, execs, IInv, Types
<1>2. call[c] \in CallRows
  BY Zenon DEF IInv, Types
<1>3. r.op = call[c].op /\ r.lease = call[c].lease /\ r.pc = "done" /\ r.out = call[c].out
  BY <1>2, ZenonT(30) DEF CallRows
<1> HIDE DEF r
<1>4. Sent
  BY <1>1, Zenon DEF Sent, InMail
<1>5. CASE call[c].out = "ok"
  BY <1>1, <1>3, <1>4, <1>5, CallAdvances, Zenon
<1>6. CASE call[c].out # "ok"
  <2>1. faults # 0
    BY <1>1, <1>6, Zenon DEF JInv, Refused
  <2>2. call'[c] = r /\ \A d \in Calls : d # c => call'[d] = call[d]
    BY <1>1, Zenon DEF IInv, Types
  <2>3. CallsKept /\ RowsKept
    BY <1>1, <1>3, <2>2, Zenon DEF CallsKept, RowsKept
  <2>4. Opens
    BY <1>1, <2>2, Zenon DEF Opens, JInv, Booked
  <2>5. Live' /\ Refused' /\ Releases /\ Stays
    BY <1>1, <2>1, Zenon DEF Live, Refused, Releases, Stays
  <2>6. Starts /\ ExecTypes' /\ faults' \in Nat
    BY <1>1, Zenon DEF Starts, JInv, ExecTypes
  <2> QED
    BY <1>1, <1>4, <2>1, <2>3, <2>4, <2>5, <2>6, Told, Zenon
<1> QED
  BY <1>5, <1>6, Zenon

\* Every step of a call.
LEMMA CallsTold ==
  ASSUME IInv, JInv, NEW c \in Calls, CallStep(c)
  PROVE  JInv'
BY CallsEnter, CallsAdvance, AcquireTold, AcquireAnsweredTold, Zenon DEF CallStep

\* A message taken leaves the commands that were sent.
LEMMA TakenSent ==
  ASSUME IInv, NEW l \in Leases, NEW op, Takes(l, op)
  PROVE  Sent
BY Taken, MailTaken, Zenon DEF Sent

\* The only call that changes is one that asked for op on l.
Answers(l, op, ok) ==
  \A d \in Calls : \/ call'[d] = call[d]
                   \/ /\ call'[d].op = op /\ call'[d].lease = l /\ call[d].pc # "new"
                      /\ call[d].op = op /\ call[d].lease = l
                      /\ (call'[d].out = "ok" <=> ok)

\* A command is answered to the call that sent it.
LEMMA Replied ==
  ASSUME IInv, JInv, NEW l \in Leases, NEW op \in Ops, Takes(l, op), NEW ok \in BOOLEAN,
         Reply(Head(mailbox[l]).from, ok)
  PROVE  CallsKept /\ Opens /\ Answers(l, op, ok)
<1> DEFINE c == Head(mailbox[l]).from
<1>1. CASE ~(c \in Calls /\ call[c].pc = "wait")
  <2>1. call' = call
    BY <1>1, Zenon DEF Reply
  <2> QED
    BY <2>1, Zenon DEF CallsKept, Opens, JInv, Booked, Answers
<1>2. CASE c \in Calls /\ call[c].pc = "wait"
  <2> DEFINE p == IF call[c].op \in {"acquire", "start"} THEN "replied" ELSE "done"
             o == IF ok THEN "ok" ELSE "err"
             r == [call[c] EXCEPT !.pc = p, !.out = o, !.arg = 0]
  <2>1. call' = [call EXCEPT ![c] = r]
    BY <1>2, Zenon DEF Reply
  <2>2. call[c] \in CallRows
    BY <1>2, Zenon DEF IInv, Types
  <2>3. p \in {"replied", "done"} /\ (o = "ok" <=> ok)
    BY Zenon
  <2>4. Head(mailbox[l]) \in InMail(l) /\ Head(mailbox[l]).op = op
    <3>1. 1 \in 1 .. Len(mailbox[l]) /\ Head(mailbox[l]) = mailbox[l][1] /\ Head(mailbox[l]).op = op
      BY Taken, Zenon
    <3> QED
      BY <3>1, Zenon DEF InMail
  <2>5. call[c].op = op /\ call[c].lease = l
    BY <1>2, <2>4, Zenon DEF JInv, Addressed
  <2> HIDE DEF p, o, c
  <2>6. r.op = call[c].op /\ r.lease = call[c].lease /\ r.pc \in {"replied", "done"} /\ r.out = o
    BY <2>2, <2>3, ZenonT(30) DEF CallRows
  <2> HIDE DEF r
  <2>7. call'[c] = r /\ \A d \in Calls : d # c => call'[d] = call[d]
    BY <1>2, <2>1, Zenon DEF IInv, Types
  <2>8. CallsKept
    BY <1>2, <2>6, <2>7, Zenon DEF CallsKept
  <2>9. Opens
    BY <1>2, <2>7, Zenon DEF Opens, JInv, Booked
  <2>10. ASSUME NEW d \in Calls
         PROVE  \/ call'[d] = call[d]
                \/ /\ call'[d].op = op /\ call'[d].lease = l /\ call[d].pc # "new"
                   /\ call[d].op = op /\ call[d].lease = l
                   /\ (call'[d].out = "ok" <=> ok)
    <3>1. CASE d = c
      <4>1. call[d].pc = "wait" /\ call[d].op = op /\ call[d].lease = l /\ call'[d] = r
        BY <1>2, <2>5, <2>7, <3>1, Zenon
      <4>2. call'[d].op = op /\ call'[d].lease = l /\ call'[d].out = o
        BY <2>5, <2>6, <3>1, <4>1, Zenon
      <4> QED
        BY <2>3, <4>1, <4>2, Zenon
    <3> QED
      BY <2>7, <3>1, Zenon
  <2> QED
    BY <2>8, <2>9, <2>10, Zenon DEF Answers
<1> QED
  BY <1>1, <1>2, Zenon

\* The handlers that answer a call, handleRelease apart.
LEMMA HandlerTold ==
  ASSUME IInv, JInv, NEW l \in Leases, NEW op \in Ops \ {"release"}, Takes(l, op), NEW ok \in BOOLEAN,
         Reply(Head(mailbox[l]).from, ok), op = "acquire" => ok \/ faults' # 0,
         faults' \in Nat, faults' = 0 => faults = 0, RowsKept, ExecTypes', Live', Starts, Stays
  PROVE  JInv'
<1>0. op \in Ops
  BY Zenon
<1>1. CallsKept /\ Opens /\ Answers(l, op, ok)
  BY <1>0, Replied, Zenon
<1>2. Sent
  BY TakenSent, Zenon
<1>3. Refused'
  <2> SUFFICES ASSUME faults' = 0, NEW d \in Calls, call'[d].op = "acquire", call'[d].pc = "replied"
               PROVE  call'[d].out = "ok"
    BY Zenon DEF Refused
  <2>1. CASE call'[d] = call[d]
    BY <2>1, Zenon DEF JInv, Refused
  <2>2. CASE call'[d] # call[d]
    BY <1>1, <2>2, Zenon DEF Answers
  <2> QED
    BY <2>1, <2>2, Zenon
<1>4. Releases
  BY <1>1, ZenonT(30) DEF Releases, Answers
<1> QED
  BY <1>1, <1>2, <1>3, <1>4, Told, Zenon

\* handleRenew, handleCommitFilesystemMount and handleCancelExec.
LEMMA AnswersTold ==
  ASSUME IInv, JInv, NEW l \in Leases, HandleRenew(l) \/ HandleCommit(l) \/ HandleCancelExec(l)
  PROVE  JInv'
<1>1. UNCHANGED <<row, actor, execRow, faults>>
  BY Zenon DEF HandleRenew, HandleCommit, HandleCancelExec, execs
<1>2. RowsKept /\ ExecTypes' /\ Starts /\ Stays /\ faults' \in Nat /\ (faults' = 0 => faults = 0)
  BY <1>1, Zenon DEF RowsKept, JInv, ExecTypes, Starts, Stays, Running
<1>3. Live'
  BY <1>1, Zenon DEF JInv, Live, Running
<1>4. ASSUME NEW op \in {"renew", "commit", "cancel"}, Takes(l, op), NEW ok \in BOOLEAN,
             Reply(Head(mailbox[l]).from, ok)
      PROVE  JInv'
  <2>1. op \in Ops \ {"release"} /\ op # "acquire"
    BY <1>4, Zenon DEF Ops
  <2> QED
    BY <1>2, <1>3, <1>4, <2>1, HandlerTold, Zenon
<1>5. CASE HandleRenew(l)
  <2>1. (remaining[l] > 0) \in BOOLEAN
    OBVIOUS
  <2> QED
    BY <1>4, <1>5, <2>1, Zenon DEF HandleRenew
<1>6. CASE HandleCommit(l)
  BY <1>4, <1>6, Zenon DEF HandleCommit
<1>7. CASE HandleCancelExec(l)
  <2> DEFINE c == Head(mailbox[l]).from
  <2>1. (actor[l].active = call[c].exec) \in BOOLEAN
    BY Zenon
  <2> QED
    BY <1>4, <1>7, <2>1, Zenon DEF HandleCancelExec
<1> QED
  BY <1>5, <1>6, <1>7, Zenon

\* A fault that is spent shows.
LEMMA Faults ==
  ASSUME JInv, StoreWorks \/ StoreFails
  PROVE  faults' \in Nat /\ (faults' = 0 => faults = 0) /\ (StoreFails => faults' # 0 /\ faults' # faults)
BY DEF JInv, StoreWorks, StoreFails

\* handleAcquire writes the row of an actor that runs.
LEMMA AcquireHandledTold ==
  ASSUME IInv, JInv, NEW l \in Leases, HandleAcquire(l)
  PROVE  JInv'
<1>1. /\ Takes(l, "acquire") /\ UNCHANGED <<actor, execRow>> /\ (StoreWorks \/ StoreFails)
      /\ \/ row' = [row EXCEPT ![l] = "acquiring"] /\ Reply(Head(mailbox[l]).from, TRUE)
         \/ UNCHANGED row /\ StoreFails /\ Reply(Head(mailbox[l]).from, FALSE)
  BY Zenon DEF HandleAcquire, execs
<1>2. Running(l) /\ 1 \in 1 .. Len(mailbox[l]) /\ mailbox[l][1].op = "acquire"
  <2>1. Running(l) /\ 1 \in 1 .. Len(mailbox[l]) /\ Head(mailbox[l]) = mailbox[l][1]
        /\ Head(mailbox[l]).op = "acquire"
    BY <1>1, Taken, Zenon
  <2> QED
    BY <2>1, Zenon
<1>3. row[l] = "none"
  BY <1>2, Zenon DEF IInv, Mails
<1>4. \/ row' = row
      \/ row'[l] = "acquiring" /\ \A m \in Leases : m # l => row'[m] = row[m]
  BY <1>1, Zenon DEF IInv, Types
<1>5. RowsKept
  BY <1>3, <1>4, Zenon DEF RowsKept, Terminal
<1>6. ExecTypes' /\ Starts /\ Stays
  BY <1>1, Zenon DEF JInv, ExecTypes, Starts, Stays, Running
<1>7. faults' \in Nat /\ (faults' = 0 => faults = 0) /\ (StoreFails => faults' # 0)
  BY <1>1, Faults, Zenon
<1>8. Live'
  <2> SUFFICES ASSUME faults' = 0, NEW m \in Leases
               PROVE  /\ actor[m].run = "running" => actor[m].known
                      /\ row'[m] \in {"acquiring", "ready"} => actor[m].run = "running"
    BY <1>1, Zenon DEF Live, Running
  <2>1. /\ actor[m].run = "running" => actor[m].known
        /\ row[m] \in {"acquiring", "ready"} => actor[m].run = "running"
    BY <1>7, Zenon DEF JInv, Live, Running
  <2>2. m = l \/ row'[m] = row[m]
    BY <1>4, Zenon
  <2> QED
    BY <1>2, <2>1, <2>2, Zenon DEF Running
<1>9. "acquire" \in Ops \ {"release"}
  BY Zenon DEF Ops
<1> QED
  BY <1>1, <1>5, <1>6, <1>7, <1>8, <1>9, HandlerTold, ZenonT(30)

\* An actor that stops has finished its row, unless the write failed.
LEMMA StopTold ==
  ASSUME IInv, JInv, NEW l \in Leases, NEW st \in Terminal, NEW a, a.run = "stopped",
         actor' = [actor EXCEPT ![l] = a],
         \/ StoreWorks /\ row' = FinishLease(l, st)
         \/ StoreFails /\ (row' = row \/ row' = FinishLease(l, st))
  PROVE  /\ RowsKept /\ Live' /\ Stays
         /\ faults' \in Nat /\ (faults' = 0 => faults = 0)
         /\ faults' = 0 /\ row[l] # "none" => row'[l] \in Terminal
<1>1. actor'[l] = a /\ \A m \in Leases : m # l => actor'[m] = actor[m]
  BY Zenon DEF IInv, Types
<1>2. faults' \in Nat /\ (faults' = 0 => faults = 0) /\ (StoreFails => faults' # 0)
  BY Faults, Zenon
<1>3. row[l] \in RowStates /\ row \in [Leases -> RowStates]
  BY Zenon DEF IInv, Types
<1>4. row' = FinishLease(l, st) =>
        /\ \A m \in Leases : m # l => row'[m] = row[m]
        /\ row'[l] = IF row[l] \in Terminal \cup {"none"} THEN row[l] ELSE st
  BY <1>3, Zenon DEF FinishLease
<1>5. RowsKept
  <2>1. st # "none"
    BY Zenon DEF Terminal
  <2> QED
    BY <1>4, <2>1, Zenon DEF RowsKept
<1>6. faults' = 0 => row' = FinishLease(l, st)
  BY <1>2, Zenon
<1>7. faults' = 0 => row'[l] \in Terminal \cup {"none"} /\ (row[l] # "none" => row'[l] \in Terminal)
  BY <1>4, <1>6, Zenon
<1>8. Live'
  <2> SUFFICES ASSUME faults' = 0, NEW m \in Leases
               PROVE  /\ actor'[m].run = "running" => actor'[m].known
                      /\ row'[m] \in {"acquiring", "ready"} => actor'[m].run = "running"
    BY Zenon DEF Live, Running
  <2>1. CASE m = l
    <3>1. row'[m] \notin {"acquiring", "ready"}
      BY <1>7, <2>1, Zenon DEF Terminal
    <3> QED
      BY <1>1, <2>1, <3>1, Zenon
  <2>2. CASE m # l
    BY <1>1, <1>2, <1>4, <1>6, <2>2, Zenon DEF JInv, Live, Running
  <2> QED
    BY <2>1, <2>2, Zenon
<1>9. Stays
  <2> SUFFICES ASSUME faults' = 0, NEW e \in Calls, NEW m \in Leases,
                      row[m] # "none", Running(m), actor[m].active = e
               PROVE  row'[m] \in Terminal \/ (actor'[m].run = "running" /\ actor'[m].active = e)
    BY ZenonT(30) DEF Stays
  <2>1. CASE m = l
    BY <1>7, <2>1, Zenon
  <2>2. CASE m # l
    BY <1>1, <2>2, Zenon DEF Running
  <2> QED
    BY <2>1, <2>2, Zenon
<1> QED
  BY <1>2, <1>5, <1>7, <1>8, <1>9, Zenon

\* EndLease as such a stop.
LEMMA EndTold ==
  ASSUME IInv, JInv, NEW l \in Leases, NEW st \in Terminal, EndLease(l, st)
  PROVE  /\ RowsKept /\ Live' /\ Stays
         /\ faults' \in Nat /\ (faults' = 0 => faults = 0)
         /\ faults' = 0 /\ row[l] # "none" => row'[l] \in Terminal
         /\ StoreWorks \/ StoreFails
<1>1. actor[l].known \in BOOLEAN
  BY Zenon DEF IInv, Types, ActorRows
<1> DEFINE k == actor[l].known /\ st = "released"
           a == [NoActor EXCEPT !.run = "stopped", !.state = st]
           b == [NoActor EXCEPT !.run = "stopped", !.state = st, !.known = k]
<1>2. k \in BOOLEAN
  BY <1>1, Zenon
<1>3. \/ StoreWorks /\ row' = FinishLease(l, st) /\ actor' = [actor EXCEPT ![l] = a]
      \/ StoreFails /\ row' = row /\ actor' = [actor EXCEPT ![l] = b]
  BY Zenon DEF EndLease
<1> HIDE DEF k
<1>4. a.run = "stopped" /\ b.run = "stopped"
  BY <1>2, StoppedRow, Zenon
<1> HIDE DEF a, b
<1>5. CASE StoreWorks /\ row' = FinishLease(l, st) /\ actor' = [actor EXCEPT ![l] = a]
  BY <1>4, <1>5, StopTold, Zenon
<1>6. CASE StoreFails /\ row' = row /\ actor' = [actor EXCEPT ![l] = b]
  BY <1>4, <1>6, StopTold, Zenon
<1> QED
  BY <1>3, <1>5, <1>6, Zenon

\* handleRelease answers after the row is finished.
LEMMA ReleaseHandledTold ==
  ASSUME IInv, JInv, NEW l \in Leases, HandleRelease(l)
  PROVE  JInv'
<1>1. /\ Takes(l, "release") /\ EndLease(l, "released") /\ "released" \in Terminal /\ "release" \in Ops
      /\ Reply(Head(mailbox[l]).from, faults' = faults) /\ UNCHANGED execRow
      /\ (faults' = faults) \in BOOLEAN
  BY Zenon DEF HandleRelease, Terminal, Ops, execs
<1>2. /\ RowsKept /\ Live' /\ Stays
      /\ faults' \in Nat /\ (faults' = 0 => faults = 0)
      /\ faults' = 0 /\ row[l] # "none" => row'[l] \in Terminal
  BY <1>1, EndTold, Zenon
<1> DEFINE ok == faults' = faults
<1>3. ok \in BOOLEAN /\ Reply(Head(mailbox[l]).from, ok)
  BY <1>1, Zenon
<1> HIDE DEF ok
<1>4. CallsKept /\ Opens /\ Answers(l, "release", ok)
  BY <1>1, <1>3, Replied, Zenon
<1>5. Sent
  BY <1>1, TakenSent, Zenon
<1>6. Refused'
  <2> SUFFICES ASSUME faults' = 0, NEW d \in Calls, call'[d].op = "acquire", call'[d].pc = "replied"
               PROVE  call'[d].out = "ok"
    BY Zenon DEF Refused
  <2>1. call'[d] = call[d]
    BY <1>4, Zenon DEF Answers
  <2> QED
    BY <1>2, <2>1, Zenon DEF JInv, Refused
<1>7. Releases
  <2> SUFFICES ASSUME NEW d \in Calls, call'[d].op = "release", call'[d].out = "ok", faults' = 0
               PROVE  \/ call[d].op = "release" /\ call[d].out = "ok"
                      \/ row'[call'[d].lease] \in Terminal
    BY Zenon DEF Releases
  <2>1. CASE call'[d] = call[d]
    BY <2>1, Zenon
  <2>2. CASE call'[d] # call[d]
    <3>1. call'[d].lease = l /\ call[d].pc # "new" /\ call[d].op = "release" /\ call[d].lease = l
      BY <1>4, <2>2, Zenon DEF Answers
    <3>2. row[l] # "none"
      BY <3>1, Zenon DEF JInv, Booked
    <3> QED
      BY <1>2, <3>1, <3>2, Zenon
  <2> QED
    BY <2>1, <2>2, Zenon
<1>8. Starts /\ ExecTypes'
  BY <1>1, Zenon DEF Starts, JInv, ExecTypes
<1> QED
  BY <1>2, <1>4, <1>5, <1>6, <1>7, <1>8, Told, Zenon

\* Handlers that answer no call.
LEMMA SilentTold ==
  ASSUME JInv, UNCHANGED <<call, execRow>>, Sent, RowsKept, Live', Stays,
         faults' \in Nat, faults' = 0 => faults = 0
  PROVE  JInv'
<1>1. CallsKept /\ Releases /\ Starts /\ ExecTypes'
  BY Zenon DEF CallsKept, Releases, Starts, JInv, ExecTypes
<1>2. Opens /\ Refused'
  BY Zenon DEF Opens, Refused, JInv, Booked
<1> QED
  BY <1>1, <1>2, Told, Zenon

\* The ticker ends a lease.
LEMMA ExpireTold ==
  ASSUME IInv, JInv, NEW l \in Leases, Expire(l)
  PROVE  JInv'
<1>1. EndLease(l, "expired") /\ "expired" \in Terminal /\ UNCHANGED <<call, execRow, mailbox>>
  BY Zenon DEF Expire, Terminal, execs
<1>2. RowsKept /\ Live' /\ Stays /\ faults' \in Nat /\ (faults' = 0 => faults = 0)
  BY <1>1, EndTold, Zenon
<1>3. Sent
  BY <1>1, Zenon DEF Sent, InMail
<1> QED
  BY <1>1, <1>2, <1>3, SilentTold, Zenon

\* handleBootComplete makes the row ready or ends the lease.
LEMMA BootHandledTold ==
  ASSUME IInv, JInv, NEW l \in Leases, HandleBootComplete(l)
  PROVE  JInv'
<1>1. Takes(l, "boot") /\ UNCHANGED <<execRow, call>>
  BY Zenon DEF HandleBootComplete, execs
<1>2. Sent /\ Running(l)
  BY <1>1, TakenSent, Zenon DEF Takes
<1>3. actor[l] \in ActorRows
  BY Zenon DEF IInv, Types
<1> DEFINE a == [actor[l] EXCEPT !.run = "stopped", !.state = "crashed", !.known = FALSE]
           b == [actor[l] EXCEPT !.runtime = TRUE, !.state = "ready"]
<1>4. /\ a.run = "stopped" /\ "crashed" \in Terminal
      /\ b.run = actor[l].run /\ b.active = actor[l].active /\ b.known = actor[l].known
  BY <1>3, ZenonT(30) DEF ActorRows, Terminal
<1>5. \/ /\ StoreWorks \/ StoreFails
         /\ actor' = [actor EXCEPT ![l] = a] /\ row' = FinishLease(l, "crashed")
      \/ /\ row[l] = "acquiring" /\ StoreWorks
         /\ actor' = [actor EXCEPT ![l] = b] /\ row' = [row EXCEPT ![l] = "ready"]
  BY Zenon DEF HandleBootComplete
<1> HIDE DEF a, b
<1>6. CASE /\ StoreWorks \/ StoreFails
           /\ actor' = [actor EXCEPT ![l] = a] /\ row' = FinishLease(l, "crashed")
  <2>1. RowsKept /\ Live' /\ Stays /\ faults' \in Nat /\ (faults' = 0 => faults = 0)
    BY <1>4, <1>6, StopTold, Zenon
  <2> QED
    BY <1>1, <1>2, <2>1, SilentTold, Zenon
<1>7. CASE /\ row[l] = "acquiring" /\ StoreWorks
           /\ actor' = [actor EXCEPT ![l] = b] /\ row' = [row EXCEPT ![l] = "ready"]
  <2>1. actor'[l] = b /\ \A m \in Leases : m # l => actor'[m] = actor[m]
    BY <1>7, Zenon DEF IInv, Types
  <2>2. row'[l] = "ready" /\ \A m \in Leases : m # l => row'[m] = row[m]
    BY <1>7, Zenon DEF IInv, Types
  <2>3. faults' = faults /\ faults \in Nat
    BY <1>7, Zenon DEF StoreWorks, JInv
  <2>4. RowsKept
    BY <1>7, <2>2, Zenon DEF RowsKept, Terminal
  <2>5. \A m \in Leases : /\ actor'[m].run = actor[m].run /\ actor'[m].active = actor[m].active
                          /\ actor'[m].known = actor[m].known
    BY <1>4, <2>1, Zenon
  <2>6. Live'
    <3> SUFFICES ASSUME faults = 0, NEW m \in Leases
                 PROVE  /\ actor'[m].run = "running" => actor'[m].known
                        /\ row'[m] \in {"acquiring", "ready"} => actor'[m].run = "running"
      BY <2>3, Zenon DEF Live, Running
    <3>1. /\ actor[m].run = "running" => actor[m].known
          /\ row[m] \in {"acquiring", "ready"} => actor[m].run = "running"
      BY Zenon DEF JInv, Live, Running
    <3>2. m = l \/ row'[m] = row[m]
      BY <2>2, Zenon
    <3> QED
      BY <1>2, <2>5, <3>1, <3>2, Zenon DEF Running
  <2>7. Stays
    BY <2>5, Zenon DEF Stays, Running
  <2> QED
    BY <1>1, <1>2, <2>3, <2>4, <2>6, <2>7, SilentTold, ZenonT(30)
<1> QED
  BY <1>5, <1>6, <1>7, Zenon

\* handleExecDone clears the active exec when its row is finished.
LEMMA DoneHandledTold ==
  ASSUME IInv, JInv, NEW l \in Leases, HandleExecDone(l)
  PROVE  JInv'
<1> DEFINE d == Head(mailbox[l]).from
           a == [actor[l] EXCEPT !.active = IF actor[l].active = d THEN NoCall ELSE actor[l].active]
           v == IF Head(mailbox[l]).ok THEN "exited" ELSE "failed"
<1>1. /\ Takes(l, "done") /\ UNCHANGED <<row, call>> /\ actor' = [actor EXCEPT ![l] = a]
      /\ \/ StoreWorks /\ execRow' = [execRow EXCEPT ![d] = v]
         \/ StoreFails /\ UNCHANGED execRow
  BY Zenon DEF HandleExecDone, FinishExec
<1>2. v \in {"exited", "failed"}
  BY Zenon
<1> HIDE DEF v
<1>3. actor[l] \in ActorRows
  BY Zenon DEF IInv, Types
<1>4. /\ a.run = actor[l].run /\ a.known = actor[l].known
      /\ actor[l].active # d => a.active = actor[l].active
  BY <1>3, ZenonT(30) DEF ActorRows
<1> HIDE DEF a, d
<1>5. actor'[l] = a /\ \A m \in Leases : m # l => actor'[m] = actor[m]
  BY <1>1, Zenon DEF IInv, Types
<1>6. \A m \in Leases : /\ actor'[m].run = actor[m].run /\ actor'[m].known = actor[m].known
                        /\ actor[m].active # d => actor'[m].active = actor[m].active
  BY <1>4, <1>5, Zenon
<1>7. Sent
  BY <1>1, TakenSent, Zenon
<1>8. faults' \in Nat /\ (faults' = 0 => faults = 0) /\ (StoreFails => faults' # 0)
  BY <1>1, Faults, Zenon
<1>9. /\ ExecTypes'
      /\ \A e \in Calls : execRow'[e] = "running" => execRow[e] = "running"
      /\ faults' = 0 => \A e \in Calls : execRow'[e] = "running" => e # d
  BY <1>1, <1>2, <1>8, Zenon DEF JInv, ExecTypes
<1>10. CallsKept /\ RowsKept /\ Releases /\ Starts
  BY <1>1, <1>9, Zenon DEF CallsKept, RowsKept, Releases, Starts
<1>11. Opens /\ Refused'
  BY <1>1, <1>8, Zenon DEF Opens, Refused, JInv, Booked
<1>12. Live'
  BY <1>1, <1>6, <1>8, Zenon DEF Live, Running, JInv
<1>13. Stays
  BY <1>6, <1>9, Zenon DEF Stays, Running
<1> QED
  BY <1>7, <1>8, <1>9, <1>10, <1>11, <1>12, <1>13, Told, Zenon

\* handleStartExec starts an exec where none is active.
LEMMA StartHandledTold ==
  ASSUME IInv, JInv, NEW l \in Leases, HandleStartExec(l)
  PROVE  JInv'
<1> DEFINE e == Head(mailbox[l]).from
           a == [actor[l] EXCEPT !.active = e]
<1>1. /\ Takes(l, "start") /\ UNCHANGED row /\ "start" \in Ops \ {"release"}
      /\ \/ /\ StoreWorks /\ UNCHANGED <<actor, execRow>> /\ Reply(Head(mailbox[l]).from, FALSE)
         \/ /\ IdleLease(l) /\ actor' = [actor EXCEPT ![l] = a]
            /\ \/ StoreWorks /\ execRow' = [execRow EXCEPT ![e] = "running"]
                    /\ Reply(Head(mailbox[l]).from, TRUE)
               \/ StoreFails /\ UNCHANGED execRow /\ Reply(Head(mailbox[l]).from, FALSE)
  BY Zenon DEF HandleStartExec, execs, Ops
<1>2. faults' \in Nat /\ (faults' = 0 => faults = 0) /\ (StoreFails => faults' # 0)
  BY <1>1, Faults, Zenon
<1>3. RowsKept
  BY <1>1, Zenon DEF RowsKept
<1>4. CASE StoreWorks /\ UNCHANGED <<actor, execRow>> /\ Reply(Head(mailbox[l]).from, FALSE)
  <2>1. ExecTypes' /\ Starts /\ Stays
    BY <1>1, <1>4, Zenon DEF JInv, ExecTypes, Starts, Stays, Running
  <2>2. Live'
    BY <1>1, <1>2, <1>4, Zenon DEF JInv, Live, Running
  <2> QED
    BY <1>1, <1>2, <1>3, <1>4, <2>1, <2>2, HandlerTold, Zenon
<1>5. CASE /\ IdleLease(l) /\ actor' = [actor EXCEPT ![l] = a]
           /\ \/ StoreWorks /\ execRow' = [execRow EXCEPT ![e] = "running"]
                   /\ Reply(Head(mailbox[l]).from, TRUE)
              \/ StoreFails /\ UNCHANGED execRow /\ Reply(Head(mailbox[l]).from, FALSE)
  <2>1. /\ Running(l) /\ 1 \in 1 .. Len(mailbox[l]) /\ Head(mailbox[l]) = mailbox[l][1]
        /\ Head(mailbox[l]).op = "start" /\ Message(l, Head(mailbox[l]), executing, call)
    BY <1>1, Taken, Zenon
  <2>2. e \in Calls /\ Head(mailbox[l]) \in InMail(l) /\ Head(mailbox[l]).op \in Ops
    BY <2>1, Zenon DEF Message, OfExec, InMail, Ops
  <2>3. call[e].op = "start" /\ call[e].lease = l /\ call[e].pc \notin {"new", "found"}
    BY <2>1, <2>2, Zenon DEF JInv, Addressed
  <2>4. actor[l] \in ActorRows /\ actor[l].active = NoCall
    BY <1>5, Zenon DEF IInv, Types, IdleLease
  <2>5. a.run = actor[l].run /\ a.known = actor[l].known /\ a.active = e
    BY <2>4, ZenonT(30) DEF ActorRows
  <2>6. \E ok \in BOOLEAN : Reply(Head(mailbox[l]).from, ok)
    BY <1>5, Zenon
  <2>7. CallsKept
    BY <1>1, <2>6, Replied, Zenon
  <2> HIDE DEF a, e
  <2>8. actor'[l] = a /\ \A m \in Leases : m # l => actor'[m] = actor[m]
    BY <1>5, Zenon DEF IInv, Types
  <2>9. /\ ExecTypes' /\ \A f \in Calls : f # e => execRow'[f] = execRow[f]
    BY <1>5, <2>2, Zenon DEF JInv, ExecTypes
  <2>10. Starts
    <3> SUFFICES ASSUME NEW f \in Calls, execRow'[f] = "running", execRow[f] # "running"
                 PROVE  /\ call'[f].pc \notin {"new", "found"} /\ call'[f].op = "start"
                        /\ actor'[call'[f].lease].run = "running" /\ actor'[call'[f].lease].active = f
      BY Zenon DEF Starts
    <3>1. f = e
      BY <2>9, Zenon
    <3>2. call'[e].pc \notin {"new", "found"} /\ call'[e].op = "start" /\ call'[e].lease = l
      BY <2>2, <2>3, <2>7, Zenon DEF CallsKept
    <3> QED
      BY <2>1, <2>5, <2>8, <3>1, <3>2, ZenonT(30) DEF Running
  <2>11. Live'
    <3>1. \A m \in Leases : actor'[m].run = actor[m].run /\ actor'[m].known = actor[m].known
      BY <2>5, <2>8, Zenon
    <3> QED
      BY <1>1, <1>2, <3>1, Zenon DEF JInv, Live, Running
  <2>12. Stays
    <3> SUFFICES ASSUME NEW f \in Calls, NEW m \in Leases, Running(m), actor[m].active = f
                 PROVE  actor'[m].run = "running" /\ actor'[m].active = f
      BY Zenon DEF Stays
    <3>1. m # l
      BY <2>4, LeasesAssumption, Zenon
    <3> QED
      BY <2>8, <3>1, Zenon DEF Running
  <2> QED
    BY <1>1, <1>2, <1>3, <2>6, <2>9, <2>10, <2>11, <2>12, HandlerTold, ZenonT(30)
<1> QED
  BY <1>1, <1>4, <1>5, Zenon

\* Every handler of an actor.
LEMMA ActorsTold ==
  ASSUME IInv, JInv, NEW l \in Leases, ActorStep(l)
  PROVE  JInv'
BY AcquireHandledTold, BootHandledTold, AnswersTold, ReleaseHandledTold, StartHandledTold,
   DoneHandledTold, ExpireTold, Zenon DEF ActorStep

\* A restart ends every live row and answers no release.
LEMMA RestartTold ==
  ASSUME IInv, JInv, Restart
  PROVE  JInv'
<1>1. /\ row' = MarkUnowned /\ mailbox' = [l \in Leases |-> <<>>] /\ UNCHANGED <<execRow, faults>>
      /\ actor' = [l \in Leases |-> IF actor[l].run = "none" THEN actor[l]
                                    ELSE [NoActor EXCEPT !.run = "stopped"]]
      /\ call' = [c \in Calls |-> IF call[c].pc \in {"new", "done"} THEN call[c]
                                  ELSE [call[c] EXCEPT !.pc = "done", !.out = "err"]]
  BY ZenonT(30) DEF Restart
<1>2. \A l \in Leases : /\ row[l] # "none" => row'[l] \in Terminal
                        /\ row[l] \in Terminal => row'[l] = row[l]
                        /\ row'[l] \notin {"acquiring", "ready"}
  <2> SUFFICES ASSUME NEW l \in Leases
               PROVE  /\ row[l] # "none" => row'[l] \in Terminal
                      /\ row[l] \in Terminal => row'[l] = row[l]
                      /\ row'[l] \notin {"acquiring", "ready"}
    BY Zenon
  <2>1. row[l] \in RowStates
    BY Zenon DEF IInv, Types
  <2>2. row'[l] = IF row[l] \in {"acquiring", "ready"} THEN "crashed" ELSE row[l]
    BY <1>1, Zenon DEF MarkUnowned
  <2> QED
    BY <2>1, <2>2, ZenonT(30) DEF RowStates, Terminal
<1>3. \A l \in Leases : actor'[l].run # "running"
  <2>1. [NoActor EXCEPT !.run = "stopped"].run = "stopped"
    BY Zenon DEF NoActor
  <2> QED
    BY <1>1, <2>1, Zenon
<1>4. ASSUME NEW c \in Calls
      PROVE  /\ call'[c].op = call[c].op /\ call'[c].lease = call[c].lease
             /\ call'[c].pc \in {"new", "done"} /\ (call'[c].pc = "new" <=> call[c].pc = "new")
             /\ call'[c].out = "ok" => call[c].out = "ok"
  <2>1. call[c] \in CallRows
    BY Zenon DEF IInv, Types
  <2> DEFINE r == [call[c] EXCEPT !.pc = "done", !.out = "err"]
  <2>2. r.op = call[c].op /\ r.lease = call[c].lease /\ r.pc = "done" /\ r.out = "err"
    BY <2>1, ZenonT(30) DEF CallRows
  <2>3. call'[c] = IF call[c].pc \in {"new", "done"} THEN call[c] ELSE r
    BY <1>1, Zenon
  <2> HIDE DEF r
  <2>4. CASE call[c].pc \in {"new", "done"}
    BY <2>3, <2>4, Zenon
  <2>5. CASE call[c].pc \notin {"new", "done"}
    BY <2>2, <2>3, <2>5, Zenon
  <2> QED
    BY <2>4, <2>5, Zenon
<1>5. CallsKept
  BY <1>4, Zenon DEF CallsKept
<1>6. RowsKept
  BY <1>2, Zenon DEF RowsKept, Terminal
<1>7. Opens
  BY <1>4, Zenon DEF Opens, JInv, Booked
<1>8. Sent
  <2>1. \A l \in Leases : mailbox'[l] = <<>>
    BY <1>1, Zenon
  <2>2. \A l \in Leases : Len(mailbox'[l]) = 0
    BY ONLY <2>1
  <2>3. \A l \in Leases : InMail(l)' = {}
    BY ONLY <2>2 DEF InMail
  <2> QED
    BY <2>3, Zenon DEF Sent
<1>9. Live' /\ Refused' /\ Stays
  BY <1>2, <1>3, <1>4, Zenon DEF Live, Refused, Stays, Running
<1>10. Releases /\ Starts /\ ExecTypes' /\ faults' \in Nat /\ (faults' = 0 => faults = 0)
  BY <1>1, <1>4, Zenon DEF Releases, Starts, JInv, ExecTypes
<1> QED
  BY <1>5, <1>6, <1>7, <1>8, <1>9, <1>10, Told, Zenon

\* Every step keeps what callers are told.
LEMMA NextTold ==
  ASSUME IInv, JInv, [Next]_vars
  PROVE  JInv'
BY CallsTold, ActorsTold, OthersMove, RestartTold, Zenon DEF Next

\* The second invariant holds from the start.
THEOREM Telling == Spec => []JInv
<1>1. Init => JInv
  <2> SUFFICES ASSUME Init PROVE JInv
    BY Zenon
  <2> USE DEF Init
  <2>1. /\ NewCall.pc = "new" /\ NewCall.op = "none" /\ NoActor.run = "none"
    BY Zenon DEF NewCall, NoActor
  <2>2. Booked /\ Refused /\ Begun /\ ReleaseIsFinal /\ RunningExecIsOwned
    BY <2>1, Zenon DEF Booked, Refused, Begun, ReleaseIsFinal, RunningExecIsOwned
  <2>3. Live /\ ExecTypes
    BY <2>1, Zenon DEF Live, ExecTypes, Running
  <2>4. Addressed
    <3>1. \A l \in Leases : Len(mailbox[l]) = 0
      BY Zenon
    <3>2. \A l \in Leases : InMail(l) = {}
      BY ONLY <3>1 DEF InMail
    <3> QED
      BY <3>2, Zenon DEF Addressed
  <2>5. faults \in Nat
    BY SMT
  <2> QED
    BY <2>2, <2>3, <2>4, <2>5, ZenonT(30) DEF JInv
<1>2. IInv /\ JInv /\ [Next]_vars => JInv'
  BY NextTold, Zenon
<1> QED
  BY <1>1, <1>2, Invariance, PTL DEF Spec

\* A release that was answered with success leaves a terminal row, whether the
\* actor did it, had already stopped or the daemon restarted in between
\* (ReleaseLease, handleRelease, markUnownedActiveLeasesCrashed).
THEOREM ReleaseTrue == Spec => []ReleaseIsFinal
<1>1. JInv => ReleaseIsFinal
  BY Zenon DEF JInv
<1> QED
  BY <1>1, Telling, PTL

\* An exec row that says running has an actor that waits for its outcome, or
\* its lease is over (handleStartExec, handleExecDone, handleRelease).
THEOREM ExecOwned == Spec => []RunningExecIsOwned
<1>1. JInv => RunningExecIsOwned
  BY Zenon DEF JInv
<1> QED
  BY <1>1, Telling, PTL

-----------------------------------------------------------------------------
(* What the host holds for a lease.  Each step of a boot has claimed what   *)
(* the steps before it claim; the result of a boot is sent once, and while  *)
(* it is in the mailbox, or the actor has the runtime, the VM is up.        *)

Up(l) == l \in disk /\ l \in proc /\ \E s \in Slots : slot[s] = [lease |-> l, pid |-> TRUE]
Bare(l) == l \notin disk /\ ~HoldsSlot(l)

\* What each step of a boot has claimed.
Claimed(l) ==
  /\ boot[l] \in {"none", "clone", "failed"} => Bare(l)
  /\ boot[l] \in {"network", "jailer", "attach", "guest", "up"} => l \in disk
  /\ boot[l] \in {"jailer", "attach", "guest", "up"} => HoldsSlot(l)
  /\ boot[l] \in {"attach", "guest", "up"} => l \in proc
  /\ boot[l] \in {"guest", "up"} => \E s \in Slots : slot[s] = [lease |-> l, pid |-> TRUE]

\* The result of a boot is sent once, and before the actor has a runtime.
Results(l) ==
  \A i \in 1 .. Len(mailbox[l]) : mailbox[l][i].op = "boot" =>
    /\ boot[l] = "sent" /\ ~actor[l].runtime /\ row[l] # "ready"
    /\ mailbox[l][i].ok => Up(l)
    /\ \A k \in 1 .. Len(mailbox[l]) : mailbox[l][k].op = "boot" => i = k

\* A runtime belongs to a running actor, and the VM behind it is up.
Runtimes(l) ==
  /\ actor[l].runtime => Running(l) /\ boot[l] = "sent" /\ Up(l)
  /\ row[l] = "ready" => boot[l] = "sent" /\ (faults = 0 => actor[l].runtime)

\* Disks and slots belong to a boot at work, a result on its way or a runtime.
Accounted(l) ==
  restarts = 0 => Bare(l) \/ BootInFlight(l) \/ BootResultIn(l) \/ actor[l].runtime

Held(l) == Claimed(l) /\ Results(l) /\ Runtimes(l) /\ Accounted(l)
HInv == restarts \in Nat /\ \A l \in Leases : Held(l)

\* The messages of l are the old ones, in their order, but for commands.
NoResult(l) ==
  \E o \in {0, 1} : \A i \in 1 .. Len(mailbox'[l]) : mailbox'[l][i].op = "boot" =>
    i + o \in 1 .. Len(mailbox[l]) /\ mailbox'[l][i] = mailbox[l][i + o]

\* The slots of l stay what they are.
SlotsOf(l) == \A s \in Slots : slot[s].lease = l \/ slot'[s].lease = l => slot'[s] = slot[s]

\* What the host holds for l stays the same.
HostOf(l) == (l \in disk' <=> l \in disk) /\ (l \in proc' <=> l \in proc) /\ SlotsOf(l)

\* Faults and restarts are never taken back.
Counted == (faults' = 0 => faults = 0) /\ (restarts' = 0 => restarts = 0)

LEMMA HostSame ==
  ASSUME NEW l, HostOf(l)
  PROVE  /\ Up(l)' <=> Up(l)
         /\ Bare(l)' <=> Bare(l)
         /\ HoldsSlot(l)' <=> HoldsSlot(l)
         /\ (\E s \in Slots : slot'[s] = [lease |-> l, pid |-> TRUE])
              <=> \E s \in Slots : slot[s] = [lease |-> l, pid |-> TRUE]
<1>1. HoldsSlot(l)' <=> HoldsSlot(l)
  BY Zenon DEF HoldsSlot, HostOf, SlotsOf
<1>2. [lease |-> l, pid |-> TRUE].lease = l
  BY Zenon
<1>3. (\E s \in Slots : slot'[s] = [lease |-> l, pid |-> TRUE])
        <=> \E s \in Slots : slot[s] = [lease |-> l, pid |-> TRUE]
  BY <1>2, Zenon DEF HostOf, SlotsOf
<1> QED
  BY <1>1, <1>3, Zenon DEF Up, Bare, HostOf

\* What the results in a mailbox say after a step that sends none.
LEMMA ResultsKept ==
  ASSUME IInv, NEW l \in Leases, Results(l), NoResult(l), boot[l] = "sent" => boot'[l] = "sent",
         \A i \in 1 .. Len(mailbox[l]) : mailbox[l][i].op = "boot" =>
           ~actor'[l].runtime /\ row'[l] # "ready" /\ (mailbox[l][i].ok => Up(l)')
  PROVE  Results(l)'
<1>1. PICK o \in {0, 1} : \A i \in 1 .. Len(mailbox'[l]) : mailbox'[l][i].op = "boot" =>
                            i + o \in 1 .. Len(mailbox[l]) /\ mailbox'[l][i] = mailbox[l][i + o]
  BY Zenon DEF NoResult
<1> SUFFICES ASSUME NEW i \in 1 .. Len(mailbox'[l]), mailbox'[l][i].op = "boot"
             PROVE  /\ boot'[l] = "sent" /\ ~actor'[l].runtime /\ row'[l] # "ready"
                    /\ mailbox'[l][i].ok => Up(l)'
                    /\ \A k \in 1 .. Len(mailbox'[l]) : mailbox'[l][k].op = "boot" => i = k
  BY Zenon DEF Results
<1>2. i + o \in 1 .. Len(mailbox[l]) /\ mailbox'[l][i] = mailbox[l][i + o]
  BY <1>1, Zenon
<1>3. \A k \in 1 .. Len(mailbox'[l]) : mailbox'[l][k].op = "boot" => i + o = k + o
  BY <1>1, <1>2, Zenon DEF Results
<1>4. \A k \in 1 .. Len(mailbox'[l]) : i + o = k + o => i = k
  OBVIOUS
<1>5. boot[l] = "sent"
  BY <1>2, Zenon DEF Results
<1> QED
  BY <1>2, <1>3, <1>4, <1>5, Zenon

\* A lease a step leaves alone.
LEMMA Unmoved ==
  ASSUME IInv, NEW l \in Leases, Held(l), Counted, NoResult(l), BootResultIn(l) => BootResultIn(l)',
         HostOf(l), boot'[l] = boot[l], row'[l] = "ready" => row[l] = "ready",
         actor'[l].runtime <=> actor[l].runtime, actor[l].runtime => actor'[l].run = "running"
  PROVE  Held(l)'
<1>1. /\ Up(l)' <=> Up(l)
      /\ Bare(l)' <=> Bare(l)
      /\ HoldsSlot(l)' <=> HoldsSlot(l)
      /\ (\E s \in Slots : slot'[s] = [lease |-> l, pid |-> TRUE])
           <=> \E s \in Slots : slot[s] = [lease |-> l, pid |-> TRUE]
  BY HostSame, Zenon
<1>2. Claimed(l)'
  BY <1>1, Zenon DEF Held, Claimed, HostOf
<1>3. Results(l)'
  BY <1>1, ResultsKept, Zenon DEF Held, Results
<1>4. Runtimes(l)'
  BY <1>1, Zenon DEF Held, Runtimes, Counted, Running
<1>5. Accounted(l)'
  BY <1>1, Zenon DEF Held, Accounted, Counted, BootInFlight
<1> QED
  BY <1>2, <1>3, <1>4, <1>5, Zenon DEF Held

-----------------------------------------------------------------------------
\* A mailbox that is left alone, loses a message or receives a command.
LEMMA MailStays ==
  ASSUME IInv, NEW l \in Leases, mailbox'[l] = mailbox[l]
  PROVE  NoResult(l) /\ (BootResultIn(l) => BootResultIn(l)')
<1>1. mailbox[l] \in Seq(Commands)
  BY Zenon DEF IInv, Types
<1>2. \A i \in 1 .. Len(mailbox'[l]) : i + 0 \in 1 .. Len(mailbox[l]) /\ mailbox'[l][i] = mailbox[l][i + 0]
  BY ONLY <1>1, mailbox'[l] = mailbox[l], SMTT(30)
<1>3. NoResult(l)
  BY <1>2, Zenon DEF NoResult
<1> QED
  BY <1>3, Zenon DEF BootResultIn

LEMMA MailLost ==
  ASSUME IInv, NEW l \in Leases, mailbox[l] # <<>>, mailbox'[l] = Tail(mailbox[l])
  PROVE  /\ NoResult(l)
         /\ mailbox[l][1].op # "boot" => (BootResultIn(l) => BootResultIn(l)')
<1>1. mailbox[l] \in Seq(Commands)
  BY Zenon DEF IInv, Types
<1>2. \A i \in 1 .. Len(mailbox'[l]) : i + 1 \in 1 .. Len(mailbox[l]) /\ mailbox'[l][i] = mailbox[l][i + 1]
  BY ONLY <1>1, mailbox[l] # <<>>, mailbox'[l] = Tail(mailbox[l]), SMTT(30)
<1>3. NoResult(l)
  BY <1>2, Zenon DEF NoResult
<1>4. \A i \in 1 .. Len(mailbox[l]) : i # 1 =>
        i - 1 \in 1 .. Len(mailbox'[l]) /\ mailbox'[l][i - 1] = mailbox[l][i]
  <2>1. Len(mailbox'[l]) = Len(mailbox[l]) - 1 /\ Len(mailbox[l]) \in Nat
    BY ONLY <1>1, mailbox[l] # <<>>, mailbox'[l] = Tail(mailbox[l])
  <2>2. \A i \in 1 .. Len(mailbox[l]) : i # 1 => i - 1 \in 1 .. Len(mailbox'[l]) /\ (i - 1) + 1 = i
    BY ONLY <2>1
  <2> QED
    BY ONLY <1>2, <2>2, Zenon
<1> QED
  BY <1>3, <1>4, ZenonT(30) DEF BootResultIn

LEMMA MailGained ==
  ASSUME IInv, NEW l \in Leases, NEW x \in Commands, mailbox'[l] = Append(mailbox[l], x)
  PROVE  /\ x.op # "boot" => NoResult(l)
         /\ BootResultIn(l) => BootResultIn(l)'
         /\ x.op = "boot" /\ x.ok => BootResultIn(l)'
         /\ \A i \in 1 .. Len(mailbox'[l]) : \/ mailbox'[l][i] = x /\ i = Len(mailbox[l]) + 1
                                             \/ i \in 1 .. Len(mailbox[l]) /\ mailbox'[l][i] = mailbox[l][i]
<1>1. mailbox[l] \in Seq(Commands)
  BY Zenon DEF IInv, Types
<1>0. Len(mailbox'[l]) = Len(mailbox[l]) + 1 /\ Len(mailbox[l]) \in Nat
  BY ONLY <1>1, x \in Commands, mailbox'[l] = Append(mailbox[l], x)
<1>3. \A i \in 1 .. Len(mailbox[l]) : i \in 1 .. Len(mailbox'[l]) /\ mailbox'[l][i] = mailbox[l][i]
  BY ONLY <1>1, x \in Commands, mailbox'[l] = Append(mailbox[l], x), SMTT(30)
<1>4. Len(mailbox[l]) + 1 \in 1 .. Len(mailbox'[l]) /\ mailbox'[l][Len(mailbox[l]) + 1] = x
  BY ONLY <1>1, x \in Commands, mailbox'[l] = Append(mailbox[l], x)
<1>2. \A i \in 1 .. Len(mailbox'[l]) : \/ mailbox'[l][i] = x /\ i = Len(mailbox[l]) + 1
                                       \/ i \in 1 .. Len(mailbox[l]) /\ mailbox'[l][i] = mailbox[l][i]
  <2>1. \A i \in 1 .. Len(mailbox'[l]) : i = Len(mailbox[l]) + 1 \/ i \in 1 .. Len(mailbox[l])
    BY ONLY <1>0
  <2> QED
    BY ONLY <1>3, <1>4, <2>1, Zenon
<1>5. \A i \in 1 .. Len(mailbox[l]) : i + 0 = i
  BY ONLY <1>1
<1>6. ASSUME x.op # "boot" PROVE NoResult(l)
  <2>1. \A i \in 1 .. Len(mailbox'[l]) : mailbox'[l][i].op = "boot" =>
          i + 0 \in 1 .. Len(mailbox[l]) /\ mailbox'[l][i] = mailbox[l][i + 0]
    BY <1>2, <1>5, <1>6, Zenon
  <2> QED
    BY <2>1, Zenon DEF NoResult
<1>7. BootResultIn(l) => BootResultIn(l)'
  BY <1>3, Zenon DEF BootResultIn
<1>8. x.op = "boot" /\ x.ok => BootResultIn(l)'
  BY <1>4, Zenon DEF BootResultIn
<1> QED
  BY <1>2, <1>6, <1>7, <1>8, ZenonT(30)

\* The mailbox of l after a step that sends no result and takes none.
LEMMA MailKeeps ==
  ASSUME IInv, NEW l \in Leases,
         \/ mailbox'[l] = mailbox[l]
         \/ mailbox[l] # <<>> /\ mailbox'[l] = Tail(mailbox[l]) /\ mailbox[l][1].op # "boot"
         \/ \E x \in Commands : x.op # "boot" /\ mailbox'[l] = Append(mailbox[l], x)
  PROVE  NoResult(l) /\ (BootResultIn(l) => BootResultIn(l)')
BY MailStays, MailLost, MailGained, Zenon

\* What Cleanup leaves.
LEMMA CleanedUp ==
  ASSUME IInv, NEW l \in Leases, Cleanup(l)
  PROVE  Bare(l)' /\ \A m \in Leases : m # l => HostOf(m)
<1>1. /\ disk' = disk \ {l} /\ proc' = proc \ {l}
      /\ \A s \in Slots : slot'[s] = IF slot[s].lease = l THEN FreeSlot ELSE slot[s]
  BY Zenon DEF Cleanup, FreeSlotOf
<1>2. FreeSlot.lease = NoLease /\ NoLease \notin Leases
  BY LeasesAssumption, Zenon DEF FreeSlot
<1>3. Bare(l)'
  BY <1>1, <1>2, Zenon DEF Bare, HoldsSlot
<1>4. \A m \in Leases : m # l => HostOf(m)
  BY <1>1, <1>2, Zenon DEF HostOf, SlotsOf
<1> QED
  BY <1>3, <1>4, Zenon

LEMMA HostLeft ==
  ASSUME UNCHANGED <<disk, slot, proc>>
  PROVE  \A m \in Leases : HostOf(m)
BY Zenon DEF HostOf, SlotsOf

\* Steps that leave boots and the host alone, and that answer or send commands.
LEMMA HostQuiet ==
  ASSUME IInv, HInv, Counted, restarts' \in Nat, UNCHANGED <<disk, slot, proc, boot>>,
         \A m \in Leases :
           /\ \/ mailbox'[m] = mailbox[m]
              \/ mailbox[m] # <<>> /\ mailbox'[m] = Tail(mailbox[m]) /\ mailbox[m][1].op # "boot"
              \/ \E x \in Commands : x.op # "boot" /\ mailbox'[m] = Append(mailbox[m], x)
           /\ row'[m] = "ready" => row[m] = "ready"
           /\ actor'[m].runtime <=> actor[m].runtime
           /\ actor[m].runtime => actor'[m].run = "running"
  PROVE  HInv'
<1> SUFFICES ASSUME NEW m \in Leases PROVE Held(m)'
  BY Zenon DEF HInv
<1>1. NoResult(m) /\ (BootResultIn(m) => BootResultIn(m)')
  BY MailKeeps, Zenon
<1>2. HostOf(m) /\ boot'[m] = boot[m]
  BY HostLeft, Zenon
<1>3. Held(m)
  BY Zenon DEF HInv
<1> QED
  BY <1>1, <1>2, <1>3, Unmoved, ZenonT(30)

\* One mailbox receives one message.
LEMMA OneMail ==
  ASSUME IInv, NEW l \in Leases, NEW x \in Commands, x.op # "boot", Enqueue(l, x), NEW m \in Leases
  PROVE  \/ mailbox'[m] = mailbox[m]
         \/ \E y \in Commands : y.op # "boot" /\ mailbox'[m] = Append(mailbox[m], y)
<1>1. mailbox' = [mailbox EXCEPT ![l] = Append(@, x)] /\ mailbox \in [Leases -> Seq(Commands)]
  BY Zenon DEF Enqueue, IInv, Types
<1>2. m # l => mailbox'[m] = mailbox[m]
  BY <1>1, Zenon
<1>3. m = l => mailbox'[m] = Append(mailbox[m], x)
  BY <1>1, Zenon
<1> QED
  BY <1>2, <1>3, Zenon

\* Steps of a call.
LEMMA CallsHold ==
  ASSUME IInv, HInv, NEW c \in Calls, CallStep(c)
  PROVE  HInv'
<1>1. UNCHANGED <<row, disk, slot, proc, boot, faults, restarts>>
  BY ZenonT(60) DEF CallStep, AcquireLease, AcquireAnswered, RenewLease, ReleaseLease, StartExec, StartAnswered,
     ActorCall, SendCommand, CallTimesOut, host
<1>2. Counted /\ restarts' \in Nat
  BY <1>1, Zenon DEF Counted, HInv
<1>3. \A m \in Leases : actor[m].runtime => actor[m].run = "running"
  BY Zenon DEF HInv, Held, Runtimes, Running
<1>4. CASE UNCHANGED <<actor, mailbox>>
  BY <1>1, <1>2, <1>3, <1>4, HostQuiet, ZenonT(30)
<1>5. ASSUME NEW k \in Keys, AcquireLease(c, k), ~UNCHANGED <<actor, mailbox>> PROVE HInv'
  <2> DEFINE x == Cmd("acquire", c)
             a == [run |-> "running", state |-> "acquiring", known |-> TRUE,
                   runtime |-> FALSE, active |-> NoCall]
  <2>1. PICK l \in Leases : Fresh(l) /\ actor' = [actor EXCEPT ![l] = a] /\ Enqueue(l, x)
    BY <1>5, Zenon DEF AcquireLease
  <2>2. a.runtime = FALSE /\ x \in Commands /\ x.op # "boot"
    BY Zenon DEF Commands, Cmd, Ops
  <2>3. actor[l].run = "none" /\ ~actor[l].runtime
    BY <1>3, <2>1, Zenon DEF Fresh
  <2> HIDE DEF a, x
  <2>4. actor'[l] = a /\ \A m \in Leases : m # l => actor'[m] = actor[m]
    BY <2>1, Zenon DEF IInv, Types
  <2>5. \A m \in Leases : /\ actor'[m].runtime <=> actor[m].runtime
                          /\ actor[m].runtime => actor'[m].run = "running"
    BY <1>3, <2>2, <2>3, <2>4, Zenon
  <2>6. \A m \in Leases : \/ mailbox'[m] = mailbox[m]
                          \/ \E y \in Commands : y.op # "boot" /\ mailbox'[m] = Append(mailbox[m], y)
    BY <2>1, <2>2, OneMail, Zenon
  <2> QED
    BY <1>1, <1>2, <2>5, <2>6, HostQuiet, Zenon
<1>6. ASSUME SendCommand(c), ~UNCHANGED <<actor, mailbox>> PROVE HInv'
  <2> DEFINE x == Cmd(call[c].op, c)
             l == call[c].lease
  <2>1. call[c].pc = "found" /\ UNCHANGED actor /\ Enqueue(l, x)
    BY <1>6, Zenon DEF SendCommand
  <2>2. l \in Leases /\ call[c].op \in Ops
    BY <2>1, Zenon DEF IInv, Waits
  <2>3. x \in Commands /\ x.op # "boot"
    BY <2>2, Zenon DEF Commands, Cmd, Ops
  <2> HIDE DEF x, l
  <2>4. \A m \in Leases : \/ mailbox'[m] = mailbox[m]
                          \/ \E y \in Commands : y.op # "boot" /\ mailbox'[m] = Append(mailbox[m], y)
    BY <2>1, <2>2, <2>3, OneMail, Zenon
  <2> QED
    BY <1>1, <1>2, <1>3, <2>1, <2>4, HostQuiet, ZenonT(30)
<1>7. ASSUME AcquireAnswered(c), ~UNCHANGED <<actor, mailbox>> PROVE HInv'
  <2> DEFINE l == call[c].lease
             a == [actor[l] EXCEPT !.known = FALSE]
  <2>1. call[c].pc = "replied" /\ UNCHANGED mailbox /\ actor' = [actor EXCEPT ![l] = a]
    BY <1>7, Zenon DEF AcquireAnswered
  <2>2. l \in Leases /\ actor[l] \in ActorRows
    BY <2>1, Zenon DEF IInv, Types, Waits
  <2>3. a.runtime = actor[l].runtime /\ a.run = actor[l].run
    BY <2>2, Zenon DEF ActorRows
  <2> HIDE DEF a, l
  <2>4. actor'[l] = a /\ \A m \in Leases : m # l => actor'[m] = actor[m]
    BY <2>1, <2>2, Zenon DEF IInv, Types
  <2>5. \A m \in Leases : /\ actor'[m].runtime <=> actor[m].runtime
                          /\ actor[m].runtime => actor'[m].run = "running"
    BY <1>3, <2>3, <2>4, Zenon
  <2> QED
    BY <1>1, <1>2, <2>1, <2>5, HostQuiet, Zenon
<1>8. UNCHANGED <<actor, mailbox>> \/ SendCommand(c) \/ AcquireAnswered(c) \/ \E k \in Keys : AcquireLease(c, k)
  BY ZenonT(30) DEF CallStep, RenewLease, ReleaseLease, StartExec, StartAnswered, ActorCall, CallTimesOut
<1> QED
  BY <1>4, <1>5, <1>6, <1>7, <1>8, Zenon

\* Execs that return, time, shutdown.
LEMMA OthersHold ==
  ASSUME IInv, HInv,
         \/ \E l \in Leases : Close(l)
         \/ \E e \in Calls, ok \in BOOLEAN : ExecReturns(e, ok)
         \/ Tick \/ StartDrain \/ UNCHANGED vars
  PROVE  HInv'
<1>1. UNCHANGED <<row, actor, disk, slot, proc, boot, faults, restarts>>
  BY ZenonT(30) DEF Close, ExecReturns, Tick, StartDrain, vars, host
<1>2. Counted /\ restarts' \in Nat
  BY <1>1, Zenon DEF Counted, HInv
<1>3. \A m \in Leases : /\ actor'[m].runtime <=> actor[m].runtime
                        /\ actor[m].runtime => actor'[m].run = "running"
  BY <1>1, Zenon DEF HInv, Held, Runtimes, Running
<1>4. CASE UNCHANGED mailbox
  BY <1>1, <1>2, <1>3, <1>4, HostQuiet, ZenonT(30)
<1>5. ASSUME NEW l \in Leases, Close(l) PROVE HInv'
  <2> DEFINE x == Cmd("release", NoCall)
  <2>1. Enqueue(l, x) /\ x \in Commands /\ x.op # "boot"
    BY <1>5, Zenon DEF Close, Commands, Cmd, Ops
  <2> HIDE DEF x
  <2>2. \A m \in Leases : \/ mailbox'[m] = mailbox[m]
                          \/ \E y \in Commands : y.op # "boot" /\ mailbox'[m] = Append(mailbox[m], y)
    BY <1>5, <2>1, OneMail, Zenon
  <2> QED
    BY <1>1, <1>2, <1>3, <2>2, HostQuiet, Zenon
<1>6. ASSUME NEW e \in Calls, NEW ok \in BOOLEAN, ExecReturns(e, ok), ~UNCHANGED mailbox PROVE HInv'
  <2> DEFINE x == [op |-> "done", from |-> e, ok |-> ok]
             l == call[e].lease
  <2>1. e \in executing /\ Enqueue(l, x)
    BY <1>6, Zenon DEF ExecReturns
  <2>2. l \in Leases /\ x \in Commands /\ x.op # "boot"
    BY <2>1, Zenon DEF Commands, IInv, Owned
  <2> HIDE DEF x, l
  <2>3. \A m \in Leases : \/ mailbox'[m] = mailbox[m]
                          \/ \E y \in Commands : y.op # "boot" /\ mailbox'[m] = Append(mailbox[m], y)
    BY <2>1, <2>2, OneMail, Zenon
  <2> QED
    BY <1>1, <1>2, <1>3, <2>3, HostQuiet, Zenon
<1>7. ASSUME Tick \/ StartDrain \/ UNCHANGED vars PROVE HInv'
  BY <1>4, <1>7, Zenon DEF Tick, StartDrain, vars
<1> QED
  BY <1>4, <1>5, <1>6, <1>7, Zenon

\* A boot at work has sent nothing, and its lease is not ready.
LEMMA AtWork ==
  ASSUME IInv, NEW l \in Leases, Held(l), boot[l] # "sent"
  PROVE  /\ ~actor[l].runtime /\ row[l] # "ready"
         /\ \A i \in 1 .. Len(mailbox[l]) : mailbox[l][i].op # "boot"
BY Zenon DEF Held, Results, Runtimes

\* A boot of l that goes on to a step in flight, with what that step has claimed.
LEMMA BootHolds ==
  ASSUME IInv, HInv, NEW l \in Leases, NEW to \in BootSteps \ {"none", "sent"}, boot[l] # "sent",
         boot' = [boot EXCEPT ![l] = to], NoResult(l), row'[l] # "ready",
         UNCHANGED <<actor, faults, restarts>>,
         \A m \in Leases : m # l => /\ HostOf(m) /\ row'[m] = row[m] /\ mailbox'[m] = mailbox[m],
         Claimed(l)'
  PROVE  HInv'
<1>1. boot'[l] = to /\ \A m \in Leases : m # l => boot'[m] = boot[m]
  BY Zenon DEF IInv, Types
<1>2. Counted /\ restarts' \in Nat
  BY Zenon DEF Counted, HInv
<1>3. \A m \in Leases : Held(m)
  BY Zenon DEF HInv
<1>4. ASSUME NEW m \in Leases, m # l PROVE Held(m)'
  <2>1. NoResult(m) /\ (BootResultIn(m) => BootResultIn(m)')
    BY <1>4, MailStays, Zenon
  <2>2. actor[m].runtime => actor'[m].run = "running"
    BY <1>3, Zenon DEF Held, Runtimes, Running
  <2>3. boot'[m] = boot[m] /\ HostOf(m) /\ row'[m] = row[m]
    BY <1>1, <1>4, Zenon
  <2> QED
    BY <1>2, <1>3, <2>1, <2>2, <2>3, Unmoved, ZenonT(30)
<1>5. Held(l)'
  <2>1. ~actor[l].runtime /\ \A i \in 1 .. Len(mailbox[l]) : mailbox[l][i].op # "boot"
    BY <1>3, AtWork, Zenon
  <2>2. Results(l)'
    BY <1>3, <2>1, ResultsKept, Zenon DEF Held
  <2>3. Runtimes(l)'
    BY <2>1, Zenon DEF Runtimes
  <2>4. Accounted(l)'
    BY <1>1, Zenon DEF Accounted, BootInFlight
  <2> QED
    BY <2>2, <2>3, <2>4, Zenon DEF Held
<1> QED
  BY <1>2, <1>4, <1>5, Zenon DEF HInv

\* The steps of a boot, the send of its result apart.
LEMMA BootsHold ==
  ASSUME IInv, HInv, NEW l \in Leases,
         BootFails(l) \/ BootClone(l) \/ BootNetwork(l) \/ BootJailer(l) \/ BootAttach(l) \/ BootGuest(l)
  PROVE  HInv'
<1>1. UNCHANGED <<row, actor, mailbox, faults, restarts>>
  BY ZenonT(30) DEF BootFails, BootClone, BootNetwork, BootJailer, BootAttach, BootGuest, BootStep
<1>2. Claimed(l) /\ Held(l)
  BY Zenon DEF HInv, Held
<1>3. NoResult(l)
  BY <1>1, MailStays, Zenon
<1>4. boot \in [Leases -> BootSteps] /\ \A to : boot' = [boot EXCEPT ![l] = to] => boot'[l] = to
  BY Zenon DEF IInv, Types
<1>5. ASSUME NEW to \in BootSteps \ {"none", "sent"}, boot[l] # "sent", boot' = [boot EXCEPT ![l] = to],
             \A m \in Leases : m # l => HostOf(m), Claimed(l)'
      PROVE  HInv'
  <2>1. row'[l] # "ready"
    BY <1>1, <1>2, <1>5, AtWork, Zenon
  <2>2. \A m \in Leases : m # l => HostOf(m) /\ row'[m] = row[m] /\ mailbox'[m] = mailbox[m]
    BY <1>1, <1>5, Zenon
  <2> QED
    BY <1>1, <1>3, <1>5, <2>1, <2>2, BootHolds, ZenonT(30)
<1>6. CASE BootFails(l)
  <2>1. /\ boot[l] # "sent" /\ boot' = [boot EXCEPT ![l] = "failed"] /\ disk' = disk \ {l}
        /\ slot' = FreeSlotOf(l) /\ (proc' = proc \/ proc' = proc \ {l})
    BY <1>6, Zenon DEF BootFails
  <2>2. /\ \A s \in Slots : slot'[s] = IF slot[s].lease = l THEN FreeSlot ELSE slot[s]
        /\ FreeSlot.lease = NoLease /\ NoLease \notin Leases
    BY <2>1, LeasesAssumption, Zenon DEF FreeSlotOf, FreeSlot
  <2>3. Bare(l)' /\ \A m \in Leases : m # l => HostOf(m)
    <3>1. Bare(l)'
      BY <2>1, <2>2, Zenon DEF Bare, HoldsSlot
    <3>2. \A m \in Leases : m # l => HostOf(m)
      BY <2>1, <2>2, Zenon DEF HostOf, SlotsOf
    <3> QED
      BY <3>1, <3>2, Zenon
  <2>4. boot'[l] = "failed"
    BY <1>4, <2>1, Zenon
  <2>5. Claimed(l)'
    BY <2>3, <2>4, Zenon DEF Claimed
  <2> QED
    BY <1>5, <2>1, <2>3, <2>5, Zenon DEF BootSteps
<1>7. CASE BootClone(l)
  <2>1. boot[l] = "clone" /\ boot' = [boot EXCEPT ![l] = "network"] /\ disk' = disk \cup {l} /\ UNCHANGED <<slot, proc>>
    BY <1>7, Zenon DEF BootClone, BootStep
  <2>2. boot'[l] = "network"
    BY <1>4, <2>1, Zenon
  <2>3. Claimed(l)' /\ \A m \in Leases : m # l => HostOf(m)
    BY <2>1, <2>2, Zenon DEF Claimed, HostOf, SlotsOf
  <2> QED
    BY <1>5, <2>1, <2>3, Zenon DEF BootSteps
<1>8. CASE BootNetwork(l)
  <2>1. PICK t \in Slots : slot[t].lease = NoLease /\ slot' = [slot EXCEPT ![t] = [lease |-> l, pid |-> FALSE]]
    BY <1>8, Zenon DEF BootNetwork
  <2>2. boot[l] = "network" /\ boot' = [boot EXCEPT ![l] = "jailer"] /\ UNCHANGED <<disk, proc>>
    BY <1>8, Zenon DEF BootNetwork, BootStep
  <2>3. slot'[t].lease = l /\ \A s \in Slots : s # t => slot'[s] = slot[s]
    BY <2>1, Zenon DEF IInv, Types
  <2>4. boot'[l] = "jailer" /\ l \in disk' /\ HoldsSlot(l)'
    BY <1>2, <1>4, <2>2, <2>3, Zenon DEF Claimed, HoldsSlot
  <2>5. Claimed(l)'
    BY <2>4, Zenon DEF Claimed
  <2>6. \A m \in Leases : m # l => HostOf(m)
    BY <2>1, <2>2, <2>3, LeasesAssumption, Zenon DEF HostOf, SlotsOf
  <2> QED
    BY <1>5, <2>2, <2>5, <2>6, Zenon DEF BootSteps
<1>9. CASE BootJailer(l)
  <2>1. boot[l] = "jailer" /\ boot' = [boot EXCEPT ![l] = "attach"] /\ proc' = proc \cup {l} /\ UNCHANGED <<slot, disk>>
    BY <1>9, Zenon DEF BootJailer, BootStep
  <2>2. boot'[l] = "attach" /\ l \in disk' /\ HoldsSlot(l)' /\ l \in proc'
    BY <1>2, <1>4, <2>1, Zenon DEF Claimed, HoldsSlot
  <2>3. Claimed(l)' /\ \A m \in Leases : m # l => HostOf(m)
    BY <2>1, <2>2, Zenon DEF Claimed, HostOf, SlotsOf
  <2> QED
    BY <1>5, <2>1, <2>3, Zenon DEF BootSteps
<1>10. CASE BootAttach(l)
  <2>1. /\ boot[l] = "attach" /\ boot' = [boot EXCEPT ![l] = "guest"] /\ UNCHANGED <<disk, proc>>
        /\ \A s \in Slots : slot'[s] = IF slot[s].lease = l THEN [slot[s] EXCEPT !.pid = TRUE] ELSE slot[s]
    BY <1>10, Zenon DEF BootAttach, BootStep
  <2>2. PICK t \in Slots : slot[t].lease = l
    BY <1>2, <2>1, Zenon DEF Claimed, HoldsSlot
  <2>3. slot[t] \in SlotRows
    BY Zenon DEF IInv, Types
  <2>4. slot'[t] = [slot[t] EXCEPT !.pid = TRUE]
    BY <2>1, <2>2, Zenon
  <2>6. slot'[t] \in SlotRows /\ slot'[t].lease = l /\ slot'[t].pid = TRUE
    BY <2>2, <2>3, <2>4, Zenon DEF SlotRows
  <2>5. slot'[t] = [lease |-> l, pid |-> TRUE]
    <3>1. slot'[t] = [lease |-> slot'[t].lease, pid |-> slot'[t].pid]
      BY ONLY <2>6, Zenon DEF SlotRows
    <3> QED
      BY ONLY <2>6, <3>1, Zenon
  <2>7. boot'[l] = "guest" /\ l \in disk' /\ HoldsSlot(l)' /\ l \in proc'
    BY <1>2, <1>4, <2>1, <2>6, Zenon DEF Claimed, HoldsSlot
  <2>8. Claimed(l)'
    BY <2>5, <2>7, Zenon DEF Claimed
  <2>9. \A s \in Slots : slot[s].lease = l => slot'[s].lease = l
    <3> SUFFICES ASSUME NEW s \in Slots, slot[s].lease = l PROVE slot'[s].lease = l
      BY Zenon
    <3>1. slot[s] \in SlotRows /\ slot'[s] = [slot[s] EXCEPT !.pid = TRUE]
      BY <2>1, Zenon DEF IInv, Types
    <3> QED
      BY <3>1, Zenon DEF SlotRows
  <2>10. \A m \in Leases : m # l => HostOf(m)
    BY <2>1, <2>9, Zenon DEF HostOf, SlotsOf
  <2> QED
    BY <1>5, <2>1, <2>8, <2>10, Zenon DEF BootSteps
<1>11. CASE BootGuest(l)
  <2>1. boot[l] = "guest" /\ boot' = [boot EXCEPT ![l] = "up"] /\ UNCHANGED <<disk, slot, proc>>
    BY <1>11, Zenon DEF BootGuest, BootStep, host
  <2>2. boot'[l] = "up"
    BY <1>4, <2>1, Zenon
  <2>3. Claimed(l)' /\ \A m \in Leases : m # l => HostOf(m)
    BY <1>2, <2>1, <2>2, Zenon DEF Claimed, HostOf, SlotsOf, HoldsSlot
  <2> QED
    BY <1>5, <2>1, <2>3, Zenon DEF BootSteps
<1> QED
  BY <1>6, <1>7, <1>8, <1>9, <1>10, <1>11, Zenon

\* Other leases, when the host of l alone changes.
LEMMA OthersStay ==
  ASSUME IInv, HInv, Counted, NEW l \in Leases, NEW m \in Leases, m # l,
         HostOf(m), boot'[m] = boot[m], row'[m] = row[m], actor'[m] = actor[m], mailbox'[m] = mailbox[m]
  PROVE  Held(m)'
<1>1. NoResult(m) /\ (BootResultIn(m) => BootResultIn(m)')
  BY MailStays, Zenon
<1>2. Held(m)
  BY Zenon DEF HInv
<1>3. actor[m].runtime => actor'[m].run = "running"
  BY <1>2, Zenon DEF Held, Runtimes, Running
<1> QED
  BY <1>1, <1>2, <1>3, Unmoved, Zenon

\* A boot whose result is sent is up, or has left nothing.
LEMMA SendHolds ==
  ASSUME IInv, HInv, NEW l \in Leases, BootSend(l)
  PROVE  HInv'
<1> DEFINE x == [op |-> "boot", from |-> NoCall, ok |-> boot[l] = "up"]
<1>1. /\ boot[l] \in {"up", "failed"} /\ boot' = [boot EXCEPT ![l] = "sent"]
      /\ UNCHANGED <<row, actor, faults, restarts>>
      /\ \/ Enqueue(l, x) /\ UNCHANGED <<disk, slot, proc>>
         \/ UNCHANGED mailbox /\ boot[l] = "up" /\ Cleanup(l)
         \/ UNCHANGED mailbox /\ boot[l] = "failed" /\ UNCHANGED <<disk, slot, proc>>
  BY Zenon DEF BootSend, host
<1>2. boot'[l] = "sent" /\ \A m \in Leases : m # l => boot'[m] = boot[m]
  BY <1>1, Zenon DEF IInv, Types
<1>3. Counted /\ restarts' \in Nat
  BY <1>1, Zenon DEF Counted, HInv
<1>4. Held(l)
  BY Zenon DEF HInv
<1>5. /\ ~actor[l].runtime /\ row[l] # "ready"
      /\ \A i \in 1 .. Len(mailbox[l]) : mailbox[l][i].op # "boot"
  BY <1>1, <1>4, AtWork, Zenon
<1>6. Claimed(l)' /\ Runtimes(l)'
  BY <1>1, <1>2, <1>5, Zenon DEF Claimed, Runtimes
<1>7. x \in Commands /\ x.op = "boot" /\ (x.ok <=> boot[l] = "up")
  BY Zenon DEF Commands
<1> HIDE DEF x
<1>8. \A m \in Leases : m # l => HostOf(m) /\ mailbox'[m] = mailbox[m]
  <2>1. \A m \in Leases : m # l => HostOf(m)
    BY <1>1, CleanedUp, HostLeft, Zenon
  <2>2. \A m \in Leases : m # l => mailbox'[m] = mailbox[m]
    BY <1>1, Zenon DEF Enqueue, IInv, Types
  <2> QED
    BY <2>1, <2>2, Zenon
<1>9. \A m \in Leases : m # l => Held(m)'
  BY <1>1, <1>2, <1>3, <1>8, OthersStay, ZenonT(30)
<1>10. CASE Enqueue(l, x) /\ UNCHANGED <<disk, slot, proc>>
  <2>1. mailbox'[l] = Append(mailbox[l], x)
    BY <1>10, Zenon DEF Enqueue, IInv, Types
  <2>2. /\ x.ok => BootResultIn(l)'
        /\ \A i \in 1 .. Len(mailbox'[l]) : \/ mailbox'[l][i] = x /\ i = Len(mailbox[l]) + 1
                                            \/ i \in 1 .. Len(mailbox[l]) /\ mailbox'[l][i] = mailbox[l][i]
    BY <1>7, <2>1, MailGained, Zenon
  <2>3. \A i \in 1 .. Len(mailbox'[l]) : mailbox'[l][i].op = "boot" =>
          mailbox'[l][i] = x /\ i = Len(mailbox[l]) + 1
    BY <1>5, <2>2, Zenon
  <2>4. HostOf(l)
    BY <1>10, HostLeft, Zenon
  <2>5. (Up(l)' <=> Up(l)) /\ (Bare(l)' <=> Bare(l))
    BY <2>4, HostSame, Zenon
  <2>6. boot[l] = "up" => Up(l)
    BY <1>4, Zenon DEF Held, Claimed, Up
  <2>7. boot[l] = "failed" => Bare(l)
    BY <1>4, Zenon DEF Held, Claimed
  <2>8. Results(l)'
    <3> SUFFICES ASSUME NEW i \in 1 .. Len(mailbox'[l]), mailbox'[l][i].op = "boot"
                 PROVE  /\ boot'[l] = "sent" /\ ~actor'[l].runtime /\ row'[l] # "ready"
                        /\ mailbox'[l][i].ok => Up(l)'
                        /\ \A k \in 1 .. Len(mailbox'[l]) : mailbox'[l][k].op = "boot" => i = k
      BY Zenon DEF Results
    <3>1. mailbox'[l][i].ok => Up(l)'
      BY <1>7, <2>3, <2>5, <2>6, Zenon
    <3>2. \A k \in 1 .. Len(mailbox'[l]) : mailbox'[l][k].op = "boot" => i = k
      BY <2>3, Zenon
    <3> QED
      BY <1>1, <1>2, <1>5, <3>1, <3>2, ZenonT(30)
  <2>9. Accounted(l)'
    BY <1>1, <1>7, <2>2, <2>5, <2>7, ZenonT(30) DEF Accounted
  <2>10. Held(l)'
    BY <1>6, <2>8, <2>9, ZenonT(30) DEF Held
  <2> QED
    BY <1>3, <1>9, <2>10, Zenon DEF HInv
<1>11. CASE /\ UNCHANGED mailbox
            /\ \/ boot[l] = "up" /\ Cleanup(l)
               \/ boot[l] = "failed" /\ UNCHANGED <<disk, slot, proc>>
  <2>1. Results(l)'
    BY <1>5, <1>11, Zenon DEF Results
  <2>2. Bare(l)'
    <3>1. CASE Cleanup(l)
      BY <3>1, CleanedUp, Zenon
    <3>2. CASE boot[l] = "failed" /\ UNCHANGED <<disk, slot, proc>>
      BY <1>4, <3>2, Zenon DEF Held, Claimed, Bare, HoldsSlot
    <3> QED
      BY <1>11, <3>1, <3>2, Zenon
  <2>3. Accounted(l)'
    BY <2>2, Zenon DEF Accounted
  <2>4. Held(l)'
    BY <1>6, <2>1, <2>3, Zenon DEF Held
  <2> QED
    BY <1>3, <1>9, <2>4, Zenon DEF HInv
<1> QED
  BY <1>1, <1>10, <1>11, Zenon

\* A command taken leaves the results where they are.
LEMMA CommandTaken ==
  ASSUME IInv, NEW l \in Leases, NEW op, op # "boot", Takes(l, op), NEW m \in Leases
  PROVE  \/ mailbox'[m] = mailbox[m]
         \/ mailbox[m] # <<>> /\ mailbox'[m] = Tail(mailbox[m]) /\ mailbox[m][1].op # "boot"
<1>1. /\ mailbox[l] # <<>> /\ mailbox'[l] = Tail(mailbox[l]) /\ Head(mailbox[l]) = mailbox[l][1]
      /\ Head(mailbox[l]).op = op /\ \A k \in Leases : k # l => mailbox'[k] = mailbox[k]
  BY Taken, ZenonT(30)
<1> QED
  BY <1>1, Zenon

\* A write that fails spends a fault.
LEMMA Spent ==
  ASSUME JInv, HInv, StoreWorks \/ StoreFails, UNCHANGED restarts
  PROVE  Counted /\ restarts' \in Nat
BY Faults, Zenon DEF Counted, HInv

\* The handlers of renewals, commits, cancellations, execs and their outcomes.
LEMMA HandlersHold ==
  ASSUME IInv, JInv, HInv, NEW l \in Leases,
         HandleRenew(l) \/ HandleCommit(l) \/ HandleCancelExec(l) \/ HandleStartExec(l) \/ HandleExecDone(l)
  PROVE  HInv'
<1>1. UNCHANGED <<row, disk, slot, proc, boot, restarts>> /\ (StoreWorks \/ StoreFails)
  BY ZenonT(30) DEF HandleRenew, HandleCommit, HandleCancelExec, HandleStartExec, HandleExecDone, host, StoreWorks
<1>2. Counted /\ restarts' \in Nat
  BY <1>1, Spent, Zenon
<1>3. PICK op \in {"renew", "commit", "cancel", "start", "done"} : Takes(l, op)
  BY Zenon DEF HandleRenew, HandleCommit, HandleCancelExec, HandleStartExec, HandleExecDone
<1>4. op # "boot"
  BY <1>3, Zenon
<1>5. \A m \in Leases : \/ mailbox'[m] = mailbox[m]
                        \/ mailbox[m] # <<>> /\ mailbox'[m] = Tail(mailbox[m]) /\ mailbox[m][1].op # "boot"
  BY <1>3, <1>4, CommandTaken, Zenon
<1>6. \E v : actor' = actor \/ actor' = [actor EXCEPT ![l] = [@ EXCEPT !.active = v]]
  BY ZenonT(30) DEF HandleRenew, HandleCommit, HandleCancelExec, HandleStartExec, HandleExecDone
<1>7. PICK v : actor' = actor \/ actor' = [actor EXCEPT ![l] = [@ EXCEPT !.active = v]]
  BY <1>6, Zenon
<1>8. actor[l] \in ActorRows
  BY Zenon DEF IInv, Types
<1> DEFINE a == [actor[l] EXCEPT !.active = v]
<1>9. a.run = actor[l].run /\ a.runtime = actor[l].runtime
  BY <1>8, Zenon DEF ActorRows
<1>10. actor' = actor \/ actor' = [actor EXCEPT ![l] = a]
  BY <1>7, Zenon
<1> HIDE DEF a
<1>11. \A m \in Leases : actor'[m].run = actor[m].run /\ actor'[m].runtime = actor[m].runtime
  <2>1. actor' = [actor EXCEPT ![l] = a] => actor'[l] = a /\ \A m \in Leases : m # l => actor'[m] = actor[m]
    BY Zenon DEF IInv, Types
  <2> QED
    BY <1>9, <1>10, <2>1, Zenon
<1>12. \A m \in Leases : /\ actor'[m].runtime <=> actor[m].runtime
                         /\ actor[m].runtime => actor'[m].run = "running"
  BY <1>11, Zenon DEF HInv, Held, Runtimes, Running
<1> QED
  BY <1>1, <1>2, <1>5, <1>12, HostQuiet, Zenon

\* handleAcquire begins the boot of a lease that holds nothing.
LEMMA AcquireHolds ==
  ASSUME IInv, JInv, HInv, NEW l \in Leases, HandleAcquire(l)
  PROVE  HInv'
<1>1. /\ Takes(l, "acquire") /\ UNCHANGED <<actor, disk, slot, proc, restarts>> /\ (StoreWorks \/ StoreFails)
      /\ \/ StoreWorks /\ row' = [row EXCEPT ![l] = "acquiring"] /\ boot' = [boot EXCEPT ![l] = "clone"]
         \/ UNCHANGED <<row, boot>>
  BY Zenon DEF HandleAcquire, host
<1>2. \A m \in Leases : \/ mailbox'[m] = mailbox[m]
                        \/ mailbox[m] # <<>> /\ mailbox'[m] = Tail(mailbox[m]) /\ mailbox[m][1].op # "boot"
  <2>1. "acquire" # "boot"
    BY Zenon
  <2> QED
    BY <1>1, <2>1, CommandTaken, Zenon
<1>3. CASE UNCHANGED <<row, boot>>
  <2>1. Counted /\ restarts' \in Nat
    BY <1>1, Spent, Zenon
  <2>2. \A m \in Leases : /\ actor'[m].runtime <=> actor[m].runtime
                          /\ actor[m].runtime => actor'[m].run = "running"
    BY <1>1, Zenon DEF HInv, Held, Runtimes, Running
  <2> QED
    BY <1>1, <1>2, <1>3, <2>1, <2>2, HostQuiet, ZenonT(30)
<1>4. CASE StoreWorks /\ row' = [row EXCEPT ![l] = "acquiring"] /\ boot' = [boot EXCEPT ![l] = "clone"]
  <2>1. /\ 1 \in 1 .. Len(mailbox[l]) /\ Head(mailbox[l]) = mailbox[l][1] /\ Head(mailbox[l]).op = "acquire"
        /\ \A m \in Leases : m # l => mailbox'[m] = mailbox[m]
    BY <1>1, Taken, ZenonT(30)
  <2>2. mailbox[l][1].op = "acquire"
    BY <2>1, Zenon
  <2>3. boot[l] = "none"
    BY <2>1, <2>2, Zenon DEF IInv, Mails
  <2>4. row'[l] = "acquiring" /\ \A m \in Leases : m # l => row'[m] = row[m]
    BY <1>4, Zenon DEF IInv, Types
  <2>5. boot'[l] = "clone"
    BY <1>4, Zenon DEF IInv, Types
  <2>6. Bare(l)'
    BY <1>1, <2>3, Zenon DEF HInv, Held, Claimed, Bare, HoldsSlot
  <2>7. Claimed(l)'
    BY <2>5, <2>6, Zenon DEF Claimed
  <2>8. NoResult(l)
    BY <1>2, MailKeeps, Zenon
  <2>9. \A m \in Leases : m # l => HostOf(m) /\ row'[m] = row[m] /\ mailbox'[m] = mailbox[m]
    BY <1>1, <2>1, <2>4, HostLeft, Zenon
  <2>10. "clone" \in BootSteps \ {"none", "sent"} /\ boot[l] # "sent" /\ row'[l] # "ready" /\ UNCHANGED faults
    BY <1>4, <2>3, <2>4, Zenon DEF BootSteps, StoreWorks
  <2> QED
    BY <1>1, <1>4, <2>7, <2>8, <2>9, <2>10, BootHolds, ZenonT(30)
<1> QED
  BY <1>1, <1>3, <1>4, Zenon

\* handleBootComplete takes over the VM or cleans it up.
LEMMA BootResultHolds ==
  ASSUME IInv, JInv, HInv, NEW l \in Leases, HandleBootComplete(l)
  PROVE  HInv'
<1> DEFINE ok == Head(mailbox[l]).ok
           a == [actor[l] EXCEPT !.run = "stopped", !.state = "crashed", !.known = FALSE]
           b == [actor[l] EXCEPT !.runtime = TRUE, !.state = "ready"]
<1>1. /\ Takes(l, "boot") /\ UNCHANGED <<boot, restarts>> /\ (StoreWorks \/ StoreFails)
      /\ \/ /\ ok /\ row' = [row EXCEPT ![l] = "ready"] /\ actor' = [actor EXCEPT ![l] = b]
            /\ UNCHANGED <<disk, slot, proc>>
         \/ /\ row' = FinishLease(l, "crashed") /\ actor' = [actor EXCEPT ![l] = a]
            /\ (ok /\ Cleanup(l)) \/ (~ok /\ UNCHANGED <<disk, slot, proc>>)
  BY ZenonT(30) DEF HandleBootComplete, host
<1>2. /\ 1 \in 1 .. Len(mailbox[l]) /\ Head(mailbox[l]) = mailbox[l][1] /\ Head(mailbox[l]).op = "boot"
      /\ mailbox[l] # <<>> /\ mailbox'[l] = Tail(mailbox[l])
      /\ \A m \in Leases : m # l => mailbox'[m] = mailbox[m]
      /\ Running(l)
  BY <1>1, Taken, ZenonT(30)
<1>3. ok = mailbox[l][1].ok /\ mailbox[l][1].op = "boot" /\ actor[l] \in ActorRows
  BY <1>2, Zenon DEF IInv, Types
<1>4. /\ a.run = "stopped" /\ a.runtime = actor[l].runtime
      /\ b.run = actor[l].run /\ b.runtime = TRUE
  BY <1>3, ZenonT(30) DEF ActorRows
<1> HIDE DEF a, b, ok
<1>5. Held(l) /\ Counted /\ restarts' \in Nat
  BY <1>1, Spent, Zenon DEF HInv
<1>6. /\ boot[l] = "sent" /\ ~actor[l].runtime /\ row[l] # "ready" /\ (ok => Up(l))
      /\ \A k \in 1 .. Len(mailbox[l]) : mailbox[l][k].op = "boot" => 1 = k
  BY <1>2, <1>3, <1>5, Zenon DEF Held, Results
<1>7. \A i \in 1 .. Len(mailbox'[l]) : mailbox'[l][i].op # "boot"
  <2>1. mailbox[l] \in Seq(Commands)
    BY Zenon DEF IInv, Types
  <2>2. \A i \in 1 .. Len(mailbox'[l]) : i + 1 \in 1 .. Len(mailbox[l]) /\ mailbox'[l][i] = mailbox[l][i + 1]
                                         /\ 1 # i + 1
    BY ONLY <1>2, <2>1
  <2> QED
    BY <1>6, <2>2, Zenon
<1>8. Results(l)'
  BY <1>7, Zenon DEF Results
<1>9. boot'[l] = "sent" /\ Claimed(l)'
  BY <1>1, <1>6, Zenon DEF Claimed
<1>10. \A m \in Leases : m # l => HostOf(m) /\ row'[m] = row[m] /\ actor'[m] = actor[m]
  <2>1. \A m \in Leases : m # l => HostOf(m)
    BY <1>1, CleanedUp, HostLeft, Zenon
  <2>2. \A m \in Leases : m # l => row'[m] = row[m] /\ actor'[m] = actor[m]
    BY <1>1, Zenon DEF FinishLease, IInv, Types
  <2> QED
    BY <2>1, <2>2, Zenon
<1>11. \A m \in Leases : m # l => Held(m)'
  BY <1>1, <1>2, <1>5, <1>10, OthersStay, Zenon
<1>12. CASE /\ ok /\ row' = [row EXCEPT ![l] = "ready"] /\ actor' = [actor EXCEPT ![l] = b]
            /\ UNCHANGED <<disk, slot, proc>>
  <2>1. row'[l] = "ready" /\ actor'[l] = b
    BY <1>12, Zenon DEF IInv, Types
  <2>2. HostOf(l)
    BY <1>12, HostLeft, Zenon
  <2>3. Up(l)'
    BY <1>6, <1>12, <2>2, HostSame, Zenon
  <2>4. Runtimes(l)'
    BY <1>2, <1>4, <1>9, <2>1, <2>3, Zenon DEF Runtimes, Running
  <2>5. Accounted(l)'
    BY <1>4, <2>1, Zenon DEF Accounted
  <2>6. Held(l)'
    BY <1>8, <1>9, <2>4, <2>5, ZenonT(40) DEF Held
  <2> QED
    BY <1>5, <1>11, <2>6, Zenon DEF HInv
<1>13. CASE /\ row' = FinishLease(l, "crashed") /\ actor' = [actor EXCEPT ![l] = a]
            /\ (ok /\ Cleanup(l)) \/ (~ok /\ UNCHANGED <<disk, slot, proc>>)
  <2>1. row'[l] # "ready" /\ actor'[l] = a
    BY <1>6, <1>13, Zenon DEF FinishLease, IInv, Types
  <2>2. Runtimes(l)'
    BY <1>4, <1>6, <2>1, Zenon DEF Runtimes
  <2>3. Accounted(l)'
    <3> SUFFICES ASSUME restarts = 0 PROVE Bare(l)'
      BY <1>1, Zenon DEF Accounted
    <3>1. CASE Cleanup(l)
      BY <3>1, CleanedUp, Zenon
    <3>2. CASE ~ok /\ UNCHANGED <<disk, slot, proc>>
      <4>1. ~BootResultIn(l)
        BY <1>3, <1>6, <3>2, Zenon DEF BootResultIn
      <4>2. Bare(l)
        BY <1>5, <1>6, <4>1, ZenonT(30) DEF Held, Accounted, BootInFlight
      <4> QED
        BY <3>2, <4>2, Zenon DEF Bare, HoldsSlot
    <3> QED
      BY <1>13, <3>1, <3>2, Zenon
  <2>4. Held(l)'
    BY <1>8, <1>9, <2>2, <2>3, Zenon DEF Held
  <2> QED
    BY <1>5, <1>11, <2>4, Zenon DEF HInv
<1> QED
  BY <1>1, <1>12, <1>13, Zenon

\* A lease that ends gives back what its actor had.
LEMMA EndHolds ==
  ASSUME IInv, JInv, HInv, NEW l \in Leases, Running(l), NEW st \in Terminal, EndLease(l, st),
         UNCHANGED <<boot, restarts>>,
         \A m \in Leases : \/ mailbox'[m] = mailbox[m]
                           \/ mailbox[m] # <<>> /\ mailbox'[m] = Tail(mailbox[m]) /\ mailbox[m][1].op # "boot",
         \A m \in Leases : m # l => mailbox'[m] = mailbox[m]
  PROVE  HInv'
<1>1. actor[l].known \in BOOLEAN
  BY Zenon DEF IInv, Types, ActorRows
<1> DEFINE k == actor[l].known /\ st = "released"
           a == [NoActor EXCEPT !.run = "stopped", !.state = st]
           b == [NoActor EXCEPT !.run = "stopped", !.state = st, !.known = k]
<1>2. a.runtime = FALSE /\ b.runtime = FALSE
  BY <1>1, Zenon DEF NoActor
<1>3. /\ \/ StoreWorks /\ row' = FinishLease(l, st) /\ actor' = [actor EXCEPT ![l] = a]
         \/ StoreFails /\ row' = row /\ actor' = [actor EXCEPT ![l] = b]
      /\ IF actor[l].runtime THEN Cleanup(l) ELSE UNCHANGED <<disk, slot, proc>>
  BY Zenon DEF EndLease, host
<1> HIDE DEF k, a, b
<1>4. Held(l) /\ Counted /\ restarts' \in Nat
  BY <1>3, Spent, Zenon DEF HInv
<1>5. actor'[l].runtime = FALSE /\ \A m \in Leases : m # l => actor'[m] = actor[m]
  BY <1>2, <1>3, Zenon DEF IInv, Types
<1>6. StoreFails => faults' # 0
  BY Faults, Zenon
<1>7. /\ row'[l] = "ready" => row[l] = "ready" /\ faults' # 0
      /\ \A m \in Leases : m # l => row'[m] = row[m]
  <2>1. CASE StoreFails /\ row' = row
    BY <1>6, <2>1, Zenon
  <2>2. CASE row' = FinishLease(l, st)
    <3>1. st # "ready"
      BY Zenon DEF Terminal
    <3>2. /\ row'[l] = IF row[l] \in Terminal \cup {"none"} THEN row[l] ELSE st
          /\ \A m \in Leases : m # l => row'[m] = row[m]
      BY <2>2, Zenon DEF FinishLease, IInv, Types
    <3>3. "ready" \notin Terminal \cup {"none"}
      BY Zenon DEF Terminal
    <3> QED
      BY <3>1, <3>2, <3>3, Zenon
  <2> QED
    BY <1>3, <2>1, <2>2, Zenon
<1>8. \A m \in Leases : m # l => HostOf(m)
  BY <1>3, CleanedUp, HostLeft, Zenon
<1>9. \A m \in Leases : m # l => Held(m)'
  BY <1>4, <1>5, <1>7, <1>8, OthersStay, Zenon
<1>10. NoResult(l) /\ (BootResultIn(l) => BootResultIn(l)')
  BY MailKeeps, Zenon
<1>11. Runtimes(l)'
  BY <1>4, <1>5, <1>7, Zenon DEF Held, Runtimes
<1>12. CASE actor[l].runtime
  <2>1. Bare(l)' /\ boot'[l] = "sent"
    BY <1>3, <1>4, <1>12, CleanedUp, Zenon DEF Held, Runtimes
  <2>2. Claimed(l)' /\ Accounted(l)'
    BY <2>1, Zenon DEF Claimed, Accounted
  <2>3. \A i \in 1 .. Len(mailbox[l]) : mailbox[l][i].op # "boot"
    BY <1>4, <1>12, Zenon DEF Held, Results
  <2>4. Results(l)'
    BY <1>4, <1>10, <2>1, <2>3, ResultsKept, ZenonT(30) DEF Held
  <2>5. Held(l)'
    BY <1>11, <2>2, <2>4, ZenonT(30) DEF Held
  <2> QED
    BY <1>4, <1>9, <2>5, Zenon DEF HInv
<1>13. CASE ~actor[l].runtime
  <2>1. HostOf(l)
    BY <1>3, <1>13, HostLeft, Zenon
  <2>2. /\ boot'[l] = boot[l] /\ (row'[l] = "ready" => row[l] = "ready")
        /\ (actor'[l].runtime <=> actor[l].runtime)
    BY <1>5, <1>7, <1>13, Zenon
  <2>3. Held(l)'
    BY <1>4, <1>10, <1>13, <2>1, <2>2, Unmoved, ZenonT(30)
  <2> QED
    BY <1>4, <1>9, <2>3, Zenon DEF HInv
<1> QED
  BY <1>12, <1>13, Zenon

\* handleRelease and the ticker.
LEMMA EndsHold ==
  ASSUME IInv, JInv, HInv, NEW l \in Leases, HandleRelease(l) \/ Expire(l)
  PROVE  HInv'
<1>1. CASE HandleRelease(l)
  <2>1. Takes(l, "release") /\ EndLease(l, "released") /\ "released" \in Terminal /\ UNCHANGED <<boot, restarts>>
    BY <1>1, Zenon DEF HandleRelease, Terminal
  <2>2. "release" # "boot"
    BY Zenon
  <2>3. \A m \in Leases : \/ mailbox'[m] = mailbox[m]
                          \/ mailbox[m] # <<>> /\ mailbox'[m] = Tail(mailbox[m]) /\ mailbox[m][1].op # "boot"
    BY <2>1, <2>2, CommandTaken, Zenon
  <2>4. Running(l) /\ \A m \in Leases : m # l => mailbox'[m] = mailbox[m]
    BY <2>1, Taken, ZenonT(30)
  <2> QED
    BY <2>1, <2>3, <2>4, EndHolds, Zenon
<1>2. CASE Expire(l)
  <2>1. EndLease(l, "expired") /\ "expired" \in Terminal /\ UNCHANGED <<mailbox, boot, restarts>> /\ Running(l)
    BY <1>2, Zenon DEF Expire, Overdue, Terminal
  <2>2. \A m \in Leases : mailbox'[m] = mailbox[m]
    BY <2>1, Zenon
  <2> QED
    BY <2>1, <2>2, EndHolds, Zenon
<1> QED
  BY <1>1, <1>2, Zenon

\* A restart leaves no runtime, and a lease that never booted holds nothing.
LEMMA RestartHolds ==
  ASSUME IInv, HInv, Restart
  PROVE  HInv'
<1>1. /\ row' = MarkUnowned /\ mailbox' = [l \in Leases |-> <<>>] /\ UNCHANGED <<disk, faults>>
      /\ restarts' = restarts + 1
      /\ actor' = [l \in Leases |-> IF actor[l].run = "none" THEN actor[l]
                                    ELSE [NoActor EXCEPT !.run = "stopped"]]
      /\ boot' = [l \in Leases |-> IF boot[l] = "none" THEN "none" ELSE "sent"]
  BY ZenonT(30) DEF Restart
<1>2. restarts' \in Nat /\ restarts' # 0
  <2>1. restarts \in Nat
    BY Zenon DEF HInv
  <2> QED
    BY ONLY <1>1, <2>1
<1>3. PICK alive, young : slot' = Recover(alive, young)
  BY ZenonT(30) DEF Restart
<1>4. \A s \in Slots : slot'[s] = slot[s] \/ slot'[s] = FreeSlot
  BY <1>3, Zenon DEF Recover
<1>5. FreeSlot.lease = NoLease /\ NoLease \notin Leases
  BY LeasesAssumption, Zenon DEF FreeSlot
<1> SUFFICES ASSUME NEW l \in Leases PROVE Held(l)'
  BY <1>2, Zenon DEF HInv
<1>6. Held(l)
  BY Zenon DEF HInv
<1>7. row'[l] # "ready"
  BY <1>1, Zenon DEF MarkUnowned
<1>8. ~actor'[l].runtime
  <2>1. [NoActor EXCEPT !.run = "stopped"].runtime = FALSE
    BY Zenon DEF NoActor
  <2>2. actor[l].run = "none" => ~actor[l].runtime
    BY <1>6, Zenon DEF Held, Runtimes, Running
  <2> QED
    BY <1>1, <2>1, <2>2, ZenonT(40)
<1>9. boot'[l] = "sent" \/ (boot'[l] = "none" /\ boot[l] = "none")
  BY <1>1, Zenon
<1>10. Bare(l) => Bare(l)'
  BY <1>1, <1>4, <1>5, Zenon DEF Bare, HoldsSlot
<1>11. Claimed(l)'
  BY <1>6, <1>9, <1>10, Zenon DEF Held, Claimed
<1>12. Results(l)'
  <2>1. mailbox'[l] = <<>>
    BY <1>1, Zenon
  <2>2. \A i : i \notin 1 .. Len(mailbox'[l])
    BY ONLY <2>1
  <2> QED
    BY <2>2, Zenon DEF Results
<1>13. Runtimes(l)' /\ Accounted(l)'
  BY <1>2, <1>7, <1>8, ZenonT(30) DEF Runtimes, Accounted
<1> QED
  BY <1>11, <1>12, <1>13, Zenon DEF Held

\* Every step keeps what the host holds accounted for.
LEMMA NextHolds ==
  ASSUME IInv, JInv, HInv, [Next]_vars
  PROVE  HInv'
<1>1. ASSUME NEW l \in Leases, ActorStep(l) PROVE HInv'
  BY <1>1, AcquireHolds, BootResultHolds, HandlersHold, EndsHold, ZenonT(30) DEF ActorStep
<1>2. ASSUME NEW l \in Leases, BootGoroutine(l) PROVE HInv'
  BY <1>2, BootsHold, SendHolds, Zenon DEF BootGoroutine
<1> QED
  BY <1>1, <1>2, CallsHold, OthersHold, RestartHolds, ZenonT(30) DEF Next

\* The third invariant holds from the start.
THEOREM Holding == Spec => []HInv
<1>1. Init => HInv
  <2> SUFFICES ASSUME Init PROVE HInv
    BY Zenon
  <2> USE DEF Init
  <2>1. NoActor.runtime = FALSE /\ FreeSlot.lease = NoLease /\ NoLease \notin Leases
    BY LeasesAssumption, Zenon DEF NoActor, FreeSlot
  <2>2. restarts \in Nat
    BY SMT
  <2>3. ASSUME NEW l \in Leases PROVE Held(l)
    <3>1. Bare(l)
      BY <2>1, Zenon DEF Bare, HoldsSlot
    <3>2. boot[l] = "none" /\ row[l] = "none" /\ actor[l].runtime = FALSE /\ mailbox[l] = <<>>
      BY <2>1, Zenon
    <3>3. \A i : i \notin 1 .. Len(mailbox[l])
      BY ONLY <3>2
    <3>4. Claimed(l) /\ Results(l) /\ Runtimes(l) /\ Accounted(l)
      BY <3>1, <3>2, <3>3, Zenon DEF Claimed, Results, Runtimes, Accounted
    <3> QED
      BY <3>4, Zenon DEF Held
  <2> QED
    BY <2>2, <2>3, Zenon DEF HInv
<1>2. IInv /\ JInv /\ HInv /\ [Next]_vars => HInv'
  BY NextHolds, Zenon
<1> QED
  BY <1>1, <1>2, Invariance, Telling, PTL DEF Spec

\* A lease the ledger calls ready has a running actor with a booted VM behind
\* it: disk, process and attached slot (handleBootComplete, handleRelease,
\* bootLease, Allocator.Release, markUnownedActiveLeasesCrashed).
THEOREM ReadyServed == Spec => []ReadyIsServed
<1>1. JInv /\ HInv => ReadyIsServed
  <2> SUFFICES ASSUME JInv, HInv, NEW l \in Leases, row[l] = "ready", faults = 0
               PROVE  /\ Running(l) /\ actor[l].known /\ actor[l].runtime
                      /\ l \in disk /\ l \in proc
                      /\ \E s \in Slots : slot[s] = [lease |-> l, pid |-> TRUE]
    BY Zenon DEF ReadyIsServed
  <2>1. Running(l) /\ actor[l].known
    BY Zenon DEF JInv, Live
  <2>2. actor[l].runtime /\ Up(l)
    BY Zenon DEF HInv, Held, Runtimes
  <2> QED
    BY <2>1, <2>2, Zenon DEF Up
<1> QED
  BY <1>1, Telling, Holding, PTL

\* What a terminal lease leaves on the host while the daemon lives is a boot
\* still at work, or a boot result nobody will read (bootLease, bootDataset).
THEOREM Leftovers == Spec => []LeftoversAreKnown
<1>1. HInv => LeftoversAreKnown
  BY Zenon DEF HInv, Held, Runtimes, Accounted, Bare, LeftoversAreKnown
<1> QED
  BY <1>1, Holding, PTL
=============================================================================
