------------------------ MODULE SandboxRentalProofs ------------------------
(***************************************************************************)
(* The safety properties of sandbox-rental-service: those of               *)
(* ExecutionLifecycle for any number of jobs, and those of                 *)
(* RunnerAllocations for any number of allocations and provider jobs.      *)
(***************************************************************************)
EXTENDS ExecutionLifecycle, RunnerAllocations, FiniteSetTheorems, TLAPS

\* A job that won the claim, until it monitors what it started or has failed.
Launches(j) == job[j].st = "run" /\ job[j].pc \in LaunchSteps \cup FailSteps

\* A job that monitors or finalizes a started attempt.
Monitors(j) == job[j].st = "run" /\ job[j].pc \in EndSteps

\* At most one job launches, nobody monitors meanwhile, and an attempt that
\* was not claimed has no trace in billing or on a host.
Claims ==
  /\ \A j, k \in Jobs : Launches(j) /\ Launches(k) => j = k
  /\ \A j, k \in Jobs : Launches(j) => ~Monitors(k)
  /\ \A j \in Jobs :
       Launches(j) => attempt \notin {"none", "queued", "running", "finalizing", "succeeded"}
  /\ attempt \in {"none", "queued"} =>
       /\ bwin = "absent" /\ lwin # "settled" /\ lease = "none" /\ exec = "none"
       /\ \A j \in Jobs : ~Monitors(j)

\* Nothing is settled while a job launches, and a job that goes on after a
\* settlement has seen it.
Money ==
  /\ \A j \in Jobs : Launches(j) => bwin \notin {"settling", "settled"} /\ lwin # "settled"
  /\ \A j \in Jobs : (At(j, "settled") \/ At(j, "complete")) => bwin = "settled"
  /\ SucceededIsSettled
  /\ LocalSettledIsSettled

\* The steps before the exec of the attempt can exist.
Unstarted == {"reserve", "insert", "launch", "acquire", "lease", "ready", "start", "void", "local"}

\* The window is held until the failing job voids it, which it does before an
\* exec exists or after the lease is released.
Machine ==
  /\ \A j \in Jobs : (job[j].st = "run" /\ job[j].pc \in LaunchSteps) => bwin # "voided"
  /\ \A j \in Jobs : (job[j].st = "run" /\ job[j].pc \in Unstarted) => exec = "none"
  /\ \A j \in Jobs : At(j, "unhold") => lease # "live" \/ fault = "release"
  /\ VoidedMeansStopped

IInv == TypeOK /\ Claims /\ Money /\ Machine

-----------------------------------------------------------------------------
(* Types.                                                                  *)

JobRecords == [st : {"none", "ready", "run"}, pc : Steps,
               seen : {"queued", "running", "finalizing"}, golden : BOOLEAN]

\* What the helpers write into the table of jobs is a job.
LEMMA JobWrites ==
  ASSUME TypeOK, NEW j \in Jobs
  PROVE  /\ Errors(j) => job' \in [Jobs -> JobRecords]
         /\ Finish(j) => job' \in [Jobs -> JobRecords]
         /\ \A pc \in Steps : Goto(j, pc) => job' \in [Jobs -> JobRecords]
         /\ Enqueue => job' \in [Jobs -> JobRecords]
<1>1. job \in [Jobs -> JobRecords]
  BY Zenon DEF TypeOK, JobRecords
<1>2. \A st \in {"none", "ready", "run"} : [IdleJob EXCEPT !.st = st] \in JobRecords
  BY Zenon DEF IdleJob, JobRecords, Steps
<1>3. IdleJob \in JobRecords
  BY Zenon DEF IdleJob, JobRecords, Steps
<1>4. ASSUME Errors(j) PROVE job' \in [Jobs -> JobRecords]
  BY <1>1, <1>2, <1>4, Zenon DEF Errors
<1>5. ASSUME Finish(j) PROVE job' \in [Jobs -> JobRecords]
  BY <1>1, <1>3, <1>5, Zenon DEF Finish
<1>6. ASSUME NEW pc \in Steps, Goto(j, pc) PROVE job' \in [Jobs -> JobRecords]
  <2>1. [job[j] EXCEPT !.pc = pc] \in JobRecords
    BY <1>1, Zenon DEF JobRecords
  <2> QED
    BY <1>1, <1>6, <2>1, Zenon DEF Goto
<1>7. ASSUME Enqueue PROVE job' \in [Jobs -> JobRecords]
  BY <1>1, <1>2, <1>7, Zenon DEF Enqueue
<1> QED
  BY <1>4, <1>5, <1>6, <1>7, Zenon

\* Every step of a job leaves a table of jobs.
LEMMA JobTable ==
  ASSUME TypeOK, NEW j \in Jobs, JobStep(j)
  PROVE  job' \in [Jobs -> JobRecords]
<1> USE JobWrites DEF Steps, LaunchSteps, FailSteps, EndSteps
<1>1. CASE Load(j)
  <2>1. job \in [Jobs -> JobRecords]
    BY Zenon DEF TypeOK, JobRecords
  <2>2. ASSUME NEW pc \in {"cas", "observe"}, NEW seen \in {"queued", "running", "finalizing"}
        PROVE  /\ [job[j] EXCEPT !.st = "run", !.pc = pc] \in JobRecords
               /\ [job[j] EXCEPT !.st = "run", !.pc = pc, !.seen = seen] \in JobRecords
    BY <2>1, ZenonT(30) DEF JobRecords
  <2>3. CASE job' = [job EXCEPT ![j].st = "run", ![j].pc = "cas"]
    BY <2>1, <2>2, <2>3, Zenon
  <2>4. CASE /\ attempt \in {"running", "finalizing"}
             /\ job' = [job EXCEPT ![j].st = "run", ![j].pc = "observe", ![j].seen = attempt]
    BY <2>1, <2>2, <2>4, Zenon
  <2> QED
    BY <1>1, <2>3, <2>4, Zenon DEF Load
<1>2. CASE ClaimAttempt(j)
  BY <1>2, Zenon DEF ClaimAttempt, Transition
<1>3. CASE ReserveBilling(j)
  BY <1>3, Zenon DEF ReserveBilling
<1>4. CASE InsertBillingWindow(j)
  BY <1>4, Zenon DEF InsertBillingWindow
<1>5. CASE LaunchAttempt(j)
  BY <1>5, Zenon DEF LaunchAttempt, Transition
<1>6. CASE AcquireLease(j)
  BY <1>6, Zenon DEF AcquireLease
<1>7. CASE RecordLeaseId(j)
  BY <1>7, Zenon DEF RecordLeaseId, RecordLease
<1>8. CASE WaitLeaseReady(j)
  BY <1>8 DEF WaitLeaseReady, Goto, TypeOK, JobRecords
<1>9. CASE StartExec(j)
  BY <1>9, Zenon DEF StartExec
<1>10. CASE RecordExecId(j)
  BY <1>10, Zenon DEF RecordExecId, RecordLease
<1>11. CASE Activate(j)
  BY <1>11, Zenon DEF Activate
<1>12. CASE MarkRunning(j)
  <2>1. job \in [Jobs -> JobRecords]
    BY Zenon DEF TypeOK, JobRecords
  <2>2. [job[j] EXCEPT !.pc = "observe", !.seen = "running"] \in JobRecords
    BY <2>1, ZenonT(20) DEF JobRecords
  <2>3. CASE job' = [job EXCEPT ![j].pc = "observe", ![j].seen = "running"]
    BY <2>1, <2>2, <2>3, Zenon
  <2> QED
    BY <1>12, <2>3, Zenon DEF MarkRunning
<1>13. CASE VoidReservation(j)
  BY <1>13, Zenon DEF VoidReservation
<1>14. CASE MarkVoided(j)
  BY <1>14, Zenon DEF MarkVoided
<1>15. CASE CleanupLease(j)
  BY <1>15, Zenon DEF CleanupLease
<1>16. CASE CleanupReservation(j)
  BY <1>16, Zenon DEF CleanupReservation
<1>17. CASE Fail(j)
  BY <1>17, Zenon DEF Fail
<1>18. CASE Defer(j)
  <2>1. CASE job' = [job EXCEPT ![j] = [IdleJob EXCEPT !.st = "ready"]]
    BY <2>1, Zenon DEF Errors
  <2> QED
    BY <1>18, <2>1, Zenon DEF Defer
<1>19. CASE BeginFinalize(j)
  BY <1>19, Zenon DEF BeginFinalize, Transition
<1>20. CASE SettleBegin(j)
  BY <1>20, Zenon DEF SettleBegin
<1>21. CASE SettleEnd(j)
  BY <1>21, Zenon DEF SettleEnd
<1>22. CASE SettleFailed(j)
  BY <1>22, Zenon DEF SettleFailed
<1>23. CASE MarkSettled(j)
  BY <1>23, Zenon DEF MarkSettled
<1>24. CASE CompleteAttempt(j)
  BY <1>24, Zenon DEF CompleteAttempt
<1>25. CASE Release(j)
  BY <1>25, Zenon DEF Release
<1> QED
  BY <1>1, <1>2, <1>3, <1>4, <1>5, <1>6, <1>7, <1>8, <1>9, <1>10, <1>11, <1>12, <1>13,
     <1>14, <1>15, <1>16, <1>17, <1>18, <1>19, <1>20, <1>21, <1>22, <1>23, <1>24, <1>25, ZenonT(30)
     DEF JobStep

\* A step of a job keeps every variable in its type.
LEMMA JobKeepsTypes ==
  ASSUME TypeOK, NEW j \in Jobs, JobStep(j)
  PROVE  TypeOK'
<1> USE JobTable DEF TypeOK, JobRecords, Active, Terminal
<1>1. CASE Load(j)
  BY <1>1 DEF Load, row, host, others, Terminal
<1>2. CASE ClaimAttempt(j)
  BY <1>2 DEF ClaimAttempt, Transition, CAS, row, host, others
<1>3. CASE ReserveBilling(j)
  BY <1>3 DEF ReserveBilling, row, host, others
<1>4. CASE InsertBillingWindow(j)
  BY <1>4 DEF InsertBillingWindow, row, host, others
<1>5. CASE LaunchAttempt(j)
  BY <1>5 DEF LaunchAttempt, Transition, CAS, row, host, others
<1>6. CASE AcquireLease(j)
  BY <1>6 DEF AcquireLease, row, others
<1>7. CASE RecordLeaseId(j)
  <2>1. leaseId' \in BOOLEAN /\ execId' \in BOOLEAN
    BY Zenon, <1>7 DEF RecordLeaseId, RecordLease
  <2> QED
    BY <1>7, <2>1 DEF RecordLeaseId, RecordLease, Lose, host
<1>8. CASE WaitLeaseReady(j)
  BY <1>8 DEF WaitLeaseReady, ReleaseLease, Lose, row, host
<1>9. CASE StartExec(j)
  BY <1>9 DEF StartExec, row, others
<1>10. CASE RecordExecId(j)
  <2>1. leaseId' \in BOOLEAN /\ execId' \in BOOLEAN
    BY Zenon, <1>10 DEF RecordExecId, RecordLease
  <2> QED
    BY <1>10, <2>1 DEF RecordExecId, RecordLease, Lose, host
<1>11. CASE Activate(j)
  BY <1>11 DEF Activate, row, others
<1>12. CASE MarkRunning(j)
  BY <1>12 DEF MarkRunning, CAS, row, host, others
<1>13. CASE VoidReservation(j)
  BY <1>13 DEF VoidReservation, VoidWindow, Lose, row, host
<1>14. CASE MarkVoided(j)
  BY <1>14 DEF MarkVoided, MarkWindow, Lose, row, host
<1>15. CASE CleanupLease(j)
  BY <1>15 DEF CleanupLease, ReleaseLease, Lose, row
<1>16. CASE CleanupReservation(j)
  BY <1>16 DEF CleanupReservation, VoidWindow, Lose, row, host
<1>17. CASE Fail(j)
  BY <1>17 DEF Fail, FailAttempt, host, others
<1>18. CASE Defer(j)
  BY <1>18 DEF Defer, row, host, others
<1>19. CASE BeginFinalize(j)
  BY <1>19, Zenon DEF BeginFinalize, Transition, CAS, row, host, others
<1>20. CASE SettleBegin(j)
  BY <1>20 DEF SettleBegin, row, host, others
<1>21. CASE SettleEnd(j)
  BY <1>21 DEF SettleEnd, row, host, others
<1>22. CASE SettleFailed(j)
  BY <1>22 DEF SettleFailed, FailAttempt, host, others
<1>23. CASE MarkSettled(j)
  BY <1>23 DEF MarkSettled, MarkWindow, Lose, row, host
<1>24. CASE CompleteAttempt(j)
  BY <1>24 DEF CompleteAttempt, CAS, row, host, others
<1>25. CASE Release(j)
  BY <1>25 DEF Release, ReleaseLease, Lose, row
<1> QED
  BY <1>1, <1>2, <1>3, <1>4, <1>5, <1>6, <1>7, <1>8, <1>9, <1>10, <1>11, <1>12, <1>13,
     <1>14, <1>15, <1>16, <1>17, <1>18, <1>19, <1>20, <1>21, <1>22, <1>23, <1>24, <1>25, ZenonT(30)
     DEF JobStep

-----------------------------------------------------------------------------
(* Claims.                                                                 *)

\* Only the job that moves the attempt out of "queued" starts to launch.
LEMMA JobKeepsClaims ==
  ASSUME IInv, NEW j \in Jobs, JobStep(j)
  PROVE  Claims'
<1> USE DEF IInv, TypeOK, Claims, Launches, Monitors, LaunchSteps, FailSteps, EndSteps
<1>1. CASE Load(j)
  BY <1>1, SMTT(30) DEF Load, Errors, Finish, IdleJob, row, host, others, Terminal
<1>2. CASE ClaimAttempt(j)
  BY <1>2, SMTT(30) DEF ClaimAttempt, Transition, CAS, Goto, At, Errors, IdleJob, row, host, others
<1>3. CASE ReserveBilling(j)
  BY <1>3, SMTT(30) DEF ReserveBilling, At, Goto, row, host, others
<1>4. CASE InsertBillingWindow(j)
  BY <1>4 DEF InsertBillingWindow, At, Goto, row, host, others
<1>5. CASE LaunchAttempt(j)
  BY <1>5 DEF LaunchAttempt, Transition, CAS, Goto, At, Errors, IdleJob, row, host, others
<1>6. CASE AcquireLease(j)
  BY <1>6 DEF AcquireLease, At, Goto, row, others
<1>7. CASE RecordLeaseId(j)
  BY <1>7 DEF RecordLeaseId, RecordLease, Lose, At, Goto, host
<1>8. CASE WaitLeaseReady(j)
  BY <1>8 DEF WaitLeaseReady, ReleaseLease, Lose, At, Goto, row, host
<1>9. CASE StartExec(j)
  BY <1>9 DEF StartExec, At, Goto, row, others
<1>10. CASE RecordExecId(j)
  BY <1>10 DEF RecordExecId, RecordLease, Lose, At, Goto, host
<1>11. CASE Activate(j)
  BY <1>11 DEF Activate, At, Goto, row, others
<1>12. CASE MarkRunning(j)
  BY <1>12, SMTT(30) DEF MarkRunning, CAS, At, Errors, IdleJob, row, host, others
<1>13. CASE VoidReservation(j)
  BY <1>13 DEF VoidReservation, VoidWindow, Lose, At, Goto, row, host
<1>14. CASE MarkVoided(j)
  BY <1>14 DEF MarkVoided, MarkWindow, Lose, At, Goto, row, host
<1>15. CASE CleanupLease(j)
  BY <1>15 DEF CleanupLease, ReleaseLease, Lose, At, Goto, row
<1>16. CASE CleanupReservation(j)
  BY <1>16 DEF CleanupReservation, VoidWindow, Lose, At, Goto, row, host
<1>17. CASE Fail(j)
  BY <1>17 DEF Fail, FailAttempt, Finish, Errors, IdleJob, At, host, others
<1>18. CASE Defer(j)
  BY <1>18, SMTT(30) DEF Defer, Errors, IdleJob, At, row, host, others
<1>19. CASE BeginFinalize(j)
  BY <1>19, SMTT(30) DEF BeginFinalize, Transition, CAS, Goto, Errors, IdleJob, At, row, host, others
<1>20. CASE SettleBegin(j)
  BY <1>20 DEF SettleBegin, At, Goto, row, host, others
<1>21. CASE SettleEnd(j)
  BY <1>21, SMTT(15) DEF SettleEnd, At, Goto, row, host, others
<1>22. CASE SettleFailed(j)
  BY <1>22 DEF SettleFailed, FailAttempt, At, Goto, host, others
<1>23. CASE MarkSettled(j)
  BY <1>23, SMTT(30) DEF MarkSettled, MarkWindow, Lose, At, Goto, row, host
<1>24. CASE CompleteAttempt(j)
  BY <1>24, SMTT(30) DEF CompleteAttempt, CAS, At, Goto, Finish, IdleJob, row, host, others
<1>25. CASE Release(j)
  BY <1>25 DEF Release, ReleaseLease, Lose, At, Finish, Errors, IdleJob, row
<1> QED
  BY <1>1, <1>2, <1>3, <1>4, <1>5, <1>6, <1>7, <1>8, <1>9, <1>10, <1>11, <1>12, <1>13,
     <1>14, <1>15, <1>16, <1>17, <1>18, <1>19, <1>20, <1>21, <1>22, <1>23, <1>24, <1>25, ZenonT(30)
     DEF JobStep

-----------------------------------------------------------------------------
(* Money.                                                                  *)

\* A reservation, the only step that could replace a settled window, is made
\* before any settlement.
LEMMA JobKeepsMoney ==
  ASSUME IInv, NEW j \in Jobs, JobStep(j)
  PROVE  Money'
<1> USE DEF IInv, TypeOK, Claims, Money, SucceededIsSettled, LocalSettledIsSettled, Launches, Monitors,
          LaunchSteps, FailSteps, EndSteps, At
<1>1. CASE Load(j)
  BY <1>1, SMTT(30) DEF Load, Errors, Finish, IdleJob, row, host, others, Terminal
<1>2. CASE ClaimAttempt(j)
  BY <1>2 DEF ClaimAttempt, Transition, CAS, Goto, Errors, IdleJob, row, host, others
<1>3. CASE ReserveBilling(j)
  BY <1>3 DEF ReserveBilling, Goto, row, host, others
<1>4. CASE InsertBillingWindow(j)
  BY <1>4 DEF InsertBillingWindow, Goto, row, host, others
<1>5. CASE LaunchAttempt(j)
  BY <1>5 DEF LaunchAttempt, Transition, CAS, Goto, Errors, IdleJob, row, host, others
<1>6. CASE AcquireLease(j)
  BY <1>6 DEF AcquireLease, Goto, row, others
<1>7. CASE RecordLeaseId(j)
  BY <1>7, SMTT(30) DEF RecordLeaseId, RecordLease, Lose, Goto, host
<1>8. CASE WaitLeaseReady(j)
  BY <1>8 DEF WaitLeaseReady, ReleaseLease, Lose, Goto, row, host
<1>9. CASE StartExec(j)
  BY <1>9 DEF StartExec, Goto, row, others
<1>10. CASE RecordExecId(j)
  BY <1>10, SMTT(30) DEF RecordExecId, RecordLease, Lose, Goto, host
<1>11. CASE Activate(j)
  BY <1>11, SMTT(30) DEF Activate, Goto, row, others
<1>12. CASE MarkRunning(j)
  BY <1>12, SMTT(30) DEF MarkRunning, CAS, Errors, IdleJob, row, host, others
<1>13. CASE VoidReservation(j)
  BY <1>13 DEF VoidReservation, VoidWindow, Lose, Goto, row, host
<1>14. CASE MarkVoided(j)
  BY <1>14 DEF MarkVoided, MarkWindow, Lose, Goto, row, host
<1>15. CASE CleanupLease(j)
  BY <1>15 DEF CleanupLease, ReleaseLease, Lose, Goto, row
<1>16. CASE CleanupReservation(j)
  BY <1>16, SMTT(30) DEF CleanupReservation, VoidWindow, Lose, Goto, row, host
<1>17. CASE Fail(j)
  BY <1>17, SMTT(30) DEF Fail, FailAttempt, Finish, Errors, IdleJob, host, others
<1>18. CASE Defer(j)
  BY <1>18, SMTT(30) DEF Defer, Errors, IdleJob, row, host, others
<1>19. CASE BeginFinalize(j)
  BY <1>19, SMTT(30) DEF BeginFinalize, Transition, CAS, Goto, Errors, IdleJob, row, host, others
<1>20. CASE SettleBegin(j)
  BY <1>20, SMTT(30) DEF SettleBegin, Goto, row, host, others
<1>21. CASE SettleEnd(j)
  BY <1>21, SMTT(30) DEF SettleEnd, Goto, row, host, others
<1>22. CASE SettleFailed(j)
  BY <1>22 DEF SettleFailed, FailAttempt, Goto, host, others
<1>23. CASE MarkSettled(j)
  BY <1>23, SMTT(30) DEF MarkSettled, MarkWindow, Lose, Goto, row, host
<1>24. CASE CompleteAttempt(j)
  BY <1>24, SMTT(30) DEF CompleteAttempt, CAS, Goto, Finish, IdleJob, row, host, others
<1>25. CASE Release(j)
  BY <1>25 DEF Release, ReleaseLease, Lose, Finish, Errors, IdleJob, row
<1> QED
  BY <1>1, <1>2, <1>3, <1>4, <1>5, <1>6, <1>7, <1>8, <1>9, <1>10, <1>11, <1>12, <1>13,
     <1>14, <1>15, <1>16, <1>17, <1>18, <1>19, <1>20, <1>21, <1>22, <1>23, <1>24, <1>25, ZenonT(30)
     DEF JobStep

-----------------------------------------------------------------------------
(* Machine.                                                                *)

\* The failing job voids the window last.
LEMMA JobKeepsMachine ==
  ASSUME IInv, NEW j \in Jobs, JobStep(j)
  PROVE  Machine'
<1> USE DEF IInv, TypeOK, Claims, Machine, Unstarted, VoidedMeansStopped, Launches, Monitors,
          LaunchSteps, FailSteps, EndSteps, At
<1>1. CASE Load(j)
  BY <1>1, SMTT(30) DEF Load, Errors, Finish, IdleJob, row, host, others, Terminal
<1>2. CASE ClaimAttempt(j)
  BY <1>2, SMTT(15) DEF ClaimAttempt, Transition, CAS, Goto, Errors, IdleJob, row, host, others
<1>3. CASE ReserveBilling(j)
  BY <1>3 DEF ReserveBilling, Goto, row, host, others
<1>4. CASE InsertBillingWindow(j)
  BY <1>4 DEF InsertBillingWindow, Goto, row, host, others
<1>5. CASE LaunchAttempt(j)
  BY <1>5, SMTT(30) DEF LaunchAttempt, Transition, CAS, Goto, Errors, IdleJob, row, host, others
<1>6. CASE AcquireLease(j)
  BY <1>6, SMTT(30) DEF AcquireLease, Goto, row, others
<1>7. CASE RecordLeaseId(j)
  BY <1>7 DEF RecordLeaseId, RecordLease, Lose, Goto, host
<1>8. CASE WaitLeaseReady(j)
  BY <1>8, SMTT(30) DEF WaitLeaseReady, ReleaseLease, Lose, Goto, row, host
<1>9. CASE StartExec(j)
  BY <1>9, SMTT(30) DEF StartExec, Goto, row, others
<1>10. CASE RecordExecId(j)
  BY <1>10, SMTT(30) DEF RecordExecId, RecordLease, Lose, Goto, host
<1>11. CASE Activate(j)
  BY <1>11, SMTT(30) DEF Activate, Goto, row, others
<1>12. CASE MarkRunning(j)
  BY <1>12, SMTT(30) DEF MarkRunning, CAS, Errors, IdleJob, row, host, others
<1>13. CASE VoidReservation(j)
  BY <1>13 DEF VoidReservation, VoidWindow, Lose, Goto, row, host
<1>14. CASE MarkVoided(j)
  BY <1>14, SMTT(30) DEF MarkVoided, MarkWindow, Lose, Goto, row, host
<1>15. CASE CleanupLease(j)
  BY <1>15, SMTT(30) DEF CleanupLease, ReleaseLease, Lose, Goto, row
<1>16. CASE CleanupReservation(j)
  BY <1>16, SMTT(30) DEF CleanupReservation, VoidWindow, Lose, Goto, row, host
<1>17. CASE Fail(j)
  BY <1>17, SMTT(30) DEF Fail, FailAttempt, Finish, Errors, IdleJob, host, others
<1>18. CASE Defer(j)
  BY <1>18, SMTT(15) DEF Defer, Errors, IdleJob, row, host, others
<1>19. CASE BeginFinalize(j)
  BY <1>19, SMTT(30) DEF BeginFinalize, Transition, CAS, Goto, Errors, IdleJob, row, host, others
<1>20. CASE SettleBegin(j)
  BY <1>20, SMTT(30) DEF SettleBegin, Goto, row, host, others
<1>21. CASE SettleEnd(j)
  BY <1>21, SMTT(30) DEF SettleEnd, Goto, row, host, others
<1>22. CASE SettleFailed(j)
  BY <1>22, SMTT(30) DEF SettleFailed, FailAttempt, Goto, host, others
<1>23. CASE MarkSettled(j)
  BY <1>23 DEF MarkSettled, MarkWindow, Lose, Goto, row, host
<1>24. CASE CompleteAttempt(j)
  BY <1>24, SMTT(30) DEF CompleteAttempt, CAS, Goto, Finish, IdleJob, row, host, others
<1>25. CASE Release(j)
  BY <1>25, SMTT(30) DEF Release, ReleaseLease, Lose, Finish, Errors, IdleJob, row
<1> QED
  BY <1>1, <1>2, <1>3, <1>4, <1>5, <1>6, <1>7, <1>8, <1>9, <1>10, <1>11, <1>12, <1>13,
     <1>14, <1>15, <1>16, <1>17, <1>18, <1>19, <1>20, <1>21, <1>22, <1>23, <1>24, <1>25, ZenonT(30)
     DEF JobStep

-----------------------------------------------------------------------------
(* The other steps.                                                        *)

\* An inserted job has not started.
LEMMA Enqueued ==
  ASSUME TypeOK, Enqueue
  PROVE  \A j \in Jobs : job'[j].st = "run" => job'[j] = job[j]
<1>1. CASE \E j \in Jobs : job[j].st = "none"
  <2> DEFINE k == CHOOSE j \in Jobs : job[j].st = "none"
  <2>1. k \in Jobs /\ job' = [job EXCEPT ![k] = [IdleJob EXCEPT !.st = "ready"]]
    BY <1>1, Zenon DEF Enqueue
  <2> HIDE DEF k
  <2> QED
    BY <2>1, Zenon DEF TypeOK, IdleJob
<1>2. CASE ~ \E j \in Jobs : job[j].st = "none"
  BY <1>2, Zenon DEF Enqueue, TypeOK
<1> QED
  BY <1>1, <1>2, Zenon

RecRecords == [pc : {"idle", "load", "look", "release", "local", "fail"},
               kind : {"none", "reserved", "launching", "leased", "cleaned"},
               monitor : BOOLEAN, leased : BOOLEAN, window : BOOLEAN]

\* A pass of the reconciler keeps its type.
LEMMA RecTypes ==
  ASSUME TypeOK, RecStep \/ RecStop
  PROVE  rec' \in RecRecords
<1>1. rec \in RecRecords /\ leaseId \in BOOLEAN
  BY Zenon DEF TypeOK, RecRecords
<1>2. IdleRec \in RecRecords /\ [IdleRec EXCEPT !.pc = "fail"] \in RecRecords
  BY Zenon DEF IdleRec, RecRecords
<1>3. ASSUME NEW kind \in {"reserved", "launching", "leased", "cleaned"}, RecList(kind)
      PROVE  rec' \in RecRecords
  BY <1>1, <1>3, Zenon DEF RecList, RecRecords
<1>4. CASE RecLoad
  <2>1. \A b \in BOOLEAN : /\ [rec EXCEPT !.pc = "look", !.monitor = b] \in RecRecords
                           /\ [rec EXCEPT !.pc = "release", !.leased = b] \in RecRecords
    BY <1>1, Zenon DEF RecRecords
  <2>2. [rec EXCEPT !.pc = "local"] \in RecRecords
    BY <1>1, Zenon DEF RecRecords
  <2>3. (attempt \in {"running", "finalizing"}) \in BOOLEAN
    OBVIOUS
  <2> QED
    BY <1>1, <1>4, <2>1, <2>2, <2>3, Zenon DEF RecLoad
<1>5. CASE RecLook
  BY <1>1, <1>2, <1>5, Zenon DEF RecLook, RecRecords
<1>6. CASE RecRelease
  BY <1>1, <1>6, Zenon DEF RecRelease, RecRecords
<1>7. CASE RecLocal
  BY <1>2, <1>7, Zenon DEF RecLocal
<1>8. CASE RecFail \/ RecStop
  BY <1>2, <1>8, Zenon DEF RecFail, RecStop
<1> QED
  BY <1>3, <1>4, <1>5, <1>6, <1>7, <1>8, Zenon DEF RecStep

\* What a step of anyone but a job does: no job starts or moves, the attempt is
\* submitted or failed, the host and billing finish what they have begun.
Quiet ==
  /\ \A j \in Jobs : job'[j].st = "run" => job'[j] = job[j]
  /\ \/ attempt' \in {attempt, "failed"}
     \/ attempt = "none" /\ attempt' = "queued"
  /\ bwin' = bwin \/ (bwin = "settling" /\ bwin' = "settled")
  /\ lwin' \in {lwin, "voided"}
  /\ lease' = lease \/ (lease = "live" /\ lease' = "ended")
  /\ exec' = exec \/ (exec = "running" /\ exec' = "ended")
  /\ fault' = fault \/ fault = "none"

\* A quiet step keeps the invariant.
LEMMA QuietKeeps ==
  ASSUME IInv, TypeOK', Quiet
  PROVE  IInv'
<1> USE DEF Quiet, IInv
<1>1. Claims'
  BY Zenon DEF Claims, Launches, Monitors
<1>2. Money'
  BY Zenon DEF Claims, Money, Launches, Monitors, EndSteps, At, SucceededIsSettled, LocalSettledIsSettled
<1>3. Machine'
  BY Zenon DEF Claims, Machine, Launches, LaunchSteps, At, VoidedMeansStopped
<1> QED
  BY <1>1, <1>2, <1>3, Zenon

\* The steps of anyone but a job are quiet.
LEMMA OthersQuiet ==
  ASSUME IInv,
         \/ Submit \/ (\E j \in Jobs : Stop(j) \/ Rescue(j)) \/ RecStep \/ RecStop
         \/ ExecEnds \/ LeaseEnds \/ BillingFinishes \/ AllocationFails \/ UNCHANGED vars
  PROVE  TypeOK' /\ Quiet
<1> USE DEF IInv
<1>1. CASE Submit
  <2>1. PICK j \in Jobs : TRUE
    BY JobsAssumption, Zenon
  <2>2. job' \in [Jobs -> JobRecords]
    BY <1>1, JobWrites, Zenon DEF Submit
  <2>3. \A k \in Jobs : job'[k].st = "run" => job'[k] = job[k]
    BY <1>1, Enqueued, Zenon DEF Submit
  <2> QED
    BY <1>1, <2>2, <2>3 DEF Submit, TypeOK, JobRecords, Quiet, host, others
<1>2. ASSUME NEW j \in Jobs, Stop(j) PROVE TypeOK' /\ Quiet
  <2>1. job' \in [Jobs -> JobRecords]
    BY <1>2, JobWrites, Zenon DEF Stop
  <2>2. \A k \in Jobs : job'[k].st = "run" => job'[k] = job[k]
    BY <1>2 DEF Stop, Errors, IdleJob, TypeOK
  <2> QED
    BY <1>2, <2>1, <2>2 DEF Stop, TypeOK, JobRecords, Quiet, row, host, others
<1>3. ASSUME NEW j \in Jobs, Rescue(j) PROVE TypeOK' /\ Quiet
  <2>1. job' \in [Jobs -> JobRecords]
    BY <1>3, JobWrites, Zenon DEF Rescue
  <2>2. \A k \in Jobs : job'[k].st = "run" => job'[k] = job[k]
    BY <1>3, Enqueued, Zenon DEF Rescue
  <2> QED
    BY <1>3, <2>1, <2>2 DEF Rescue, Lose, TypeOK, JobRecords, Quiet, row, host
<1>4. CASE RecStep \/ RecStop
  <2>1. rec' \in RecRecords
    BY <1>4, RecTypes, Zenon
  <2>2. CASE \E kind \in {"reserved", "launching", "leased", "cleaned"} : RecList(kind)
    BY <2>1, <2>2 DEF RecList, TypeOK, RecRecords, Quiet, row, host
  <2>3. CASE RecLoad
    BY <2>1, <2>3 DEF RecLoad, TypeOK, RecRecords, Quiet, row, host
  <2>4. CASE RecLook
    <3>1. CASE Enqueue
      <4>1. PICK j \in Jobs : TRUE
        BY JobsAssumption, Zenon
      <4>2. job' \in [Jobs -> JobRecords]
        BY <3>1, JobWrites, Zenon
      <4>3. \A k \in Jobs : job'[k].st = "run" => job'[k] = job[k]
        BY <3>1, Enqueued, Zenon
      <4> QED
        BY <2>1, <2>4, <4>2, <4>3, SMTT(30) DEF RecLook, TypeOK, JobRecords, RecRecords, Quiet, row, host
    <3>2. CASE UNCHANGED job
      BY <2>1, <2>4, <3>2 DEF RecLook, TypeOK, RecRecords, Quiet, row, host
    <3> QED
      BY <2>4, <3>1, <3>2, Zenon DEF RecLook
  <2>5. CASE RecRelease
    BY <2>1, <2>5 DEF RecRelease, ReleaseLease, Lose, TypeOK, RecRecords, Quiet, row, host
  <2>6. CASE RecLocal
    BY <2>1, <2>6 DEF RecLocal, MarkWindow, Lose, TypeOK, RecRecords, Quiet, row, host
  <2>7. CASE RecFail
    BY <2>1, <2>7 DEF RecFail, FailAttempt, TypeOK, Terminal, RecRecords, Quiet, host
  <2>8. CASE RecStop
    BY <2>1, <2>8 DEF RecStop, Lose, TypeOK, RecRecords, Quiet, row, host
  <2> QED
    BY <1>4, <2>2, <2>3, <2>4, <2>5, <2>6, <2>7, <2>8, Zenon DEF RecStep
<1>5. CASE ExecEnds
  BY <1>5 DEF ExecEnds, TypeOK, Quiet, row, others
<1>6. CASE LeaseEnds
  BY <1>6 DEF LeaseEnds, TypeOK, Quiet, row, others
<1>7. CASE BillingFinishes
  BY <1>7 DEF BillingFinishes, TypeOK, Quiet, row, host, others
<1>8. CASE AllocationFails
  BY <1>8 DEF AllocationFails, FailAttempt, TypeOK, Terminal, Quiet, host, others
<1>9. CASE UNCHANGED vars
  BY <1>9 DEF vars, TypeOK, Quiet
<1> QED
  BY <1>1, <1>2, <1>3, <1>4, <1>5, <1>6, <1>7, <1>8, <1>9, Zenon

-----------------------------------------------------------------------------
(* The theorems.                                                           *)

\* The invariant holds of the attempt before it is submitted.
LEMMA InitInv == Init => IInv
<1> SUFFICES ASSUME Init PROVE IInv
  BY Zenon
<1> USE DEF Init
<1>1. TypeOK
  <2>1. IdleJob \in JobRecords
    BY Zenon DEF IdleJob, JobRecords, Steps
  <2>2. IdleRec \in RecRecords
    BY Zenon DEF IdleRec, RecRecords
  <2>3. job \in [Jobs -> JobRecords] /\ rec \in RecRecords
    BY <2>1, <2>2, Zenon
  <2> QED
    BY <2>3, Zenon DEF TypeOK, JobRecords, RecRecords, Active, Terminal
<1>2. \A j \in Jobs : job[j].st # "run"
  BY Zenon DEF IdleJob
<1> QED
  BY <1>1, <1>2, Zenon DEF IInv, Claims, Launches, Monitors, Money, Machine, At, SucceededIsSettled,
                    LocalSettledIsSettled, VoidedMeansStopped

\* The invariant is inductive.
THEOREM Invariance == Spec => []IInv
<1>1. IInv /\ [Next]_vars => IInv'
  <2> SUFFICES ASSUME IInv, [Next]_vars PROVE IInv'
    BY Zenon
  <2>1. ASSUME NEW j \in Jobs, JobStep(j) PROVE IInv'
    BY <2>1, JobKeepsTypes, JobKeepsClaims, JobKeepsMoney, JobKeepsMachine, Zenon DEF IInv
  <2> QED
    BY <2>1, OthersQuiet, QuietKeeps, Zenon DEF Next
<1> QED
  BY InitInv, <1>1, PTL DEF Spec

\* Types: every row, window and job is in a state the code knows.
THEOREM TypeCorrect == Spec => []TypeOK
BY Invariance, PTL DEF IInv

\* A successful attempt was paid for, whatever jobs, reconciler and voids do.
THEOREM SucceededPaid == Spec => []SucceededIsSettled
BY Invariance, PTL DEF IInv, Money

\* The local row never runs ahead of billing.
THEOREM LocalAgrees == Spec => []LocalSettledIsSettled
BY Invariance, PTL DEF IInv, Money

\* A window is voided only after its VM is gone or by a lost ReleaseLease.
THEOREM VoidedStopped == Spec => []VoidedMeansStopped
BY Invariance, PTL DEF IInv, Machine

\* At most one job launches the attempt.
THEOREM SingleLauncher == Spec => []OneLauncher
<1>1. IInv => OneLauncher
  <2> SUFFICES ASSUME IInv PROVE OneLauncher
    BY Zenon
  <2> DEFINE S == {j \in Jobs : job[j].st = "run" /\ job[j].pc \in LaunchSteps}
  <2>1. \A j, k \in S : j = k
    BY Zenon DEF IInv, Claims, Launches
  <2>2. CASE S = {}
    BY <2>2, FS_EmptySet DEF OneLauncher
  <2>3. ASSUME NEW j \in S PROVE Cardinality(S) <= 1
    <3>1. S = {j}
      BY <2>1, Zenon
    <3>2. Cardinality({j}) = 1
      BY FS_Singleton, Zenon
    <3> HIDE DEF S
    <3> QED
      BY <3>1, <3>2
  <2> QED
    BY <2>2, <2>3, Zenon DEF OneLauncher
<1> QED
  BY Invariance, <1>1, PTL

\* No step revives a finished attempt: the compare-and-swaps name the state
\* they leave, and failAttempt writes only "failed".
THEOREM FinishedStays == Spec => NeverRevived
<1>1. IInv /\ [Next]_vars => [(attempt \in Terminal) => attempt' \in {attempt, "failed"}]_vars
  <2> SUFFICES ASSUME IInv, Next, attempt \in Terminal
               PROVE  attempt' \in {attempt, "failed"}
    BY Zenon DEF vars
  <2> USE DEF Terminal
  <2>1. ASSUME NEW j \in Jobs, JobStep(j) PROVE attempt' \in {attempt, "failed"}
    BY <2>1, Zenon DEF JobStep, Load, ClaimAttempt, ReserveBilling, InsertBillingWindow, LaunchAttempt, AcquireLease,
                RecordLeaseId, WaitLeaseReady, StartExec, RecordExecId, Activate, MarkRunning,
                VoidReservation, MarkVoided, CleanupLease, CleanupReservation, Fail, Defer,
                BeginFinalize, SettleBegin, SettleEnd, SettleFailed, MarkSettled, CompleteAttempt,
                Release,
                Transition, RecordLease, CAS, FailAttempt, row
  <2> QED
    BY <2>1, Zenon DEF Next, Submit, Stop, Rescue, RecStep, RecList, RecLoad, RecLook, RecRelease, RecLocal,
                RecFail, RecStop, ExecEnds, LeaseEnds, BillingFinishes, AllocationFails,
                FailAttempt, row
<1> QED
  BY Invariance, <1>1, PTL DEF Spec, NeverRevived
-----------------------------------------------------------------------------
(* The attempt and its window.                                             *)

\* The window of the attempt as WindowContract has it.  What the grants pay for it
\* is billing's and not seen here: nothing of the bill is told apart, and the payment
\* does not show.
Contract == INSTANCE WindowContract
    WITH Windows <- {"window"}, Grants <- {}, Legs <- {0}, NoLegs <- 0,
         window <- [w \in {"window"} |-> bwin], legs <- [w \in {"window"} |-> 0],
         paid <- {}, debits <- [g \in {} |-> 0]

\* The calls of an attempt's jobs, with every retry, error and late answer, find the
\* window as the contract of the window API allows: it is reserved once, only a held
\* window is activated, voided or settled, and the end of a settlement finds it begun.
FollowsContract == Contract!Spec

\* A job reserves a window that does not exist, and between the two steps of its
\* settlement the window stays settled or settling.
Calls ==
  /\ \A j \in Jobs : At(j, "reserve") => bwin = "absent"
  /\ \A j \in Jobs : At(j, "settling") => bwin \in {"settling", "settled"}

\* What a step of a job may do to the window.
Moves ==
  \/ bwin' = bwin
  \/ bwin = "absent" /\ bwin' = "reserved"
  \/ bwin = "reserved" /\ bwin' = "active"
  \/ bwin \in {"reserved", "active"} /\ bwin' \in {"voided", "settling"}
  \/ bwin = "settling" /\ bwin' = "settled"

\* Only the job that claimed the attempt reserves, and no job that could void the
\* window or reserve it anew is there while another settles it.
LEMMA JobFollows ==
  ASSUME IInv, Calls, NEW j \in Jobs, JobStep(j)
  PROVE  Calls' /\ Moves
<1> USE DEF IInv, TypeOK, Claims, Money, Calls, Moves, Launches, Monitors, LaunchSteps, FailSteps, EndSteps, At
<1>1. CASE Load(j)
  BY <1>1, SMTT(30) DEF Load, Errors, Finish, IdleJob
<1>2. CASE ClaimAttempt(j)
  BY <1>2 DEF ClaimAttempt, Transition, CAS, Goto, Errors, IdleJob
<1>3. CASE ReserveBilling(j)
  BY <1>3, SMTT(30) DEF ReserveBilling, Goto
<1>4. CASE InsertBillingWindow(j)
  BY <1>4, SMTT(30) DEF InsertBillingWindow, Goto
<1>5. CASE LaunchAttempt(j)
  BY <1>5, SMTT(30) DEF LaunchAttempt, Transition, CAS, Goto, Errors, IdleJob
<1>6. CASE AcquireLease(j)
  BY <1>6, SMTT(30) DEF AcquireLease, Goto
<1>7. CASE RecordLeaseId(j)
  BY <1>7, SMTT(30) DEF RecordLeaseId, RecordLease, Goto
<1>8. CASE WaitLeaseReady(j)
  BY <1>8 DEF WaitLeaseReady, Goto
<1>9. CASE StartExec(j)
  BY <1>9, SMTT(30) DEF StartExec, Goto
<1>10. CASE RecordExecId(j)
  BY <1>10, SMTT(30) DEF RecordExecId, RecordLease, Goto
<1>11. CASE Activate(j)
  BY <1>11, SMTT(30) DEF Activate, Goto
<1>12. CASE MarkRunning(j)
  BY <1>12, SMTT(40) DEF MarkRunning, Errors, IdleJob
<1>13. CASE VoidReservation(j)
  BY <1>13 DEF VoidReservation, VoidWindow, Goto
<1>14. CASE MarkVoided(j)
  BY <1>14, SMTT(30) DEF MarkVoided, Goto
<1>15. CASE CleanupLease(j)
  BY <1>15, SMTT(30) DEF CleanupLease, Goto
<1>16. CASE CleanupReservation(j)
  BY <1>16, SMTT(30) DEF CleanupReservation, VoidWindow, Goto
<1>17. CASE Fail(j)
  BY <1>17, SMTT(30) DEF Fail, Finish, Errors, IdleJob
<1>18. CASE Defer(j)
  BY <1>18, SMTT(30) DEF Defer, Errors, IdleJob
<1>19. CASE BeginFinalize(j)
  BY <1>19, SMTT(30) DEF BeginFinalize, Transition, Goto, Errors, IdleJob
<1>20. CASE SettleBegin(j)
  BY <1>20, SMTT(30) DEF SettleBegin, Goto
<1>21. CASE SettleEnd(j)
  BY <1>21, SMTT(30) DEF SettleEnd, Goto
<1>22. CASE SettleFailed(j)
  BY <1>22, SMTT(30) DEF SettleFailed, Goto
<1>23. CASE MarkSettled(j)
  BY <1>23, SMTT(30) DEF MarkSettled, Goto
<1>24. CASE CompleteAttempt(j)
  BY <1>24, SMTT(30) DEF CompleteAttempt, Goto, Finish, IdleJob
<1>25. CASE Release(j)
  BY <1>25, SMTT(30) DEF Release, Finish, Errors, IdleJob
<1> QED
  BY <1>1, <1>2, <1>3, <1>4, <1>5, <1>6, <1>7, <1>8, <1>9, <1>10, <1>11, <1>12, <1>13,
     <1>14, <1>15, <1>16, <1>17, <1>18, <1>19, <1>20, <1>21, <1>22, <1>23, <1>24, <1>25, ZenonT(30)
     DEF JobStep

\* An attempt's jobs, its retries, the reconciler and billing's own progress move the
\* window as WindowContract allows, for any number of jobs (reserveBilling,
\* activateBillingWindow, voidBillingWindow, settleBillingWindow of jobs.go).
THEOREM ContractFollowed == Spec => FollowsContract
<1>1. Init => Calls /\ Contract!Init
  <2> SUFFICES ASSUME Init PROVE Calls /\ Contract!Init
    BY Zenon
  <2>1. Calls
    BY Zenon DEF Init, Calls, At, IdleJob
  <2>2. Contract!Init
    BY Zenon DEF Init, Contract!Init
  <2> QED
    BY <2>1, <2>2
<1>2. ASSUME IInv, Calls, [Next]_vars PROVE Calls' /\ Moves
  <2>1. ASSUME NEW j \in Jobs, JobStep(j) PROVE Calls' /\ Moves
    BY <1>2, <2>1, JobFollows, Zenon
  <2>2. ASSUME Quiet PROVE Calls' /\ Moves
    BY <1>2, <2>2, Zenon DEF Quiet, Calls, Moves, At
  <2> QED
    BY <1>2, <2>1, <2>2, OthersQuiet, Zenon DEF Next
<1>3. ASSUME Moves PROVE [Contract!Next]_(Contract!cvars)
  <2> DEFINE old == [w \in {"window"} |-> bwin]
             new == [w \in {"window"} |-> bwin']
             bill == [w \in {"window"} |-> 0]
  <2>1. /\ old["window"] = bwin /\ new = [old EXCEPT !["window"] = bwin']
        /\ bill = [bill EXCEPT !["window"] = 0]
    BY Zenon
  <2>2. CASE bwin' = bwin
    BY <2>2, Zenon DEF Contract!cvars
  <2>3. CASE bwin = "absent" /\ bwin' = "reserved"
    BY <2>1, <2>3, Zenon DEF Contract!Next, Contract!Reserve, Contract!Move
  <2>4. CASE bwin = "reserved" /\ bwin' = "active"
    BY <2>1, <2>4, Zenon DEF Contract!Next, Contract!Activate, Contract!Move
  <2>5. CASE bwin \in {"reserved", "active"} /\ bwin' = "voided"
    BY <2>1, <2>5, Zenon DEF Contract!Next, Contract!Void, Contract!Move
  <2>6. CASE bwin \in {"reserved", "active"} /\ bwin' = "settling"
    BY <2>1, <2>6, Zenon DEF Contract!Next, Contract!Prepare, Contract!Move
  <2>7. CASE bwin = "settling" /\ bwin' = "settled"
    BY <2>1, <2>7, Zenon DEF Contract!Next, Contract!Finish, Contract!Move
  <2> QED
    BY <1>3, <2>2, <2>3, <2>4, <2>5, <2>6, <2>7, Zenon DEF Moves
<1>4. IInv /\ Calls /\ [Next]_vars => Calls' /\ [Contract!Next]_(Contract!cvars)
  BY <1>2, <1>3, Zenon
<1> QED
  BY <1>1, <1>4, Invariance, PTL DEF Spec, FollowsContract, Contract!Spec

-----------------------------------------------------------------------------
(* Runner allocations.                                                     *)

\* An allocation whose row has not been inserted has left no trace anywhere.
Unborn(a) == sub[a] \in {"none", "checked"}

\* A row, a runner that was registered, an attempt, a config and a cleanup all
\* come after the insert; the last three after the submission.
Births ==
  /\ \A a \in Allocations : Unborn(a) => state[a] = "none" /\ cleanup[a] = "none"
  /\ \A a \in Allocations : attemptOf[a] # "none" \/ config[a] # "none" => sub[a] = "done"
  /\ \A a \in Allocations : delivered[a] = 1 => sub[a] = "done" /\ config[a] # "open"
  /\ \A j \in ProviderJobs : gh[j].runner # None => delivered[gh[j].runner] = 1
  /\ \A j \in ProviderJobs : jobRow[j].runner # None => delivered[jobRow[j].runner] = 1

\* A secret is written once, before its config exists, and gone when a consume
\* has fetched it.
Secrets ==
  /\ \A a \in secret : sub[a] \notin {"none", "checked", "inserted"}
  /\ \A a \in fetch : a \notin secret
  /\ DeliveredIsGone
  /\ SecretIsOwned

\* OneRunnerPerQueuedJob without Cardinality.
Unique ==
  \A a, b \in Allocations :
    state[a] \in Unassigned /\ state[b] \in Unassigned /\ origin[a] = origin[b] => a = b

RunnersInv == RunnersTypeOK /\ Births /\ Secrets /\ Unique

-----------------------------------------------------------------------------
\* What EnqueueCleanup may do to the table of cleanups.
LEMMA Enqueues ==
  ASSUME RunnersTypeOK, NEW a \in Allocations, EnqueueCleanup(a)
  PROVE  /\ cleanup' \in [Allocations -> {"none", "queued", "marked"}]
         /\ \A b \in Allocations : b # a => cleanup'[b] = cleanup[b]
         /\ faulted => faulted'
         /\ faulted' \in BOOLEAN
<1>1. \A b \in Allocations : b # a => cleanup'[b] = cleanup[b]
  BY ZenonT(40) DEF EnqueueCleanup, RunnersTypeOK
<1>2. cleanup' \in [Allocations -> {"none", "queued", "marked"}]
  BY ZenonT(50) DEF EnqueueCleanup, RunnersTypeOK
<1>3. faulted => faulted'
  BY Zenon DEF EnqueueCleanup, Fine, Fault
<1>4. faulted' \in BOOLEAN
  BY Zenon DEF EnqueueCleanup, Fine, Fault, RunnersTypeOK
<1> QED
  BY <1>1, <1>2, <1>3, <1>4, Zenon

\* The types are kept.
LEMMA KeepsTypes ==
  ASSUME RunnersInv, [RunnersNext]_runnersVars
  PROVE  RunnersTypeOK'
<1>0. ASSUME NEW b \in Allocations, EnqueueCleanup(b)
      PROVE  /\ cleanup' \in [Allocations -> {"none", "queued", "marked"}]
             /\ \A c \in Allocations : c # b => cleanup'[c] = cleanup[c]
             /\ faulted => faulted'
             /\ faulted' \in BOOLEAN
  BY <1>0, Enqueues, Zenon DEF RunnersInv
<1> USE AllocationsAssumption DEF RunnersInv, RunnersTypeOK, States, Expirable, Unassigned, Attachable
<1>1. ASSUME NEW a \in Allocations, NEW j \in ProviderJobs, SubmitBegin(a, j) PROVE RunnersTypeOK'
  <2>1. Unseen \in JobStates
    BY Zenon DEF Unseen, JobStates, Status
  <2>2. jobRow' \in [ProviderJobs -> JobStates]
    BY <1>1, <2>1, Zenon DEF SubmitBegin
  <2>3. /\ sub' \in [Allocations -> {"none", "checked", "inserted", "put", "failed", "done"}]
        /\ origin' \in [Allocations -> ProviderJobs \cup {None}]
    BY <1>1, SMTT(30) DEF SubmitBegin
  <2> QED
    BY <1>1, <2>2, <2>3, Zenon DEF SubmitBegin, bootstrap
<1>2. ASSUME NEW a \in Allocations, SubmitInsert(a) PROVE RunnersTypeOK'
  BY <1>2 DEF SubmitInsert, provider, bootstrap, ActiveFor
<1>3. ASSUME NEW a \in Allocations, SubmitPut(a) PROVE RunnersTypeOK'
  <2>1. sub' \in [Allocations -> {"none", "checked", "inserted", "put", "failed", "done"}]
    BY <1>3 DEF SubmitPut
  <2>2. secret' \subseteq Allocations
    <3>1. secret' \in {secret, secret \cup {a}}
      BY <1>3, Zenon DEF SubmitPut
    <3> QED
      BY <3>1
  <2> QED
    BY <1>3, <2>1, <2>2, Zenon DEF SubmitPut, provider
<1>4. ASSUME NEW a \in Allocations, SubmitAttach(a) PROVE RunnersTypeOK'
  <2>1. /\ state' \in [Allocations -> States]
        /\ config' \in [Allocations -> {"none", "open", "consumed"}]
        /\ attemptOf' \in [Allocations -> {"none", "live", "done"}]
    BY <1>4 DEF SubmitAttach
  <2>2. sub' \in [Allocations -> {"none", "checked", "inserted", "put", "failed", "done"}]
    BY <1>4 DEF SubmitAttach
  <2>3. secret' \subseteq Allocations /\ faulted' \in BOOLEAN
    BY <1>4, Zenon DEF SubmitAttach, Fine, Fault
  <2>4. fetch' \subseteq {b \in Allocations : config'[b] = "open"}
    BY <1>4, ZenonT(60) DEF SubmitAttach
  <2> QED
    BY <1>4, <2>1, <2>2, <2>3, <2>4, Zenon DEF SubmitAttach, provider
<1>5. ASSUME NEW a \in Allocations, SubmitFailed(a) PROVE RunnersTypeOK'
  BY <1>5, <1>0 DEF SubmitFailed, provider, bootstrap, Failable
<1>6. ASSUME NEW a \in Allocations, SubmitDies(a) PROVE RunnersTypeOK'
  BY <1>6, Zenon DEF SubmitDies, provider, bootstrap, Fault
<1>7. ASSUME NEW a \in Allocations, FetchSecret(a) PROVE RunnersTypeOK'
  BY <1>7 DEF FetchSecret, provider, bootstrap
<1>8. ASSUME NEW a \in Allocations, FetchCommit(a) PROVE RunnersTypeOK'
  <2>1. config[a] = "open" /\ delivered[a] = 0
    BY <1>8, SMTT(30) DEF FetchCommit, Births
  <2>2. delivered' \in [Allocations -> 0 .. 1]
    BY <1>8, <2>1, SMTT(30) DEF FetchCommit
  <2>3. /\ state' \in [Allocations -> States]
        /\ config' \in [Allocations -> {"none", "open", "consumed"}]
    BY <1>8, SMTT(30) DEF FetchCommit
  <2>4. fetch' \subseteq {b \in Allocations : config'[b] = "open"}
    BY <1>8 DEF FetchCommit
  <2> QED
    BY <1>8, <2>2, <2>3, <2>4, Zenon DEF FetchCommit, provider
<1>9. ASSUME NEW a \in Allocations, NEW j \in ProviderJobs, TakeJob(a, j) PROVE RunnersTypeOK'
  BY <1>9, Zenon DEF TakeJob, provider, bootstrap, JobStates, Status
<1>10. ASSUME NEW j \in ProviderJobs, EndJob(j) PROVE RunnersTypeOK'
  <2>1. [gh[j] EXCEPT !.status = "completed"] \in JobStates
    BY SMTT(30) DEF JobStates, Status
  <2>2. gh' \in [ProviderJobs -> JobStates]
    BY <1>10, <2>1, Zenon DEF EndJob
  <2> QED
    BY <1>10, <2>2, Zenon DEF EndJob, bootstrap
<1>11. ASSUME NEW j \in ProviderJobs, NEW s \in Status, Observe(j, s) PROVE RunnersTypeOK'
  BY <1>11 DEF Observe, provider, bootstrap, JobStates, Status
<1>12. ASSUME NEW j \in ProviderJobs, Bind(j) PROVE RunnersTypeOK'
  <2>1. jobRow[j].runner \in Allocations \cup {None}
    BY ZenonT(60) DEF JobStates
  <2>2. bound' \in [ProviderJobs -> Allocations \cup {None}]
    BY <1>12, <2>1 DEF Bind
  <2>3. state' \in [Allocations -> States]
    BY <1>12, <2>1 DEF Bind, Assigned
  <2>4. cleanup' \in [Allocations -> {"none", "queued", "marked"}] /\ faulted' \in BOOLEAN
    <3>1. \/ jobRow[j].runner # None /\ EnqueueCleanup(jobRow[j].runner)
          \/ cleanup' = cleanup /\ faulted' = faulted
      BY <1>12, Zenon DEF Bind
    <3>2. CASE cleanup' = cleanup /\ faulted' = faulted
      BY <3>2, Zenon
    <3>3. CASE jobRow[j].runner # None /\ EnqueueCleanup(jobRow[j].runner)
      <4>1. jobRow[j].runner \in Allocations
        BY <2>1, <3>3, Zenon
      <4> QED
        BY <1>0, <3>3, <4>1, ZenonT(30)
    <3> QED
      BY <3>1, <3>2, <3>3, Zenon
  <2>5. bind' \subseteq ProviderJobs
    BY <1>12, Zenon DEF Bind
  <2> QED
    BY <1>12, <2>2, <2>3, <2>4, <2>5, ZenonT(30) DEF Bind, bootstrap
<1>13. ASSUME NEW a \in Allocations, AttemptEnds(a) PROVE RunnersTypeOK'
  <2>1. attemptOf' \in [Allocations -> {"none", "live", "done"}]
    BY <1>13, Zenon DEF AttemptEnds
  <2>2. state' \in [Allocations -> States]
    BY <1>13, SMTT(30) DEF AttemptEnds, Exited
  <2>3. cleanup' \in [Allocations -> {"none", "queued", "marked"}] /\ faulted' \in BOOLEAN
    <3>1. EnqueueCleanup(a) \/ (cleanup' = cleanup /\ faulted' = TRUE)
      BY <1>13, Zenon DEF AttemptEnds, Fault
    <3>2. faulted' \in BOOLEAN
      BY <1>0, <3>1, Zenon
    <3> QED
      BY <1>0, <3>1, <3>2, SMTT(30)
  <2> QED
    BY <1>13, <2>1, <2>2, <2>3, Zenon DEF AttemptEnds, provider, bootstrap
<1>14. ASSUME NEW a \in Allocations, CleanupMark(a) PROVE RunnersTypeOK'
  BY <1>14, Zenon DEF CleanupMark, provider, bootstrap
<1>15. ASSUME NEW a \in Allocations, CleanupConfig(a) PROVE RunnersTypeOK'
  <2>1. /\ config' \in [Allocations -> {"none", "open", "consumed"}]
        /\ cleanup' \in [Allocations -> {"none", "queued", "marked"}]
    BY <1>15 DEF CleanupConfig
  <2>2. secret' \subseteq Allocations
    <3>1. secret' = secret \/ secret' = secret \ {a}
      BY <1>15, Zenon DEF CleanupConfig
    <3>2. secret \subseteq Allocations
      BY Zenon
    <3> QED
      BY ONLY <3>1, <3>2, Zenon
  <2>3. fetch' \subseteq {b \in Allocations : config'[b] = "open"}
    BY <1>15 DEF CleanupConfig
  <2> QED
    BY <1>15, <2>1, <2>2, <2>3, Zenon DEF CleanupConfig, provider
<1>16. ASSUME NEW a \in Allocations, RecListExpired(a) PROVE RunnersTypeOK'
  BY <1>16, Zenon DEF RecListExpired, provider, bootstrap, ListedExpired
<1>17. ASSUME RecTerminalize PROVE RunnersTypeOK'
  <2>1. listed.a \in Allocations
    BY <1>17, Zenon DEF RecTerminalize
  <2>2. attemptOf' \in [Allocations -> {"none", "live", "done"}] /\ state' \in [Allocations -> States]
    BY <1>17, <2>1, Zenon DEF RecTerminalize
  <2>3. cleanup' \in [Allocations -> {"none", "queued", "marked"}] /\ faulted' \in BOOLEAN
    BY <1>17, <2>1, <1>0, ZenonT(30) DEF RecTerminalize
  <2>4. listed' \in [a : Allocations \cup {None}, known : BOOLEAN]
    BY <1>17, Zenon DEF RecTerminalize
  <2> QED
    BY <1>17, <2>2, <2>3, <2>4, Zenon DEF RecTerminalize, provider, bootstrap
<1>18. ASSUME NEW a \in Allocations, RecExited(a) PROVE RunnersTypeOK'
  BY <1>18, <1>0, Zenon DEF RecExited, provider, bootstrap, Exited
<1>19. ASSUME NEW a \in Allocations, RecCleaned(a) PROVE RunnersTypeOK'
  BY <1>19, <1>0, Zenon DEF RecCleaned, provider, bootstrap
<1>20. CASE UNCHANGED runnersVars
  BY <1>20, Zenon DEF runnersVars
<1> HIDE DEF RunnersTypeOK
<1> QED
  BY <1>1, <1>2, <1>3, <1>4, <1>5, <1>6, <1>7, <1>8, <1>9, <1>10, <1>11, <1>12, <1>13,
     <1>14, <1>15, <1>16, <1>17, <1>18, <1>19, <1>20, ZenonT(30) DEF RunnersNext, CleanupStep, RecPass

\* Nothing precedes the insert of its allocation.
LEMMA KeepsBirths ==
  ASSUME RunnersInv, RunnersTypeOK', [RunnersNext]_runnersVars
  PROVE  Births'
<1>0. ASSUME NEW b \in Allocations, EnqueueCleanup(b)
      PROVE  /\ cleanup' \in [Allocations -> {"none", "queued", "marked"}]
             /\ \A c \in Allocations : c # b => cleanup'[c] = cleanup[c]
             /\ faulted => faulted'
             /\ faulted' \in BOOLEAN
  BY <1>0, Enqueues, ZenonT(30) DEF RunnersInv
<1> USE AllocationsAssumption DEF RunnersInv, RunnersTypeOK, Births, Unborn, JobStates
<1>1. ASSUME NEW a \in Allocations, NEW j \in ProviderJobs, SubmitBegin(a, j) PROVE Births'
  BY <1>1, SMTT(30) DEF SubmitBegin, provider, bootstrap, Fresh, ActiveFor, Unseen, JobStates, Status
<1>2. ASSUME NEW a \in Allocations, SubmitInsert(a) PROVE Births'
  BY <1>2, SMTT(30) DEF SubmitInsert, provider, bootstrap, ActiveFor
<1>3. ASSUME NEW a \in Allocations, SubmitPut(a) PROVE Births'
  BY <1>3, SMTT(30) DEF SubmitPut, provider, bootstrap
<1>4. ASSUME NEW a \in Allocations, SubmitAttach(a) PROVE Births'
  BY <1>4, SMTT(30) DEF SubmitAttach, provider, bootstrap, Fine, Fault, Attachable
<1>5. ASSUME NEW a \in Allocations, SubmitFailed(a) PROVE Births'
  BY <1>5, <1>0, SMTT(30) DEF SubmitFailed, provider, bootstrap, Failable
<1>6. ASSUME NEW a \in Allocations, SubmitDies(a) PROVE Births'
  <2>1. \A b \in Allocations : Unborn(b)' => Unborn(b)
    BY <1>6, SMTT(30) DEF SubmitDies
  <2>2. \A b \in Allocations : sub[b] = "done" => sub'[b] = "done"
    BY <1>6 DEF SubmitDies
  <2> QED
    BY <1>6, <2>1, <2>2, SMTT(30) DEF SubmitDies, provider, bootstrap
<1>7. ASSUME NEW a \in Allocations, FetchSecret(a) PROVE Births'
  BY <1>7, ZenonT(30) DEF FetchSecret, provider, bootstrap
<1>8. ASSUME NEW a \in Allocations, FetchCommit(a) PROVE Births'
  <2>1. sub[a] = "done"
    BY <1>8, Zenon DEF FetchCommit
  <2>2. \A b \in Allocations : delivered[b] = 1 => delivered'[b] = 1
    BY <1>8, SMTT(30) DEF FetchCommit
  <2>3. \A b \in Allocations : b # a => /\ delivered'[b] = delivered[b] /\ config'[b] = config[b]
                                        /\ state'[b] = state[b]
    BY <1>8 DEF FetchCommit
  <2>4. UNCHANGED <<sub, attemptOf, cleanup, gh, jobRow>>
    BY <1>8, Zenon DEF FetchCommit, provider
  <2>5. delivered'[a] = 1 => config'[a] # "open"
    BY <1>8 DEF FetchCommit
  <2>6. \A i \in ProviderJobs : /\ gh[i].runner \in Allocations \cup {None}
                                /\ jobRow[i].runner \in Allocations \cup {None}
    BY ZenonT(30)
  <2>7. \A i \in ProviderJobs : /\ gh'[i].runner # None => delivered'[gh'[i].runner] = 1
                                /\ jobRow'[i].runner # None => delivered'[jobRow'[i].runner] = 1
    BY <2>2, <2>4, <2>6, Zenon
  <2>8. \A b \in Allocations : /\ Unborn(b)' => state'[b] = "none" /\ cleanup'[b] = "none"
                               /\ attemptOf'[b] # "none" \/ config'[b] # "none" => sub'[b] = "done"
    BY <2>1, <2>3, <2>4
  <2>9. \A b \in Allocations : delivered'[b] = 1 => sub'[b] = "done" /\ config'[b] # "open"
    BY <2>1, <2>3, <2>4, <2>5, SMTT(30)
  <2> QED
    BY <2>7, <2>8, <2>9, Zenon
<1>9. ASSUME NEW a \in Allocations, NEW j \in ProviderJobs, TakeJob(a, j) PROVE Births'
  BY <1>9 DEF TakeJob, provider, bootstrap, JobStates, Status
<1>10. ASSUME NEW j \in ProviderJobs, EndJob(j) PROVE Births'
  BY <1>10, SMTT(30) DEF EndJob, provider, bootstrap, JobStates, Status
<1>11. ASSUME NEW j \in ProviderJobs, NEW s \in Status, Observe(j, s) PROVE Births'
  BY <1>11, SMTT(30) DEF Observe, provider, bootstrap, JobStates, Status
<1>12. ASSUME NEW j \in ProviderJobs, Bind(j) PROVE Births'
  <2>1. jobRow[j].runner \in Allocations \cup {None}
    OBVIOUS
  <2>2. \A b \in Allocations : Unborn(b) => state'[b] = state[b] /\ cleanup'[b] = cleanup[b]
    <3>1. CASE jobRow[j].runner = None
      BY <1>12, <3>1, Zenon DEF Bind
    <3>2. CASE jobRow[j].runner # None
      <4>1. jobRow[j].runner \in Allocations /\ sub[jobRow[j].runner] = "done"
        BY <2>1, <3>2, ZenonT(30)
      <4>2. \A b \in Allocations : b # jobRow[j].runner => state'[b] = state[b]
        BY <1>12, <4>1 DEF Bind
      <4>3. \A b \in Allocations : b # jobRow[j].runner => cleanup'[b] = cleanup[b]
        <5>1. EnqueueCleanup(jobRow[j].runner) \/ cleanup' = cleanup
          BY <1>12, Zenon DEF Bind
        <5> QED
          BY <1>0, <4>1, <5>1, Zenon
      <4> QED
        BY <4>1, <4>2, <4>3, Zenon
    <3> QED
      BY <3>1, <3>2, Zenon
  <2>3. UNCHANGED <<sub, attemptOf, config, delivered, gh, jobRow>>
    BY <1>12, Zenon DEF Bind, bootstrap
  <2> QED
    BY <2>2, <2>3, SMTT(30)
<1>13. ASSUME NEW a \in Allocations, AttemptEnds(a) PROVE Births'
  BY <1>13, <1>0, SMTT(30) DEF AttemptEnds, provider, bootstrap, Exited, Fault
<1>14. ASSUME NEW a \in Allocations, CleanupMark(a) PROVE Births'
  BY <1>14, SMTT(30) DEF CleanupMark, provider, bootstrap
<1>15. ASSUME NEW a \in Allocations, CleanupConfig(a) PROVE Births'
  BY <1>15 DEF CleanupConfig, provider, bootstrap
<1>16. ASSUME NEW a \in Allocations, RecListExpired(a) PROVE Births'
  BY <1>16, ZenonT(40) DEF RecListExpired, provider, bootstrap, ListedExpired
<1>17. ASSUME RecTerminalize PROVE Births'
  <2>1. listed.a \in Allocations
    BY <1>17, Zenon DEF RecTerminalize
  <2>2. \A b \in Allocations : b # listed.a => /\ state'[b] = state[b] /\ cleanup'[b] = cleanup[b]
                                            /\ attemptOf'[b] = attemptOf[b]
    <3>1. \A b \in Allocations : b # listed.a => state'[b] = state[b] /\ attemptOf'[b] = attemptOf[b]
      BY <1>17, <2>1 DEF RecTerminalize
    <3>2. EnqueueCleanup(listed.a) \/ cleanup' = cleanup
      BY <1>17, Zenon DEF RecTerminalize
    <3>3. \A b \in Allocations : b # listed.a => cleanup'[b] = cleanup[b]
      BY <1>0, <2>1, <3>2, Zenon
    <3> QED
      BY <3>1, <3>3, ZenonT(30)
  <2>3. Unborn(listed.a) => UNCHANGED <<state, cleanup>>
    BY <1>17, <2>1, Zenon DEF RecTerminalize, Failable
  <2>4. attemptOf'[listed.a] # "none" => attemptOf[listed.a] # "none"
    BY <1>17, <2>1, Zenon DEF RecTerminalize
  <2>5. UNCHANGED <<sub, config, delivered, gh, jobRow>>
    BY <1>17, ZenonT(30) DEF RecTerminalize, provider, bootstrap
  <2> QED
    BY <2>1, <2>2, <2>3, <2>4, <2>5, SMTT(30)
<1>18. ASSUME NEW a \in Allocations, RecExited(a) PROVE Births'
  <2>1. sub[a] = "done"
    BY <1>18, ZenonT(40) DEF RecExited
  <2>2. \A b \in Allocations : b # a => state'[b] = state[b] /\ cleanup'[b] = cleanup[b]
    BY <1>18, <1>0 DEF RecExited
  <2>3. UNCHANGED <<sub, attemptOf, config, delivered, gh, jobRow>>
    BY <1>18, ZenonT(30) DEF RecExited, provider, bootstrap
  <2> QED
    BY <2>1, <2>2, <2>3, SMTT(30)
<1>19. ASSUME NEW a \in Allocations, RecCleaned(a) PROVE Births'
  BY <1>19, <1>0 DEF RecCleaned, provider, bootstrap
<1>20. CASE UNCHANGED runnersVars
  BY <1>20, Zenon DEF runnersVars
<1> QED
  BY <1>1, <1>2, <1>3, <1>4, <1>5, <1>6, <1>7, <1>8, <1>9, <1>10, <1>11, <1>12, <1>13,
     <1>14, <1>15, <1>16, <1>17, <1>18, <1>19, <1>20, ZenonT(30) DEF RunnersNext, CleanupStep, RecPass

\* Secrets are owned until they are handed out.
LEMMA KeepsSecrets ==
  ASSUME RunnersInv, RunnersTypeOK', [RunnersNext]_runnersVars
  PROVE  Secrets'
<1>0. ASSUME NEW b \in Allocations, EnqueueCleanup(b)
      PROVE  /\ cleanup' \in [Allocations -> {"none", "queued", "marked"}]
             /\ \A c \in Allocations : c # b => cleanup'[c] = cleanup[c]
             /\ faulted => faulted'
             /\ faulted' \in BOOLEAN
  BY <1>0, Enqueues, Zenon DEF RunnersInv
<1> USE AllocationsAssumption DEF RunnersInv, RunnersTypeOK, Births, Unborn, Secrets, DeliveredIsGone, SecretIsOwned
<1>1. ASSUME NEW a \in Allocations, NEW j \in ProviderJobs, SubmitBegin(a, j) PROVE Secrets'
  <2>1. UNCHANGED <<secret, fetch, delivered, config, faulted>>
    BY <1>1, ZenonT(30) DEF SubmitBegin, bootstrap
  <2>2. \A b \in Allocations : sub'[b] = sub[b] \/ (b = a /\ sub[b] = "none")
    BY <1>1, SMTT(30) DEF SubmitBegin, Fresh
  <2> QED
    BY <2>1, <2>2
<1>2. ASSUME NEW a \in Allocations, SubmitInsert(a) PROVE Secrets'
  BY <1>2, SMTT(30) DEF SubmitInsert, provider, bootstrap, ActiveFor
<1>3. ASSUME NEW a \in Allocations, SubmitPut(a) PROVE Secrets'
  BY <1>3, SMTT(30) DEF SubmitPut, provider, bootstrap
<1>4. ASSUME NEW a \in Allocations, SubmitAttach(a) PROVE Secrets'
  BY <1>4 DEF SubmitAttach, provider, bootstrap, Fine, Fault, Attachable
<1>5. ASSUME NEW a \in Allocations, SubmitFailed(a) PROVE Secrets'
  BY <1>5, <1>0, ZenonT(30) DEF SubmitFailed, provider, bootstrap, Failable
<1>6. ASSUME NEW a \in Allocations, SubmitDies(a) PROVE Secrets'
  BY <1>6, Zenon DEF SubmitDies, provider, bootstrap, Fault
<1>7. ASSUME NEW a \in Allocations, FetchSecret(a) PROVE Secrets'
  BY <1>7, ZenonT(30) DEF FetchSecret, provider, bootstrap
<1>8. ASSUME NEW a \in Allocations, FetchCommit(a) PROVE Secrets'
  BY <1>8 DEF FetchCommit, provider, bootstrap
<1>9. ASSUME NEW a \in Allocations, NEW j \in ProviderJobs, TakeJob(a, j) PROVE Secrets'
  BY <1>9, Zenon DEF TakeJob, provider, bootstrap, JobStates, Status
<1>10. ASSUME NEW j \in ProviderJobs, EndJob(j) PROVE Secrets'
  BY <1>10, Zenon DEF EndJob, provider, bootstrap, JobStates, Status
<1>11. ASSUME NEW j \in ProviderJobs, NEW s \in Status, Observe(j, s) PROVE Secrets'
  BY <1>11, Zenon DEF Observe, provider, bootstrap, JobStates, Status
<1>12. ASSUME NEW j \in ProviderJobs, Bind(j) PROVE Secrets'
  <2>1. UNCHANGED <<secret, fetch, delivered, config, sub>>
    BY <1>12, Zenon DEF Bind, bootstrap
  <2>2. jobRow[j].runner \in Allocations \cup {None}
    BY DEF JobStates
  <2>3. faulted => faulted'
    BY <1>12, <2>2, <1>0, Zenon DEF Bind
  <2> QED
    BY <2>1, <2>3, Zenon
<1>13. ASSUME NEW a \in Allocations, AttemptEnds(a) PROVE Secrets'
  BY <1>13, <1>0, Zenon DEF AttemptEnds, provider, bootstrap, Exited, Fault
<1>14. ASSUME NEW a \in Allocations, CleanupMark(a) PROVE Secrets'
  BY <1>14, ZenonT(40) DEF CleanupMark, provider, bootstrap
<1>15. ASSUME NEW a \in Allocations, CleanupConfig(a) PROVE Secrets'
  BY <1>15 DEF CleanupConfig, provider, bootstrap
<1>16. ASSUME NEW a \in Allocations, RecListExpired(a) PROVE Secrets'
  BY <1>16, Zenon DEF RecListExpired, provider, bootstrap, ListedExpired
<1>17. ASSUME RecTerminalize PROVE Secrets'
  BY <1>17, <1>0, Zenon DEF RecTerminalize, provider, bootstrap, Failable
<1>18. ASSUME NEW a \in Allocations, RecExited(a) PROVE Secrets'
  BY <1>18, <1>0, Zenon DEF RecExited, provider, bootstrap, Exited
<1>19. ASSUME NEW a \in Allocations, RecCleaned(a) PROVE Secrets'
  BY <1>19, <1>0, Zenon DEF RecCleaned, provider, bootstrap
<1>20. CASE UNCHANGED runnersVars
  BY <1>20, Zenon DEF runnersVars
<1> QED
  BY <1>1, <1>2, <1>3, <1>4, <1>5, <1>6, <1>7, <1>8, <1>9, <1>10, <1>11, <1>12, <1>13,
     <1>14, <1>15, <1>16, <1>17, <1>18, <1>19, <1>20, ZenonT(30) DEF RunnersNext, CleanupStep, RecPass

\* An allocation becomes active only when its job has no other.
LEMMA KeepsUnique ==
  ASSUME RunnersInv, RunnersTypeOK', [RunnersNext]_runnersVars
  PROVE  Unique'
<1>0. ASSUME NEW b \in Allocations, EnqueueCleanup(b)
      PROVE  /\ cleanup' \in [Allocations -> {"none", "queued", "marked"}]
             /\ \A c \in Allocations : c # b => cleanup'[c] = cleanup[c]
             /\ faulted => faulted'
             /\ faulted' \in BOOLEAN
  BY <1>0, Enqueues, Zenon DEF RunnersInv
<1> USE AllocationsAssumption DEF RunnersInv, RunnersTypeOK, Births, Unborn, Unique, Unassigned, Attachable, Expirable
<1>1. ASSUME NEW a \in Allocations, NEW j \in ProviderJobs, SubmitBegin(a, j) PROVE Unique'
  BY <1>1, SMTT(30) DEF SubmitBegin, provider, bootstrap, Fresh, ActiveFor, Unseen, JobStates, Status
<1>2. ASSUME NEW a \in Allocations, SubmitInsert(a) PROVE Unique'
  BY <1>2, SMTT(30) DEF SubmitInsert, provider, bootstrap, ActiveFor
<1>3. ASSUME NEW a \in Allocations, SubmitPut(a) PROVE Unique'
  BY <1>3, SMTT(30) DEF SubmitPut, provider, bootstrap
<1>4. ASSUME NEW a \in Allocations, SubmitAttach(a) PROVE Unique'
  BY <1>4, SMTT(30) DEF SubmitAttach, provider, bootstrap, Fine, Fault, Attachable
<1>5. ASSUME NEW a \in Allocations, SubmitFailed(a) PROVE Unique'
  BY <1>5, <1>0, SMTT(30) DEF SubmitFailed, provider, bootstrap, Failable
<1>6. ASSUME NEW a \in Allocations, SubmitDies(a) PROVE Unique'
  BY <1>6, SMTT(30) DEF SubmitDies, provider, bootstrap, Fault
<1>7. ASSUME NEW a \in Allocations, FetchSecret(a) PROVE Unique'
  BY <1>7, SMTT(30) DEF FetchSecret, provider, bootstrap
<1>8. ASSUME NEW a \in Allocations, FetchCommit(a) PROVE Unique'
  BY <1>8, SMTT(30) DEF FetchCommit, provider, bootstrap
<1>9. ASSUME NEW a \in Allocations, NEW j \in ProviderJobs, TakeJob(a, j) PROVE Unique'
  BY <1>9 DEF TakeJob, provider, bootstrap, JobStates, Status
<1>10. ASSUME NEW j \in ProviderJobs, EndJob(j) PROVE Unique'
  BY <1>10, SMTT(30) DEF EndJob, provider, bootstrap, JobStates, Status
<1>11. ASSUME NEW j \in ProviderJobs, NEW s \in Status, Observe(j, s) PROVE Unique'
  BY <1>11, SMTT(30) DEF Observe, provider, bootstrap, JobStates, Status
<1>12. ASSUME NEW j \in ProviderJobs, Bind(j) PROVE Unique'
  BY <1>12, <1>0, SMTT(30) DEF Bind, provider, bootstrap, Assigned
<1>13. ASSUME NEW a \in Allocations, AttemptEnds(a) PROVE Unique'
  BY <1>13, <1>0, SMTT(30) DEF AttemptEnds, provider, bootstrap, Exited, Fault
<1>14. ASSUME NEW a \in Allocations, CleanupMark(a) PROVE Unique'
  BY <1>14, SMTT(30) DEF CleanupMark, provider, bootstrap
<1>15. ASSUME NEW a \in Allocations, CleanupConfig(a) PROVE Unique'
  BY <1>15, SMTT(30) DEF CleanupConfig, provider, bootstrap
<1>16. ASSUME NEW a \in Allocations, RecListExpired(a) PROVE Unique'
  BY <1>16, SMTT(30) DEF RecListExpired, provider, bootstrap, ListedExpired
<1>17. ASSUME RecTerminalize PROVE Unique'
  BY <1>17, <1>0, SMTT(30) DEF RecTerminalize, provider, bootstrap, Failable
<1>18. ASSUME NEW a \in Allocations, RecExited(a) PROVE Unique'
  BY <1>18, <1>0, SMTT(30) DEF RecExited, provider, bootstrap, Exited
<1>19. ASSUME NEW a \in Allocations, RecCleaned(a) PROVE Unique'
  BY <1>19, <1>0, SMTT(30) DEF RecCleaned, provider, bootstrap
<1>20. CASE UNCHANGED runnersVars
  BY <1>20 DEF runnersVars
<1> QED
  BY <1>1, <1>2, <1>3, <1>4, <1>5, <1>6, <1>7, <1>8, <1>9, <1>10, <1>11, <1>12, <1>13,
     <1>14, <1>15, <1>16, <1>17, <1>18, <1>19, <1>20, ZenonT(30) DEF RunnersNext, CleanupStep, RecPass

\* The invariant is inductive.
THEOREM RunnersInvariance == RunnersSpec => []RunnersInv
<1>1. RunnersInit => RunnersInv
  <2> SUFFICES ASSUME RunnersInit PROVE RunnersInv
    BY Zenon
  <2>1. Unseen \in JobStates
    BY Zenon DEF Unseen, JobStates, Status
  <2>2. RunnersTypeOK
    <3>1. gh \in [ProviderJobs -> JobStates] /\ jobRow \in [ProviderJobs -> JobStates]
      BY <2>1, Zenon DEF RunnersInit
    <3>2. listed \in [a : Allocations \cup {None}, known : BOOLEAN]
      BY Zenon DEF RunnersInit
    <3>3. /\ bound \in [ProviderJobs -> Allocations \cup {None}] /\ bind \subseteq ProviderJobs
          /\ origin \in [Allocations -> ProviderJobs \cup {None}]
          /\ faulted \in BOOLEAN
      BY Zenon DEF RunnersInit
    <3>4. /\ state \in [Allocations -> States]
          /\ sub \in [Allocations -> {"none", "checked", "inserted", "put", "failed", "done"}]
          /\ attemptOf \in [Allocations -> {"none", "live", "done"}]
          /\ cleanup \in [Allocations -> {"none", "queued", "marked"}]
      BY Zenon DEF RunnersInit, States
    <3>5. /\ config \in [Allocations -> {"none", "open", "consumed"}]
          /\ secret \subseteq Allocations /\ fetch \subseteq {a \in Allocations : config[a] = "open"}
          /\ delivered \in [Allocations -> 0 .. 1]
      BY SMTT(30) DEF RunnersInit
    <3> QED
      BY <3>1, <3>2, <3>3, <3>4, <3>5, Zenon DEF RunnersTypeOK
  <2>3. Births
    BY AllocationsAssumption DEF RunnersInit, Births, Unborn, Unseen
  <2>4. Secrets
    BY Zenon DEF RunnersInit, Secrets, DeliveredIsGone, SecretIsOwned
  <2>5. Unique
    BY Zenon DEF RunnersInit, Unique, Unassigned, Attachable
  <2> QED
    BY <2>2, <2>3, <2>4, <2>5, Zenon DEF RunnersInv
<1>2. RunnersInv /\ [RunnersNext]_runnersVars => RunnersInv'
  BY KeepsTypes, KeepsBirths, KeepsSecrets, KeepsUnique, Zenon DEF RunnersInv
<1> QED
  BY <1>1, <1>2, PTL DEF RunnersSpec

\* The payload of the bootstrap secret is handed out at most once.
THEOREM SecretGone == RunnersSpec => []DeliveredIsGone
BY RunnersInvariance, PTL DEF RunnersInv, Secrets

\* No secret is forgotten but by the one fault.
THEOREM SecretOwned == RunnersSpec => []SecretIsOwned
BY RunnersInvariance, PTL DEF RunnersInv, Secrets

\* At most one runner waits for a queued job.
THEOREM OneRunner == RunnersSpec => []OneRunnerPerQueuedJob
<1>1. RunnersInv => OneRunnerPerQueuedJob
  <2> SUFFICES ASSUME RunnersInv, NEW j \in ProviderJobs PROVE Cardinality(ActiveFor(j)) <= 1
    BY Zenon DEF OneRunnerPerQueuedJob
  <2>1. \A a, b \in ActiveFor(j) : a = b
    BY Zenon DEF RunnersInv, Unique, ActiveFor
  <2>2. CASE ActiveFor(j) = {}
    BY <2>2, FS_EmptySet
  <2>3. ASSUME NEW a \in ActiveFor(j) PROVE Cardinality(ActiveFor(j)) <= 1
    <3>1. ActiveFor(j) = {a}
      BY <2>1, Zenon
    <3>2. Cardinality({a}) = 1
      BY FS_Singleton, Zenon
    <3> QED
      BY <3>1, <3>2
  <2> QED
    BY <2>2, <2>3, Zenon
<1> QED
  BY RunnersInvariance, <1>1, PTL

\* Nothing brings a cleaned allocation back.
THEOREM CleanedStays == RunnersSpec => CleanedIsFinal
<1>1. RunnersInv /\ [RunnersNext]_runnersVars =>
        [\A a \in Allocations : state[a] = "cleaned" => state'[a] = "cleaned"]_runnersVars
  <2> SUFFICES ASSUME RunnersInv, RunnersNext, NEW b \in Allocations, state[b] = "cleaned"
               PROVE  state'[b] = "cleaned"
    BY Zenon DEF runnersVars
  <2> USE DEF RunnersInv, RunnersTypeOK, Births, Unborn
  <2>1. ASSUME NEW a \in Allocations, NEW j \in ProviderJobs, SubmitBegin(a, j) PROVE state'[b] = "cleaned"
    BY <2>1, Zenon DEF SubmitBegin
  <2>2. ASSUME NEW a \in Allocations, SubmitInsert(a) PROVE state'[b] = "cleaned"
    BY <2>2 DEF SubmitInsert
  <2>3. ASSUME NEW a \in Allocations, SubmitPut(a) PROVE state'[b] = "cleaned"
    BY <2>3, Zenon DEF SubmitPut
  <2>4. ASSUME NEW a \in Allocations, SubmitAttach(a) PROVE state'[b] = "cleaned"
    BY <2>4, ZenonT(30) DEF SubmitAttach, Attachable
  <2>5. ASSUME NEW a \in Allocations, SubmitFailed(a) PROVE state'[b] = "cleaned"
    BY <2>5, ZenonT(60) DEF SubmitFailed, Failable
  <2>6. ASSUME NEW a \in Allocations, SubmitDies(a) PROVE state'[b] = "cleaned"
    BY <2>6, Zenon DEF SubmitDies
  <2>7. ASSUME NEW a \in Allocations, FetchSecret(a) PROVE state'[b] = "cleaned"
    BY <2>7, Zenon DEF FetchSecret
  <2>8. ASSUME NEW a \in Allocations, FetchCommit(a) PROVE state'[b] = "cleaned"
    BY <2>8 DEF FetchCommit
  <2>9. ASSUME NEW a \in Allocations, NEW j \in ProviderJobs, TakeJob(a, j) PROVE state'[b] = "cleaned"
    BY <2>9, Zenon DEF TakeJob
  <2>10. ASSUME NEW j \in ProviderJobs, EndJob(j) PROVE state'[b] = "cleaned"
    BY <2>10, Zenon DEF EndJob
  <2>11. ASSUME NEW j \in ProviderJobs, NEW s \in Status, Observe(j, s) PROVE state'[b] = "cleaned"
    BY <2>11, ZenonT(30) DEF Observe
  <2>12. ASSUME NEW j \in ProviderJobs, Bind(j) PROVE state'[b] = "cleaned"
    BY <2>12 DEF Bind, Assigned
  <2>13. ASSUME NEW a \in Allocations, AttemptEnds(a) PROVE state'[b] = "cleaned"
    BY <2>13, ZenonT(40) DEF AttemptEnds, Exited
  <2>14. ASSUME NEW a \in Allocations, CleanupMark(a) PROVE state'[b] = "cleaned"
    BY <2>14, ZenonT(30) DEF CleanupMark
  <2>15. ASSUME NEW a \in Allocations, CleanupConfig(a) PROVE state'[b] = "cleaned"
    BY <2>15, Zenon DEF CleanupConfig
  <2>16. ASSUME NEW a \in Allocations, RecListExpired(a) PROVE state'[b] = "cleaned"
    BY <2>16, Zenon DEF RecListExpired, ListedExpired
  <2>17. ASSUME RecTerminalize PROVE state'[b] = "cleaned"
    BY <2>17, ZenonT(40) DEF RecTerminalize, Failable
  <2>18. ASSUME NEW a \in Allocations, RecExited(a) PROVE state'[b] = "cleaned"
    BY <2>18, Zenon DEF RecExited, Exited
  <2>19. ASSUME NEW a \in Allocations, RecCleaned(a) PROVE state'[b] = "cleaned"
    BY <2>19, Zenon DEF RecCleaned
  <2> QED
    BY <2>1, <2>2, <2>3, <2>4, <2>5, <2>6, <2>7, <2>8, <2>9, <2>10, <2>11, <2>12, <2>13,
       <2>14, <2>15, <2>16, <2>17, <2>18, <2>19, ZenonT(30) DEF RunnersNext, CleanupStep, RecPass
<1> QED
  BY RunnersInvariance, <1>1, PTL DEF RunnersSpec, CleanedIsFinal
=============================================================================
