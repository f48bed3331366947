------------------------- MODULE MeteringProjection -------------------------
(***************************************************************************)
(* billing-service: the projection of settled windows into the ClickHouse  *)
(* table verself.metering.  A window is projected by the River job that    *)
(* its settlement enqueues and by the periodic scanner of pending windows; *)
(* both call ProjectMeteringWindow and may meet on the same window.        *)
(*                                                                         *)
(* ProjectMeteringWindow holds one connection of the PostgreSQL pool for   *)
(* its transaction and loads the window through a second one.              *)
(*                                                                         *)
(* The names are not those of EventDelivery, so that ClickHouseProofs can  *)
(* speak of both modules.                                                  *)
(***************************************************************************)
EXTENDS Integers, FiniteSets, Sequences

CONSTANTS
    NumWindows,    \* windows that are ever settled
    Workers,       \* River workers of one process that run projections
    Requests,      \* users of the process's pool that need one connection
    PoolSize,      \* connections of the pool
    JobAttempts,   \* attempts of the per-window job
    ScanLimit,     \* windows that one run of the scanner lists
    MaxFailures    \* bound on failed calls and crashes

(***************************************************************************)
(* Fewer transactions than connections wait for a second connection: the   *)
(* pool has 12, and at most 5 River workers of a process are projecting.   *)
(* Contract activation (insertContractPhaseTx calls loadPlan) nests        *)
(* connections the same way and is not one of the Requests.                *)
(***************************************************************************)
ASSUME MeteringAssumption ==
    /\ IsFiniteSet(Workers) /\ IsFiniteSet(Requests)
    /\ Workers \cap Requests = {}
    /\ NumWindows \in Nat
    /\ PoolSize \in Nat /\ PoolSize > Cardinality(Workers)
    /\ JobAttempts \in Nat \ {0}
    /\ ScanLimit \in Nat \ {0}
    /\ MaxFailures \in Nat

VARIABLES
    settled,     \* the windows 1..settled are in state settled
    projected,   \* windows with metering_projected_at
    rows,        \* rows of the window in verself.metering
    job,         \* attempts the per-window job has left
    projection,  \* the projection each worker is running
    conns,       \* users of the pool that hold a connection
    failures

projectionVars == <<settled, projected, rows, job, projection, conns, failures>>

(***************************************************************************)
(* A window is its place in the order of settled_at, which is also the     *)
(* order in which settlements commit here.                                 *)
(***************************************************************************)
Windows == 1..NumWindows

NoWindow == 0

NoProjection == [pc |-> "idle", w |-> NoWindow, direct |-> FALSE, todo |-> <<>>]

IsSettled(w) == w \in 1..settled

Pending(w) == IsSettled(w) /\ w \notin projected

ProjectionInit ==
    /\ settled = 0
    /\ projected = {}
    /\ rows = [w \in Windows |-> 0]
    /\ job = [w \in Windows |-> 0]
    /\ projection = [p \in Workers |-> NoProjection]
    /\ conns = {}
    /\ failures = 0

FreeConnection == Cardinality(conns) < PoolSize

Goto(p, l) == projection' = [projection EXCEPT ![p].pc = l]

\* The projection of ws[1], or nothing when the list is empty.
Start(ws, direct) ==
    IF ws = <<>> THEN NoProjection
    ELSE [pc |-> "begin", w |-> Head(ws), direct |-> direct, todo |-> Tail(ws)]

\* ProjectMeteringWindow returns without error: its connection goes back to the
\* pool, and the scanner goes on with its list.
Return(p) ==
    /\ projection' = [projection EXCEPT ![p] = Start(projection[p].todo, FALSE)]
    /\ conns' = conns \ {p}

\* It returns an error: the scanner gives up the rest of its list.
ReturnError(p) ==
    /\ projection' = [projection EXCEPT ![p] = NoProjection]
    /\ conns' = conns \ {p}
----------------------------------------------------------------------------
\* A settlement commits, and with it the job that projects the window.
MarkWindowSettled ==
    /\ settled < NumWindows
    /\ settled' = settled + 1
    /\ job' = [job EXCEPT ![settled'] = JobAttempts]
    /\ UNCHANGED <<projected, rows, projection, conns, failures>>

\* River hands the job to a worker; an attempt that fails leaves the others.
WorkJob(p, w) ==
    /\ projection[p].pc = "idle"
    /\ job[w] > 0
    /\ \A q \in Workers : ~ (projection[q].direct /\ projection[q].w = w)
    /\ job' = [job EXCEPT ![w] = @ - 1]
    /\ projection' = [projection EXCEPT ![p] = Start(<<w>>, TRUE)]
    /\ UNCHANGED <<settled, projected, rows, conns, failures>>

AtMost(n, ws) == SubSeq(ws, 1, IF Len(ws) < n THEN Len(ws) ELSE n)

\* Mutant: projected windows stay on the list.
ListSettledWindowIDs == AtMost(ScanLimit, [i \in 1..settled |-> i])

\* The windows that were settled first and are not projected.
ListPendingMeteringWindowIDs == AtMost(ScanLimit, SelectSeq([i \in 1..settled |-> i], Pending))

\* A run of the scanner reads its list and begins with the first window.  A
\* window may be projected by another worker before its turn comes.
ProjectPendingMeteringWindows(p) ==
    /\ projection[p].pc = "idle"
    /\ ListPendingMeteringWindowIDs # <<>>
    /\ projection' = [projection EXCEPT ![p] = Start(ListPendingMeteringWindowIDs, FALSE)]
    /\ UNCHANGED <<settled, projected, rows, job, conns, failures>>

BeginTx(p) ==
    /\ projection[p].pc = "begin"
    /\ FreeConnection
    /\ conns' = conns \cup {p}
    /\ Goto(p, "lock")
    /\ UNCHANGED <<settled, projected, rows, job, failures>>

\* Mutant: no advisory lock.
LockNothing(p) ==
    /\ projection[p].pc = "lock"
    /\ Goto(p, "check")
    /\ UNCHANGED <<settled, projected, rows, job, conns, failures>>

\* pg_advisory_xact_lock on the window, held until the transaction ends.
LockMeteringProjectionWindow(p) ==
    /\ projection[p].pc = "lock"
    /\ \A q \in Workers \ {p} :
        ~ (projection[q].w = projection[p].w /\ projection[q].pc \in {"check", "load", "send", "commit"})
    /\ Goto(p, "check")
    /\ UNCHANGED <<settled, projected, rows, job, conns, failures>>

\* A return without error ends the per-window job.
JobDone(p) == job' = IF projection[p].direct THEN [job EXCEPT ![projection[p].w] = 0] ELSE job

\* A window that is already projected is left alone.
GetMeteringProjectionState(p) ==
    /\ projection[p].pc = "check"
    /\ IF Pending(projection[p].w)
         THEN Goto(p, "load") /\ UNCHANGED <<conns, job>>
         ELSE Return(p) /\ JobDone(p)
    /\ UNCHANGED <<settled, projected, rows, failures>>

\* loadWindow runs outside the transaction: it takes a connection and returns it.
LoadWindow(p) ==
    /\ projection[p].pc = "load"
    /\ FreeConnection
    /\ Goto(p, "send")
    /\ UNCHANGED <<settled, projected, rows, job, conns, failures>>

ProjectMeteringForWindow(p) ==
    /\ projection[p].pc = "send"
    /\ rows' = [rows EXCEPT ![projection[p].w] = @ + 1]
    /\ Goto(p, "commit")
    /\ UNCHANGED <<settled, projected, job, conns, failures>>

\* The send fails, with or without having written the row.
ProjectionFails(p) ==
    /\ projection[p].pc = "send"
    /\ failures < MaxFailures
    /\ failures' = failures + 1
    /\ rows' \in {rows, [rows EXCEPT ![projection[p].w] = @ + 1]}
    /\ ReturnError(p)
    /\ UNCHANGED <<settled, projected, job>>

MarkMeteringProjected(p) ==
    /\ projection[p].pc = "commit"
    /\ projected' = projected \cup {projection[p].w}
    /\ Return(p)
    /\ JobDone(p)
    /\ UNCHANGED <<settled, rows, failures>>

\* A call to PostgreSQL fails, or the worker's process ends: the transaction is
\* rolled back, unless it was the answer to its commit that was lost.
ProjectionStops(p) ==
    /\ projection[p].pc # "idle"
    /\ failures < MaxFailures
    /\ failures' = failures + 1
    /\ \/ UNCHANGED projected
       \/ projection[p].pc = "commit" /\ projected' = projected \cup {projection[p].w}
    /\ ReturnError(p)
    /\ UNCHANGED <<settled, rows, job>>

\* An operation that needs one connection takes it, and returns it.
Request(r) ==
    /\ IF r \in conns THEN conns' = conns \ {r} ELSE FreeConnection /\ conns' = conns \cup {r}
    /\ UNCHANGED <<settled, projected, rows, job, projection, failures>>

Step(p) ==
    \/ BeginTx(p)
    \/ LockMeteringProjectionWindow(p)
    \/ GetMeteringProjectionState(p)
    \/ LoadWindow(p)
    \/ ProjectMeteringForWindow(p)
    \/ MarkMeteringProjected(p)

ProjectionNext ==
    \/ MarkWindowSettled
    \/ \E w \in Windows, p \in Workers : WorkJob(p, w)
    \/ \E p \in Workers : ProjectPendingMeteringWindows(p)
    \/ \E p \in Workers : Step(p) \/ ProjectionFails(p) \/ ProjectionStops(p)
    \/ \E r \in Requests : Request(r)

ProjectionSpec == ProjectionInit /\ [][ProjectionNext]_projectionVars

(***************************************************************************)
(* Connections and locks are granted in the order of the requests, so a    *)
(* step that waits for one and is enabled again and again is taken.  The   *)
(* scanner is enqueued periodically and waits in its queue for a worker to *)
(* be idle, so it runs again and again.  Other requests end.               *)
(***************************************************************************)
FairProjection ==
    /\ ProjectionSpec
    /\ \A p \in Workers : SF_projectionVars(Step(p))
    /\ SF_projectionVars(\E p \in Workers : ProjectPendingMeteringWindows(p))
    /\ \A r \in Requests : WF_projectionVars(r \in conns /\ Request(r))
----------------------------------------------------------------------------
\* The marker never precedes the row, and the job and the scanner never write
\* the row twice between them: every extra row is the trace of a failed call
\* or a crash.
OneRowPerFailure ==
    \A w \in Windows :
        /\ w \in projected => rows[w] > 0
        /\ rows[w] <= 1 + failures

\* Every settled window is projected, even when its own job runs out of attempts
\* and while other requests compete for the connections that it needs two of:
\* the scanner's limit and its giving up at the first error starve no window.
SettledIsProjected == \A w \in Windows : IsSettled(w) ~> w \in projected
=============================================================================
