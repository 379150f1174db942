-------------------------- MODULE AuthorityCutover --------------------------
(* The cutover to PostgreSQL authority (postgresAuthorityCutoverService.ts): *)
(* a checkpoint is opened, the broker is read, and one serializable          *)
(* transaction cleans up stale state, writes the broker's positions, checks  *)
(* that PostgreSQL describes the account and closes the checkpoint.          *)
EXTENDS Naturals, FiniteSets

CONSTANTS Runs,       \* cutover commands, started in this order: 1..n
          Positions,  \* what the broker may hold
          MaxFaults

VARIABLES held, open,      \* the broker: positions held, and whether an order is open
          pgPos, pgOpen,   \* PostgreSQL: positions, the open order
          res,             \* a buying power reservation: "none" | "active" | "stale" | "expired"
          research,        \* a research run: "running" | "stale" | "recovered"
          lease,           \* the run whose lease is current, 0 when there is none
          ckpt,            \* run -> "none" | "running" | "passed" | "blocked"
          run,             \* run -> [pc, pos, open, moved]: where it is, what it read from the broker and
                           \*   whether the account moved since the reading began
          faults

world == <<held, open>>
store == <<pgPos, pgOpen, res, research>>
vars == <<held, open, pgPos, pgOpen, res, research, lease, ckpt, run, faults>>

NotRead == [pc |-> "none", pos |-> {}, open |-> FALSE, moved |-> FALSE]

Init ==
    /\ held \in SUBSET Positions /\ open \in BOOLEAN
    /\ pgPos \in SUBSET Positions /\ pgOpen \in BOOLEAN
    /\ res \in {"none", "active", "stale"} /\ research \in {"running", "stale", "recovered"}
    /\ lease = 0 /\ faults = 0
    /\ ckpt = [r \in Runs |-> "none"] /\ run = [r \in Runs |-> NotRead]

At(r, pc) == run[r].pc = pc
Goto(r, pc) == run' = [run EXCEPT ![r].pc = pc]

(* assertCurrentFence *)
Fenced(r) == lease = r

(* The command starts under the lease of its job; runs follow each other, a slow one may be superseded. *)
Start(r) ==
    /\ At(r, "none") /\ \A q \in Runs : q < r => ~At(q, "none")
    /\ lease = 0 \/ \E q \in Runs : q = lease /\ At(q, "dead")
    /\ lease' = r /\ ckpt' = [ckpt EXCEPT ![r] = "running"] /\ Goto(r, "capture")
    /\ UNCHANGED <<held, open, pgPos, pgOpen, res, research, faults>>

(* capturePostgresAuthorityBrokerSnapshot: positions and open orders are two requests that run side by side, *)
(* so either answer may be the older one.                                                                    *)
CapturePositions(r) ==
    /\ run[r].pc \in {"capture", "positions"}
    /\ run' = [run EXCEPT ![r].pos = held, ![r].pc = IF At(r, "capture") THEN "orders" ELSE "validate"]
    /\ UNCHANGED <<held, open, pgPos, pgOpen, res, research, lease, ckpt, faults>>

CaptureOrders(r) ==
    /\ run[r].pc \in {"capture", "orders"}
    /\ run' = [run EXCEPT ![r].open = open, ![r].pc = IF At(r, "capture") THEN "positions" ELSE "validate"]
    /\ UNCHANGED <<held, open, pgPos, pgOpen, res, research, lease, ckpt, faults>>

CaptureFails(r) ==
    /\ run[r].pc \in {"capture", "positions", "orders"}
    /\ faults < MaxFaults /\ faults' = faults + 1 /\ Goto(r, "block")
    /\ UNCHANGED <<held, open, pgPos, pgOpen, res, research, lease, ckpt>>

(* cleanupStaleRuntimeState *)
Cleaned == [res |-> IF res = "stale" THEN "expired" ELSE res,
            research |-> IF research = "stale" THEN "recovered" ELSE research]

(* countPositionDiscrepancies: one PostgreSQL position per broker position, column by column. *)
PositionsAgree(r, pos) == pos = run[r].pos

(* countOrderDiscrepancies: the same for open orders; the projection writes none, they must already be known. *)
OrdersAgree(r) == pgOpen = run[r].open

(* readAuthorityState: counts that have to be zero, or that have to exist, after the cleanup. *)
RuntimeIsClean(c) == c.res \notin {"active", "stale"} /\ c.research = "recovered"

Evaluate_PositionsOnly(r, c, pos) == PositionsAgree(r, pos) /\ RuntimeIsClean(c)

(* evaluatePostgresAuthorityState: what the transaction reads back after the cleanup and the projection.  An   *)
(* order the broker has open must be known and none other; reservations must be gone; a recovery has happened. *)
Evaluate(r, c, pos) ==
    /\ PositionsAgree(r, pos) /\ OrdersAgree(r)
    /\ RuntimeIsClean(c)

(* syncAccountState of the mapped snapshot: positions are replaced, the ones the broker no longer has closed. *)
Projected(r) == run[r].pos

Keep_CleanupFirst(r, c) == res' = c.res /\ research' = c.research /\ UNCHANGED <<pgPos, pgOpen>>

(* A validation error rolls the transaction back, the cleanup and the projection with it. *)
Keep(r, c) == UNCHANGED store

(* One serializable transaction: fence, policy, cleanup, projection, evaluation, checkpoint. *)
Validate(r) ==
    /\ At(r, "validate") /\ Fenced(r)
    /\ LET c == Cleaned
       IN  \/ /\ Evaluate(r, c, Projected(r))
              /\ res' = c.res /\ research' = c.research /\ pgPos' = Projected(r) /\ UNCHANGED pgOpen
              /\ ckpt' = [ckpt EXCEPT ![r] = "passed"] /\ Goto(r, "done") /\ UNCHANGED lease
           \/ /\ ~Evaluate(r, c, Projected(r))
              /\ Keep(r, c) /\ Goto(r, "block") /\ UNCHANGED <<ckpt, lease>>
    /\ UNCHANGED <<held, open, faults>>

ValidateUnfenced(r) ==
    /\ At(r, "validate") /\ ~Fenced(r) /\ Goto(r, "block")
    /\ UNCHANGED <<held, open, pgPos, pgOpen, res, research, lease, ckpt, faults>>

MayBlock_Unfenced(r) == TRUE

(* finalizeBlockedCheckpoint is fenced as well, and only closes a checkpoint that is running. *)
MayBlock(r) == Fenced(r) /\ ckpt[r] = "running"

Block(r) ==
    /\ At(r, "block")
    /\ ckpt' = [ckpt EXCEPT ![r] = IF MayBlock(r) THEN "blocked" ELSE @]
    /\ Goto(r, "done")
    /\ UNCHANGED <<held, open, pgPos, pgOpen, res, research, lease, faults>>

(* The scheduled command releases its lease. *)
Release(r) ==
    /\ At(r, "done") /\ Goto(r, "over") /\ lease' = IF Fenced(r) THEN 0 ELSE lease
    /\ UNCHANGED <<held, open, pgPos, pgOpen, res, research, ckpt, faults>>

(* The process stalls or dies and its lease runs out; a stalled one may wake up later. *)
LeaseExpires(r) ==
    /\ Fenced(r) /\ run[r].pc \notin {"none", "over", "dead"} /\ faults < MaxFaults /\ faults' = faults + 1
    /\ lease' = 0
    /\ \/ UNCHANGED run
       \/ Goto(r, "dead")
    /\ UNCHANGED <<held, open, pgPos, pgOpen, res, research, ckpt>>

(* The account moves on: an order fills or is cancelled, a position is closed by hand. *)
BrokerMoves ==
    /\ \/ open /\ open' = FALSE /\ held' \in {held, Positions}
       \/ held /= {} /\ held' = {} /\ UNCHANGED open
    /\ run' = [r \in Runs |-> [run[r] EXCEPT !.moved = @ \/ run[r].pc \in {"positions", "orders", "validate"}]]
    /\ UNCHANGED <<pgPos, pgOpen, res, research, lease, ckpt, faults>>

(* The application's own reconciliation records the order. *)
AppRecords ==
    /\ pgOpen /= open /\ pgOpen' = open
    /\ UNCHANGED <<held, open, pgPos, res, research, lease, ckpt, run, faults>>

Step(r) ==
    \/ Start(r) \/ CapturePositions(r) \/ CaptureOrders(r) \/ CaptureFails(r)
    \/ Validate(r) \/ ValidateUnfenced(r) \/ Block(r) \/ Release(r) \/ LeaseExpires(r)

Next == (\E r \in Runs : Step(r)) \/ BrokerMoves \/ AppRecords

TypeOK ==
    /\ held \subseteq Positions /\ pgPos \subseteq Positions /\ open \in BOOLEAN /\ pgOpen \in BOOLEAN
    /\ lease \in {0} \cup Runs
    /\ \A r \in Runs : ckpt[r] \in {"none", "running", "passed", "blocked"}

(* Stale state is cleaned up exactly when a cutover passes: a cutover that is refused, superseded or dies leaves *)
(* reservations and research runs as they were.                                                                *)
CleanupNeedsPass == res = "expired" => \E r \in Runs : ckpt[r] = "passed"

(* A cutover that was overtaken by another one never decides its checkpoint afterwards, so the newest checkpoint *)
(* cannot be contradicted by an older command that wakes up.                                                     *)
OvertakenNeverDecidesStep ==
    \A r \in Runs : (\E q \in Runs : q > r /\ ckpt[q] /= "none") => ckpt'[r] = ckpt[r]

(* When a checkpoint passes and the account did not move since its reading began, PostgreSQL holds exactly *)
(* the positions and the open orders of the broker.                                                       *)
PassedDescribesBrokerStep ==
    \A r \in Runs :
        ckpt'[r] = "passed" /\ ckpt[r] /= "passed" /\ ~run[r].moved => pgPos' = held /\ pgOpen' = open
=============================================================================
