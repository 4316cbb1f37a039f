---------------------------- MODULE HighWaterMark ---------------------------
(***************************************************************************)
(* The sign-in logs of one tenant (log-ingest): EntraSignInLogs.psm1 and   *)
(* HighWaterMark.psm1, with the inline stage of StageExecutor.psm1 that    *)
(* runs the fetch.  It reads the records of a window that starts from the  *)
(* high-water mark, moves the mark to the latest record it read, and       *)
(* returns; only then does the stage upload the file they were written to. *)
(* The audit entities (MgmtApiCommon.psm1) move their mark the same way.   *)
(*                                                                         *)
(* Time is counted in steps of the look-back.  The source (Graph) is       *)
(* external: a record becomes visible some time after its event, and a     *)
(* query returns the visible ones of its window, in the order of time.     *)
(***************************************************************************)
EXTENDS Integers, FiniteSetsExt

CONSTANTS
    Runs,             \* the runs of the job
    Horizon,          \* bound: the last instant
    Lookback,         \* overlap of two windows: 15 minutes
    Day,              \* longest window: 24 hours
    MaxLag,           \* external: how late a record becomes visible
    MaxRetries,       \* $inlineMaxRetries: 5
    NoMark            \* there is no sentinel blob

ASSUME WindowAssumption ==
    /\ {Horizon, Lookback, Day, MaxLag, MaxRetries} \subseteq Nat
    /\ MaxLag <= Lookback + 1   \* no query reads the current instant
    /\ NoMark \notin Int

VARIABLES
    now,
    occurred,   \* events, by their time: at most one at an instant
    listed,     \* those a query can see
    mark,       \* _state/<entity>/<tenant>/high_water_mark.json
    landed,     \* records in the landing container
    tooOld,     \* not landed when a run came to look, more than a day later
    dropped,    \* not landed by the run that took the mark past them
    abreast,    \* two runs have been under way at once (a forced release)
    run         \* per run, the stage and its writer

source == <<now, occurred, listed>>
history == <<tooOld, dropped, abreast>>
vars == <<source, mark, landed, history, run>>

Instants == 0..Horizon
At(pc) == [pc |-> pc, backfill |-> FALSE, cursor |-> 0, end |-> 0,
           written |-> {}, attempt |-> 0]
Active(r) == run[r].pc \in {"resolve", "fetch", "mark", "emit"}

RunStates == [pc : {"idle", "resolve", "fetch", "mark", "emit", "done", "failed", "dead"},
              backfill : BOOLEAN, cursor : -Day..(Horizon + 1), end : Instants,
              written : SUBSET Instants, attempt : 0..MaxRetries]

TypeInv ==
    /\ now \in Instants
    /\ listed \subseteq occurred /\ occurred \subseteq 0..now
    /\ mark \in Instants \cup {NoMark}
    /\ landed \subseteq listed /\ dropped \subseteq listed /\ tooOld \subseteq occurred
    /\ abreast \in BOOLEAN
    /\ run \in [Runs -> RunStates]

Init ==
    /\ now = 0
    /\ occurred = {} /\ listed = {}
    /\ mark = NoMark
    /\ landed = {} /\ tooOld = {} /\ dropped = {}
    /\ abreast = FALSE
    /\ run = [r \in Runs |-> At("idle")]

-----------------------------------------------------------------------------
(* The source and the clock                                                *)

\* Time passes.  An event may have happened, and late records are listed.
Tick ==
    /\ now < Horizon
    /\ now' = now + 1
    /\ occurred' \in {occurred, occurred \cup {now}}
    /\ \E late \in SUBSET (occurred' \ listed) :
         /\ \A t \in (occurred' \ listed) \ late : now' - t <= MaxLag
         /\ listed' = listed \cup late
    /\ UNCHANGED <<mark, landed, history, run>>

-----------------------------------------------------------------------------
(* The fetch                                                               *)

\* The dispatcher starts a run; a backfill names its window.
Start(r) ==
    /\ run[r].pc = "idle"
    /\ abreast' = (abreast \/ \E q \in Runs : Active(q))
    /\ \/ run' = [run EXCEPT ![r].pc = "resolve"]
       \/ \E s, e \in 0..now :
            /\ s < e
            /\ run' = [run EXCEPT ![r].pc = "resolve", ![r].backfill = TRUE,
                                  ![r].cursor = s, ![r].end = e]
    /\ UNCHANGED <<source, mark, landed, tooOld, dropped>>

\* Mutant: the window starts where the last one ended.
WindowStartAtMark == IF mark = NoMark THEN now - Day ELSE Max({mark, now - Day})

WindowStart == IF mark = NoMark THEN now - Day
               ELSE Max({mark - Lookback, now - Day})

\* Resolve-IngestionWindow, Resolve-SignInWindow.
ResolveWindow(r) ==
    /\ run[r].pc = "resolve"
    /\ IF run[r].backfill
       THEN /\ run' = [run EXCEPT ![r].pc = "fetch"]
            /\ UNCHANGED tooOld
       ELSE /\ run' = [run EXCEPT ![r].pc = "fetch",
                                  ![r].cursor = WindowStart, ![r].end = now]
            /\ tooOld' = tooOld \cup {t \in occurred \ landed : t < now - Day}
    /\ UNCHANGED <<source, mark, landed, dropped, abreast>>

Unread(r) == {t \in listed : run[r].cursor <= t /\ t < run[r].end}

\* A page of records, in the order of their time, goes to the writer.
FetchPage(r) ==
    /\ run[r].pc = "fetch"
    /\ Unread(r) # {}
    /\ LET t == Min(Unread(r)) IN
         run' = [run EXCEPT ![r].written = @ \cup {t}, ![r].cursor = t + 1]
    /\ UNCHANGED <<source, mark, landed, history>>

\* Mutant: a backfill moves the mark, too.
FetchEndsAnyMode(r) ==
    /\ run[r].pc = "fetch"
    /\ Unread(r) = {}
    /\ run' = [run EXCEPT ![r].pc = IF run[r].written = {} THEN "emit" ELSE "mark"]
    /\ UNCHANGED <<source, mark, landed, history>>

\* No next page.  A backfill, or a window without records, leaves the mark.
FetchEnds(r) ==
    /\ run[r].pc = "fetch"
    /\ Unread(r) = {}
    /\ run' = [run EXCEPT ![r].pc = IF run[r].backfill \/ run[r].written = {}
                                    THEN "emit" ELSE "mark"]
    /\ UNCHANGED <<source, mark, landed, history>>

\* The fetch throws.  The stage calls it again only if nothing was written.
FetchThrows(r) ==
    /\ run[r].pc \in {"resolve", "fetch"}
    /\ \/ /\ run[r].written = {}
          /\ run[r].attempt < MaxRetries
          /\ run' = [run EXCEPT ![r].pc = "resolve", ![r].attempt = @ + 1]
       \/ run' = [run EXCEPT ![r] = At("failed")]
    /\ UNCHANGED <<source, mark, landed, history>>

\* Set-HighWaterMark: the last thing the fetch does.
SetMark(r) ==
    /\ run[r].pc = "mark"
    /\ mark' = Max(run[r].written)
    /\ run' = [run EXCEPT ![r].pc = "emit"]
    /\ UNCHANGED <<source, landed, history>>

\* All attempts of the write failed; the last may have taken effect.  Records
\* have been written, so the stage fails.
SetMarkThrows(r) ==
    /\ run[r].pc = "mark"
    /\ run' = [run EXCEPT ![r] = At("failed")]
    /\ \/ UNCHANGED <<mark, dropped>>
       \/ /\ mark' = Max(run[r].written)
          /\ dropped' = dropped \cup run[r].written
    /\ UNCHANGED <<source, landed, tooOld, abreast>>

-----------------------------------------------------------------------------
(* The stage                                                               *)

\* Mutant: the writer of the fetch is abandoned, its file is not uploaded.
EmitNothing(r) ==
    /\ run[r].pc = "emit"
    /\ run' = [run EXCEPT ![r] = At("done")]
    /\ UNCHANGED <<source, mark, landed, history>>

\* $emitResult: the stage's file is uploaded; its path is the run's own.
Emit(r) ==
    /\ run[r].pc = "emit"
    /\ landed' = landed \cup run[r].written
    /\ run' = [run EXCEPT ![r] = At("done")]
    /\ UNCHANGED <<source, mark, history>>

PastMark(r) == run[r].pc = "emit" /\ ~run[r].backfill

\* What the run has written goes with its container.
Abandon(r, pc) ==
    /\ run' = [run EXCEPT ![r] = At(pc)]
    /\ dropped' = IF PastMark(r) THEN dropped \cup run[r].written ELSE dropped
    /\ UNCHANGED <<source, mark, landed, tooOld, abreast>>

\* The upload throws for good: the entity is recorded as failed.
EmitThrows(r) ==
    /\ run[r].pc = "emit" /\ run[r].written # {}
    /\ Abandon(r, "failed")

\* The execution is stopped, or exceeds its replica timeout.
Dies(r) == Active(r) /\ Abandon(r, "dead")

Next ==
    \/ Tick
    \/ \E r \in Runs :
         \/ Start(r) \/ ResolveWindow(r) \/ FetchPage(r) \/ FetchEnds(r)
         \/ FetchThrows(r) \/ SetMark(r) \/ SetMarkThrows(r)
         \/ Emit(r) \/ EmitThrows(r) \/ Dies(r)

Spec == Init /\ [][Next]_vars

-----------------------------------------------------------------------------
(* Properties                                                              *)

\* Records behind the mark that are on their way to the container.
InFlight == UNION {run[r].written : r \in {q \in Runs : run[q].pc = "emit"}}

\* No record falls between two windows: one that has not landed, and is not
\* about to, is within the next window, however late the source listed it,
\* wherever runs failed, were stopped or overtook each other.  Two exceptions: a
\* record more than a day old when a run came to look, which the cap of
\* Resolve-SignInWindow leaves out; and those a run had read before it set the
\* mark and then did not upload - the mark is set by the fetch, before the stage
\* uploads its file.
NothingSkipped ==
    mark # NoMark =>
        \A t \in occurred \ (landed \cup InFlight \cup tooOld \cup dropped) :
            t >= mark - Lookback

\* Set-HighWaterMark overwrites the sentinel unconditionally; while runs do not
\* overlap, neither an empty window, nor the one-day cap, nor a failure, nor a
\* backfill of the past takes the mark back.
MarkNeverReturns ==
    [][mark # NoMark /\ ~abreast => mark' >= mark]_mark

\* The mark is the time of a record that has landed ("the last successfully-
\* landed record's source-time", HighWaterMark.psm1), is about to, or was
\* dropped after the mark had been set.
MarkIsAccountedFor ==
    mark # NoMark => mark \in landed \cup InFlight \cup dropped

\* What the container holds explains the mark.
MarkIsFounded == TypeInv /\ MarkIsAccountedFor
=============================================================================
