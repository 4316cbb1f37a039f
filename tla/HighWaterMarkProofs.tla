------------------------ MODULE HighWaterMarkProofs -------------------------
(***************************************************************************)
(* NothingSkipped, MarkNeverReturns and MarkIsFounded for any runs, any    *)
(* window lengths and any lag the look-back allows for.                    *)
(*                                                                         *)
(* NothingSkipped speaks of the mark.  What makes it inductive is what a   *)
(* run knows of its window before it sets the mark: whatever lies before   *)
(* its cursor has been read, or is accounted for by others, or is so young *)
(* that the look-back of the next window finds it (WindowOK).  A backfill  *)
(* that is about to upload accounts for nothing: if it dies, nobody notes  *)
(* what it had read.                                                       *)
(***************************************************************************)
EXTENDS HighWaterMark, WellFoundedInduction, TLAPS

\* A record that has landed, was dropped, or that a run is about to upload
\* which has set the mark past it.
Founded(t) ==
    \/ t \in landed \cup dropped
    \/ \E r \in Runs : PastMark(r) /\ t \in run[r].written
Covered(t) == Founded(t) \/ t \in tooOld

ClockOK ==
    /\ \A t \in occurred : t < now
    /\ \A t \in occurred \ listed : t >= now - MaxLag

RunOK(r) ==
    /\ run[r].cursor <= run[r].end /\ run[r].end <= now
    /\ run[r].written \subseteq listed /\ \A t \in run[r].written : t < run[r].end
    /\ run[r].pc \in {"idle", "resolve"} => run[r].written = {}
    /\ run[r].pc = "mark" => run[r].written # {} /\ ~run[r].backfill

\* Young enough for the next window.
Young(t, r) == t >= run[r].end - 1 - Lookback

\* What the fetch has passed.
Passed(t, r) == run[r].pc = "mark" \/ t < run[r].cursor

WindowOK(r) ==
    run[r].pc \in {"fetch", "mark"} /\ ~run[r].backfill =>
        \A t \in occurred :
            Passed(t, r) => Covered(t) \/ t \in run[r].written \/ Young(t, r)

MarkOK ==
    mark # NoMark =>
        /\ Founded(mark)
        /\ \A t \in occurred : Covered(t) \/ t >= mark - Lookback

\* A run that is alone reads the record at the mark again, or later ones only.
AheadOK(r) ==
    ~abreast /\ mark # NoMark /\ ~run[r].backfill =>
        /\ run[r].pc \in {"fetch", "mark"} => mark < run[r].end
        /\ /\ run[r].pc \in {"fetch", "mark"}
           /\ Passed(mark, r)
           /\ run[r].written # {}
           => \E t \in run[r].written : t >= mark

AloneOK == ~abreast => \A p, q \in Runs : Active(p) /\ Active(q) => p = q

Inv ==
    /\ TypeInv /\ ClockOK /\ MarkOK /\ AloneOK
    /\ \A r \in Runs : RunOK(r) /\ WindowOK(r) /\ AheadOK(r)

-----------------------------------------------------------------------------
(* Extrema.                                                                *)

(* A set of naturals that is not empty has a least element, and Min is it. *)
LEMMA MinOfNaturals ==
  ASSUME NEW S, S \subseteq Nat, S # {}
  PROVE  Min(S) \in S /\ \A y \in S : Min(S) <= y
<1> DEFINE less == OpToRel(<, Nat)
<1>1. ASSUME NEW x \in Nat, NEW y \in Nat, x < y PROVE <<x, y>> \in less
  BY <1>1 DEF OpToRel
<1>2. IsWellFoundedOn(less, Nat)
  BY NatLessThanWellFounded
<1> HIDE DEF less
<1>3. PICK x \in S : \A y \in S : ~(<<y, x>> \in less)
  BY <1>2, WFMin, Zenon
<1>4. ASSUME NEW y \in S PROVE x <= y
  <2>1. x \in Nat /\ y \in Nat
    OBVIOUS
  <2>2. y < x => <<y, x>> \in less
    BY <1>1, <2>1
  <2>3. ~(y < x)
    BY <1>3, <2>2, Zenon
  <2> QED
    BY <2>1, <2>3
<1> QED
  BY <1>4 DEF Min

(* A bounded set of naturals that is not empty has a greatest element, and *)
(* Max is it: bound minus the least distance to the bound.                 *)
LEMMA MaxOfNaturals ==
  ASSUME NEW S, S \subseteq Nat, S # {}, NEW b \in Nat, \A x \in S : x <= b
  PROVE  Max(S) \in S /\ \A y \in S : y <= Max(S)
<1> DEFINE below == {b - x : x \in S}
<1>1. below \subseteq Nat
  <2>1. \A x \in S : b - x \in Nat
    OBVIOUS
  <2> QED
    BY <2>1
<1>2. below # {}
  OBVIOUS
<1>3. Min(below) \in below /\ \A y \in below : Min(below) <= y
  <2> HIDE DEF below
  <2> QED
    BY <1>1, <1>2, MinOfNaturals
<1>4. PICK x \in S : Min(below) = b - x
  BY <1>3
<1>5. ASSUME NEW y \in S PROVE y <= x
  <2>1. b - y \in below
    OBVIOUS
  <2>2. b - x <= b - y
    BY <1>3, <1>4, <2>1
  <2> QED
    BY <2>2
<1> QED
  BY <1>5 DEF Max

(* The mark a run is about to set is the latest record it has written.     *)
LEMMA LatestWritten ==
  ASSUME TypeInv, NEW r \in Runs, run[r].written # {}
  PROVE  /\ Max(run[r].written) \in run[r].written
         /\ \A t \in run[r].written : t <= Max(run[r].written)
<1>1. run[r].written \subseteq Nat /\ \A t \in run[r].written : t <= Horizon
  BY WindowAssumption DEF TypeInv, RunStates, Instants
<1> QED
  BY <1>1, WindowAssumption, MaxOfNaturals

(* A window starts at the look-back or at a day ago, whichever is later,   *)
(* and not after now.                                                      *)
LEMMA WindowStartBound ==
  ASSUME TypeInv, mark # NoMark => mark <= now
  PROVE  /\ WindowStart \in -Day..now
         /\ WindowStart = now - Day \/ (mark # NoMark /\ WindowStart = mark - Lookback)
         /\ mark # NoMark => WindowStart >= mark - Lookback
         /\ WindowStart >= now - Day
<1> DEFINE two == {mark - Lookback, now - Day}
<1>1. now \in Nat /\ Lookback \in Nat /\ Day \in Nat
  BY WindowAssumption DEF TypeInv, Instants
<1>2. CASE mark = NoMark
  BY <1>1, <1>2 DEF WindowStart
<1>3. CASE mark # NoMark
  <2>1. mark \in Nat /\ mark <= now
    BY <1>3, WindowAssumption DEF TypeInv, Instants
  <2>2. \E x \in two : \A y \in two : x >= y
    BY <1>1, <2>1
  <2>3. Max(two) \in two /\ \A y \in two : Max(two) >= y
    BY <2>2 DEF Max
  <2> QED
    BY <1>1, <1>3, <2>1, <2>3 DEF WindowStart
<1> QED
  BY <1>2, <1>3

(* The bounds are naturals.                                                *)
LEMMA Bounds ==
  /\ Horizon \in Nat /\ Lookback \in Nat /\ Day \in Nat /\ MaxLag \in Nat
  /\ MaxRetries \in Nat /\ MaxLag <= Lookback + 1
  /\ \A t \in Instants : t # NoMark
BY WindowAssumption DEF Instants

(* The mark is the time of a record that the source has listed.            *)
LEMMA MarkInPast ==
  ASSUME Inv, mark # NoMark
  PROVE  mark \in listed /\ mark \in Nat /\ mark < now
<1>1. mark \in landed \cup dropped \/ \E q \in Runs : mark \in run[q].written
  BY DEF Inv, MarkOK, Founded
<1>2. mark \in listed
  BY <1>1 DEF Inv, TypeInv, RunOK
<1> QED
  BY <1>2, Bounds DEF Inv, ClockOK, TypeInv, Instants

-----------------------------------------------------------------------------
(* Steps of a run.                                                         *)

(* A step of one run that gives up no record leaves the others as they     *)
(* were, the mark and its records too if it does not move it.              *)
LEMMA RunStep ==
  ASSUME Inv, NEW r \in Runs, UNCHANGED source,
         \A q \in Runs \ {r} : run'[q] = run[q],
         landed \cup dropped \subseteq landed' \cup dropped', tooOld \subseteq tooOld',
         PastMark(r) => \A t \in run[r].written : Founded(t)',
         abreast => abreast', mark' = mark \/ Active(r)
  PROVE  /\ ClockOK'
         /\ \A t : Founded(t) => Founded(t)'
         /\ \A t : Covered(t) => Covered(t)'
         /\ mark' = mark => MarkOK'
         /\ abreast' = abreast /\ (Active(r)' => Active(r)) => AloneOK'
         /\ \A q \in Runs \ {r} : (RunOK(q) /\ WindowOK(q) /\ AheadOK(q))'
<1>1. ClockOK'
  BY DEF Inv, ClockOK, source
<1>2. ASSUME NEW t, Founded(t) PROVE Founded(t)'
  <2>1. CASE t \in landed \cup dropped
    BY <2>1 DEF Founded
  <2>2. ASSUME NEW q \in Runs, PastMark(q), t \in run[q].written PROVE Founded(t)'
    <3>1. CASE q = r
      BY <2>2, <3>1
    <3>2. CASE q # r
      BY <2>2, <3>2 DEF Founded, PastMark
    <3> QED
      BY <3>1, <3>2
  <2> QED
    BY <1>2, <2>1, <2>2 DEF Founded
<1>3. \A t : Covered(t) => Covered(t)'
  BY <1>2 DEF Covered
<1>4. mark' = mark => MarkOK'
  BY <1>2, <1>3 DEF Inv, MarkOK, source
<1>5. abreast' = abreast /\ (Active(r)' => Active(r)) => AloneOK'
  BY DEF Inv, AloneOK, Active
<1>6. ASSUME NEW q \in Runs \ {r} PROVE (RunOK(q) /\ WindowOK(q) /\ AheadOK(q))'
  <2>1. RunOK(q)'
    BY DEF Inv, RunOK, Active, source
  <2>2. WindowOK(q)'
    BY <1>3 DEF Inv, WindowOK, Passed, Young, source
  <2>3. CASE mark' = mark
    BY <2>1, <2>2, <2>3 DEF Inv, AheadOK, Passed
  <2>4. CASE Active(r)
    <3>1. Active(q) => abreast'
      BY <2>4 DEF Inv, AloneOK
    <3> QED
      BY <2>1, <2>2, <3>1 DEF AheadOK, Active
  <2> QED
    BY <2>3, <2>4
<1> QED
  BY <1>1, <1>2, <1>3, <1>4, <1>5, <1>6

(* Nothing has happened at first.                                          *)
LEMMA InitInv == Init => Inv
<1> SUFFICES ASSUME Init PROVE Inv
  OBVIOUS
<1>1. TypeInv
  <2>1. At("idle") \in RunStates
    BY Bounds DEF At, Instants, RunStates
  <2>2. run \in [Runs -> RunStates]
    BY <2>1 DEF Init
  <2>3. 0 \in Instants
    BY Bounds DEF Instants
  <2> QED
    BY <2>2, <2>3 DEF Init, TypeInv
<1>2. \A r \in Runs : RunOK(r) /\ WindowOK(r) /\ AheadOK(r)
  BY DEF Init, At, RunOK, WindowOK, AheadOK, Active
<1> QED
  BY <1>1, <1>2 DEF Init, Inv, At, ClockOK, MarkOK, AloneOK, Active

(* Time passes: what a run has passed and not seen is young, since the     *)
(* source lists a record before it is older than the look-back.            *)
LEMMA TickKeeps == ASSUME Inv, Tick PROVE Inv'
<1> USE DEF Inv, Tick
<1>1. TypeInv'
  BY WindowAssumption DEF TypeInv, Instants, history
<1>2. ClockOK'
  BY WindowAssumption DEF TypeInv, ClockOK, Instants
<1>3. \A t : Founded(t)' = Founded(t) /\ Covered(t)' = Covered(t)
  BY DEF Founded, Covered, PastMark, history
<1>4. \A t \in occurred' \ occurred : t = now
  OBVIOUS
<1>5. MarkOK'
  <2>1. mark # NoMark => now >= mark - Lookback
    BY MarkInPast, Bounds DEF TypeInv, Instants
  <2> QED
    BY <1>3, <1>4, <2>1 DEF MarkOK
<1>6. AloneOK'
  BY DEF AloneOK, Active, history
<1>7. ASSUME NEW r \in Runs PROVE (RunOK(r) /\ WindowOK(r) /\ AheadOK(r))'
  <2>1. run[r].end \in Nat /\ now \in Nat /\ run[r].cursor \in Int
    BY Bounds DEF TypeInv, RunStates, Instants
  <2>2. RunOK(r)'
    BY <2>1 DEF RunOK, Active, TypeInv
  <2>3. WindowOK(r)'
    <3>1. Active(r) => Young(now, r)
      BY <2>1, WindowAssumption DEF RunOK, Young
    <3> QED
      BY <1>3, <1>4, <3>1 DEF WindowOK, Passed, Young, Active
  <2>4. AheadOK(r)'
    BY DEF AheadOK, Passed, history
  <2> QED
    BY <2>2, <2>3, <2>4
<1> QED
  BY <1>1, <1>2, <1>5, <1>6, <1>7

(* A run starts; beside another one, it is abreast.                        *)
LEMMA StartKeeps == ASSUME Inv, NEW r \in Runs, Start(r) PROVE Inv'
<1>1. TypeInv'
  <2>1. now \in 0..Horizon /\ \A s \in 0..now : s \in -Day..(Horizon + 1) /\ s \in Instants
    BY Bounds DEF Inv, TypeInv, Instants
  <2>2. abreast' \in BOOLEAN
    BY DEF Start
  <2>3. run' \in [Runs -> RunStates]
    <3>1. run \in [Runs -> RunStates]
      BY DEF Inv, TypeInv
    <3>2. CASE run' = [run EXCEPT ![r].pc = "resolve"]
      BY <3>1, <3>2, Bounds DEF RunStates, Instants
    <3>3. ASSUME NEW s \in 0..now, NEW e \in 0..now,
                 run' = [run EXCEPT ![r].pc = "resolve", ![r].backfill = TRUE,
                                    ![r].cursor = s, ![r].end = e]
          PROVE  run' \in [Runs -> RunStates]
      <4>1. s \in -Day..(Horizon + 1) /\ e \in Instants
        BY <2>1
      <4> DEFINE new == [run[r] EXCEPT !.pc = "resolve", !.backfill = TRUE,
                                         !.cursor = s, !.end = e]
      <4>2. new \in RunStates
        BY <3>1, <4>1 DEF RunStates
      <4>3. run' = [run EXCEPT ![r] = new]
        BY <3>3, Zenon
      <4> HIDE DEF new
      <4> QED
        BY <3>1, <4>2, <4>3
    <3> QED
      BY <3>2, <3>3 DEF Start
  <2> QED
    BY <2>2, <2>3 DEF Inv, Start, TypeInv, source
<1>2. /\ run'[r].pc = "resolve" /\ run'[r].written = {}
      /\ run'[r].cursor <= run'[r].end /\ run'[r].end <= now
      /\ \A q \in Runs \ {r} : run'[q] = run[q]
  <2>1. run \in [Runs -> RunStates] /\ run[r].written = {}
      /\ run[r].cursor <= run[r].end /\ run[r].end <= now
    BY DEF Inv, TypeInv, RunOK, Start
  <2>2. CASE run' = [run EXCEPT ![r].pc = "resolve"]
    BY <2>1, <2>2, Bounds DEF RunStates, Instants
  <2>3. ASSUME NEW s \in 0..now, NEW e \in 0..now,
               run' = [run EXCEPT ![r].pc = "resolve", ![r].backfill = TRUE,
                                  ![r].cursor = s, ![r].end = e]
        PROVE  /\ run'[r].pc = "resolve" /\ run'[r].written = {}
               /\ run'[r].cursor <= run'[r].end /\ run'[r].end <= now
               /\ \A q \in Runs \ {r} : run'[q] = run[q]
    BY <2>1, <2>3, Bounds DEF RunStates, Instants
  <2> QED
    BY <2>2, <2>3 DEF Start
<1>3. AloneOK'
  BY <1>2 DEF Inv, Start, AloneOK, Active
<1>4. (RunOK(r) /\ WindowOK(r) /\ AheadOK(r))'
  BY <1>2 DEF Start, RunOK, WindowOK, AheadOK, source
<1>5. ~PastMark(r)
  BY DEF Start, PastMark
<1> QED
  BY <1>1, <1>2, <1>3, <1>4, <1>5, RunStep DEF Inv, Start

(* What stands of a run after a step of it.                                *)
LEMMA RunBecomes ==
  ASSUME TypeInv, NEW r \in Runs, NEW new \in RunStates, run' = [run EXCEPT ![r] = new]
  PROVE  /\ run' \in [Runs -> RunStates] /\ run'[r] = new
         /\ \A q \in Runs \ {r} : run'[q] = run[q]
BY DEF TypeInv

LEMMA AtRest ==
  ASSUME NEW pc \in {"idle", "resolve", "fetch", "mark", "emit", "done", "failed", "dead"}
  PROVE  At(pc) \in RunStates
BY Bounds DEF At, RunStates, Instants

(* The window of a run is resolved: all that lies before it is accounted   *)
(* for, as far as the mark goes, or a day old.                             *)
LEMMA ResolveWindowKeeps == ASSUME Inv, NEW r \in Runs, ResolveWindow(r) PROVE Inv'
<1>1. /\ run[r] \in RunStates /\ run[r].pc = "resolve" /\ run[r].written = {}
      /\ run[r].cursor <= run[r].end /\ run[r].end <= now /\ now \in Instants
  BY DEF Inv, TypeInv, RunOK, ResolveWindow
<1>2. /\ WindowStart \in -Day..now
      /\ WindowStart = now - Day \/ (mark # NoMark /\ WindowStart = mark - Lookback)
  <2>1. mark # NoMark => mark <= now
    BY MarkInPast, <1>1, Bounds DEF Instants
  <2> QED
    BY <2>1, WindowStartBound DEF Inv
<1> DEFINE new == IF run[r].backfill THEN [run[r] EXCEPT !.pc = "fetch"]
                  ELSE [run[r] EXCEPT !.pc = "fetch", !.cursor = WindowStart, !.end = now]
<1>3. /\ new \in RunStates /\ new.pc = "fetch" /\ new.written = {}
      /\ new.cursor <= new.end /\ new.end <= now /\ new.backfill = run[r].backfill
      /\ ~run[r].backfill => new.cursor = WindowStart /\ new.end = now
  <2>1. WindowStart \in -Day..(Horizon + 1)
    BY <1>1, <1>2, Bounds DEF Instants
  <2>2. CASE run[r].backfill
    BY <1>1, <2>2 DEF RunStates
  <2>3. CASE ~run[r].backfill
    <3>1. new = [run[r] EXCEPT !.pc = "fetch", !.cursor = WindowStart, !.end = now]
      BY <2>3
    <3>2. new \in RunStates
      BY <1>1, <2>1, <3>1 DEF RunStates
    <3>3. /\ new.pc = "fetch" /\ new.written = {} /\ new.backfill = run[r].backfill
          /\ new.cursor = WindowStart /\ new.end = now
      BY <1>1, <3>1 DEF RunStates
    <3>4. WindowStart <= now /\ now <= now
      BY <1>1, <1>2, Bounds DEF Instants
    <3> HIDE DEF new
    <3> QED
      BY <2>3, <3>2, <3>3, <3>4
  <2> QED
    BY <2>2, <2>3
<1>4. run' = [run EXCEPT ![r] = new]
  BY Zenon DEF ResolveWindow
<1> HIDE DEF new
<1>5. /\ run' \in [Runs -> RunStates] /\ run'[r] = new
      /\ \A q \in Runs \ {r} : run'[q] = run[q]
  BY <1>3, <1>4, RunBecomes DEF Inv
<1>6. /\ UNCHANGED <<source, mark, landed, dropped, abreast>>
      /\ tooOld \subseteq tooOld' /\ tooOld' \subseteq tooOld \cup occurred
      /\ ~run[r].backfill => \A t \in occurred : t < now - Day => t \in landed' \cup tooOld'
  BY DEF ResolveWindow
<1>7. TypeInv'
  BY <1>5, <1>6 DEF Inv, TypeInv, source
<1>8. ~PastMark(r) /\ Active(r)
  BY <1>1 DEF PastMark, Active
<1>9. RunOK(r)' /\ AheadOK(r)'
  <2>1. ~run[r].backfill /\ mark # NoMark => mark < now
    BY MarkInPast
  <2> QED
    <3>1. RunOK(r)'
      BY <1>3, <1>5, <1>6 DEF RunOK, source
    <3>2. AheadOK(r)'
      BY <1>3, <1>5, <1>6, <2>1 DEF AheadOK
    <3> QED
      BY <3>1, <3>2
<1>10. WindowOK(r)'
  <2> SUFFICES ASSUME ~run[r].backfill, NEW t \in occurred, t < WindowStart
               PROVE  Covered(t)'
    <3>1. occurred' = occurred /\ run'[r].pc = "fetch" /\ run'[r].backfill = run[r].backfill
          /\ (~run[r].backfill => run'[r].cursor = WindowStart)
      BY <1>3, <1>5, <1>6 DEF source
    <3> QED
      BY <3>1 DEF WindowOK, Passed
  <2>1. CASE WindowStart = now - Day
    BY <1>6, <2>1 DEF Covered, Founded
  <2>2. CASE mark # NoMark /\ WindowStart = mark - Lookback
    <3>1. t \in Nat /\ mark \in Nat
      BY <2>2, MarkInPast DEF Inv, TypeInv, Instants
    <3>2. Covered(t)
      BY <2>2, <3>1, Bounds DEF Inv, MarkOK
    <3> QED
      BY <1>5, <1>6, <1>8, <3>2, RunStep
  <2> QED
    BY <1>2, <2>1, <2>2
<1> QED
  BY <1>5, <1>6, <1>7, <1>8, <1>9, <1>10, RunStep DEF Inv

(* What a run has passed without seeing it is young: the source lists what *)
(* is older, and a query returns it.                                       *)
LEMMA UnseenIsYoung ==
  ASSUME Inv, NEW r \in Runs, NEW t \in occurred, t \notin listed
  PROVE  Young(t, r)
<1>1. t \in Nat /\ t >= now - MaxLag /\ run[r].end <= now
  BY DEF Inv, TypeInv, Instants, ClockOK, RunOK
<1>2. now \in Nat /\ run[r].end \in Nat
  BY DEF Inv, TypeInv, RunStates, Instants
<1> QED
  BY <1>1, <1>2, Bounds DEF Young

(* The fetch writes the record that comes next, so nothing between what it *)
(* had passed and this record has been listed.                             *)
LEMMA FetchPageKeeps == ASSUME Inv, NEW r \in Runs, FetchPage(r) PROVE Inv'
<1> DEFINE t0 == Min(Unread(r))
           new == [run[r] EXCEPT !.written = @ \cup {t0}, !.cursor = t0 + 1]
<1>1. /\ t0 \in listed /\ run[r].cursor <= t0 /\ t0 < run[r].end
      /\ \A t \in listed : run[r].cursor <= t /\ t < run[r].end => t0 <= t
  <2>1. Unread(r) \subseteq Nat /\ Unread(r) # {}
    BY DEF Inv, TypeInv, Unread, FetchPage
  <2>2. t0 \in Unread(r) /\ \A t \in Unread(r) : t0 <= t
    BY <2>1, MinOfNaturals
  <2> HIDE DEF t0
  <2> QED
    BY <2>2 DEF Unread
<1>2. /\ run[r] \in RunStates /\ run[r].pc = "fetch"
      /\ run[r].end <= now /\ now \in Instants /\ run[r].end \in Instants
      /\ run[r].written \subseteq listed /\ \A t \in run[r].written : t < run[r].end
  BY DEF Inv, TypeInv, RunOK, FetchPage, RunStates
<1>3. t0 \in Nat /\ t0 \in Instants /\ t0 + 1 \in -Day..(Horizon + 1) /\ t0 + 1 <= run[r].end
  <2>1. t0 \in occurred /\ occurred \subseteq 0..now
    BY <1>1 DEF Inv, TypeInv
  <2> HIDE DEF t0
  <2> QED
    BY <1>1, <1>2, <2>1, Bounds DEF Instants
<1> HIDE DEF t0
<1>4. /\ new \in RunStates /\ new.pc = "fetch" /\ new.written = run[r].written \cup {t0}
      /\ new.cursor = t0 + 1 /\ new.end = run[r].end /\ new.backfill = run[r].backfill
  BY <1>2, <1>3 DEF RunStates
<1>5. run' = [run EXCEPT ![r] = new]
  BY Zenon DEF FetchPage, t0
<1> HIDE DEF new
<1>6. /\ run' \in [Runs -> RunStates] /\ run'[r] = new
      /\ \A q \in Runs \ {r} : run'[q] = run[q]
  BY <1>4, <1>5, RunBecomes DEF Inv
<1>7. UNCHANGED <<source, mark, landed, dropped, tooOld, abreast>>
  BY DEF FetchPage, history
<1>8. TypeInv'
  BY <1>6, <1>7 DEF Inv, TypeInv, source
<1>9. ~PastMark(r) /\ Active(r)
  BY <1>2 DEF PastMark, Active
<1>10. RunOK(r)'
  BY <1>1, <1>2, <1>3, <1>4, <1>6, <1>7 DEF RunOK, source
<1>11. AheadOK(r)'
  <2>1. mark # NoMark => mark \in Nat
    BY MarkInPast
  <2>2. mark # NoMark /\ mark < t0 + 1 => mark <= t0
    BY <1>3, <2>1
  <2>3. t0 \in run'[r].written
    BY <1>4, <1>6
  <2> QED
    BY <1>2, <1>4, <1>6, <1>7, <2>1, <2>2, <2>3 DEF Inv, AheadOK, Passed
<1>12. WindowOK(r)'
  <2> SUFFICES ASSUME ~run[r].backfill, NEW t \in occurred, t < t0 + 1
               PROVE  Covered(t)' \/ t \in run[r].written \cup {t0} \/ Young(t, r)
    <3>1. /\ occurred' = occurred /\ run'[r].pc = "fetch" /\ run'[r].backfill = run[r].backfill
          /\ run'[r].cursor = t0 + 1 /\ run'[r].end = run[r].end
          /\ run'[r].written = run[r].written \cup {t0}
      BY <1>4, <1>6, <1>7 DEF source
    <3> QED
      BY <3>1 DEF WindowOK, Passed, Young
  <2>1. t \in Nat /\ run[r].cursor \in Int
    BY <1>2 DEF Inv, TypeInv, RunStates
  <2>2. CASE t = t0
    BY <2>2
  <2>3. CASE t < run[r].cursor
    <3>1. Covered(t) \/ t \in run[r].written \/ Young(t, r)
      BY <1>2, <2>3 DEF Inv, WindowOK, Passed
    <3> QED
      BY <1>6, <1>7, <1>9, <3>1, RunStep
  <2>4. CASE run[r].cursor <= t /\ t < t0
    <3>1. run[r].end \in Nat
      BY <1>2 DEF Instants
    <3>2. t \notin listed
      BY <1>1, <1>3, <2>1, <2>4, <3>1
    <3> QED
      BY <3>2, UnseenIsYoung
  <2> QED
    BY <1>3, <2>1, <2>2, <2>3, <2>4
<1> QED
  BY <1>6, <1>7, <1>8, <1>9, <1>10, <1>11, <1>12, RunStep DEF Inv

(* The last page: nothing listed is left in the window.  The record at the *)
(* mark is listed; if the window holds it, the run has written it.         *)
LEMMA FetchEndsKeeps == ASSUME Inv, NEW r \in Runs, FetchEnds(r) PROVE Inv'
<1> DEFINE next == IF run[r].backfill \/ run[r].written = {} THEN "emit" ELSE "mark"
           new == [run[r] EXCEPT !.pc = next]
<1>1. /\ run[r] \in RunStates /\ run[r].pc = "fetch"
      /\ run[r].cursor \in Int /\ run[r].end \in Nat /\ Unread(r) = {}
  BY Bounds DEF Inv, TypeInv, RunStates, Instants, FetchEnds
<1>2. /\ new \in RunStates /\ new.pc = next /\ new.written = run[r].written
      /\ new.cursor = run[r].cursor /\ new.end = run[r].end /\ new.backfill = run[r].backfill
  BY <1>1 DEF RunStates
<1>3. /\ next \in {"emit", "mark"}
      /\ next = "mark" => run[r].written # {} /\ ~run[r].backfill
  OBVIOUS
<1>4. run' = [run EXCEPT ![r] = new]
  BY Zenon DEF FetchEnds
<1> HIDE DEF next, new
<1>5. /\ run' \in [Runs -> RunStates] /\ run'[r] = new
      /\ \A q \in Runs \ {r} : run'[q] = run[q]
  BY <1>2, <1>4, RunBecomes DEF Inv
<1>6. UNCHANGED <<source, mark, landed, dropped, tooOld, abreast>>
  BY DEF FetchEnds, history
<1>7. TypeInv'
  BY <1>5, <1>6 DEF Inv, TypeInv, source
<1>8. ~PastMark(r) /\ Active(r)
  BY <1>1 DEF PastMark, Active
<1>9. RunOK(r)'
  <2>1. RunOK(r)
    BY DEF Inv
  <2> QED
    BY <1>2, <1>3, <1>5, <1>6, <2>1 DEF RunOK, source
<1>10. AheadOK(r)'
  <2> SUFFICES ASSUME ~abreast, mark # NoMark, ~run[r].backfill
               PROVE  /\ mark < run[r].end
                      /\ run[r].written # {} => \E t \in run[r].written : t >= mark
    BY <1>2, <1>3, <1>5, <1>6 DEF AheadOK
  <2>1. mark < run[r].end
    BY <1>1 DEF Inv, AheadOK
  <2>2. mark \in listed /\ mark \in Nat
    BY MarkInPast
  <2>3. mark < run[r].cursor
    BY <1>1, <2>1, <2>2 DEF Unread
  <2> QED
    BY <1>1, <2>1, <2>3 DEF Inv, AheadOK, Passed
<1>11. WindowOK(r)'
  <2> SUFFICES ASSUME ~run[r].backfill, NEW t \in occurred
               PROVE  Covered(t)' \/ t \in run[r].written \/ Young(t, r)
    <3>1. /\ occurred' = occurred /\ run'[r].backfill = run[r].backfill
          /\ run'[r].end = run[r].end /\ run'[r].written = run[r].written
      BY <1>2, <1>5, <1>6 DEF source
    <3> QED
      BY <3>1 DEF WindowOK, Young
  <2>1. t \in Nat
    BY DEF Inv, TypeInv
  <2>2. CASE t < run[r].cursor
    <3>1. Covered(t) \/ t \in run[r].written \/ Young(t, r)
      BY <1>1, <2>2 DEF Inv, WindowOK, Passed
    <3> QED
      BY <1>5, <1>6, <1>8, <3>1, RunStep
  <2>3. CASE t >= run[r].end
    BY <1>1, <2>1, <2>3, Bounds DEF Young
  <2>4. CASE run[r].cursor <= t /\ t < run[r].end
    <3>1. t \notin listed
      BY <1>1, <2>4 DEF Unread
    <3> QED
      BY <3>1, UnseenIsYoung
  <2> QED
    BY <1>1, <2>1, <2>2, <2>3, <2>4
<1> QED
  BY <1>5, <1>6, <1>7, <1>8, <1>9, <1>10, <1>11, RunStep DEF Inv

(* A fetch that throws before it wrote anything is called again; otherwise *)
(* the stage fails, and the mark stays where it was.                       *)
LEMMA FetchThrowsKeeps == ASSUME Inv, NEW r \in Runs, FetchThrows(r) PROVE Inv'
<1>1. /\ run[r] \in RunStates /\ run[r].pc \in {"resolve", "fetch"} /\ now \in Nat
      /\ run[r].cursor <= run[r].end /\ run[r].end <= now
  BY Bounds DEF Inv, TypeInv, RunOK, Instants, FetchThrows
<1>2. PICK new \in RunStates :
        /\ run' = [run EXCEPT ![r] = new]
        /\ new.written = {} /\ new.pc \in {"resolve", "failed"}
        /\ new.cursor <= new.end /\ new.end <= now
  <2>1. CASE /\ run[r].written = {} /\ run[r].attempt < MaxRetries
             /\ run' = [run EXCEPT ![r].pc = "resolve", ![r].attempt = @ + 1]
    <3> DEFINE new == [run[r] EXCEPT !.pc = "resolve", !.attempt = @ + 1]
    <3>1. run[r].attempt + 1 \in 0..MaxRetries
      BY <1>1, <2>1, Bounds DEF RunStates
    <3>2. new \in RunStates
      BY <1>1, <3>1 DEF RunStates
    <3>3. /\ new.written = {} /\ new.pc = "resolve"
          /\ new.cursor = run[r].cursor /\ new.end = run[r].end
      BY <1>1, <2>1 DEF RunStates
    <3>4. run' = [run EXCEPT ![r] = new]
      BY <2>1, Zenon
    <3> HIDE DEF new
    <3> QED
      BY <1>1, <3>2, <3>3, <3>4
  <2>2. CASE run' = [run EXCEPT ![r] = At("failed")]
    <3>1. At("failed") \in RunStates
      BY AtRest
    <3>2. /\ At("failed").written = {} /\ At("failed").pc = "failed"
          /\ At("failed").cursor <= At("failed").end /\ At("failed").end <= now
      BY <1>1 DEF At
    <3> QED
      BY <2>2, <3>1, <3>2
  <2> QED
    BY <2>1, <2>2 DEF FetchThrows
<1>3. /\ run' \in [Runs -> RunStates] /\ run'[r] = new
      /\ \A q \in Runs \ {r} : run'[q] = run[q]
  BY <1>2, RunBecomes DEF Inv
<1>4. UNCHANGED <<source, mark, landed, dropped, tooOld, abreast>>
  BY DEF FetchThrows, history
<1>5. TypeInv'
  BY <1>3, <1>4 DEF Inv, TypeInv, source
<1>6. ~PastMark(r) /\ Active(r)
  BY <1>1 DEF PastMark, Active
<1>7. (RunOK(r) /\ WindowOK(r) /\ AheadOK(r))'
  BY <1>2, <1>3, <1>4 DEF RunOK, WindowOK, AheadOK, source
<1> QED
  BY <1>3, <1>4, <1>5, <1>6, <1>7, RunStep DEF Inv

(* A run that comes to rest, the mark as it was: what it had written past  *)
(* the mark has landed or is noted as dropped.                             *)
LEMMA RestKeeps ==
  ASSUME Inv, NEW r \in Runs, NEW pc \in {"done", "failed", "dead"},
         run' = [run EXCEPT ![r] = At(pc)], UNCHANGED <<source, mark, tooOld, abreast>>,
         landed \subseteq landed', landed' \subseteq listed,
         dropped \subseteq dropped', dropped' \subseteq listed,
         PastMark(r) => run[r].written \subseteq landed' \cup dropped'
  PROVE  Inv'
<1>1. /\ At(pc) \in RunStates /\ At(pc).pc = pc /\ At(pc).written = {}
      /\ At(pc).cursor = 0 /\ At(pc).end = 0
  BY AtRest DEF At
<1>2. /\ run' \in [Runs -> RunStates] /\ run'[r] = At(pc)
      /\ \A q \in Runs \ {r} : run'[q] = run[q]
  BY <1>1, RunBecomes DEF Inv
<1>3. TypeInv'
  BY <1>2 DEF Inv, TypeInv, source
<1>4. now \in Nat
  BY Bounds DEF Inv, TypeInv, Instants
<1>5. (RunOK(r) /\ WindowOK(r) /\ AheadOK(r))'
  BY <1>1, <1>2, <1>4 DEF RunOK, WindowOK, AheadOK, source
<1>6. PastMark(r) => \A t \in run[r].written : Founded(t)'
  BY DEF Founded
<1>7. ~Active(r)'
  BY <1>1, <1>2 DEF Active
<1> QED
  BY <1>2, <1>3, <1>5, <1>6, <1>7, RunStep DEF Inv

LEMMA EmitKeeps == ASSUME Inv, NEW r \in Runs, Emit(r) PROVE Inv'
<1>1. run[r].written \subseteq listed /\ landed \subseteq listed /\ dropped \subseteq listed
  BY DEF Inv, TypeInv, RunOK
<1> QED
  BY <1>1, RestKeeps DEF Emit, history

LEMMA AbandonKeeps ==
  ASSUME Inv, NEW r \in Runs, NEW pc \in {"failed", "dead"}, Abandon(r, pc)
  PROVE  Inv'
<1>1. run[r].written \subseteq listed /\ landed \subseteq listed /\ dropped \subseteq listed
  BY DEF Inv, TypeInv, RunOK
<1> QED
  BY <1>1, RestKeeps DEF Abandon

(* The mark moves to the latest record the run has written: those before   *)
(* it are accounted for, written too, or within the look-back of the end   *)
(* of the window, hence of the record.                                     *)
LEMMA MarkMoves ==
  ASSUME Inv, NEW r \in Runs, run[r].pc = "mark", mark' = Max(run[r].written),
         UNCHANGED <<source, tooOld>>,
         \A t : Founded(t) => Founded(t)', \A t \in run[r].written : Founded(t)'
  PROVE  mark' \in Instants /\ MarkOK'
<1>1. /\ run[r].written # {} /\ ~run[r].backfill
      /\ \A t \in run[r].written : t < run[r].end
  BY DEF Inv, RunOK
<1>2. PICK last \in run[r].written : last = Max(run[r].written)
  BY <1>1, LatestWritten DEF Inv
<1>3. last \in Instants /\ last \in Nat /\ run[r].end \in Nat /\ last < run[r].end
  BY <1>1, Bounds DEF Inv, TypeInv, RunStates, Instants
<1>4. ASSUME NEW t \in occurred, ~Covered(t)' PROVE t >= last - Lookback
  <2>1. ~Covered(t) /\ t \notin run[r].written
    BY <1>4 DEF Covered
  <2>2. Young(t, r)
    BY <1>1, <2>1 DEF Inv, WindowOK, Passed
  <2>3. t \in Nat
    BY DEF Inv, TypeInv
  <2> QED
    BY <1>3, <2>2, <2>3, Bounds DEF Young
<1>5. Founded(last)'
  OBVIOUS
<1>6. mark' = last /\ occurred' = occurred
  BY <1>2 DEF source
<1> QED
  BY <1>3, <1>4, <1>5, <1>6 DEF MarkOK

LEMMA SetMarkKeeps == ASSUME Inv, NEW r \in Runs, SetMark(r) PROVE Inv'
<1> DEFINE new == [run[r] EXCEPT !.pc = "emit"]
<1>1. run[r] \in RunStates /\ run[r].pc = "mark" /\ ~run[r].backfill /\ RunOK(r)
  BY DEF Inv, TypeInv, RunOK, SetMark
<1>2. /\ new \in RunStates /\ new.pc = "emit" /\ new.written = run[r].written
      /\ new.cursor = run[r].cursor /\ new.end = run[r].end /\ new.backfill = run[r].backfill
  BY <1>1 DEF RunStates
<1>3. run' = [run EXCEPT ![r] = new]
  BY Zenon DEF SetMark
<1> HIDE DEF new
<1>4. /\ run' \in [Runs -> RunStates] /\ run'[r] = new
      /\ \A q \in Runs \ {r} : run'[q] = run[q]
  BY <1>2, <1>3, RunBecomes DEF Inv
<1>5. UNCHANGED <<source, landed, dropped, tooOld, abreast>> /\ mark' = Max(run[r].written)
  BY DEF SetMark, history
<1>6. ~PastMark(r) /\ Active(r)
  BY <1>1 DEF PastMark, Active
<1>7. \A t \in run[r].written : Founded(t)'
  BY <1>1, <1>2, <1>4 DEF Founded, PastMark
<1>8. \A t : Founded(t) => Founded(t)'
  BY <1>4, <1>5, <1>6, RunStep
<1>9. mark' \in Instants /\ MarkOK'
  BY <1>1, <1>5, <1>7, <1>8, MarkMoves
<1>10. TypeInv'
  BY <1>4, <1>5, <1>9 DEF Inv, TypeInv, source
<1>11. (RunOK(r) /\ WindowOK(r) /\ AheadOK(r))'
  BY <1>1, <1>2, <1>4, <1>5 DEF RunOK, WindowOK, AheadOK, source
<1> QED
  BY <1>4, <1>5, <1>6, <1>9, <1>10, <1>11, RunStep DEF Inv

LEMMA SetMarkThrowsKeeps == ASSUME Inv, NEW r \in Runs, SetMarkThrows(r) PROVE Inv'
<1>1. run[r].pc = "mark" /\ ~PastMark(r) /\ Active(r) /\ run[r].written \subseteq listed
  BY DEF Inv, RunOK, SetMarkThrows, PastMark, Active
<1>2. run' = [run EXCEPT ![r] = At("failed")] /\ UNCHANGED <<source, landed, tooOld, abreast>>
  BY DEF SetMarkThrows
<1>3. CASE UNCHANGED <<mark, dropped>>
  <2>1. landed \subseteq listed /\ dropped \subseteq listed
    BY DEF Inv, TypeInv
  <2> QED
    BY <1>1, <1>2, <1>3, <2>1, RestKeeps
<1>4. CASE mark' = Max(run[r].written) /\ dropped' = dropped \cup run[r].written
  <2>1. /\ At("failed") \in RunStates /\ At("failed").pc = "failed" /\ At("failed").written = {}
        /\ At("failed").cursor = 0 /\ At("failed").end = 0
    BY AtRest DEF At
  <2>2. /\ run' \in [Runs -> RunStates] /\ run'[r] = At("failed")
        /\ \A q \in Runs \ {r} : run'[q] = run[q]
    BY <1>2, <2>1, RunBecomes DEF Inv
  <2>3. \A t \in run[r].written : Founded(t)'
    BY <1>4 DEF Founded
  <2>4. \A t : Founded(t) => Founded(t)'
    BY <1>1, <1>2, <1>4, <2>2, RunStep
  <2>5. mark' \in Instants /\ MarkOK'
    BY <1>1, <1>2, <1>4, <2>3, <2>4, MarkMoves
  <2>6. TypeInv'
    BY <1>1, <1>2, <1>4, <2>2, <2>5 DEF Inv, TypeInv, source
  <2>7. now \in Nat
    BY Bounds DEF Inv, TypeInv, Instants
  <2>8. (RunOK(r) /\ WindowOK(r) /\ AheadOK(r))'
    BY <1>2, <2>1, <2>2, <2>7 DEF RunOK, WindowOK, AheadOK, source
  <2>9. ~Active(r)'
    BY <2>1, <2>2 DEF Active
  <2> QED
    BY <1>1, <1>2, <1>4, <2>2, <2>5, <2>6, <2>8, <2>9, RunStep DEF Inv
<1> QED
  BY <1>3, <1>4 DEF SetMarkThrows

-----------------------------------------------------------------------------
(* The specification.                                                      *)

LEMMA NextKeeps == Inv /\ [Next]_vars => Inv'
<1> SUFFICES ASSUME Inv, [Next]_vars PROVE Inv'
  OBVIOUS
<1>1. CASE Tick
  BY <1>1, TickKeeps
<1>2. ASSUME NEW r \in Runs,
             \/ Start(r) \/ ResolveWindow(r) \/ FetchPage(r) \/ FetchEnds(r)
             \/ FetchThrows(r) \/ SetMark(r) \/ SetMarkThrows(r)
             \/ Emit(r) \/ EmitThrows(r) \/ Dies(r)
      PROVE  Inv'
  BY <1>2, StartKeeps, ResolveWindowKeeps, FetchPageKeeps, FetchEndsKeeps, FetchThrowsKeeps,
     SetMarkKeeps, SetMarkThrowsKeeps, EmitKeeps, AbandonKeeps DEF EmitThrows, Dies
<1>3. CASE UNCHANGED vars
  BY <1>3 DEF vars, source, history, Inv, TypeInv, ClockOK, MarkOK, AloneOK, RunOK, WindowOK,
              AheadOK, Active, Passed, Young, Covered, Founded, PastMark
<1> QED
  BY <1>1, <1>2, <1>3 DEF Next

LEMMA InvHolds == Spec => []Inv
BY InitInv, NextKeeps, PTL DEF Spec

(* No record falls between two windows: what is neither in the container   *)
(* nor on its way there, nor noted as too old or dropped, is not older     *)
(* than the look-back before the mark, whatever the source lists late and  *)
(* wherever runs fail, stop or overtake each other.                        *)
THEOREM NothingSkippedHolds == Spec => []NothingSkipped
<1>1. Inv => NothingSkipped
  <2> SUFFICES ASSUME Inv, mark # NoMark,
                      NEW t \in occurred \ (landed \cup InFlight \cup tooOld \cup dropped)
               PROVE  t >= mark - Lookback
    BY DEF NothingSkipped
  <2>1. ~Covered(t)
    BY DEF Covered, Founded, PastMark, InFlight
  <2> QED
    BY <2>1 DEF Inv, MarkOK
<1> QED
  BY <1>1, InvHolds, PTL

(* The mark is the time of a record that has landed, is about to, or was   *)
(* dropped after the mark had been set; and the types hold.                *)
THEOREM MarkIsFoundedHolds == Spec => []MarkIsFounded
<1>1. Inv => MarkIsFounded
  BY DEF Inv, MarkOK, Founded, PastMark, InFlight, MarkIsFounded, MarkIsAccountedFor
<1> QED
  BY <1>1, InvHolds, PTL

(* While runs do not overlap, no step takes the mark back: the run that is *)
(* about to set it has read the record at the mark, or a later one.        *)
THEOREM MarkNeverReturnsHolds == Spec => MarkNeverReturns
<1>1. ASSUME Inv, Next, mark # NoMark, ~abreast, mark' # mark PROVE mark' >= mark
  <2>1. PICK r \in Runs : run[r].pc = "mark" /\ mark' = Max(run[r].written)
    BY <1>1 DEF Next, Tick, Start, ResolveWindow, FetchPage, FetchEnds, FetchThrows, SetMark,
                SetMarkThrows, Emit, EmitThrows, Abandon, Dies
  <2>2. run[r].written # {} /\ ~run[r].backfill
    BY <1>1, <2>1 DEF Inv, RunOK
  <2>3. PICK t \in run[r].written : t >= mark
    BY <1>1, <2>1, <2>2 DEF Inv, AheadOK, Passed
  <2>4. t <= mark' /\ mark' \in run[r].written
    BY <1>1, <2>1, <2>2, <2>3, LatestWritten DEF Inv
  <2>5. run[r].written \subseteq Nat /\ mark \in Nat
    BY <1>1, MarkInPast DEF Inv, TypeInv, RunStates, Instants
  <2> QED
    BY <2>3, <2>4, <2>5
<1>2. Inv /\ [Next]_vars => [mark # NoMark /\ ~abreast => mark' >= mark]_mark
  BY <1>1 DEF vars
<1> QED
  BY <1>2, InvHolds, PTL DEF Spec, MarkNeverReturns
=============================================================================
