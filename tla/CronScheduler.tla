---------------------------- MODULE CronScheduler ----------------------------
(***************************************************************************)
(* The daemon's scheduler (src/src/Daemon/Daemon.cpp): SetUpCron, which   *)
(* turns each [Cron] entry of abrt.conf into glib timeout sources, and the *)
(* three callbacks those sources run: cron_activation_periodic_cb,          *)
(* cron_activation_one_cb and cron_activation_reshedule_cb.                *)
(*                                                                         *)
(* Time is wall-clock seconds from midnight of the day SetUpCron runs; it  *)
(* jumps to the next timer deadline, as the main loop sleeps in g_poll     *)
(* until then. A cron key ("HH:MM" or "N") is abstracted to what its       *)
(* parse reads: whether it contains ':' and the atoi of the parts.         *)
(* RunAction is abstracted to a count of the task's firings.               *)
(***************************************************************************)
EXTENDS Integers, Bags, BagsExt

CONSTANTS
  Tasks,       \* (plugin, args) pairs listed under the [Cron] keys
  Key,         \* [Tasks -> CronKeys]: the key each pair is listed under
  StartTimes,  \* seconds after midnight at which SetUpCron may run
  Horizon      \* seconds of wall-clock time explored

(* A [Cron] key as SetUpCron reads it: colon says find(":") succeeded,     *)
(* left is atoi of the part before it (or of the whole key), right of the  *)
(* part after it.                                                          *)
CronKeys == [colon: BOOLEAN, left: Int, right: Int]

Day == 24 * 60 * 60

(* g_timeout_add_seconds_full takes a guint interval: a negative int      *)
(* timeout becomes timeout + 2^32, at least 2^31 s (68 years). TLC's       *)
(* integers stop at 2^31 - 1, so every such delay is represented by        *)
(* Wrapped, which like them lies beyond any explored horizon.              *)
Wrapped == 2^30
AsGuint(x) == IF x >= 0 THEN x ELSE Wrapped

ASSUME /\ \A t \in Tasks : Key[t] \in CronKeys
       /\ StartTimes \subseteq 0..(24 * 60 * 60 - 1)
       /\ Horizon \in 0..(Wrapped - 1)

Callbacks == {"periodic", "one", "reshedule"}

(* A live glib timeout source: its callback, the task its                  *)
(* cron_callback_data_t names, its interval and its next expiry.           *)
Timers == [cb: Callbacks, task: Tasks, interval: Nat, due: Nat]

VARIABLES
  phase,   \* "init" before SetUpCron, "running" in run_main_loop
  now,     \* wall-clock time in seconds
  start,   \* actTime: the time SetUpCron read
  timers,  \* bag of live timeout sources (two equal sources stay two)
  fires    \* [Tasks -> Nat]: RunAction calls made for each task

vars == <<phase, now, start, timers, fires>>

-----------------------------------------------------------------------------
(* nH = atoi(sH) clamped to [0, 23].                                       *)
ParseHour(s) == IF s.left > 23 THEN 23 ELSE IF s.left < 0 THEN 0 ELSE s.left

(* nM: the clamp to [0, 59] runs on the initial -1 before the atoi, so the *)
(* minute is used as parsed.                                               *)
ParseMinute(s) == s.right

(* Mutant: the period used as parsed, without the clamp to 1.             *)
ParsePeriodUnclamped(s) == s.left

(* nS = atoi(key), at least 1.                                             *)
ParsePeriod(s) == IF s.left <= 0 THEN 1 ELSE s.left

(* mktime of today's date at nH:nM:00, which normalises an out-of-range    *)
(* minute into the neighbouring hours and days (no DST change modelled).   *)
NextTime(s, act) == (act - (act % Day)) + ParseHour(s) * 3600 + ParseMinute(s) * 60

(* Mutant: the delay computed with >=, pushing "now" to tomorrow.          *)
FirstDelayGeq(s, act) ==
  IF act >= NextTime(s, act) THEN Day + (NextTime(s, act) - act)
  ELSE NextTime(s, act) - act

(* The one-shot delay: to nextTime today, or tomorrow if already passed.   *)
FirstDelay(s, act) ==
  IF act > NextTime(s, act) THEN Day + (NextTime(s, act) - act)
  ELSE NextTime(s, act) - act

(* g_timeout_add_seconds_full: a source that expires interval seconds     *)
(* from now.                                                               *)
NewTimer(cb, t, interval) ==
  [cb |-> cb, task |-> t, interval |-> interval, due |-> now + interval]

(* SetUpCron's sources for one task: one periodic source for an "N" key;  *)
(* a one-shot and a reschedule source at the first delay for "HH:MM", the  *)
(* reschedule one carrying m_nTimeout = 24 h.                              *)
TaskTimers(t) ==
  LET s == Key[t] IN
  IF ~s.colon
  THEN SetToBag({NewTimer("periodic", t, ParsePeriod(s))})
  ELSE LET d == AsGuint(FirstDelay(s, now)) IN
       SetToBag({NewTimer("one", t, d)}) (+) SetToBag({NewTimer("reshedule", t, d)})

(* Sum of the per-task bags: tasks are distinct, so the bags are disjoint. *)
RECURSIVE SumBags(_)
SumBags(S) ==
  IF S = {} THEN EmptyBag
  ELSE LET t == CHOOSE x \in S : TRUE IN TaskTimers(t) (+) SumBags(S \ {t})

(* Mutant: cron_activation_reshedule_cb returning TRUE, so glib keeps the  *)
(* reschedule source.                                                      *)
ResheduleKept(r) ==
  BagAdd(BagAdd(BagRemove(timers, r), [r EXCEPT !.due = now + r.interval]),
         NewTimer("periodic", r.task, Day))

(* cron_activation_reshedule_cb: add a periodic source with the data's    *)
(* m_nTimeout (24 h) and return FALSE, which destroys this source.         *)
Reshedule(r) ==
  BagAdd(BagRemove(timers, r), NewTimer("periodic", r.task, Day))

-----------------------------------------------------------------------------
Init ==
  /\ phase = "init"
  /\ now \in StartTimes
  /\ start = now
  /\ timers = EmptyBag
  /\ fires = [t \in Tasks |-> 0]

(* SetUpCron, run once in main's initialisation.                           *)
SetUpCron ==
  /\ phase = "init"
  /\ phase' = "running"
  /\ start' = now
  /\ timers' = SumBags(Tasks)
  /\ UNCHANGED <<now, fires>>

(* The main loop dispatches an expired timeout source r. glib re-arms a    *)
(* source whose callback returns TRUE interval seconds after dispatch.     *)
Dispatch(r) ==
  /\ phase = "running"
  /\ r.due = now
  /\ \/ /\ r.cb = "periodic"
        /\ fires' = [fires EXCEPT ![r.task] = @ + 1]
        /\ timers' = BagAdd(BagRemove(timers, r), [r EXCEPT !.due = now + r.interval])
     \/ /\ r.cb = "one"
        /\ fires' = [fires EXCEPT ![r.task] = @ + 1]
        /\ timers' = BagRemove(timers, r)
     \/ /\ r.cb = "reshedule"
        /\ timers' = Reshedule(r)
        /\ UNCHANGED fires
  /\ UNCHANGED <<phase, now, start>>

(* g_poll sleeps until the earliest expiry (within the explored horizon). *)
Tick ==
  LET dues == {r.due : r \in BagToSet(timers)}
      next == IF dues = {} THEN Horizon
              ELSE LET m == CHOOSE x \in dues : \A y \in dues : x <= y
                   IN IF m < Horizon THEN m ELSE Horizon
  IN
  /\ phase = "running"
  /\ \A x \in dues : x > now
  /\ now < Horizon
  /\ now' = next
  /\ UNCHANGED <<phase, start, timers, fires>>

Next ==
  \/ SetUpCron
  \/ \E r \in BagToSet(timers) : Dispatch(r)
  \/ Tick

(* The loop is always running: an expired source is dispatched and time   *)
(* passes.                                                                 *)
Spec == Init /\ [][Next]_vars /\ WF_vars(Next)

-----------------------------------------------------------------------------
(* Properties.                                                             *)

TypeOK ==
  /\ phase \in {"init", "running"}
  /\ now \in Nat /\ start \in StartTimes
  /\ IsABag(timers) /\ BagToSet(timers) \subseteq Timers
  /\ fires \in [Tasks -> Nat]

(* The period spec 4.5 gives a key: 24 h for HH:MM, else N, at least 1.  *)
SpecPeriod(t) == IF Key[t].colon THEN Day ELSE IF Key[t].left < 1 THEN 1 ELSE Key[t].left

(* The schedule spec 4.5 promises: a period N (at least 1) fires at start  *)
(* + k N; an HH:MM key, with HH clamped to [0,23] and MM to [0,59], fires   *)
(* first at the next HH:MM (now included) and then every 24 h.             *)
SpecFirst(t) ==
  LET s == Key[t]
      h == IF s.left > 23 THEN 23 ELSE IF s.left < 0 THEN 0 ELSE s.left
      m == IF s.right > 59 THEN 59 ELSE IF s.right < 0 THEN 0 ELSE s.right
      at == (start - (start % Day)) + h * 3600 + m * 60
  IN IF ~s.colon THEN start + SpecPeriod(t)
     ELSE IF at < start THEN at + Day ELSE at

(* Number of spec firing times of t at or before x.                        *)
SpecCount(t, x) == IF x < SpecFirst(t) THEN 0 ELSE (x - SpecFirst(t)) \div SpecPeriod(t) + 1

(* Each task has run exactly as often as its [Cron] key promises: every    *)
(* firing time before now has been served, none later than now has, and no *)
(* firing happened twice.                                                  *)
FiringsMatchSchedule ==
  phase = "running" =>
    \A t \in Tasks : SpecCount(t, now - 1) <= fires[t] /\ fires[t] <= SpecCount(t, now)

(* The sources of a task form one chain: a periodic key keeps exactly one  *)
(* periodic source; a daily key has one reschedule source until it fires   *)
(* and exactly one 24 h periodic source afterwards, and at most one        *)
(* one-shot source.                                                        *)
OneChainPerTask ==
  phase = "running" =>
    \A t \in Tasks :
      LET n(cb) == BagCardinality([r \in {x \in BagToSet(timers) : x.task = t /\ x.cb = cb}
                                     |-> timers[r]])
      IN /\ n("periodic") + n("reshedule") = 1
         /\ n("one") <= 1
         /\ ~Key[t].colon => n("one") + n("reshedule") = 0
=============================================================================
