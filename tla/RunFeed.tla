------------------------------ MODULE RunFeed -------------------------------
(***************************************************************************)
(* The run list of the terminal UI (tui/mod.rs): a thread that re-reads    *)
(* the store and publishes the newest runs and the focused run's detail    *)
(* (run_feed), and the UI thread that copies what is published, points the *)
(* thread at a run, wakes it, and stops it (sync_runs, focus_run,          *)
(* wake_feed, run_tui).                                                    *)
(*                                                                         *)
(* Each use of the feed's lock is a step, and each read of the store.  A   *)
(* condition variable wakes only a thread that waits; the wait also ends   *)
(* by itself after RUNS_REFRESH, when no key need have been pressed.       *)
(* Whether the rows come from the supervisor or the store, they are rows   *)
(* of the store.                                                           *)
(***************************************************************************)
EXTENDS Naturals

CONSTANTS
  Shown,        \* run ids; the newest RUNS_LIMIT
  NoId,
  MaxChanges,   \* bounds what happens to the runs
  MaxPresses    \* bounds the keys

ASSUME FeedAssumption == NoId \notin Shown /\ {MaxChanges, MaxPresses} \subseteq Nat

VARIABLES
  stored,     \* the store: each run's revision, 0 before it has a row
  changes,
  feed,       \* RunFeed: what is published and not yet read, and what is asked
  loader,     \* the thread: where it is, and what it has read
  screen,     \* App: its copy of the feed
  ui,         \* the UI thread: what it is in the middle of
  presses

feedVars == <<stored, changes, feed, loader, screen, ui, presses>>

NoDetail == [id |-> NoId, revision |-> 0]
Revisions == [Shown -> 0 .. MaxChanges]
Details == [id : Shown \cup {NoId}, revision : 0 .. MaxChanges]

FeedTypeOK ==
  /\ stored \in Revisions /\ changes \in 0 .. MaxChanges /\ presses \in 0 .. MaxPresses
  /\ feed.list \in Revisions /\ feed.detail \in Details /\ feed.focus \in Shown \cup {NoId}
  /\ feed.dirty \in BOOLEAN /\ feed.stop \in BOOLEAN /\ feed.unread \in BOOLEAN
  /\ loader.at \in {"opening", "focus", "list", "detail", "publish", "check", "waiting",
                    "woken", "ended", "failed"}
  /\ screen.list \in Revisions /\ screen.detail \in Details
  /\ ui \in {"keys", "dirty", "notify", "clear", "stop", "notify stop", "join", "gone"}

-----------------------------------------------------------------------------
(* What the supervisor does meanwhile.                                     *)

RunChanges ==
  /\ changes < MaxChanges /\ changes' = changes + 1
  /\ \E r \in Shown : stored' = [stored EXCEPT ![r] = @ + 1]
  /\ UNCHANGED <<feed, loader, screen, ui, presses>>

-----------------------------------------------------------------------------
(* run_feed.                                                               *)

Load(fields) == loader' = [k \in DOMAIN loader |-> IF k \in DOMAIN fields THEN fields[k] ELSE loader[k]]

\* without a store there is no list, and the rest of the UI works on
OpenStore ==
  /\ loader.at = "opening"
  /\ \/ Load([at |-> "focus"]) /\ UNCHANGED feed
     \/ Load([at |-> "failed"]) /\ feed' = [feed EXCEPT !.unread = TRUE]
  /\ UNCHANGED <<stored, changes, screen, ui, presses>>

ReadFocus ==
  /\ loader.at = "focus" /\ Load([at |-> "list", focus |-> feed.focus, error |-> FALSE])
  /\ UNCHANGED <<stored, changes, feed, screen, ui, presses>>

\* a store that cannot be read gives an empty list
LoadList ==
  /\ loader.at = "list"
  /\ \E list \in {stored, [r \in Shown |-> 0]} : Load([at |-> "detail", list |-> list])
  /\ UNCHANGED <<stored, changes, feed, screen, ui, presses>>

\* load_detail
DetailOf(r) == IF r = NoId \/ stored[r] = 0 THEN NoDetail ELSE [id |-> r, revision |-> stored[r]]

\* the detail of nothing, or one that cannot be read, is none; of a failure the error is kept
LoadDetail ==
  /\ loader.at = "detail"
  /\ \/ Load([at |-> "publish", detail |-> DetailOf(loader.focus)])
     \/ loader.focus # NoId /\ Load([at |-> "publish", detail |-> NoDetail, error |-> TRUE])
  /\ UNCHANGED <<stored, changes, feed, screen, ui, presses>>

PublishFeed ==
  /\ loader.at = "publish" /\ Load([at |-> "check"])
  /\ feed' = [feed EXCEPT !.unread = TRUE, !.list = loader.list, !.detail = loader.detail]
  /\ UNCHANGED <<stored, changes, screen, ui, presses>>

\* Mutants of CheckAsked: it waits without looking at dirty; without looking at stop.
CheckStopOnly ==
  /\ loader.at = "check" /\ Load([at |-> IF feed.stop THEN "ended" ELSE "waiting"])
  /\ UNCHANGED <<stored, changes, feed, screen, ui, presses>>
CheckDirtyOnly ==
  /\ loader.at = "check" /\ Load([at |-> IF feed.dirty THEN "focus" ELSE "waiting"])
  /\ feed' = [feed EXCEPT !.dirty = FALSE]
  /\ UNCHANGED <<stored, changes, screen, ui, presses>>
\* under one lock, which the wait releases
CheckAsked ==
  /\ loader.at = "check"
  /\ IF feed.stop THEN Load([at |-> "ended"]) /\ UNCHANGED feed
     ELSE IF feed.dirty
     THEN Load([at |-> "focus"]) /\ feed' = [feed EXCEPT !.dirty = FALSE]
     ELSE Load([at |-> "waiting"]) /\ UNCHANGED feed
  /\ UNCHANGED <<stored, changes, screen, ui, presses>>

RefreshDue ==
  /\ loader.at = "waiting" /\ Load([at |-> "woken"])
  /\ UNCHANGED <<stored, changes, feed, screen, ui, presses>>

WakeUp ==
  /\ loader.at = "woken"
  /\ Load([at |-> IF feed.stop THEN "ended" ELSE "focus"])
  /\ feed' = [feed EXCEPT !.dirty = FALSE]
  /\ UNCHANGED <<stored, changes, screen, ui, presses>>

-----------------------------------------------------------------------------
(* The UI thread.                                                          *)

\* sync_runs, in each turn of the loop: the versions differ when something is unread
SyncRuns ==
  /\ ui = "keys" /\ feed.unread
  /\ screen' = [screen EXCEPT !.list = feed.list, !.detail = feed.detail]
  /\ feed' = [feed EXCEPT !.unread = FALSE]
  /\ UNCHANGED <<stored, changes, loader, ui, presses>>

Press == presses < MaxPresses /\ presses' = presses + 1

\* open_run, focus_run: of a run that is listed
FocusRun ==
  /\ ui = "keys" /\ Press /\ ui' = "dirty"
  /\ \E r \in Shown :
       /\ screen.list[r] > 0
       /\ feed' = [feed EXCEPT !.focus = r] /\ screen' = [screen EXCEPT !.opened = r, !.clearing = TRUE]
  /\ UNCHANGED <<stored, changes, loader>>

\* wake_feed, after focus_run or by the refresh key
RefreshKey ==
  /\ ui = "keys" /\ Press /\ ui' = "dirty"
  /\ UNCHANGED <<stored, changes, feed, loader, screen>>

SetDirty ==
  /\ ui = "dirty" /\ ui' = "notify"
  /\ feed' = [feed EXCEPT !.dirty = TRUE]
  /\ UNCHANGED <<stored, changes, loader, screen, presses>>

NotifyFeed ==
  /\ \/ ui = "notify" /\ ui' = (IF screen.clearing THEN "clear" ELSE "keys")
     \/ ui = "notify stop" /\ ui' = "join"
  /\ Load([at |-> IF loader.at = "waiting" THEN "woken" ELSE loader.at])
  /\ UNCHANGED <<stored, changes, feed, screen, presses>>

\* the end of focus_run; a refresh keeps the detail
ClearDetail ==
  /\ ui = "clear" /\ ui' = "keys"
  /\ screen' = [screen EXCEPT !.detail = NoDetail, !.clearing = FALSE]
  /\ UNCHANGED <<stored, changes, feed, loader, presses>>

\* the end of run_tui
QuitKey ==
  /\ ui = "keys" /\ ui' = "stop"
  /\ UNCHANGED <<stored, changes, feed, loader, screen, presses>>

SetStop ==
  /\ ui = "stop" /\ ui' = "notify stop"
  /\ feed' = [feed EXCEPT !.stop = TRUE]
  /\ UNCHANGED <<stored, changes, loader, screen, presses>>

JoinFeed ==
  /\ ui = "join" /\ loader.at \in {"ended", "failed"} /\ ui' = "gone"
  /\ UNCHANGED <<stored, changes, feed, loader, screen, presses>>

-----------------------------------------------------------------------------
FeedInit ==
  /\ stored = [r \in Shown |-> 0] /\ changes = 0 /\ presses = 0
  /\ feed = [unread |-> FALSE, list |-> [r \in Shown |-> 0], detail |-> NoDetail,
             focus |-> NoId, dirty |-> FALSE, stop |-> FALSE]
  /\ loader = [at |-> "opening", focus |-> NoId, list |-> [r \in Shown |-> 0],
               detail |-> NoDetail, error |-> FALSE]
  /\ screen = [list |-> [r \in Shown |-> 0], detail |-> NoDetail, opened |-> NoId, clearing |-> FALSE]
  /\ ui = "keys"

LoadFeed ==
  OpenStore \/ ReadFocus \/ LoadList \/ LoadDetail \/ PublishFeed \/ CheckAsked \/ WakeUp
TurnLoop == SyncRuns \/ SetDirty \/ NotifyFeed \/ ClearDetail \/ SetStop \/ JoinFeed

FeedNext ==
  LoadFeed \/ RefreshDue \/ TurnLoop \/ FocusRun \/ RefreshKey \/ QuitKey \/ RunChanges

\* Both threads run.  Nothing is asked of the timer.
FeedFairness == WF_feedVars(LoadFeed) /\ WF_feedVars(TurnLoop)

FeedSpec == FeedInit /\ [][FeedNext]_feedVars /\ FeedFairness

-----------------------------------------------------------------------------
\* The popup of a run that was opened gets its record, without waiting for the timer, unless
\* it is this record that cannot be read (the error is shown instead):
\* "a wake-up cannot be lost between a publish and the wait" (RunFeed.dirty).
DetailArrives ==
  \A r \in Shown :
    (screen.opened = r) ~>
      (\/ screen.detail.id = r \/ screen.opened # r \/ ui \in {"join", "gone"}
       \/ loader.at = "failed" \/ (loader.focus = r /\ loader.error))

\* The terminal is given back: the join in run_tui ends, whatever the thread was at.
QuitReturns == (ui = "stop") ~> (ui = "gone")

\* The popup is never behind the list it was opened from: of one run, the record that
\* is shown is at least as new as the row (run_feed).
DetailNotBehind ==
  screen.detail.id # NoId => screen.detail.revision >= screen.list[screen.detail.id]

\* A wake-up is not lost between a look at the feed and the wait: while the thread waits,
\* whoever has asked for something, or points it at another run, is about to notify it.
NoWakeUpLost ==
  loader.at = "waiting" =>
    /\ feed.dirty => ui = "notify"
    /\ feed.stop => ui = "notify stop"
    /\ feed.focus # loader.focus => ui \in {"dirty", "notify"}
=============================================================================
