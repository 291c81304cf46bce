---------------------------- MODULE StatusWindow ----------------------------
(***************************************************************************)
(* The properties window of the filter (src/src/dpdfnet-filter.cpp): what  *)
(* its status line shows, beside the filter it shows it of.  The worker    *)
(* has the window rebuilt when the status is not the one last shown; the   *)
(* UI thread rebuilds it, and updates it at Refresh, Reset and after a     *)
(* change of a setting.  A setting is changed from the window only.        *)
(***************************************************************************)
EXTENDS Filter

VARIABLES shown,    \* shown_status_key_
          display,  \* the status in the window
          seen,     \* the status the worker has read
          compare,  \* the worker has yet to compare it with shown
          rebuild,  \* obs_source_update_properties was called
          ui        \* the UI thread, and the status it has read

windowVars == <<shown, display, seen, compare, rebuild, ui>>
statusVars == <<vars, windowVars>>

\* The first line of the summary, in the order the source decides it.
Condition ==
    IF Overloaded THEN "paused"
    ELSE IF proc.reason # "None" THEN "off"
    ELSE IF Mismatch(proc) THEN "unavailable"
    ELSE IF ~Loaded(proc) THEN "no model"
    ELSE IF proc.failing THEN "retrying"
    ELSE IF guard.probe THEN "recovering"
    ELSE "active"

(***************************************************************************)
(* The key of the status, without its digits and the load: whether OBS has *)
(* the filter enabled, the bypass and the counts of packets turned away    *)
(* are left out.                                                           *)
(***************************************************************************)
Key == [condition |-> Condition,
        model     |-> IF Condition \in {"active", "recovering"}
                         \/ rejected # {}
                      THEN proc.model ELSE NoModel,
        resampled |-> Condition \in {"active", "recovering"} /\ Path(proc),
        rejected  |-> rejected # {} /\ Loaded(proc)]

WindowInit ==
    /\ Init
    /\ shown = Key /\ display = Key /\ seen = Key
    /\ compare = FALSE /\ rebuild = FALSE
    /\ ui = [pc |-> "idle", key |-> Key]

\* status() in the worker.
WorkerReads == /\ StatusRead
               /\ seen' = Key
               /\ UNCHANGED <<shown, display, compare, rebuild, ui>>

WorkerHasRead == /\ StatusShow
                 /\ compare' = TRUE
                 /\ UNCHANGED <<shown, display, seen, rebuild, ui>>

\* refresh_properties_if_status_changed, after status()
WorkerCompares ==
    /\ compare
    /\ compare' = FALSE
    /\ shown' = seen
    /\ rebuild' = (rebuild \/ seen # shown)
    /\ UNCHANGED <<vars, display, seen, ui>>

\* Refresh is pressed, or the window is rebuilt.
UiBegins ==
    /\ ui.pc = "idle" /\ \A c \in Clients : client[c].pc = "idle"
    /\ rebuild' \in {rebuild, FALSE}
    /\ ui' = [ui EXCEPT !.pc = "read"]
    /\ UNCHANGED <<vars, shown, display, seen, compare>>

\* status() in the UI thread.
UiReads ==
    /\ ui.pc = "read" /\ updateLock = "free"
    /\ ui' = [pc |-> "record", key |-> Key]
    /\ UNCHANGED <<vars, shown, display, seen, compare, rebuild>>

\* record_shown_status, and the texts of the properties.
UiRecords ==
    /\ ui.pc = "record"
    /\ shown' = ui.key /\ display' = ui.key
    /\ ui' = [ui EXCEPT !.pc = "idle"]
    /\ UNCHANGED <<vars, seen, compare, rebuild>>

\* A setting is changed: update() runs in the UI thread, and the window is
\* updated after it.
UiCalls(c) ==
    /\ ui.pc = "idle" /\ ClientCall(c)
    /\ UNCHANGED windowVars

UiInCall(c) ==
    /\ ClientStep(c)
    /\ ui' = IF client'[c].pc = "idle" THEN [ui EXCEPT !.pc = "read"] ELSE ui
    /\ UNCHANGED <<shown, display, seen, compare, rebuild>>

WindowOthers ==
    /\ \/ AudioStep \/ DeadlinePasses \/ ResetObsAudio \/ Destroy
       \/ WorkerWake /\ ~compare
       \/ RebuildRead \/ RebuildInstall \/ WorkerRetry
    /\ UNCHANGED windowVars

WindowNext == \/ WorkerReads \/ WorkerHasRead \/ WorkerCompares
              \/ UiBegins \/ UiReads \/ UiRecords \/ WindowOthers
              \/ \E c \in Clients : UiCalls(c) \/ UiInCall(c)

WindowSpec == WindowInit /\ [][WindowNext]_statusVars

\* No thread is at anything that changes the status or shows a change.
AllQuiet == /\ audio.pc = "idle" /\ ~Ready
            /\ worker.pc = "waiting" /\ ~compare /\ ~rebuild
            /\ ui.pc = "idle" /\ \A c \in Clients : client[c].pc = "idle"

\* The status line follows the state: when all is quiet, what the window
\* shows is the status (README.md:82-83, filter.cpp:1170-1174).
StatusFollows == AllQuiet => display = Key
=============================================================================
