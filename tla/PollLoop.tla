------------------------------ MODULE PollLoop ------------------------------
(***************************************************************************)
(* mainloop and call_handler: when lmkd polls the memory state.  A PSI     *)
(* event starts polling for PSI_WINDOW_SIZE_MS, a pending kill pauses it,  *)
(* and the end of the wait for the killed process resumes it.  All of it   *)
(* hangs on polling_params, which every handler may update and which only  *)
(* the last handler of a batch leaves its mark on.                         *)
(*                                                                         *)
(* What __mp_event_psi and mp_event_common decide is left open here        *)
(* (KillDecision, OldStrategy), as is the fate of the killed process       *)
(* (KillPath).  Time is abstracted to whether the polling interval, the    *)
(* polling window and kill_timeout_ms are over.                            *)
(***************************************************************************)
EXTENDS Integers, FiniteSets

CONSTANT HazardSets     \* what may be out of the ordinary together

(* "fail":   the reaper may fail to kill, the victim having ended before;  *)
(* "vendor": memevents may ask for a kill;                                 *)
(* "parse":  a file of /proc may be unreadable;                            *)
(* "slow":   time may pass while a batch is being handled;                 *)
(* "old":    use_new_strategy is off, and mp_event_common handles PSI;     *)
(* "zero":   a victim may have no resident pages.                          *)
HazardKinds == {"fail", "vendor", "parse", "slow", "old", "zero"}

ASSUME PollLoopAssumption == HazardSets \subseteq SUBSET HazardKinds

LOW      == 0       \* VMPRESS_LEVEL_LOW
CRITICAL == 2       \* VMPRESS_LEVEL_CRITICAL

(* Handlers: the PSI levels (vmpressure_hinfo), and others. *)
Psi      == LOW..CRITICAL
MemEvent == 3       \* memevent_listener_notification
Done     == 4       \* kill_done_handler
Fail     == 5       \* kill_fail_handler
Command  == 6       \* the control socket
None     == -1
Handlers == 0..6

VARIABLES
    hazards,    \* those of this behaviour
    poll,       \* poll_handler
    paused,     \* paused_handler
    update,     \* the update member of polling_params
    windowOver, \* PSI_WINDOW_SIZE_MS have passed since poll_start_tm
    due,        \* polling_interval_ms have passed since last_poll_tm
    prev,       \* prev_level
    killing,    \* `killing' of __mp_event_psi
    waiting,    \* is_waiting_for_kill
    timedOut,   \* kill_timeout_ms have passed since last_kill_tm
    dead,       \* the process waited for has ended
    inFlight,   \* the reaper has not carried out the last kill
    failed,     \* the reaper reported a failed kill
    batch,      \* events of this round of mainloop
    mpc,        \* "wait" for events, or "pass" over the batch
    window      \* a PSI event was taken up less than a window ago

pollVars == <<poll, paused, update, windowOver, due>>
killVars == <<killing, waiting, timedOut, dead, inFlight, failed>>
vars     == <<hazards, pollVars, prev, killVars, batch, mpc, window>>

Init ==
    /\ hazards \in HazardSets
    /\ poll = None /\ paused = None
    /\ update = "DO_NOT_CHANGE"
    /\ windowOver = FALSE /\ due = FALSE
    /\ prev = LOW
    /\ killing = FALSE /\ waiting = FALSE /\ timedOut = FALSE
    /\ dead = FALSE /\ inFlight = FALSE /\ failed = FALSE
    /\ batch = {} /\ mpc = "wait"
    /\ window = FALSE

-----------------------------------------------------------------------------
(* The rest of the world.  The interval, the timeout and the window end in *)
(* time; a window is many intervals long and ends with one of them.        *)
Clock == mpc = "wait" \/ "slow" \in hazards

IntervalPasses ==
    /\ Clock /\ ~due
    /\ due' = TRUE
    /\ UNCHANGED <<poll, paused, update, windowOver, prev, killVars, batch, mpc, window>>

WindowPasses ==
    /\ Clock /\ due /\ (~windowOver \/ window)
    /\ windowOver' = TRUE
    /\ window' = FALSE
    /\ UNCHANGED <<poll, paused, update, due, prev, killVars, batch, mpc>>

TimeoutPasses ==
    /\ Clock /\ waiting /\ ~timedOut
    /\ timedOut' = TRUE
    /\ UNCHANGED <<pollVars, prev, killing, waiting, dead, inFlight, failed, batch, mpc, window>>

VictimEnds ==
    /\ waiting /\ ~dead
    /\ dead' = TRUE
    /\ UNCHANGED <<pollVars, prev, killing, waiting, timedOut, inFlight, failed, batch, mpc, window>>

(* A reaper thread sends the signal, or finds nobody to send it to. *)
KillDone ==
    /\ inFlight
    /\ inFlight' = FALSE
    /\ \/ UNCHANGED failed
       \/ "fail" \in hazards /\ failed' = TRUE
    /\ UNCHANGED <<pollVars, prev, killing, waiting, timedOut, dead, batch, mpc, window>>

-----------------------------------------------------------------------------
(* Mutant: the paused handler is forgotten. *)
resume_polling_Lost ==
    /\ poll' = None
    /\ paused' = None
    /\ windowOver' = FALSE

(* What call_handler makes of the handler's update of polling_params.      *)
resume_polling ==
    /\ poll' = paused
    /\ paused' = None
    /\ windowOver' = FALSE

(* Mutant: polling is not stopped at the end of the window. *)
StillPolled_Ever == poll

StillPolled == IF windowOver THEN None ELSE poll

Updated(h, upd) ==
    /\ update' = upd
    /\ \/ /\ upd = "START"
          /\ poll' = h
          /\ windowOver' = FALSE
          /\ due' = FALSE
          /\ UNCHANGED paused
       \/ /\ upd = "PAUSE"
          /\ paused' = h
          /\ poll' = None
          /\ due' = (due /\ poll # h)
          /\ UNCHANGED windowOver
       \/ /\ upd = "RESUME"
          /\ resume_polling
          /\ due' = (due /\ poll # h)
       \/ /\ upd = "DO_NOT_CHANGE"
          /\ poll' = StillPolled
          /\ due' = (due /\ poll # h)
          /\ UNCHANGED <<paused, windowOver>>

(* no_kill: in __mp_event_psi. *)
NoKill(h, events, direct) ==
    Updated(h, IF waiting' THEN "PAUSE"
               ELSE IF events \/ killing' \/ direct THEN "START" ELSE "DO_NOT_CHANGE")

(* __mp_event_psi past the gates: the wait is over; the memory state is    *)
(* read and judged, and a process may be killed.                           *)
Judge(h, events) ==
    \/ /\ "parse" \in hazards
       /\ waiting' = FALSE /\ dead' = FALSE
       /\ Updated(h, "DO_NOT_CHANGE")
       /\ UNCHANGED <<killing, timedOut, inFlight, failed>>
    \/ \E kill, freed, direct \in BOOLEAN :
         /\ freed => kill
         /\ killing' = freed
         /\ waiting' = kill
         /\ dead' = FALSE
         /\ timedOut' = (timedOut /\ ~kill)
         /\ inFlight' = (inFlight \/ kill)
         /\ UNCHANGED failed
         /\ NoKill(h, events, direct)

(* Mutant: a poll does not reset prev_level. *)
NextPrevLevel_Kept(h, events) == IF events THEN h ELSE prev

NextPrevLevel(h, events) == IF events THEN h ELSE LOW

(* __mp_event_psi for the PSI handler h; events is FALSE in a poll. *)
mp_event_psi(h, events) ==
    \/ /\ events /\ h < prev
       /\ Updated(h, "DO_NOT_CHANGE")
       /\ UNCHANGED <<prev, killVars, window>>
    \/ /\ ~(events /\ h < prev)
       /\ prev' = NextPrevLevel(h, events)
       /\ window' = (window \/ events)
       /\ \/ waiting /\ ~timedOut /\ UNCHANGED killVars /\ NoKill(h, events, FALSE)
          \/ ~(waiting /\ ~timedOut) /\ Judge(h, events)

Data(h) == IF h = MemEvent THEN 0 ELSE h

(* mp_event_common, with PSI monitors: polling is started only by an event *)
(* more critical than the one polled for, also while a kill is pending.  A *)
(* kill pauses it, except that of a process without pages soon after       *)
(* another report: mp_event_common then returns without reporting it.      *)
mp_event_common(h, events) ==
    LET start == events /\ (poll = None \/ h > Data(poll))
        upd   == IF start THEN "START" ELSE "DO_NOT_CHANGE"
    IN  /\ window' = (window \/ start)
        /\ \/ waiting /\ ~timedOut
              /\ UNCHANGED killVars
              /\ Updated(h, upd)
           \/ ~(waiting /\ ~timedOut)
              /\ \E kill, reported \in BOOLEAN :
                   /\ reported \/ "zero" \in hazards
                   /\ waiting' = kill
                   /\ timedOut' = (timedOut /\ ~kill)
                   /\ inFlight' = (inFlight \/ kill)
                   /\ Updated(h, IF kill /\ reported THEN "PAUSE" ELSE upd)
              /\ dead' = FALSE
              /\ UNCHANGED <<killing, failed>>
        /\ UNCHANGED prev

(* Events of the kernel's memory subsystem; only a vendor kill event goes  *)
(* through __mp_event_psi, without a level.                                *)
memevent_listener_notification ==
    /\ \/ Updated(MemEvent, "DO_NOT_CHANGE") /\ UNCHANGED killVars
       \/ /\ "vendor" \in hazards
          /\ \/ waiting /\ ~timedOut /\ UNCHANGED killVars /\ NoKill(MemEvent, FALSE, FALSE)
             \/ ~(waiting /\ ~timedOut) /\ Judge(MemEvent, FALSE)
    /\ UNCHANGED <<prev, window>>

stop_wait_for_proc_kill ==
    /\ waiting' = FALSE /\ dead' = FALSE
    /\ UNCHANGED <<killing, timedOut, inFlight>>

kill_done_handler ==
    /\ stop_wait_for_proc_kill
    /\ Updated(Done, "RESUME")
    /\ UNCHANGED <<prev, failed, window>>

kill_fail_handler ==
    /\ stop_wait_for_proc_kill
    /\ failed' = FALSE
    /\ Updated(Fail, "RESUME")
    /\ UNCHANGED <<prev, window>>

OtherHandler(h) ==
    /\ Updated(h, "DO_NOT_CHANGE")
    /\ UNCHANGED <<prev, killVars, window>>

call_handler(h, events) ==
    \/ h \in Psi /\ "old" \notin hazards /\ mp_event_psi(h, events)
    \/ h \in Psi /\ "old" \in hazards /\ mp_event_common(h, events)
    \/ h = MemEvent /\ memevent_listener_notification
    \/ h = Done /\ kill_done_handler
    \/ h = Fail /\ kill_fail_handler
    \/ h = Command /\ OtherHandler(h)

-----------------------------------------------------------------------------
Ready(outside) ==
    outside \cup (IF dead THEN {Done} ELSE {}) \cup (IF failed THEN {Fail} ELSE {})

Outside == Psi \cup {MemEvent, Command}

(* Just resumed: poll without looking at events. *)
PollNow ==
    /\ mpc = "wait" /\ poll # None
    /\ update = "RESUME"
    /\ call_handler(poll, FALSE)
    /\ UNCHANGED <<batch, mpc>>

(* epoll_wait while polling; the poll comes before the events. *)
PollWait ==
    /\ mpc = "wait" /\ poll # None
    /\ update # "RESUME"
    /\ \E outside \in SUBSET Outside :
         /\ batch' = Ready(outside)
         /\ due \/ batch' # {}
    /\ mpc' = "pass"
    /\ \/ due /\ call_handler(poll, FALSE)
       \/ ~due /\ UNCHANGED <<pollVars, prev, killVars, window>>

(* epoll_wait while a kill is pending, for kill_timeout_ms at most. *)
WaitForKill ==
    /\ mpc = "wait" /\ poll = None
    /\ waiting /\ ~timedOut
    /\ \E outside \in SUBSET Outside : batch' = Ready(outside)
    /\ batch' # {}
    /\ mpc' = "pass"
    /\ UNCHANGED <<pollVars, prev, killVars, window>>

(* Mutant: the wait goes on. *)
KillTimedOut_Ignored ==
    /\ mpc = "wait" /\ poll = None
    /\ waiting /\ timedOut
    /\ UNCHANGED <<pollVars, prev, killVars, batch, mpc, window>>

KillTimedOut ==
    /\ mpc = "wait" /\ poll = None
    /\ waiting /\ timedOut
    /\ stop_wait_for_proc_kill
    /\ \/ paused # None /\ resume_polling /\ update' = "RESUME"
       \/ paused = None /\ UNCHANGED <<poll, paused, windowOver, update>>
    /\ UNCHANGED <<due, prev, failed, batch, mpc, window>>

WaitForEvents ==
    /\ mpc = "wait" /\ poll = None
    /\ ~waiting
    /\ \E outside \in SUBSET Outside : batch' = Ready(outside)
    /\ batch' # {}
    /\ mpc' = "pass"
    /\ UNCHANGED <<pollVars, prev, killVars, window>>

(* One event of the batch.  The death of the victim may be reported as a   *)
(* hangup, which the first pass takes up before the others; any order      *)
(* covers both.                                                            *)
HandleEvent ==
    /\ mpc = "pass"
    /\ \E h \in batch :
         /\ batch' = batch \ {h}
         /\ call_handler(h, TRUE)
    /\ mpc' = "pass"

PassOver ==
    /\ mpc = "pass" /\ batch = {}
    /\ mpc' = "wait"
    /\ UNCHANGED <<pollVars, prev, killVars, batch, window>>

-----------------------------------------------------------------------------
World == IntervalPasses \/ WindowPasses \/ TimeoutPasses \/ VictimEnds \/ KillDone

MainLoop ==
    PollNow \/ PollWait \/ WaitForKill \/ KillTimedOut \/ WaitForEvents \/ HandleEvent \/ PassOver

Next == (World \/ MainLoop) /\ UNCHANGED hazards

Spec == Init /\ [][Next]_vars

(* The main thread runs, and time passes whatever it does: an interval or  *)
(* a window that is allowed to end again and again does end.               *)
FairSpec ==
    /\ Spec
    /\ WF_vars(MainLoop /\ UNCHANGED hazards)
    /\ SF_vars(IntervalPasses /\ UNCHANGED hazards)
    /\ SF_vars(WindowPasses /\ UNCHANGED hazards)
    /\ SF_vars(TimeoutPasses /\ UNCHANGED hazards)

-----------------------------------------------------------------------------
TypeOK ==
    /\ hazards \in SUBSET HazardKinds
    /\ poll \in Handlers \cup {None}
    /\ paused \in Handlers \cup {None}
    /\ update \in {"DO_NOT_CHANGE", "START", "PAUSE", "RESUME"}
    /\ {windowOver, due, killing, waiting, timedOut, dead, inFlight, failed, window} \subseteq BOOLEAN
    /\ prev \in Psi
    /\ batch \in SUBSET Handlers
    /\ mpc \in {"wait", "pass"}

(* "Poll for the duration of PSI_WINDOW_SIZE_MS after the initial PSI      *)
(* event": until the window of an event that was taken up is over, its     *)
(* memory state is polled or a kill is pending, and never both ("Do not    *)
(* poll if kernel supports pidfd waiting"), or mainloop would not notice   *)
(* kill_timeout_ms.  Polling that is resumed without having been paused    *)
(* stops: after a kill that fails just as its victim ends, which resumes   *)
(* it twice, and after the kill of a process without pages that is not     *)
(* reported.                                                               *)
WindowIsPolled ==
    /\ TypeOK
    /\ waiting /\ "old" \notin hazards => poll = None
    /\ mpc = "wait" /\ window /\ hazards \subseteq {"slow", "old"} => poll \in Psi \/ waiting

(* "Ignore a lower event within the first polling window": prev_level      *)
(* shuts lower events out only while a poll, which resets it, is to come,  *)
(* as long as no kill fails, no vendor event comes, every file of /proc is *)
(* readable and no batch takes as long as the polling window.              *)
LevelGateReopens ==
    mpc = "wait" /\ prev # LOW /\ hazards = {}
      => poll \in Psi \/ (waiting /\ paused \in Psi)

(* Polling stops by itself once no event, kill or reclaim extends it.      *)
PollingEnds ==
    <>[](update \in {"DO_NOT_CHANGE", "PAUSE"}) => <>[](poll = None)

(* A wait does not outlive kill_timeout_ms: it is over, or another kill    *)
(* has begun, whatever events keep mainloop busy.                          *)
WaitEnds == []<>~(waiting /\ timedOut)
=============================================================================
