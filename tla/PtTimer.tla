------------------------------- MODULE PtTimer -------------------------------
(***************************************************************************)
(* The timer of porttime, in its four implementations: ptlinux.c,          *)
(* ptmacosx_mach.c, ptmacosx_cf.c and ptwinmm.c.  One client starts and    *)
(* stops it; the callback runs in a thread of the timer's own.             *)
(*                                                                         *)
(* "linux" and "mach" create a thread that loops for as long as            *)
(* pt_callback_proc_id is the id it was given; Pt_Stop changes the id and  *)
(* waits for the thread.  "cf" creates a thread that runs a run loop;      *)
(* Pt_Stop stops the run loop and does not wait.  "winmm" asks Windows for *)
(* a periodic event, whose callback looks up time_callback; Pt_Stop kills  *)
(* the event, does not wait and clears time_callback.                      *)
(*                                                                         *)
(* A timer t is a thread or a periodic event; timers are numbered as they  *)
(* are created, and the callback given to Pt_Start for timer t is t too.   *)
(* Left out: the clock itself, priorities, the parameter blocks.           *)
(***************************************************************************)
EXTENDS Integers

CONSTANTS
  Platforms,  \* the implementations looked at
  MaxTimers,  \* bound: timers created
  MaxStops    \* bound: calls of Pt_Stop

ASSUME PtTimerAssumption ==
  /\ Platforms \subseteq {"linux", "mach", "cf", "winmm"}
  /\ MaxTimers \in Nat /\ MaxStops \in Nat

VARIABLES
  platform,
  time_started_flag,
  pt_callback_proc_id,  \* linux, mach
  pt_thread_created,    \* linux
  latest,               \* pt_thread_pid, timer_id; 0: none
  timerRunLoop,         \* cf: the timer whose run loop it is; 0: none
  time_callback,        \* winmm; 0: NULL
  timer,                \* per timer: where its thread is, see Places
  id,                   \* linux, mach: parms->id per timer
  stopped,              \* cf: timers whose run loop was told to stop
  client,               \* "idle", or the call that the client waits for
  stops,                \* bookkeeping: calls of Pt_Stop
  crashed               \* a null pointer was followed

timerVars == <<platform, time_started_flag, pt_callback_proc_id, pt_thread_created,
               latest, timerRunLoop, time_callback, timer, id, stopped, stops, crashed>>

Timers == 1..MaxTimers
Joins  == platform \in {"linux", "mach"}

(* "enter": at the top of the thread's function; "loop": at the test of the *)
(* loop, or about to run the run loop; "wait": until the next tick;         *)
(* "fired": the system calls winmm_time_callback; "call": in the client's   *)
(* callback.                                                                *)
Places == {"none", "enter", "loop", "wait", "fired", "call", "done"}

Created == {t \in Timers : timer[t] # "none"}
Gone(t) == timer[t] \in {"none", "done"}

Go(t, from, to) == timer[t] = from /\ timer' = [timer EXCEPT ![t] = to]

-----------------------------------------------------------------------------
(* The client. *)

NextTimer == IF Created = Timers THEN 0
             ELSE CHOOSE t \in Timers \ Created : 1..(t - 1) \subseteq Created

Create(t) ==
  /\ timer' = [timer EXCEPT ![t] = IF platform = "winmm" THEN "wait" ELSE "enter"]
  /\ id' = [id EXCEPT ![t] = pt_callback_proc_id]

NoTimer == UNCHANGED <<timer, id>>

(* Pt_Start with a callback, not started yet.  The system may refuse memory *)
(* or a thread; what is left then differs from platform to platform.        *)
ArmLinux ==
  /\ Joins
  /\ \/ /\ Create(NextTimer) /\ latest' = NextTimer
        /\ pt_thread_created' = (platform = "linux") /\ time_started_flag' = TRUE
     \/ NoTimer /\ UNCHANGED <<latest, pt_thread_created, time_started_flag>>
  /\ UNCHANGED <<time_callback, crashed>>

ArmCf ==
  /\ platform = "cf"
  /\ \/ Create(NextTimer) /\ time_started_flag' = TRUE /\ UNCHANGED crashed
     \/ NoTimer /\ time_started_flag' = TRUE /\ UNCHANGED crashed
     \/ NoTimer /\ crashed' = TRUE /\ UNCHANGED time_started_flag
  /\ UNCHANGED <<latest, pt_thread_created, time_callback>>

ArmWinmm ==
  /\ platform = "winmm"
  /\ \/ Create(NextTimer) /\ latest' = NextTimer
     \/ NoTimer /\ latest' = 0
  /\ time_started_flag' = TRUE /\ time_callback' = NextTimer
  /\ UNCHANGED <<pt_thread_created, crashed>>

Arm ==
  /\ NextTimer # 0
  /\ ArmLinux \/ ArmCf \/ ArmWinmm
  /\ UNCHANGED <<platform, pt_callback_proc_id, timerRunLoop, stopped, stops>>

StartClockAgain ==  \* mutant: not tested whether the timer runs
  /\ time_started_flag' = TRUE
  /\ time_callback' = 0
  /\ UNCHANGED <<platform, pt_callback_proc_id, pt_thread_created, latest,
                 timerRunLoop, timer, id, stopped, stops, crashed>>

(* Pt_Start without a callback only starts the clock; winmm notes NULL. *)
StartClock ==
  IF time_started_flag THEN UNCHANGED timerVars
  ELSE /\ time_started_flag' = TRUE
       /\ time_callback' = 0
       /\ UNCHANGED <<platform, pt_callback_proc_id, pt_thread_created, latest,
                      timerRunLoop, timer, id, stopped, stops, crashed>>

Pt_Start ==
  /\ client = "idle" /\ UNCHANGED client
  /\ IF time_started_flag THEN UNCHANGED timerVars ELSE Arm \/ StartClock

(* Pt_Stop on linux and mach: pthread_join comes after the change of the    *)
(* id.  mach joins whatever thread came last; a join of none, or of one     *)
(* that was joined before, answers an error at once.                        *)
JoinsMach == platform = "mach" /\ latest # 0  \* mutant: linux goes on
MustJoin == pt_thread_created \/ (platform = "mach" /\ latest # 0)

TellNobody(p) == p  \* mutant: the id stays
TellLoop(p)   == p + 1

StopLinux ==
  /\ Joins
  /\ pt_callback_proc_id' = TellLoop(pt_callback_proc_id)
  /\ IF MustJoin
     THEN client' = "joining" /\ UNCHANGED <<time_started_flag, pt_thread_created>>
     ELSE client' = "idle" /\ time_started_flag' = FALSE /\ UNCHANGED pt_thread_created
  /\ UNCHANGED <<latest, time_callback, timer, stopped, crashed>>

Joined ==
  /\ ~crashed /\ client = "joining"
  /\ timer[latest] = "done"
  /\ client' = "idle" /\ time_started_flag' = FALSE /\ pt_thread_created' = FALSE
  /\ UNCHANGED <<platform, pt_callback_proc_id, latest, timerRunLoop, time_callback,
                 timer, id, stopped, stops, crashed>>

(* A run loop hears a stop only while it runs; there may be none, or only   *)
(* the one of a thread that has ended.                                      *)
RunLoopIs == IF timerRunLoop = 0 THEN "none" ELSE timer[timerRunLoop]

StopCf ==
  /\ platform = "cf"
  /\ \/ /\ timerRunLoop # 0
        /\ stopped' = IF RunLoopIs \in {"wait", "call"}
                      THEN stopped \cup {timerRunLoop} ELSE stopped
        /\ time_started_flag' = FALSE /\ UNCHANGED crashed
     \/ /\ RunLoopIs \in {"none", "done"}
        /\ crashed' = TRUE /\ UNCHANGED <<stopped, time_started_flag>>
  /\ UNCHANGED <<client, pt_callback_proc_id, pt_thread_created, latest, time_callback, timer>>

(* timeKillEvent: no further call; one under way goes on. *)
StopWinmm ==
  /\ platform = "winmm"
  /\ time_started_flag' = FALSE
  /\ IF time_started_flag /\ time_callback # 0 /\ latest # 0
     THEN /\ timer' = [timer EXCEPT ![latest] = IF @ = "wait" THEN "done" ELSE @]
          /\ time_callback' = 0 /\ latest' = 0
     ELSE UNCHANGED <<timer, time_callback, latest>>
  /\ UNCHANGED <<client, pt_callback_proc_id, pt_thread_created, stopped, crashed>>

Pt_Stop ==
  /\ client = "idle"
  /\ stops < MaxStops /\ stops' = stops + 1
  /\ StopLinux \/ StopCf \/ StopWinmm
  /\ UNCHANGED <<platform, timerRunLoop, id>>

-----------------------------------------------------------------------------
(* The timers. *)

Told(t) ==
  CASE Joins              -> id[t] # pt_callback_proc_id
    [] platform = "cf"    -> t \in stopped
    [] platform = "winmm" -> t # latest

(* Pt_CallbackProc on linux and mach. *)
Enter(t) == Joins /\ Go(t, "enter", "loop") /\ UNCHANGED <<timerRunLoop, crashed>>

Test(t) ==
  /\ Joins /\ Go(t, "loop", IF Told(t) THEN "done" ELSE "wait")
  /\ UNCHANGED <<timerRunLoop, crashed>>

(* Pt_Thread on cf: timerRunLoop is set, then the loop is run. *)
SetRunLoop(t) ==
  /\ platform = "cf" /\ Go(t, "enter", "loop")
  /\ timerRunLoop' = t /\ UNCHANGED crashed

RunLoop(t) == platform = "cf" /\ Go(t, "loop", "wait") /\ UNCHANGED <<timerRunLoop, crashed>>

RunLoopEnds(t) ==
  /\ platform = "cf" /\ Told(t) /\ Go(t, "wait", "done")
  /\ UNCHANGED <<timerRunLoop, crashed>>

Tick(t) ==
  /\ platform = "cf" => ~Told(t)
  /\ Go(t, "wait", IF platform = "winmm" THEN "fired" ELSE "call")
  /\ UNCHANGED <<timerRunLoop, crashed>>

(* winmm_time_callback calls what time_callback holds by now. *)
Fire(t) ==
  /\ timer[t] = "fired"
  /\ IF time_callback = 0 THEN crashed' = TRUE /\ UNCHANGED timer
     ELSE Go(t, "fired", "call") /\ UNCHANGED crashed
  /\ UNCHANGED timerRunLoop

Return(t) ==
  /\ Go(t, "call", CASE Joins           -> "loop"
                     [] platform = "cf" -> "wait"
                     [] OTHER           -> IF Told(t) THEN "done" ELSE "wait")
  /\ UNCHANGED <<timerRunLoop, crashed>>

Ticks(t) ==
  /\ ~crashed
  /\ \/ Enter(t) \/ Test(t) \/ SetRunLoop(t) \/ RunLoop(t) \/ RunLoopEnds(t)
     \/ Tick(t) \/ Fire(t) \/ Return(t)
  /\ UNCHANGED <<platform, time_started_flag, pt_callback_proc_id, pt_thread_created,
                 latest, time_callback, id, stopped, client, stops>>

-----------------------------------------------------------------------------
TimerInit ==
  /\ platform \in Platforms
  /\ time_started_flag = FALSE /\ pt_callback_proc_id = 0 /\ pt_thread_created = FALSE
  /\ latest = 0 /\ timerRunLoop = 0 /\ time_callback = 0
  /\ timer = [t \in Timers |-> "none"] /\ id = [t \in Timers |-> 0]
  /\ stopped = {} /\ client = "idle" /\ stops = 0 /\ crashed = FALSE

TimerNext == Pt_Start \/ Pt_Stop \/ Joined \/ \E t \in Timers : Ticks(t)

-----------------------------------------------------------------------------
(* porttime.h:64 "Pt_Stop() stops the timer": on linux and mach no callback *)
(* of the client runs between Pt_Stop and the next Pt_Start, and never two  *)
(* at a time.                                                               *)
NoCallAfterStop ==
  Joins => /\ client = "idle" /\ ~time_started_flag => \A t \in Timers : Gone(t)
           /\ \A t, u \in Timers : Gone(t) \/ Gone(u) \/ t = u

(* The same call: a timer that was told to stop ends, and Pt_Stop returns.  *)
StopIsHeard ==
  /\ \A t \in Timers : Told(t) ~> (Gone(t) \/ crashed)
  /\ (client = "joining") ~> (client = "idle")

(* porttime.h:54 "callback is a function pointer to be called every         *)
(* resolution ms": a timer that was not told to stop calls again and again, *)
(* whatever the client and portmidi start or open meanwhile.  What may end  *)
(* this is a crash, after a Pt_Stop or for want of memory on cf.            *)
KeepsCalling ==
  \A t \in Timers : []<>(\/ timer[t] \in {"none", "call"} \/ Told(t)
                        \/ (crashed /\ (stops > 0 \/ platform = "cf")))
=============================================================================
