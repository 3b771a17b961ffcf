---------------------------- MODULE PtTimerProofs ----------------------------
(***************************************************************************)
(* What keeps NoCallAfterStop of PtTimer true, for every number of timers  *)
(* and of calls of Pt_Stop.  The steps of the timer and of its client are  *)
(* taken one by one here; PmStreamsProofs composes them with portmidi.     *)
(***************************************************************************)
EXTENDS PtTimer, TLAPS

TimerTypeOK ==
  /\ platform \in Platforms
  /\ time_started_flag \in BOOLEAN /\ pt_thread_created \in BOOLEAN
  /\ latest \in 0..MaxTimers
  /\ timer \in [Timers -> Places]

(* Timers are numbered in the order in which they are created. *)
InSequence == \E n \in 0..MaxTimers : Created = 1..n

(* On linux and mach only the thread that was created last may be alive.   *)
(* Where Pt_Stop would not wait for it, it has ended, and it has ended     *)
(* whenever the timer can be started.                                      *)
OneThread ==
  Joins =>
    /\ Created = 1..latest
    /\ \A t \in Timers : t # latest => Gone(t)
    /\ ~MustJoin => \A t \in Timers : Gone(t)
    /\ ~time_started_flag /\ client # "joining" => \A t \in Timers : Gone(t)

TimerInv == TimerTypeOK /\ InSequence /\ OneThread

-----------------------------------------------------------------------------
(* As long as there are timers left, NextTimer is the next number. *)
LEMMA NextTimerIsNext ==
  ASSUME TimerTypeOK, NEW n \in 0..MaxTimers, Created = 1..n, NextTimer # 0
  PROVE  n + 1 \in Timers /\ NextTimer = n + 1
<1>1. n \in Nat /\ n <= MaxTimers /\ MaxTimers \in Nat
  BY PtTimerAssumption
<1>2. n # MaxTimers
  BY DEF NextTimer, Timers
<1>3. n + 1 \in Timers \ Created /\ 1..((n + 1) - 1) \subseteq Created
  BY <1>1, <1>2 DEF Timers
<1>4. ASSUME NEW t \in Timers \ Created, 1..(t - 1) \subseteq Created
      PROVE  t = n + 1
  <2>1. t \in Nat /\ t > n
    BY <1>1 DEF Timers
  <2>2. t > n + 1 => n + 1 \in 1..(t - 1)
    BY <1>1, <2>1
  <2> QED
    BY <1>1, <1>4, <2>1, <2>2
<1>5. NextTimer = CHOOSE t \in Timers \ Created : 1..(t - 1) \subseteq Created
  BY DEF NextTimer
<1>6. /\ NextTimer \in Timers \ Created
      /\ 1..(NextTimer - 1) \subseteq Created
  BY <1>3, <1>5
<1> QED
  BY <1>3, <1>4, <1>6

(* A thread that takes one step of its own stays created, is not alive     *)
(* unless it was, and leaves the others alone.                             *)
LEMMA TicksStep ==
  ASSUME TimerTypeOK, NEW t \in Timers, Ticks(t)
  PROVE  /\ timer' \in [Timers -> Places]
         /\ \A u \in Timers : timer'[u] = "none" <=> timer[u] = "none"
         /\ \A u \in Timers : Gone(u) => Gone(u)'
<1> USE DEF TimerTypeOK, Places, Gone
<1>1. CASE \E q \in Places \ {"none"} : Go(t, timer[t], q) /\ ~Gone(t)
  BY <1>1 DEF Go
<1>2. CASE UNCHANGED timer
  BY <1>2
<1>3. CASE Enter(t)
  BY <1>1, <1>3 DEF Enter, Go
<1>4. CASE Test(t)
  BY <1>1, <1>4 DEF Test, Go
<1>5. CASE SetRunLoop(t)
  BY <1>1, <1>5 DEF SetRunLoop, Go
<1>6. CASE RunLoop(t)
  BY <1>1, <1>6 DEF RunLoop, Go
<1>7. CASE RunLoopEnds(t)
  BY <1>1, <1>7 DEF RunLoopEnds, Go
<1>8. CASE Tick(t)
  BY <1>1, <1>8 DEF Tick, Go
<1>9. CASE Fire(t)
  BY <1>1, <1>2, <1>9 DEF Fire, Go
<1>10. CASE Return(t)
  <2>1. platform \in {"linux", "mach", "cf", "winmm"}
    BY PtTimerAssumption
  <2>2. PICK q \in {"loop", "wait", "done"} : Go(t, "call", q)
    BY <1>10 DEF Return
  <2> QED
    BY <1>1, <2>2 DEF Go
<1> QED
  BY <1>3, <1>4, <1>5, <1>6, <1>7, <1>8, <1>9, <1>10 DEF Ticks

-----------------------------------------------------------------------------
(* The invariant holds at first, *)
LEMMA TimerInitInv == TimerInit => TimerInv
<1> SUFFICES ASSUME TimerInit PROVE TimerInv
  OBVIOUS
<1> USE PtTimerAssumption DEF TimerInit
<1>1. TimerTypeOK
  <2>1. 0 \in 0..MaxTimers
    OBVIOUS
  <2> QED
    BY <2>1 DEF TimerTypeOK, Places
<1>2. Created = {} /\ \A t \in Timers : Gone(t)
  BY DEF Created, Gone
<1>3. Created = 1..0
  BY <1>2
<1>4. InSequence
  BY <1>3 DEF InSequence
<1>5. OneThread
  BY <1>2, <1>3 DEF OneThread, Timers
<1> QED
  BY <1>1, <1>4, <1>5 DEF TimerInv

(* a thread's own step keeps it, *)
LEMMA TicksInv ==
  ASSUME TimerInv, NEW t \in Timers, Ticks(t)
  PROVE  TimerInv'
<1> USE DEF TimerInv
<1>1. UNCHANGED <<platform, time_started_flag, pt_thread_created, latest, client>>
  BY DEF Ticks
<1>2. Created' = Created /\ \A u \in Timers : Gone(u) => Gone(u)'
  BY TicksStep DEF Created
<1>3. TimerTypeOK'
  BY <1>1, TicksStep DEF TimerTypeOK
<1>4. InSequence'
  BY <1>2 DEF InSequence
<1>5. OneThread'
  BY <1>1, <1>2 DEF OneThread, Joins, MustJoin
<1> QED
  BY <1>3, <1>4, <1>5

(* a call of Pt_Start that installs a callback keeps it, for on linux and  *)
(* mach all threads have ended when it creates the next one,               *)
LEMMA ArmInv ==
  ASSUME TimerInv, client = "idle", ~time_started_flag, Arm, UNCHANGED client
  PROVE  TimerInv'
<1> USE DEF TimerInv
<1>1. PICK n \in 0..MaxTimers : Created = 1..n
  BY DEF InSequence
<1>2. n + 1 \in Timers /\ NextTimer = n + 1
  BY <1>1, NextTimerIsNext DEF Arm
<1>3. n \in Nat /\ n + 1 <= MaxTimers /\ MaxTimers \in Nat
  BY <1>2, PtTimerAssumption DEF Timers
<1>4. UNCHANGED platform /\ (Joins' = Joins)
  BY DEF Arm, Joins
<1>5. ASSUME Create(n + 1)
      PROVE  Created' = 1..(n + 1) /\ timer' \in [Timers -> Places]
  <2>1. /\ timer' \in [Timers -> Places] /\ timer'[n + 1] # "none"
        /\ \A u \in Timers : u # n + 1 => timer'[u] = timer[u]
    BY <1>2, <1>5 DEF Create, TimerTypeOK, Places
  <2>2. Created' = Created \cup {n + 1}
    BY <1>2, <2>1 DEF Created
  <2> QED
    BY <1>1, <1>3, <2>1, <2>2
<1>6. Create(n + 1) \/ (NoTimer /\ UNCHANGED timer)
  BY <1>2 DEF Arm, ArmLinux, ArmCf, ArmWinmm, NoTimer
<1>7. InSequence'
  <2>1. n + 1 \in 0..MaxTimers
    BY <1>3
  <2> QED
    BY <1>1, <1>5, <1>6, <2>1 DEF InSequence, Created
<1>8. TimerTypeOK'
  <2>1. latest' \in {latest, n + 1, 0} /\ time_started_flag' \in BOOLEAN
        /\ pt_thread_created' \in BOOLEAN
    BY <1>2 DEF Arm, ArmLinux, ArmCf, ArmWinmm, TimerTypeOK
  <2>2. latest' \in 0..MaxTimers
    BY <1>3, <2>1 DEF TimerTypeOK
  <2> QED
    BY <1>4, <1>5, <1>6, <2>1, <2>2 DEF TimerTypeOK
<1>9. OneThread'
  <2> SUFFICES ASSUME Joins PROVE OneThread'
    BY <1>4 DEF OneThread
  <2>1. ArmLinux
    BY DEF Arm, ArmCf, ArmWinmm, Joins
  <2>2. /\ Created = 1..latest /\ \A t \in Timers : Gone(t)
        /\ latest \in Nat
    BY DEF OneThread, TimerTypeOK
  <2>3. CASE NoTimer /\ UNCHANGED <<latest, pt_thread_created, time_started_flag>>
    BY <1>4, <2>2, <2>3 DEF NoTimer, OneThread, Created, Gone, MustJoin, Joins
  <2>4. CASE /\ Create(NextTimer) /\ latest' = NextTimer
             /\ pt_thread_created' = (platform = "linux") /\ time_started_flag' = TRUE
    <3>1. Create(n + 1) /\ latest' = n + 1
      BY <1>2, <2>4
    <3>2. Created' = 1..latest'
      BY <1>5, <3>1
    <3>3. \A u \in Timers : u # latest' => Gone(u)'
      BY <2>2, <3>1 DEF Create, Gone, TimerTypeOK
    <3>4. MustJoin'
      <4>1. CASE platform = "linux"
        <5>1. pt_thread_created'
          BY <2>4, <4>1
        <5> QED
          BY <5>1 DEF MustJoin
      <4>2. CASE platform = "mach"
        <5>1. platform' = "mach" /\ latest' # 0
          BY <1>3, <1>4, <3>1, <4>2
        <5> QED
          BY <5>1 DEF MustJoin
      <4> QED
        BY <4>1, <4>2 DEF Joins
    <3> QED
      BY <2>4, <3>2, <3>3, <3>4 DEF OneThread
  <2> QED
    BY <2>1, <2>3, <2>4 DEF ArmLinux
<1> QED
  BY <1>7, <1>8, <1>9

(* and one that only starts the clock, as Pm_OpenOutput makes it too.      *)
LEMMA StartClockInv ==
  ASSUME TimerInv, StartClock \/ UNCHANGED timerVars,
         client # "joining", client' # "joining"
  PROVE  TimerInv'
<1> USE DEF TimerInv
<1>1. UNCHANGED <<platform, pt_thread_created, latest, timer>>
      /\ (time_started_flag' = TRUE \/ UNCHANGED time_started_flag)
  BY DEF StartClock, timerVars
<1>2. TimerTypeOK'
  BY <1>1 DEF TimerTypeOK
<1>3. InSequence'
  BY <1>1 DEF InSequence, Created
<1>4. OneThread'
  BY <1>1 DEF OneThread, Created, Gone, MustJoin, Joins
<1> QED
  BY <1>2, <1>3, <1>4

(* Pt_Stop waits where a thread may be alive, *)
LEMMA StopInv ==
  ASSUME TimerInv, Pt_Stop
  PROVE  TimerInv'
<1> USE DEF TimerInv
<1>1. UNCHANGED platform /\ client = "idle"
  BY DEF Pt_Stop
<1>2. CASE StopLinux
  <2>1. UNCHANGED <<latest, timer, pt_thread_created>> /\ Joins
    BY <1>2 DEF StopLinux
  <2>2. TimerTypeOK'
    BY <1>1, <1>2, <2>1 DEF TimerTypeOK, StopLinux
  <2>3. InSequence'
    BY <2>1 DEF InSequence, Created
  <2>4. OneThread'
    <3>1. MustJoin' = MustJoin
      BY <1>1, <2>1 DEF MustJoin
    <3>2. ~MustJoin \/ (client' = "joining")
      BY <1>2 DEF StopLinux
    <3> QED
      BY <1>1, <2>1, <3>1, <3>2 DEF OneThread, Created, Gone, Joins
  <2> QED
    BY <2>2, <2>3, <2>4
<1>3. CASE StopCf
  <2>1. UNCHANGED <<latest, timer, pt_thread_created>> /\ time_started_flag' \in BOOLEAN
    BY <1>3 DEF StopCf, TimerTypeOK
  <2> QED
    BY <1>1, <1>3, <2>1 DEF TimerTypeOK, InSequence, Created, OneThread, Joins, StopCf
<1>4. CASE StopWinmm
  <2>1. /\ timer' \in [Timers -> Places] /\ latest' \in 0..MaxTimers
        /\ \A u \in Timers : timer'[u] = "none" <=> timer[u] = "none"
    <3>1. 0 \in 0..MaxTimers
      BY PtTimerAssumption
    <3> QED
      BY <1>4, <3>1 DEF StopWinmm, TimerTypeOK, Places
  <2>2. UNCHANGED pt_thread_created /\ time_started_flag' = FALSE /\ ~Joins'
    BY <1>1, <1>4 DEF StopWinmm, Joins
  <2> QED
    BY <1>1, <2>1, <2>2 DEF TimerTypeOK, InSequence, Created, OneThread
<1> QED
  BY <1>2, <1>3, <1>4 DEF Pt_Stop

(* and comes back when the last thread has ended: then all have.           *)
LEMMA JoinedInv ==
  ASSUME TimerInv, Joined
  PROVE  TimerInv'
<1> USE DEF TimerInv
<1>1. /\ UNCHANGED <<platform, latest, timer>>
      /\ time_started_flag' = FALSE /\ pt_thread_created' = FALSE
      /\ timer[latest] = "done"
  BY DEF Joined
<1>2. Joins => \A t \in Timers : Gone(t)'
  BY <1>1 DEF OneThread, Gone
<1> QED
  BY <1>1, <1>2 DEF TimerTypeOK, InSequence, Created, OneThread, Joins, Gone

-----------------------------------------------------------------------------
(* Every step of the timer and its client keeps the invariant. *)
LEMMA TimerNextInv ==
  ASSUME TimerInv, TimerNext
  PROVE  TimerInv'
<1>1. CASE Pt_Start
  <2>1. UNCHANGED client /\ client = "idle"
    BY <1>1 DEF Pt_Start
  <2>2. CASE StartClock \/ UNCHANGED timerVars
    BY <2>1, <2>2, StartClockInv
  <2>3. CASE ~time_started_flag /\ Arm
    BY <2>1, <2>3, ArmInv
  <2> QED
    BY <1>1, <2>2, <2>3 DEF Pt_Start
<1> QED
  BY <1>1, StopInv, JoinedInv, TicksInv DEF TimerNext

(* The invariant says what NoCallAfterStop promises. *)
LEMMA TimerInvStops == TimerInv => NoCallAfterStop
BY DEF TimerInv, OneThread, NoCallAfterStop, Gone
=============================================================================
