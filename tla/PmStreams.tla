------------------------------ MODULE PmStreams ------------------------------
(***************************************************************************)
(* The devices and streams of portmidi.c: Pm_Initialize with the           *)
(* pm_add_device calls of the backend, Pm_Terminate, Pm_OpenInput,         *)
(* Pm_OpenOutput and Pm_Close, with memory that runs out and drivers that  *)
(* fail, and the timer that Pm_OpenOutput starts.                          *)
(*                                                                         *)
(* The client is one thread.  It gives a stream back with Pm_Close and     *)
(* does not use it again; it may call Pm_Terminate with streams open, and  *)
(* then still closes them, before it initializes again.                    *)
(*                                                                         *)
(* Left out: the texts of host errors, and the fields of a stream that     *)
(* PmInput and PmOutput model.                                             *)
(***************************************************************************)
EXTENDS PtTimer, Sequences

CONSTANTS
  Found,       \* the devices that the backend finds, in their order
  Inputs,      \* those of them that are inputs
  Growth,      \* entries by which descriptors grows
  Ids,         \* the blocks that streams can have
  MaxSessions  \* bound: calls of Pm_Initialize

ASSUME PmStreamsAssumption ==
  /\ Found \in Seq(STRING) /\ Inputs \subseteq {Found[i] : i \in DOMAIN Found}
  /\ Growth \in Nat \ {0} /\ MaxSessions \in Nat
  /\ Ids \subseteq Nat \ {0}

VARIABLES
  pm_initialized,
  descriptors,          \* the array; the empty function: NULL
  pm_descriptor_max,
  pm_descriptor_index,
  midi,                 \* per block: device_id, and whether it has a queue
  blocks,               \* blocks allocated
  opening,              \* the block that is being opened, 0: none
  held,                 \* streams that the client has and will close
  lost,                 \* streams that Pm_Close did not free
  added,                \* bookkeeping: what the backend added, in order
  asked,                \* bookkeeping: how many of Found it has tried
  sessions              \* bookkeeping: calls of Pm_Initialize

streamVars == <<pm_initialized, descriptors, pm_descriptor_max, pm_descriptor_index,
                midi, blocks, opening, held, lost, added, asked, sessions>>
vars == <<timerVars, client, streamVars>>

Null    == 0
Garbage == [name |-> "?", input |-> FALSE, opened |-> FALSE, internalDescriptor |-> Null]

(* The first k entries are kept when the array gets another Growth. *)
Grown(k) == [i \in 0..(pm_descriptor_max + Growth - 1) |->
               IF i < k THEN descriptors[i] ELSE Garbage]
GrowDescriptorsLess == Grown(pm_descriptor_max - 1)  \* mutant: one is not copied
GrowDescriptors == Grown(pm_descriptor_max)

-----------------------------------------------------------------------------
(* Devices. *)

Pm_Initialize ==
  /\ client = "idle" /\ ~pm_initialized /\ held = {}
  /\ sessions < MaxSessions /\ sessions' = sessions + 1
  /\ client' = "adding" /\ asked' = 0 /\ added' = <<>>
  /\ UNCHANGED <<timerVars, pm_initialized, descriptors, pm_descriptor_max,
                 pm_descriptor_index, midi, blocks, opening, held, lost>>

Entry(name) == [name |-> name, input |-> name \in Inputs, opened |-> FALSE,
                internalDescriptor |-> Null]

(* The backend passes over a device that could not be added. *)
pm_add_device ==
  /\ client = "adding" /\ asked < Len(Found)
  /\ asked' = asked + 1
  /\ LET full == pm_descriptor_index >= pm_descriptor_max
         table == IF full THEN GrowDescriptors ELSE descriptors
     IN  \/ /\ descriptors' = [table EXCEPT ![pm_descriptor_index] = Entry(Found[asked'])]
            /\ pm_descriptor_max' = pm_descriptor_max + IF full THEN Growth ELSE 0
            /\ pm_descriptor_index' = pm_descriptor_index + 1
            /\ added' = Append(added, Found[asked'])
         \/ full /\ UNCHANGED <<descriptors, pm_descriptor_max, pm_descriptor_index, added>>
  /\ UNCHANGED <<timerVars, client, pm_initialized, midi, blocks, opening, held, lost,
                 sessions>>

Initialized ==
  /\ client = "adding" /\ asked = Len(Found)
  /\ client' = "idle" /\ pm_initialized' = TRUE
  /\ UNCHANGED <<timerVars, descriptors, pm_descriptor_max, pm_descriptor_index,
                 midi, blocks, opening, held, lost, added, asked, sessions>>

Pm_Terminate ==
  /\ client = "idle" /\ pm_initialized
  /\ pm_initialized' = FALSE
  /\ descriptors' = [i \in {} |-> Garbage]
  /\ pm_descriptor_index' = 0 /\ pm_descriptor_max' = 0
  /\ added' = <<>>
  /\ UNCHANGED <<timerVars, client, midi, blocks, opening, held, lost, asked, sessions>>

-----------------------------------------------------------------------------
(* Streams. *)

(* What is allocated for a stream: its data, and the queue of an input. *)
Parts(b) == {<<b, "midi">>} \cup IF midi[b].queue THEN {<<b, "queue">>} ELSE {}
Allocated(B) == UNION {Parts(b) : b \in B}

Unused == {b \in Ids : <<b, "midi">> \notin blocks}

MayOpenAgain(d, input) ==  \* mutant: opened is not looked at
  /\ d < pm_descriptor_index
  /\ descriptors[d].input = input
MayOpen(d, input) ==
  /\ d < pm_descriptor_index
  /\ descriptors[d].input = input
  /\ ~descriptors[d].opened

(* The stream is made and entered in descriptors; the driver's open comes   *)
(* next.  A call that finds no memory, for the stream or for its queue,     *)
(* frees what it had, and changes as little as one for a device that may    *)
(* not be opened: neither is a step.                                        *)
Opens(d, input) ==
  /\ \E b \in Unused :
       /\ \A u \in Unused : b <= u
       /\ midi' = [midi EXCEPT ![b] = [device_id |-> d, queue |-> input]]
       /\ blocks' = blocks \cup Parts(b)'
       /\ descriptors' = [descriptors EXCEPT ![d].internalDescriptor = b]
       /\ opening' = b
  /\ client' = "opening"
  /\ UNCHANGED <<pm_initialized, pm_descriptor_max, pm_descriptor_index, held, lost,
                 added, asked, sessions>>

Pm_OpenInput(d) ==
  /\ client = "idle" /\ MayOpen(d, TRUE)
  /\ Opens(d, TRUE) /\ UNCHANGED timerVars

(* With a latency and without a time_proc of the client's, the timer is     *)
(* started as well, and stays so if the driver fails.                       *)
Pm_OpenOutput(d) ==
  /\ client = "idle" /\ MayOpen(d, FALSE)
  /\ Opens(d, FALSE)
  /\ StartClock \/ UNCHANGED timerVars

FreesKeepingQueue(b) == {<<b, "midi">>}  \* mutant: the queue is left
FreesOnFailure(b) == Parts(b)

DriverOpened ==
  /\ client = "opening" /\ client' = "idle" /\ opening' = 0
  /\ LET d == midi[opening].device_id
     IN  \/ /\ descriptors' = [descriptors EXCEPT ![d].opened = TRUE]
            /\ held' = held \cup {opening} /\ UNCHANGED blocks
         \/ /\ descriptors' = [descriptors EXCEPT ![d].internalDescriptor = Null]
            /\ blocks' = blocks \ FreesOnFailure(opening) /\ UNCHANGED held
  /\ UNCHANGED <<timerVars, pm_initialized, pm_descriptor_max, pm_descriptor_index,
                 midi, lost, added, asked, sessions>>

(* Whatever the driver's close answers, the stream is cleaned up.  After    *)
(* Pm_Terminate no device has its number, and its memory is lost.           *)
Pm_Close(b) ==
  /\ client = "idle" /\ b \in held
  /\ held' = held \ {b}
  /\ LET d == midi[b].device_id
     IN  IF d < pm_descriptor_index /\ descriptors[d].opened
         THEN /\ descriptors' = [descriptors EXCEPT
                    ![d].internalDescriptor = Null, ![d].opened = FALSE]
              /\ blocks' = blocks \ Parts(b) /\ UNCHANGED lost
         ELSE lost' = lost \cup {b} /\ UNCHANGED <<descriptors, blocks>>
  /\ UNCHANGED <<timerVars, client, pm_initialized, pm_descriptor_max,
                 pm_descriptor_index, midi, opening, added, asked, sessions>>

-----------------------------------------------------------------------------
Init ==
  /\ TimerInit
  /\ pm_initialized = FALSE /\ descriptors = [i \in {} |-> Garbage]
  /\ pm_descriptor_max = 0 /\ pm_descriptor_index = 0
  /\ midi = [b \in Ids |-> [device_id |-> 0, queue |-> FALSE]]
  /\ blocks = {} /\ opening = 0 /\ held = {} /\ lost = {}
  /\ added = <<>> /\ asked = 0 /\ sessions = 0

Timer == TimerNext /\ UNCHANGED streamVars

Streams ==
  \/ Pm_Initialize \/ pm_add_device \/ Initialized \/ Pm_Terminate \/ DriverOpened
  \/ \E d \in 0..(Len(Found) - 1) : Pm_OpenInput(d) \/ Pm_OpenOutput(d)
  \/ \E b \in Ids : Pm_Close(b)

Next == Timer \/ (~crashed /\ Streams)

(* The system gives each timer its turns, and the callback returns. *)
Spec == /\ Init /\ [][Next]_vars
        /\ WF_vars(Joined /\ UNCHANGED streamVars)
        /\ \A t \in Timers : WF_vars(Ticks(t) /\ UNCHANGED streamVars)

-----------------------------------------------------------------------------
(* pm_add_device (portmidi.c:93): every device added is at its number, and  *)
(* the array is as long as pm_descriptor_max says, through every growth,    *)
(* refusal of memory and session.                                           *)
DevicesKeepTheirPlace ==
  /\ DOMAIN descriptors = 0..(pm_descriptor_max - 1)
  /\ pm_descriptor_index = Len(added)
  /\ \A i \in 1..Len(added) :
       /\ descriptors[i - 1].name = added[i]
       /\ descriptors[i - 1].input = (added[i] \in Inputs)

(* Between two calls, an opened device belongs to exactly one stream, which *)
(* the client has and descriptors names; a closed one names none.           *)
OpenedHasOneStream ==
  pm_initialized /\ client # "opening" =>
    \A d \in 0..(pm_descriptor_index - 1) :
      LET on == {b \in held : midi[b].device_id = d}
      IN  IF descriptors[d].opened THEN on = {descriptors[d].internalDescriptor}
          ELSE on = {} /\ descriptors[d].internalDescriptor = Null

(* No open, close or failure of one leaves memory behind: what is allocated *)
(* is what the client's streams need, and what was lost by closing a stream *)
(* after Pm_Terminate.                                                      *)
NothingIsLeftBehind ==
  client # "opening" => blocks = Allocated(held \cup lost)
=============================================================================
