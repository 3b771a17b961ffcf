--------------------------- MODULE PmStreamsProofs ---------------------------
(***************************************************************************)
(* Theorems about PmStreams for any devices, any number of streams, of     *)
(* sessions and of timers, and any entries by which descriptors grows.     *)
(***************************************************************************)
EXTENDS PmStreams, PtTimerProofs, SequenceTheorems

(* An entry of descriptors, one that was never written included. *)
Descriptor == [name : STRING \cup {Garbage.name}, input : BOOLEAN, opened : BOOLEAN,
               internalDescriptor : Ids \cup {Null}]

(* The streams that have memory: the client's, the lost ones, and the one  *)
(* that is being opened.                                                   *)
Opening == IF client = "opening" THEN {opening} ELSE {}
Owners  == held \cup lost \cup Opening

StreamsTypeOK ==
  /\ client \in {"idle", "adding", "opening", "joining"}
  /\ pm_initialized \in BOOLEAN
  /\ pm_descriptor_max \in Nat /\ pm_descriptor_index \in 0..pm_descriptor_max
  /\ descriptors \in [0..(pm_descriptor_max - 1) -> Descriptor]
  /\ midi \in [Ids -> [device_id : Nat, queue : BOOLEAN]]
  /\ held \subseteq Ids /\ lost \subseteq Ids /\ Opening \subseteq Ids
  /\ added \in Seq(STRING) /\ asked \in Nat

(* The table is empty but in a session and while one is set up; nothing is *)
(* open then.                                                              *)
Sessions ==
  /\ client = "adding" =>
       /\ ~pm_initialized /\ held = {}
       /\ \A d \in 0..(pm_descriptor_index - 1) :
            ~descriptors[d].opened /\ descriptors[d].internalDescriptor = Null
  /\ client = "opening" => pm_initialized
  /\ ~pm_initialized /\ client # "adding" =>
       pm_descriptor_index = 0 /\ pm_descriptor_max = 0

(* A stream belongs to one owner only; a stream's memory is what its owner *)
(* needs.                                                                  *)
Memory ==
  /\ held \cap lost = {} /\ Opening \cap (held \cup lost) = {}
  /\ blocks = Allocated(Owners)

(* In a session, devices and streams point at each other. *)
Linked ==
  pm_initialized =>
    /\ \A b \in held :
         /\ midi[b].device_id \in 0..(pm_descriptor_index - 1)
         /\ descriptors[midi[b].device_id].opened
         /\ descriptors[midi[b].device_id].internalDescriptor = b
    /\ \A b \in Opening :
         /\ midi[b].device_id \in 0..(pm_descriptor_index - 1)
         /\ ~descriptors[midi[b].device_id].opened
         /\ descriptors[midi[b].device_id].internalDescriptor = b
    /\ \A d \in 0..(pm_descriptor_index - 1) :
         LET b == descriptors[d].internalDescriptor
         IN  IF b = Null THEN ~descriptors[d].opened
             ELSE b \in held \cup Opening /\ midi[b].device_id = d

StreamsInv ==
  StreamsTypeOK /\ Sessions /\ Memory /\ Linked /\ DevicesKeepTheirPlace

Inv == TimerInv /\ StreamsInv

-----------------------------------------------------------------------------
(* Memory: what a set of streams needs. *)

(* A stream's data tells whether it is among the owners. *)
LEMMA DataTellsOwner ==
  ASSUME NEW B, NEW b
  PROVE  <<b, "midi">> \in Allocated(B) <=> b \in B
<1>1. \A c : <<b, "midi">> \in Parts(c) <=> b = c
  BY DEF Parts
<1>2. <<b, "midi">> \in Allocated(B) <=> \E c \in B : <<b, "midi">> \in Parts(c)
  BY DEF Allocated
<1> QED
  BY <1>1, <1>2

(* One owner more needs the memory of one stream more, *)
LEMMA AllocatedMore ==
  ASSUME NEW B, NEW b
  PROVE  Allocated(B \cup {b}) = Allocated(B) \cup Parts(b)
BY DEF Allocated

(* one less, of one less: no part is shared between streams. *)
LEMMA AllocatedLess ==
  ASSUME NEW B, NEW b
  PROVE  Allocated(B) \ Parts(b) = Allocated(B \ {b})
<1>1. ASSUME NEW c, NEW x \in Parts(c), x \in Parts(b)
      PROVE  c = b
  BY <1>1 DEF Parts
<1>2. \A C, x : x \in Allocated(C) <=> \E c \in C : x \in Parts(c)
  BY DEF Allocated
<1>3. \A x : x \in Allocated(B) /\ x \notin Parts(b) <=> x \in Allocated(B \ {b})
  BY <1>1, <1>2
<1> QED
  BY <1>3

(* The entry of one stream says nothing of the memory of others. *)
LEMMA AllocatedOther ==
  ASSUME NEW B \in SUBSET Ids, NEW b \in Ids, b \notin B, NEW m,
         StreamsTypeOK, midi' = [midi EXCEPT ![b] = m]
  PROVE  UNION {Parts(c)' : c \in B} = Allocated(B)
<1>1. ASSUME NEW c \in B PROVE Parts(c)' = Parts(c)
  BY DEF Parts, StreamsTypeOK
<1> QED
  BY <1>1 DEF Allocated

-----------------------------------------------------------------------------
(* At first there are no devices, and the client holds nothing. *)
LEMMA StreamsInitInv == Init => StreamsInv
<1> SUFFICES ASSUME Init PROVE StreamsInv
  OBVIOUS
<1>1. Opening = {} /\ Owners = {}
  BY DEF Init, TimerInit, Opening, Owners
<1>2. StreamsTypeOK
  <2>1. descriptors \in [0..(pm_descriptor_max - 1) -> Descriptor]
    BY DEF Init
  <2>2. midi \in [Ids -> [device_id : Nat, queue : BOOLEAN]]
    BY DEF Init
  <2>3. added \in Seq(STRING) /\ asked \in Nat
    BY DEF Init
  <2>4. pm_descriptor_max \in Nat /\ pm_descriptor_index \in 0..pm_descriptor_max
    BY DEF Init
  <2>5. client = "idle" /\ pm_initialized = FALSE /\ held = {} /\ lost = {}
    BY DEF Init, TimerInit
  <2> QED
    BY <1>1, <2>1, <2>2, <2>3, <2>4, <2>5 DEF StreamsTypeOK
<1>3. Memory
  BY <1>1 DEF Init, Memory, Allocated
<1>4. DevicesKeepTheirPlace
  BY DEF Init, DevicesKeepTheirPlace
<1>5. Sessions /\ Linked
  BY DEF Init, TimerInit, Sessions, Linked
<1> QED
  BY <1>2, <1>3, <1>4, <1>5 DEF StreamsInv

(* The timer shares nothing with the streams but the client's attention. *)
LEMMA TimerSteps ==
  ASSUME StreamsInv, UNCHANGED streamVars,
         \/ UNCHANGED client
         \/ client \in {"idle", "joining"} /\ client' \in {"idle", "joining"}
  PROVE  StreamsInv'
<1> USE DEF StreamsInv, streamVars
<1>1. Opening' = Opening /\ Owners' = Owners
  BY DEF Opening, Owners
<1>2. StreamsTypeOK'
  BY <1>1 DEF StreamsTypeOK
<1>3. Sessions'
  BY DEF Sessions
<1>4. Memory'
  BY <1>1 DEF Memory, Allocated, Parts
<1>5. Linked'
  BY <1>1 DEF Linked
<1>6. DevicesKeepTheirPlace'
  BY DEF DevicesKeepTheirPlace
<1> QED
  BY <1>2, <1>3, <1>4, <1>5, <1>6

LEMMA InitializeInv ==
  ASSUME StreamsInv, Pm_Initialize
  PROVE  StreamsInv'
<1> USE DEF StreamsInv, Pm_Initialize
<1>1. Opening = {} /\ Opening' = {} /\ Owners' = Owners
  BY DEF Opening, Owners
<1>2. pm_descriptor_index = 0 /\ pm_descriptor_max = 0
  BY DEF Sessions
<1>3. StreamsTypeOK'
  <2>1. <<>> \in Seq(STRING)
    OBVIOUS
  <2> QED
    BY <1>1, <2>1 DEF StreamsTypeOK
<1>4. Sessions'
  BY <1>2 DEF Sessions
<1>5. Memory'
  BY <1>1 DEF Memory, Allocated, Parts
<1>6. Linked'
  BY DEF Linked
<1>7. DevicesKeepTheirPlace'
  BY <1>2 DEF DevicesKeepTheirPlace
<1> QED
  BY <1>3, <1>4, <1>5, <1>6, <1>7

(* A device added takes the next place; the table grows if it is full, and *)
(* keeps its entries.                                                      *)
LEMMA AddDeviceInv ==
  ASSUME StreamsInv, pm_add_device
  PROVE  StreamsInv'
<1> USE DEF StreamsInv
<1> DEFINE max  == pm_descriptor_max
           i    == pm_descriptor_index
           full == i >= max
           table == IF full THEN GrowDescriptors ELSE descriptors
           name == Found[asked + 1]
           new  == Entry(name)
<1>1. max \in Nat /\ i \in 0..max /\ Growth \in Nat /\ Growth > 0
  BY PmStreamsAssumption DEF StreamsTypeOK
<1>2. /\ UNCHANGED <<client, pm_initialized, midi, blocks, opening, held, lost>>
      /\ asked' = asked + 1 /\ client = "adding"
  BY DEF pm_add_device
<1>3. Opening' = Opening /\ Owners' = Owners
  BY <1>2 DEF Opening, Owners
<1>4. Memory' /\ Linked'
  BY <1>2, <1>3 DEF Memory, Allocated, Parts, Linked, Sessions
<1>5. CASE UNCHANGED <<descriptors, pm_descriptor_max, pm_descriptor_index, added>>
  BY <1>2, <1>3, <1>4, <1>5 DEF StreamsTypeOK, Sessions, DevicesKeepTheirPlace
<1>6. CASE /\ descriptors' = [table EXCEPT ![i] = new]
           /\ pm_descriptor_max' = max + IF full THEN Growth ELSE 0
           /\ pm_descriptor_index' = i + 1
           /\ added' = Append(added, name)
  <2>1. name \in STRING
    <3>1. asked \in Nat /\ asked < Len(Found) /\ Found \in Seq(STRING)
      BY PmStreamsAssumption DEF pm_add_device, StreamsTypeOK
    <3> QED
      BY <3>1
  <2>2. new \in Descriptor /\ Garbage \in Descriptor
    <3>1. (name \in Inputs) \in BOOLEAN
      OBVIOUS
    <3>2. Null \in Ids \cup {Null}
      OBVIOUS
    <3> QED
      BY <2>1, <3>1, <3>2 DEF Entry, Garbage, Descriptor
  <2>3. /\ pm_descriptor_max' \in Nat /\ i \in 0..(pm_descriptor_max' - 1)
        /\ pm_descriptor_index' \in 0..pm_descriptor_max'
    BY <1>1, <1>6
  <2>4. /\ table \in [0..(pm_descriptor_max' - 1) -> Descriptor]
        /\ \A d \in 0..(i - 1) : table[d] = descriptors[d]
    <3>1. CASE ~full
      BY <1>1, <1>6, <3>1 DEF StreamsTypeOK
    <3>2. CASE full
      <4>1. i = max /\ pm_descriptor_max' = max + Growth
        BY <1>1, <1>6, <3>2
      <4>2. table = Grown(max)
        BY <3>2 DEF GrowDescriptors
      <4>3. descriptors \in [0..(max - 1) -> Descriptor]
        BY DEF StreamsTypeOK
      <4>4. \A d \in 0..(max + Growth - 1) : d < max => d \in 0..(max - 1)
        BY <1>1
      <4>5. Grown(max) \in [0..(max + Growth - 1) -> Descriptor]
        BY <2>2, <4>3, <4>4 DEF Grown
      <4>6. \A d \in 0..(i - 1) : Grown(max)[d] = descriptors[d]
        BY <1>1, <4>1 DEF Grown
      <4>7. 0..(pm_descriptor_max' - 1) = 0..(max + Growth - 1)
        BY <1>1, <4>1
      <4> HIDE DEF table
      <4> QED
        BY <4>2, <4>5, <4>6, <4>7
    <3> QED
      BY <3>1, <3>2
  <2> HIDE DEF table, new, full, name
  <2>5. /\ descriptors' \in [0..(pm_descriptor_max' - 1) -> Descriptor]
        /\ descriptors'[i] = new
        /\ \A d \in 0..(i - 1) : descriptors'[d] = descriptors[d]
    BY <1>1, <1>6, <2>2, <2>3, <2>4
  <2>6. /\ added' \in Seq(STRING) /\ Len(added') = i + 1 /\ added'[i + 1] = name
        /\ \A d \in 1..i : added'[d] = added[d]
    <3>1. added \in Seq(STRING) /\ Len(added) = i
      BY DEF StreamsTypeOK, DevicesKeepTheirPlace
    <3> QED
      BY <1>6, <2>1, <3>1, AppendProperties
  <2>7. StreamsTypeOK'
    <3>1. asked' \in Nat
      BY <1>2 DEF StreamsTypeOK
    <3> QED
      BY <1>2, <1>3, <2>3, <2>5, <2>6, <3>1 DEF StreamsTypeOK
  <2>8. Sessions'
    <3>1. ~new.opened /\ new.internalDescriptor = Null
      BY DEF new, Entry
    <3>2. \A d \in 0..(pm_descriptor_index' - 1) : d \in 0..(i - 1) \/ d = i
      BY <1>1, <1>6
    <3> QED
      BY <1>2, <1>6, <2>5, <3>1, <3>2 DEF Sessions
  <2>9. DevicesKeepTheirPlace'
    <3>1. new.name = name /\ new.input = (name \in Inputs)
      BY DEF new, Entry
    <3>2. ASSUME NEW d \in 1..Len(added')
          PROVE  /\ descriptors'[d - 1].name = added'[d]
                 /\ descriptors'[d - 1].input = (added'[d] \in Inputs)
      <4>1. CASE d = i + 1
        BY <1>1, <2>5, <2>6, <3>1, <4>1
      <4>2. CASE d \in 1..i
        <5>1. d \in 1..Len(added) /\ d - 1 \in 0..(i - 1)
          BY <1>1, <4>2 DEF DevicesKeepTheirPlace
        <5> QED
          BY <2>5, <2>6, <4>2, <5>1 DEF DevicesKeepTheirPlace
      <4> QED
        BY <1>1, <2>6, <4>1, <4>2
    <3> QED
      BY <1>6, <2>5, <2>6, <3>2 DEF DevicesKeepTheirPlace
  <2> QED
    BY <1>4, <2>7, <2>8, <2>9
<1> QED
  BY <1>5, <1>6 DEF pm_add_device

(* Pm_Initialize has been through its devices. *)
LEMMA InitializedInv ==
  ASSUME StreamsInv, Initialized
  PROVE  StreamsInv'
<1> USE DEF StreamsInv, Initialized
<1>1. Opening = {} /\ Opening' = {} /\ Owners' = Owners
  BY DEF Opening, Owners
<1>2. StreamsTypeOK'
  BY <1>1 DEF StreamsTypeOK
<1>3. Sessions'
  BY DEF Sessions
<1>4. Memory'
  BY <1>1 DEF Memory, Allocated, Parts
<1>5. Linked'
  BY <1>1 DEF Sessions, Linked
<1>6. DevicesKeepTheirPlace'
  BY DEF DevicesKeepTheirPlace
<1> QED
  BY <1>2, <1>3, <1>4, <1>5, <1>6

(* Pm_Terminate forgets the devices; the streams stay with their owners. *)
LEMMA TerminateInv ==
  ASSUME StreamsInv, Pm_Terminate
  PROVE  StreamsInv'
<1> USE DEF StreamsInv, Pm_Terminate
<1>1. Opening = {} /\ Opening' = {} /\ Owners' = Owners
  BY DEF Opening, Owners
<1>2. StreamsTypeOK'
  <2>1. descriptors' \in [0..(pm_descriptor_max' - 1) -> Descriptor]
    OBVIOUS
  <2>2. added' \in Seq(STRING) /\ asked' \in Nat
    BY DEF StreamsTypeOK
  <2>3. pm_descriptor_max' \in Nat /\ pm_descriptor_index' \in 0..pm_descriptor_max'
    OBVIOUS
  <2>4. client' = "idle" /\ pm_initialized' = FALSE /\ UNCHANGED <<midi, held, lost>>
    OBVIOUS
  <2> HIDE DEF Pm_Terminate
  <2> QED
    BY <1>1, <2>1, <2>2, <2>3, <2>4 DEF StreamsTypeOK
<1>3. Sessions'
  BY DEF Sessions
<1>4. Memory'
  BY <1>1 DEF Memory, Allocated, Parts
<1>5. Linked'
  BY DEF Linked
<1>6. DevicesKeepTheirPlace'
  BY DEF DevicesKeepTheirPlace
<1> QED
  BY <1>2, <1>3, <1>4, <1>5, <1>6

(* An open takes a block that nobody owns for a device that is not open. *)
LEMMA OpensInv ==
  ASSUME StreamsInv, NEW d \in Nat, NEW input \in BOOLEAN,
         client = "idle", MayOpen(d, input), Opens(d, input)
  PROVE  StreamsInv'
<1> USE DEF StreamsInv
<1>1. PICK b \in Unused :
        /\ midi' = [midi EXCEPT ![b] = [device_id |-> d, queue |-> input]]
        /\ blocks' = blocks \cup Parts(b)'
        /\ descriptors' = [descriptors EXCEPT ![d].internalDescriptor = b]
        /\ opening' = b
  BY DEF Opens
<1>2. /\ client' = "opening"
      /\ UNCHANGED <<pm_initialized, pm_descriptor_max, pm_descriptor_index, held, lost,
                     added, asked>>
  BY DEF Opens
<1>3. Opening = {} /\ Owners = held \cup lost
  BY DEF Opening, Owners
<1>4. b \in Ids /\ b \notin Owners
  BY DataTellsOwner DEF Unused, Memory
<1>5. Opening' = {b} /\ Owners' = Owners \cup {b}
  BY <1>1, <1>2, <1>3 DEF Opening, Owners
<1>6. d \in 0..(pm_descriptor_index - 1) /\ d \in 0..(pm_descriptor_max - 1)
  BY DEF MayOpen, StreamsTypeOK
<1>7. /\ pm_initialized /\ ~descriptors[d].opened
      /\ descriptors[d].internalDescriptor = Null
  <2>1. pm_initialized /\ ~descriptors[d].opened
    BY <1>6 DEF Sessions, MayOpen
  <2>2. descriptors[d].internalDescriptor \in held => descriptors[d].opened
    BY <1>6, <2>1 DEF Linked
  <2> QED
    BY <1>3, <1>6, <2>1, <2>2 DEF Linked
<1>8. /\ descriptors' \in [0..(pm_descriptor_max - 1) -> Descriptor]
      /\ descriptors'[d] = [descriptors[d] EXCEPT !.internalDescriptor = b]
      /\ \A e \in 0..(pm_descriptor_max - 1) : e # d => descriptors'[e] = descriptors[e]
  <2>1. descriptors[d] \in Descriptor
    BY <1>6 DEF StreamsTypeOK
  <2>2. [descriptors[d] EXCEPT !.internalDescriptor = b] \in Descriptor
    BY <1>4, <2>1 DEF Descriptor
  <2> QED
    BY <1>1, <1>6, <2>2 DEF StreamsTypeOK
<1>9. /\ midi' \in [Ids -> [device_id : Nat, queue : BOOLEAN]]
      /\ midi'[b].device_id = d
      /\ \A c \in Ids : c # b => midi'[c] = midi[c]
  BY <1>1, <1>4 DEF StreamsTypeOK
<1>10. StreamsTypeOK'
  BY <1>2, <1>4, <1>5, <1>8, <1>9 DEF StreamsTypeOK
<1>11. Sessions'
  BY <1>2, <1>7 DEF Sessions
<1>12. Memory'
  <2>1. Owners \in SUBSET Ids
    BY <1>3 DEF StreamsTypeOK
  <2>2. UNION {Parts(c)' : c \in Owners} = Allocated(Owners)
    BY <1>1, <1>4, <2>1, AllocatedOther
  <2>3. UNION {Parts(c)' : c \in Owners \cup {b}}
          = (UNION {Parts(c)' : c \in Owners}) \cup Parts(b)'
    OBVIOUS
  <2>4. Allocated(Owners)' = UNION {Parts(c)' : c \in Owners'}
    BY DEF Allocated
  <2>5. blocks' = Allocated(Owners)'
    BY <1>1, <1>5, <2>2, <2>3, <2>4 DEF Memory
  <2> QED
    BY <1>2, <1>3, <1>4, <1>5, <2>5 DEF Memory
<1>13. Linked'
  <2>1. ASSUME NEW c \in held
        PROVE  /\ midi'[c].device_id \in 0..(pm_descriptor_index - 1)
               /\ descriptors'[midi'[c].device_id].opened
               /\ descriptors'[midi'[c].device_id].internalDescriptor = c
    <3>1. c \in Ids /\ c # b /\ c # Null
      BY <1>3, <1>4, PmStreamsAssumption DEF StreamsTypeOK, Null
    <3>2. midi'[c] = midi[c]
      BY <1>9, <3>1
    <3>3. /\ midi[c].device_id \in 0..(pm_descriptor_index - 1)
          /\ descriptors[midi[c].device_id].opened
          /\ descriptors[midi[c].device_id].internalDescriptor = c
      BY <1>7 DEF Linked
    <3>4. /\ midi[c].device_id # d
          /\ midi[c].device_id \in 0..(pm_descriptor_max - 1)
      BY <1>7, <3>1, <3>3 DEF StreamsTypeOK
    <3> QED
      BY <1>8, <3>2, <3>3, <3>4
  <2>2. /\ descriptors'[d].internalDescriptor = b
        /\ descriptors'[d].opened = descriptors[d].opened
    BY <1>6, <1>8 DEF StreamsTypeOK, Descriptor
  <2>3. ASSUME NEW e \in 0..(pm_descriptor_index - 1),
               descriptors'[e].internalDescriptor # Null
        PROVE  /\ descriptors'[e].internalDescriptor \in held \cup {b}
               /\ midi'[descriptors'[e].internalDescriptor].device_id = e
    <3>1. CASE e = d
      BY <1>9, <2>2, <3>1
    <3>2. CASE e # d
      <4>1. descriptors'[e] = descriptors[e]
        BY <1>8, <3>2 DEF StreamsTypeOK
      <4>2. /\ descriptors[e].internalDescriptor \in held
            /\ midi[descriptors[e].internalDescriptor].device_id = e
        BY <1>3, <1>7, <2>3, <4>1 DEF Linked
      <4>3. /\ descriptors[e].internalDescriptor \in Ids
            /\ descriptors[e].internalDescriptor # b
        BY <1>3, <1>4, <4>2 DEF StreamsTypeOK
      <4> QED
        BY <1>9, <4>1, <4>2, <4>3
    <3> QED
      BY <3>1, <3>2
  <2>4. ASSUME NEW e \in 0..(pm_descriptor_index - 1),
               descriptors'[e].internalDescriptor = Null
        PROVE  ~descriptors'[e].opened
    <3>1. e # d
      BY <1>4, <2>2, <2>4, PmStreamsAssumption DEF Null
    <3>2. descriptors'[e] = descriptors[e]
      BY <1>8, <3>1 DEF StreamsTypeOK
    <3> QED
      BY <1>7, <2>4, <3>2 DEF Linked
  <2> QED
    BY <1>2, <1>5, <1>6, <1>7, <1>9, <2>1, <2>2, <2>3, <2>4 DEF Linked
<1>14. DevicesKeepTheirPlace'
  <2>1. /\ descriptors'[d].name = descriptors[d].name
        /\ descriptors'[d].input = descriptors[d].input
    BY <1>6, <1>8 DEF StreamsTypeOK, Descriptor
  <2>2. ASSUME NEW i \in 1..Len(added)
        PROVE  /\ descriptors'[i - 1].name = descriptors[i - 1].name
               /\ descriptors'[i - 1].input = descriptors[i - 1].input
    <3>1. i - 1 \in 0..(pm_descriptor_max - 1)
      BY DEF DevicesKeepTheirPlace, StreamsTypeOK
    <3> QED
      BY <1>8, <2>1, <3>1
  <2> QED
    BY <1>2, <1>8, <2>2 DEF DevicesKeepTheirPlace
<1> QED
  BY <1>10, <1>11, <1>12, <1>13, <1>14

(* A change of one device's opened and internalDescriptor alone moves no   *)
(* device.                                                                 *)
LEMMA EntryChanged ==
  ASSUME StreamsInv, NEW d \in 0..(pm_descriptor_index - 1),
         NEW o \in BOOLEAN, NEW b \in Ids \cup {Null},
         descriptors' = [descriptors EXCEPT ![d] =
             [@ EXCEPT !.opened = o, !.internalDescriptor = b]],
         UNCHANGED <<pm_descriptor_max, pm_descriptor_index, added>>
  PROVE  /\ descriptors' \in [0..(pm_descriptor_max - 1) -> Descriptor]
         /\ descriptors'[d].opened = o
         /\ descriptors'[d].internalDescriptor = b
         /\ \A e \in 0..(pm_descriptor_max - 1) : e # d => descriptors'[e] = descriptors[e]
         /\ DevicesKeepTheirPlace'
<1> USE DEF StreamsInv
<1>1. d \in 0..(pm_descriptor_max - 1)
  BY DEF StreamsTypeOK
<1> DEFINE new == [descriptors[d] EXCEPT !.opened = o, !.internalDescriptor = b]
<1>2. descriptors[d] \in Descriptor
  BY <1>1 DEF StreamsTypeOK
<1>3. /\ new \in Descriptor /\ new.opened = o /\ new.internalDescriptor = b
      /\ new.name = descriptors[d].name /\ new.input = descriptors[d].input
  BY <1>2 DEF Descriptor
<1>4. descriptors' = [descriptors EXCEPT ![d] = new]
  OBVIOUS
<1> HIDE DEF new
<1>5. /\ descriptors' \in [0..(pm_descriptor_max - 1) -> Descriptor]
      /\ descriptors'[d] = new
      /\ \A e \in 0..(pm_descriptor_max - 1) : e # d => descriptors'[e] = descriptors[e]
  BY <1>1, <1>3, <1>4 DEF StreamsTypeOK
<1>6. ASSUME NEW i \in 1..Len(added)
      PROVE  /\ descriptors'[i - 1].name = descriptors[i - 1].name
             /\ descriptors'[i - 1].input = descriptors[i - 1].input
  <2>1. i - 1 \in 0..(pm_descriptor_max - 1)
    BY DEF DevicesKeepTheirPlace, StreamsTypeOK
  <2> QED
    BY <1>3, <1>5, <2>1
<1>7. DevicesKeepTheirPlace'
  BY <1>5, <1>6 DEF DevicesKeepTheirPlace
<1> QED
  BY <1>3, <1>5, <1>7

(* The driver's answer makes the stream the client's, or takes it back.    *)
LEMMA DriverOpenedInv ==
  ASSUME StreamsInv, DriverOpened
  PROVE  StreamsInv'
<1> USE DEF StreamsInv
<1> DEFINE b == opening
           d == midi[opening].device_id
<1>1. /\ Opening = {b} /\ b \in Ids /\ b \notin held \cup lost /\ b # Null
      /\ Opening' = {} /\ pm_initialized /\ Owners = held \cup lost \cup {b}
  <2>1. Opening = {b} /\ Opening' = {} /\ pm_initialized
    BY DEF DriverOpened, Opening, Sessions
  <2> QED
    BY <2>1, PmStreamsAssumption DEF StreamsTypeOK, Memory, Owners, Null
<1>2. /\ client' = "idle"
      /\ UNCHANGED <<pm_initialized, pm_descriptor_max, pm_descriptor_index, midi,
                     lost, added, asked>>
  BY DEF DriverOpened
<1>3. /\ d \in 0..(pm_descriptor_index - 1) /\ d \in 0..(pm_descriptor_max - 1)
      /\ ~descriptors[d].opened /\ descriptors[d].internalDescriptor = b
  BY <1>1 DEF Linked, StreamsTypeOK
<1>4. descriptors[d] \in Descriptor
  BY <1>3 DEF StreamsTypeOK
<1>5. ASSUME NEW c \in held
      PROVE  /\ midi[c].device_id \in 0..(pm_descriptor_index - 1)
             /\ midi[c].device_id \in 0..(pm_descriptor_max - 1)
             /\ midi[c].device_id # d
             /\ descriptors[midi[c].device_id].opened
             /\ descriptors[midi[c].device_id].internalDescriptor = c
  BY <1>1, <1>3 DEF Linked, StreamsTypeOK
<1>6. Sessions'
  BY <1>1, <1>2 DEF Sessions
<1>7. CASE /\ descriptors' = [descriptors EXCEPT ![d].opened = TRUE]
           /\ held' = held \cup {b} /\ UNCHANGED blocks
  <2>1. descriptors' = [descriptors EXCEPT ![d] =
            [@ EXCEPT !.opened = TRUE, !.internalDescriptor = b]]
    <3>1. [descriptors[d] EXCEPT !.opened = TRUE, !.internalDescriptor = b]
            = [descriptors[d] EXCEPT !.opened = TRUE]
      BY <1>3, <1>4 DEF Descriptor
    <3> QED
      BY <1>7, <3>1
  <2>2. /\ descriptors' \in [0..(pm_descriptor_max - 1) -> Descriptor]
        /\ descriptors'[d].opened /\ descriptors'[d].internalDescriptor = b
        /\ \A e \in 0..(pm_descriptor_max - 1) : e # d => descriptors'[e] = descriptors[e]
        /\ DevicesKeepTheirPlace'
    <3>1. b \in Ids \cup {Null} /\ TRUE \in BOOLEAN
      BY <1>1
    <3> QED
      BY <1>2, <1>3, <2>1, <3>1, EntryChanged
  <2>3. StreamsTypeOK'
    BY <1>1, <1>2, <1>7, <2>2 DEF StreamsTypeOK
  <2>4. Memory'
    <3>1. Owners' = Owners
      BY <1>1, <1>2, <1>7 DEF Owners
    <3> QED
      BY <1>1, <1>2, <1>7, <3>1 DEF Memory, Allocated, Parts
  <2>5. Linked'
    <3>1. \A e \in 0..(pm_descriptor_index - 1) : e \in 0..(pm_descriptor_max - 1)
      BY DEF StreamsTypeOK
    <3>2. \A c \in held' : /\ midi[c].device_id \in 0..(pm_descriptor_index - 1)
                           /\ descriptors'[midi[c].device_id].opened
                           /\ descriptors'[midi[c].device_id].internalDescriptor = c
      BY <1>3, <1>5, <1>7, <2>2
    <3>3. \A e \in 0..(pm_descriptor_index - 1) :
            IF descriptors'[e].internalDescriptor = Null THEN ~descriptors'[e].opened
            ELSE /\ descriptors'[e].internalDescriptor \in held'
                 /\ midi[descriptors'[e].internalDescriptor].device_id = e
      BY <1>1, <1>7, <2>2, <3>1 DEF Linked
    <3> QED
      BY <1>1, <1>2, <3>2, <3>3 DEF Linked
  <2> QED
    BY <1>6, <2>2, <2>3, <2>4, <2>5
<1>8. CASE /\ descriptors' = [descriptors EXCEPT ![d].internalDescriptor = Null]
           /\ blocks' = blocks \ FreesOnFailure(b) /\ UNCHANGED held
  <2>1. descriptors' = [descriptors EXCEPT ![d] =
            [@ EXCEPT !.opened = FALSE, !.internalDescriptor = Null]]
    <3>1. descriptors[d].opened = FALSE
      BY <1>3, <1>4 DEF Descriptor
    <3>2. [descriptors[d] EXCEPT !.opened = FALSE, !.internalDescriptor = Null]
            = [descriptors[d] EXCEPT !.internalDescriptor = Null]
      BY <1>4, <3>1 DEF Descriptor
    <3> QED
      BY <1>8, <3>2
  <2>2. /\ descriptors' \in [0..(pm_descriptor_max - 1) -> Descriptor]
        /\ ~descriptors'[d].opened /\ descriptors'[d].internalDescriptor = Null
        /\ \A e \in 0..(pm_descriptor_max - 1) : e # d => descriptors'[e] = descriptors[e]
        /\ DevicesKeepTheirPlace'
    <3>1. Null \in Ids \cup {Null} /\ FALSE \in BOOLEAN
      OBVIOUS
    <3> QED
      BY <1>2, <1>3, <2>1, <3>1, EntryChanged
  <2>3. StreamsTypeOK'
    BY <1>1, <1>2, <1>8, <2>2 DEF StreamsTypeOK
  <2>4. Memory'
    <3>1. Owners' = Owners \ {b}
      BY <1>1, <1>2, <1>8 DEF Owners
    <3>2. blocks' = Allocated(Owners \ {b})
      BY <1>8, AllocatedLess DEF FreesOnFailure, Memory
    <3>3. Allocated(Owners \ {b}) = Allocated(Owners)'
      BY <1>2, <3>1 DEF Allocated, Parts
    <3> QED
      BY <1>1, <1>2, <1>8, <3>2, <3>3 DEF Memory
  <2>5. Linked'
    <3>1. \A e \in 0..(pm_descriptor_index - 1) : e \in 0..(pm_descriptor_max - 1)
      BY DEF StreamsTypeOK
    <3>2. \A c \in held : /\ midi[c].device_id \in 0..(pm_descriptor_index - 1)
                          /\ descriptors'[midi[c].device_id].opened
                          /\ descriptors'[midi[c].device_id].internalDescriptor = c
      BY <1>5, <2>2
    <3>3. \A e \in 0..(pm_descriptor_index - 1) :
            IF descriptors'[e].internalDescriptor = Null THEN ~descriptors'[e].opened
            ELSE /\ descriptors'[e].internalDescriptor \in held
                 /\ midi[descriptors'[e].internalDescriptor].device_id = e
      BY <1>1, <2>2, <3>1 DEF Linked
    <3> QED
      BY <1>1, <1>2, <1>8, <3>2, <3>3 DEF Linked
  <2> QED
    BY <1>6, <2>2, <2>3, <2>4, <2>5
<1> QED
  BY <1>7, <1>8 DEF DriverOpened

(* A close frees the stream or, after Pm_Terminate, loses it.              *)
LEMMA CloseInv ==
  ASSUME StreamsInv, NEW b \in Ids, Pm_Close(b)
  PROVE  StreamsInv'
<1> USE DEF StreamsInv
<1> DEFINE d == midi[b].device_id
<1>1. /\ Opening = {} /\ Opening' = {} /\ b \in held /\ b # Null
      /\ Owners = held \cup lost /\ held' = held \ {b} /\ b \notin lost
  BY PmStreamsAssumption DEF Pm_Close, Opening, Owners, Memory, Null
<1>2. /\ client = "idle"
      /\ UNCHANGED <<client, pm_initialized, pm_descriptor_max, pm_descriptor_index,
                     midi, added, asked>>
  BY DEF Pm_Close
<1>3. Sessions'
  BY <1>1, <1>2 DEF Sessions
<1>4. CASE /\ ~(d < pm_descriptor_index /\ descriptors[d].opened)
           /\ lost' = lost \cup {b} /\ UNCHANGED <<descriptors, blocks>>
  <2>1. ~pm_initialized
    <3>1. pm_initialized => /\ d \in 0..(pm_descriptor_index - 1)
                            /\ descriptors[d].opened
      BY <1>1 DEF Linked
    <3>2. pm_initialized => d < pm_descriptor_index
      BY <3>1 DEF StreamsTypeOK
    <3> QED
      BY <1>4, <3>1, <3>2
  <2>2. Owners' = Owners
    BY <1>1, <1>4 DEF Owners
  <2>3. StreamsTypeOK'
    BY <1>1, <1>2, <1>4 DEF StreamsTypeOK
  <2>4. Memory'
    BY <1>1, <1>2, <1>4, <2>2 DEF Memory, Allocated, Parts
  <2>5. Linked' /\ DevicesKeepTheirPlace'
    BY <1>2, <1>4, <2>1 DEF Linked, DevicesKeepTheirPlace
  <2> QED
    BY <1>3, <2>3, <2>4, <2>5
<1>5. CASE /\ d < pm_descriptor_index /\ descriptors[d].opened
           /\ descriptors' = [descriptors EXCEPT
                  ![d].internalDescriptor = Null, ![d].opened = FALSE]
           /\ blocks' = blocks \ Parts(b) /\ UNCHANGED lost
  <2>1. /\ pm_initialized /\ d \in Nat
        /\ d \in 0..(pm_descriptor_index - 1) /\ d \in 0..(pm_descriptor_max - 1)
    <3>1. d \in Nat
      BY DEF StreamsTypeOK
    <3> QED
      BY <1>2, <1>5, <3>1 DEF StreamsTypeOK, Sessions
  <2>2. descriptors[d].internalDescriptor = b /\ descriptors[d] \in Descriptor
    BY <1>1, <2>1 DEF Linked, StreamsTypeOK
  <2>3. descriptors' = [descriptors EXCEPT ![d] =
            [@ EXCEPT !.opened = FALSE, !.internalDescriptor = Null]]
    <3>1. descriptors' = [descriptors EXCEPT ![d] =
              [[descriptors[d] EXCEPT !.internalDescriptor = Null] EXCEPT !.opened = FALSE]]
      BY <1>5, <2>1 DEF StreamsTypeOK
    <3>2. [descriptors[d] EXCEPT !.opened = FALSE, !.internalDescriptor = Null]
            = [[descriptors[d] EXCEPT !.internalDescriptor = Null] EXCEPT !.opened = FALSE]
      BY <2>2 DEF Descriptor
    <3> QED
      BY <3>1, <3>2
  <2>4. /\ descriptors' \in [0..(pm_descriptor_max - 1) -> Descriptor]
        /\ ~descriptors'[d].opened /\ descriptors'[d].internalDescriptor = Null
        /\ \A e \in 0..(pm_descriptor_max - 1) : e # d => descriptors'[e] = descriptors[e]
        /\ DevicesKeepTheirPlace'
    <3>1. Null \in Ids \cup {Null} /\ FALSE \in BOOLEAN
      OBVIOUS
    <3> QED
      BY <1>2, <2>1, <2>3, <3>1, EntryChanged
  <2>5. StreamsTypeOK'
    BY <1>1, <1>2, <1>5, <2>4 DEF StreamsTypeOK
  <2>6. Memory'
    <3>1. Owners' = Owners \ {b}
      BY <1>1, <1>5 DEF Owners
    <3>2. blocks' = Allocated(Owners \ {b})
      BY <1>5, AllocatedLess DEF Memory
    <3>3. Allocated(Owners \ {b}) = Allocated(Owners)'
      BY <1>2, <3>1 DEF Allocated, Parts
    <3> QED
      BY <1>1, <1>5, <3>2, <3>3 DEF Memory
  <2>7. Linked'
    <3>1. \A e \in 0..(pm_descriptor_index - 1) : e \in 0..(pm_descriptor_max - 1)
      BY DEF StreamsTypeOK
    <3>2. ASSUME NEW c \in held'
          PROVE  /\ midi[c].device_id \in 0..(pm_descriptor_index - 1)
                 /\ descriptors'[midi[c].device_id].opened
                 /\ descriptors'[midi[c].device_id].internalDescriptor = c
      <4>1. /\ c # b /\ c \in held
            /\ midi[c].device_id \in 0..(pm_descriptor_index - 1)
            /\ descriptors[midi[c].device_id].opened
            /\ descriptors[midi[c].device_id].internalDescriptor = c
        BY <1>1, <2>1 DEF Linked
      <4>2. midi[c].device_id # d
        BY <2>2, <4>1
      <4> QED
        BY <2>4, <3>1, <4>1, <4>2
    <3>3. \A e \in 0..(pm_descriptor_index - 1) :
            IF descriptors'[e].internalDescriptor = Null THEN ~descriptors'[e].opened
            ELSE /\ descriptors'[e].internalDescriptor \in held'
                 /\ midi[descriptors'[e].internalDescriptor].device_id = e
      BY <1>1, <2>1, <2>4, <3>1 DEF Linked
    <3> QED
      BY <1>1, <1>2, <3>2, <3>3 DEF Linked
  <2> QED
    BY <1>3, <2>4, <2>5, <2>6, <2>7
<1> QED
  BY <1>4, <1>5 DEF Pm_Close

-----------------------------------------------------------------------------
(* The streams' own steps keep their invariant, *)
LEMMA StreamsStepInv ==
  ASSUME StreamsInv, Streams
  PROVE  StreamsInv'
<1>1. \A d \in 0..(Len(Found) - 1) : d \in Nat
  OBVIOUS
<1>2. ASSUME NEW d \in 0..(Len(Found) - 1), Pm_OpenInput(d)
      PROVE  StreamsInv'
  BY <1>1, <1>2, OpensInv DEF Pm_OpenInput
<1>3. ASSUME NEW d \in 0..(Len(Found) - 1), Pm_OpenOutput(d)
      PROVE  StreamsInv'
  BY <1>1, <1>3, OpensInv DEF Pm_OpenOutput
<1> QED
  BY <1>2, <1>3, InitializeInv, AddDeviceInv, InitializedInv, TerminateInv,
     DriverOpenedInv, CloseInv DEF Streams

(* and of the timer they touch the clock, which Pm_OpenOutput may start.   *)
LEMMA StreamsLeaveTimer ==
  ASSUME TimerInv, Streams
  PROVE  TimerInv'
<1> USE DEF Pm_Initialize, pm_add_device, Initialized, Pm_Terminate, DriverOpened,
            Pm_OpenInput, Pm_OpenOutput, Opens, Pm_Close
<1>1. StartClock \/ UNCHANGED timerVars
  BY DEF Streams
<1>2. client # "joining" /\ client' # "joining"
  BY DEF Streams
<1> HIDE DEF Pm_Initialize, pm_add_device, Initialized, Pm_Terminate, DriverOpened,
            Pm_OpenInput, Pm_OpenOutput, Opens, Pm_Close
<1> QED
  BY <1>1, <1>2, StartClockInv

(* The timer moves the client only from and to its waiting for a thread. *)
LEMMA TimerLeavesClient ==
  ASSUME TimerNext
  PROVE  \/ UNCHANGED client
         \/ client \in {"idle", "joining"} /\ client' \in {"idle", "joining"}
BY DEF TimerNext, Pt_Start, Pt_Stop, StopLinux, StopCf, StopWinmm, Joined, Ticks

(* The invariants of the streams and of the timer, together. *)
LEMMA InvHolds == Spec => []Inv
<1>1. Init => Inv
  BY TimerInitInv, StreamsInitInv DEF Init, Inv
<1>2. Inv /\ [Next]_vars => Inv'
  <2> SUFFICES ASSUME Inv, [Next]_vars PROVE Inv'
    OBVIOUS
  <2>1. CASE Timer
    <3>1. TimerInv'
      BY <2>1, TimerNextInv DEF Timer, Inv
    <3>2. StreamsInv'
      BY <2>1, TimerLeavesClient, TimerSteps DEF Timer, Inv
    <3> QED
      BY <3>1, <3>2 DEF Inv
  <2>2. CASE Streams
    BY <2>2, StreamsStepInv, StreamsLeaveTimer DEF Inv
  <2>3. CASE UNCHANGED vars
    <3>1. TimerInv'
      BY <2>3 DEF vars, timerVars, Inv, TimerInv, TimerTypeOK, InSequence, OneThread,
                  Created, Gone, Joins, MustJoin
    <3>2. StreamsInv'
      BY <2>3, TimerSteps DEF vars, Inv
    <3> QED
      BY <3>1, <3>2 DEF Inv
  <2> QED
    BY <2>1, <2>2, <2>3 DEF Next
<1> QED
  BY <1>1, <1>2, PTL DEF Spec

-----------------------------------------------------------------------------
(* pm_add_device (portmidi.c:93): through every growth of descriptors,     *)
(* refusal of memory and session, each device added is at its number, and  *)
(* the array is as long as pm_descriptor_max says.                         *)
THEOREM DevicesStay == Spec => []DevicesKeepTheirPlace
<1>1. Inv => DevicesKeepTheirPlace
  BY DEF Inv, StreamsInv
<1> QED
  BY <1>1, InvHolds, PTL

(* Pm_OpenInput, Pm_OpenOutput and Pm_Close: between two calls, an opened  *)
(* device belongs to exactly one stream of the client's, whatever the      *)
(* driver answered; a closed one belongs to none.                          *)
THEOREM OneStreamEach == Spec => []OpenedHasOneStream
<1>1. Inv => OpenedHasOneStream
  <2> SUFFICES ASSUME StreamsInv, pm_initialized, client # "opening",
                      NEW d \in 0..(pm_descriptor_index - 1)
               PROVE  LET on == {b \in held : midi[b].device_id = d}
                      IN  IF descriptors[d].opened
                          THEN on = {descriptors[d].internalDescriptor}
                          ELSE on = {} /\ descriptors[d].internalDescriptor = Null
    BY DEF Inv, OpenedHasOneStream
  <2>1. Opening = {}
    BY DEF Opening
  <2>2. \A b \in held : midi[b].device_id = d =>
          descriptors[d].opened /\ descriptors[d].internalDescriptor = b
    BY DEF StreamsInv, Linked
  <2> QED
    BY <2>1, <2>2 DEF StreamsInv, Linked
<1> QED
  BY <1>1, InvHolds, PTL

(* No open, close or failure of one leaves memory behind: what is          *)
(* allocated is what the client's streams need, and what was lost by a     *)
(* close after Pm_Terminate.                                               *)
THEOREM NothingLeft == Spec => []NothingIsLeftBehind
<1>1. Inv => NothingIsLeftBehind
  BY DEF Inv, StreamsInv, Memory, Owners, Opening, NothingIsLeftBehind
<1> QED
  BY <1>1, InvHolds, PTL

(* Pt_Stop (porttime.h:64): on linux and mach no callback of the client    *)
(* runs between Pt_Stop and the next Pt_Start, never two at a time, also   *)
(* if portmidi has started the clock meanwhile.                            *)
THEOREM CallsStop == Spec => []NoCallAfterStop
<1>1. Inv => NoCallAfterStop
  BY TimerInvStops DEF Inv
<1> QED
  BY <1>1, InvHolds, PTL
=============================================================================
