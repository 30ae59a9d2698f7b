-------------------------- MODULE MountSessionProofs --------------------------
(***************************************************************************)
(* What MountSession promises, for every partition table, device size and  *)
(* width of the integers, and any number of dispatcher threads.            *)
(***************************************************************************)
EXTENDS MountSession, TLAPS

\* What the C ABI holds in each phase of the main thread.
PhaseInv ==
    /\ phase \in {"start", "done"} => fs = "null" /\ ~boxed /\ serving = 0
    /\ phase = "mounting" => fs = "mounting" /\ serving = 0
    /\ phase \in {"mounted", "created", "attached"} => fs = "live" /\ serving = 0
    /\ phase \in {"started", "waiting", "stopping"} => fs = "live"
    /\ phase \in {"dropping", "reclaiming"} => fs = "closing" /\ serving = 0
    /\ serving > 0 => fs = "live"
    /\ part # 0 /\ fs # "null" => boxed

\* A slice, once made, is that of the partition and fits the device.
SliceInv ==
    /\ boxed => slice # Nil
    /\ slice # Nil => /\ part \in 1..Len(table)
                      /\ slice.base = Bytes(Entry(part).start)
                      /\ slice.len = Bytes(Entry(part).num)
                      /\ FitsDevice(slice.base, slice.len)
    /\ phase = "start" => access = Nil
    /\ access # Nil => slice # Nil
    /\ AccessInSlice

IInv == TypeOK /\ PhaseInv /\ SliceInv

-----------------------------------------------------------------------------

\* A product taken modulo 2^64 is a u64, and is the product itself when that
\* is one.
LEMMA Remainder ==
    ASSUME NEW a \in Nat, NEW m \in Nat, m > 0
    PROVE  a % m \in 0 .. (m - 1) /\ (a < m => a % m = a)
OBVIOUS

\* A wrapping product of open_partition is a u64.
LEMMA BytesType == ASSUME NEW n \in Nat PROVE Bytes(n) \in U64
<1>1. n * Sector \in Nat /\ Modulus \in Nat /\ Modulus > 0
  BY SectorAssumption, ModulusAssumption
<1> QED
  BY <1>1, Remainder DEF Bytes, U64

\* A product of open_partition that does not overflow is exact.
LEMMA BytesExact ==
    ASSUME NEW n \in Nat, n * Sector < Modulus PROVE Bytes(n) = n * Sector
<1>1. n * Sector \in Nat /\ Modulus \in Nat /\ Modulus > 0
  BY SectorAssumption, ModulusAssumption
<1> QED
  BY <1>1, Remainder DEF Bytes

\* The entry open_partition picks has u64 fields.
LEMMA EntryType ==
    ASSUME TypeOK, part \in 1..Len(table)
    PROVE  Entry(part) \in Entries
<1>1. table \in Seq(Entries)
  BY TablesAssumption DEF TypeOK
<1> QED
  BY <1>1 DEF Entry

\* Before the mount is opened there is nothing to reclaim or to bound.
LEMMA InitInv == Init => IInv
<1> SUFFICES ASSUME Init PROVE IInv
  OBVIOUS
<1>1. TypeOK
  <2>1. phase \in Phases
    BY DEF Init, Phases
  <2>2. serving \in 0..MaxRequests
    BY BoundsAssumption DEF Init
  <2> QED
    BY <2>1, <2>2 DEF Init, TypeOK
<1>2. PhaseInv
  BY DEF Init, PhaseInv
<1>3. SliceInv
  BY DEF Init, SliceInv, AccessInSlice
<1> QED
  BY <1>1, <1>2, <1>3 DEF IInv

\* Opening a partition makes a slice that fits; nothing has been touched yet.
LEMMA OpenPartitionInv == IInv /\ OpenPartition => IInv'
<1> SUFFICES ASSUME IInv, OpenPartition PROVE IInv'
  OBVIOUS
<1> DEFINE base == Bytes(Entry(part).start)
           len == Bytes(Entry(part).num)
<1>1. base \in U64 /\ len \in U64
  BY EntryType, BytesType DEF IInv, OpenPartition, Entries, U64
<1>2. /\ slice' = [base |-> base, len |-> len] /\ boxed'
      /\ FitsDevice(base, len) /\ part \in 1..Len(table)
      /\ phase' = "mounting" /\ fs' = "mounting"
      /\ phase = "start" /\ UNCHANGED <<given, access, running>>
  BY DEF OpenPartition
<1> HIDE DEF base, len
<1>3. slice' \in Slices /\ slice'.base = base /\ slice'.len = len
  BY <1>1, <1>2 DEF Slices
<1>4. TypeOK'
  BY <1>2, <1>3 DEF IInv, TypeOK, given, running, Phases
<1>5. PhaseInv'
  BY <1>2 DEF IInv, PhaseInv, given, running
<1>6. SliceInv'
  <2>1. access = Nil
    BY <1>2 DEF IInv, SliceInv
  <2> QED
    BY <1>2, <1>3, <2>1, NilAssumption
       DEF SliceInv, AccessInSlice, given, FitsDevice, CheckedAdd, base, len, Bytes, Entry
<1> QED
  BY <1>4, <1>5, <1>6 DEF IInv

\* A callback touches bytes of the slice only, and its sum does not wrap.
LEMMA CallbackInv ==
    ASSUME IInv, NEW offset \in U64, NEW length \in U64, Callback(offset, length)
    PROVE  IInv'
<1>1. boxed /\ slice \in Slices /\ slice # Nil
  BY DEF IInv, PhaseInv, SliceInv, Callback, TypeOK
<1>2. /\ slice.base \in Nat /\ slice.len \in Nat /\ offset \in Nat /\ length \in Nat
      /\ Modulus \in Nat /\ size \in Nat
  BY <1>1, ModulusAssumption, SizesAssumption DEF Slices, U64, IInv, TypeOK
<1>3. /\ slice.base + slice.len < Modulus /\ slice.base + slice.len <= size
      /\ offset + length <= slice.len
  BY <1>1 DEF IInv, SliceInv, FitsDevice, CheckedAdd, Callback, Accepts
<1>4. /\ Plus(slice.base, offset) = slice.base + offset
      /\ slice.base + offset < Modulus
  BY <1>2, <1>3 DEF Plus
<1>5. /\ access' = [lo |-> slice.base + offset, hi |-> slice.base + offset + length]
      /\ UNCHANGED <<given, phase, fs, slice, boxed, running>>
  BY <1>4 DEF Callback
<1>6. access' \in Ranges
  BY <1>2, <1>4, <1>5 DEF Ranges, U64
<1>7. TypeOK'
  BY <1>5, <1>6 DEF IInv, TypeOK, given, running
<1>8. PhaseInv'
  BY <1>5 DEF IInv, PhaseInv, given, running
<1>9. SliceInv'
  <2>1. AccessInSlice'
    BY <1>2, <1>3, <1>5 DEF AccessInSlice, given
  <2>2. phase # "start"
    BY DEF Callback, IInv, PhaseInv
  <2> QED
    BY <1>1, <1>5, <2>1, <2>2 DEF IInv, SliceInv, given, FitsDevice, CheckedAdd, Bytes, Entry
<1> QED
  BY <1>7, <1>8, <1>9 DEF IInv

\* The other steps leave the slice and the last access as they are.
LEMMA QuietInv ==
    ASSUME SliceInv, UNCHANGED <<given, slice, access>>, boxed' => boxed,
           phase' = "start" => phase = "start"
    PROVE  SliceInv'
BY DEF SliceInv, AccessInSlice, given, FitsDevice, CheckedAdd, Bytes, Entry

\* Every step of main thread, host and C ABI keeps the invariant.
LEMMA StepInv == IInv /\ [Next]_vars => IInv'
<1> SUFFICES ASSUME IInv, [Next]_vars PROVE IInv'
  OBVIOUS
<1>1. CASE OpenDirect
  BY <1>1, QuietInv DEF OpenDirect, IInv, TypeOK, PhaseInv, Phases, given, running
<1>2. CASE OpenPartition
  BY <1>2, OpenPartitionInv
<1>3. CASE OpenRefused
  BY <1>3, QuietInv DEF OpenRefused, IInv, TypeOK, PhaseInv, Phases, given, running
<1>4. CASE MountSucceeds
  BY <1>4, QuietInv DEF MountSucceeds, IInv, TypeOK, PhaseInv, Phases, given, running
<1>5. CASE MountFails
  BY <1>5, QuietInv
     DEF MountFails, Reclaimed, IInv, TypeOK, PhaseInv, Phases, given, running
<1>6. CASE CreateHost \/ AttachHost \/ StartHost
  BY <1>6, QuietInv DEF CreateHost, AttachHost, StartHost, MainStep, IInv, TypeOK,
                        PhaseInv, Phases, given, running
<1>7. CASE PrintReady \/ SetHandler \/ Wake
  <2>1. /\ UNCHANGED <<given, fs, slice, boxed, access, serving>>
        /\ phase \in {"started", "waiting"}
        /\ phase' \in {"started", "waiting", "stopping"}
    BY <1>7 DEF PrintReady, SetHandler, Wake, MainStep, running
  <2>2. handler' \in BOOLEAN /\ pressed' \in BOOLEAN /\ woken' \in BOOLEAN
        /\ ready' \in BOOLEAN
    BY <1>7 DEF PrintReady, SetHandler, Wake, running, IInv, TypeOK
  <2>3. SliceInv'
    BY <2>1, QuietInv DEF IInv
  <2>4. PhaseInv'
    BY <2>1 DEF IInv, PhaseInv, given
  <2>5. TypeOK'
    BY <2>1, <2>2 DEF IInv, TypeOK, Phases, given
  <2> QED
    BY <2>3, <2>4, <2>5 DEF IInv
<1>8. CASE StopHost
  BY <1>8, QuietInv DEF StopHost, HandlersGone, IInv, TypeOK, PhaseInv, Phases,
                        given, running
<1>9. CASE RunFails
  BY <1>9, QuietInv DEF RunFails, IInv, TypeOK, PhaseInv, Phases, given, running
<1>10. CASE BeginUmount
  BY <1>10, QuietInv DEF BeginUmount, KeepContext, IInv, TypeOK, PhaseInv, Phases,
                         given, running
<1>11. CASE EndDrop
  BY <1>11, QuietInv DEF EndDrop, IInv, TypeOK, PhaseInv, Phases, given, running
<1>12. CASE CtrlC
  BY <1>12, QuietInv DEF CtrlC, Sent, IInv, TypeOK, PhaseInv, Phases, given
<1>13. CASE BeginRequest
  <2>1. serving \in Nat /\ serving < MaxRequests /\ MaxRequests \in Nat
        /\ serving' = serving + 1
    BY <1>13, BoundsAssumption DEF BeginRequest, IInv, TypeOK
  <2>2. serving' \in 0..MaxRequests
    BY <2>1
  <2> QED
    BY <1>13, <2>2, QuietInv DEF BeginRequest, IInv, TypeOK, PhaseInv, given
<1>14. CASE EndRequest
  <2>1. serving' \in 0..MaxRequests
    BY <1>14, BoundsAssumption DEF EndRequest, IInv, TypeOK
  <2>2. serving \in Nat /\ serving > 0
    BY <1>14, BoundsAssumption DEF EndRequest, IInv, TypeOK
  <2> QED
    BY <1>14, <2>1, <2>2, QuietInv DEF EndRequest, IInv, TypeOK, PhaseInv, given
<1>15. ASSUME NEW offset \in U64, NEW length \in U64, Callback(offset, length)
       PROVE  IInv'
  BY <1>15, CallbackInv
<1>16. CASE UNCHANGED vars
  BY <1>16, QuietInv DEF vars, IInv, TypeOK, PhaseInv, given
<1> QED
  BY <1>1, <1>2, <1>3, <1>4, <1>5, <1>6, <1>7, <1>8, <1>9, <1>10, <1>11, <1>12,
     <1>13, <1>14, <1>15, <1>16 DEF Next, Main

\* The inductive invariant holds of every session.
LEMMA Invariant == Spec => []IInv
BY InitInv, StepInv, PTL DEF Spec

-----------------------------------------------------------------------------

\* The main thread, the C ABI and the callback context are always in states
\* their types allow.
THEOREM TypeCorrect == Spec => []TypeOK
<1>1. IInv => TypeOK
  BY DEF IInv
<1> QED
  BY <1>1, Invariant, PTL

\* For every device, partition table and request of the C ABI, the callbacks
\* touch bytes of the slice and of the device only.
THEOREM SliceBounds == Spec => []AccessInSlice
<1>1. IInv => AccessInSlice
  BY DEF IInv, SliceInv
<1> QED
  BY <1>1, Invariant, PTL

\* ... and bytes of the partition only, if its true extent is on the device:
\* the products that may wrap do not wrap then.
THEOREM PartitionBounds == Spec => []AccessInPartition
<1>1. ASSUME IInv, access # Nil, TrueEnd <= size
      PROVE  TrueStart <= access.lo /\ access.hi <= TrueEnd
  <2> DEFINE start == table[part].start
             num == table[part].num
  <2>1. /\ slice # Nil /\ slice.base = Bytes(start) /\ slice.len = Bytes(num)
        /\ slice.base <= access.lo /\ access.hi <= slice.base + slice.len
    BY <1>1 DEF IInv, SliceInv, AccessInSlice, Entry
  <2>2. start \in U64 /\ num \in U64
    BY <1>1, <2>1, EntryType DEF IInv, SliceInv, Entries, Entry
  <2>3. start \in Nat /\ num \in Nat /\ Sector \in Nat /\ Modulus \in Nat
        /\ size \in Nat /\ size < Modulus
    BY <1>1, <2>2, SectorAssumption, ModulusAssumption, SizesAssumption
       DEF U64, IInv, TypeOK
  <2>4. TrueStart = start * Sector /\ TrueEnd = start * Sector + num * Sector
    BY DEF TrueStart, TrueEnd
  <2> HIDE DEF start, num
  <2>5. start * Sector \in Nat /\ num * Sector \in Nat
    BY <2>3
  <2>6. start * Sector < Modulus /\ num * Sector < Modulus
    BY <1>1, <2>3, <2>4, <2>5
  <2>7. Bytes(start) = start * Sector /\ Bytes(num) = num * Sector
    BY <2>3, <2>6, BytesExact
  <2> QED
    BY <2>1, <2>4, <2>7
<1>2. IInv => AccessInPartition
  BY <1>1 DEF AccessInPartition
<1> QED
  BY <1>2, Invariant, PTL

\* The callback context is there for every callback, the last ones of the
\* unmount and those of a failing mount included.
THEOREM ContextLives == Spec => []ContextOutlivesCallbacks
<1>1. IInv => ContextOutlivesCallbacks
  BY DEF IInv, PhaseInv, ContextOutlivesCallbacks
<1> QED
  BY <1>1, Invariant, PTL

\* Every way out of the session but being killed unmounts and reclaims.
THEOREM NothingIsLeft == Spec => []NothingLeft
<1>1. IInv => NothingLeft
  BY DEF IInv, PhaseInv, NothingLeft
<1> QED
  BY <1>1, Invariant, PTL

\* The filesystem is live for as long as a handler is inside it.
THEOREM HandlersSafe == Spec => []HandlersHaveFilesystem
<1>1. IInv => HandlersHaveFilesystem
  BY DEF IInv, PhaseInv, HandlersHaveFilesystem
<1> QED
  BY <1>1, Invariant, PTL

-----------------------------------------------------------------------------
(* The way from Ctrl-C to the unmount: the safety half of CtrlCUnmounts.   *)

\* A Ctrl-C that has reached its handler finds run before or after its recv, never
\* where it would not be noticed, and what the next step of the main thread
\* waits for has come, but for the handlers.
OnItsWay ==
    /\ handler => phase \in {"waiting", "stopping", "dropping", "reclaiming", "done"}
    /\ pressed => handler
    /\ pressed => woken
    /\ phase = "dropping" => fs = "closing"

\* The steps of the main thread up to the end of run.
StagesLeft ==
    CASE phase = "waiting" -> 4
      [] phase = "stopping" -> 3
      [] phase = "dropping" -> 2
      [] phase = "reclaiming" -> 1
      [] OTHER -> 0

\* After it, every step of the main thread leaves one less to be done, nothing
\* else moves it, a second Ctrl-C included, and no request comes in once the host
\* is being stopped.
Approaches ==
    pressed =>
        /\ Main => StagesLeft' = StagesLeft - 1
        /\ ~Main => phase' = phase
        /\ phase = "stopping" => serving' <= serving

LEMMA OnItsWayStep == IInv /\ OnItsWay /\ [Next]_vars => OnItsWay'
<1> SUFFICES ASSUME IInv, OnItsWay, [Next]_vars PROVE OnItsWay'
  OBVIOUS
<1>1. CASE OpenDirect \/ OpenPartition \/ OpenRefused \/ MountSucceeds \/ MountFails
  BY <1>1 DEF OpenDirect, OpenPartition, OpenRefused, MountSucceeds, MountFails, OnItsWay, running
<1>2. CASE CreateHost \/ AttachHost \/ StartHost \/ Wake
  BY <1>2 DEF CreateHost, AttachHost, StartHost, Wake, MainStep, OnItsWay, running
<1>3. CASE PrintReady \/ SetHandler
  BY <1>3 DEF PrintReady, SetHandler, MainStep, OnItsWay
<1>4. CASE StopHost \/ RunFails \/ BeginUmount \/ EndDrop
  BY <1>4 DEF StopHost, RunFails, BeginUmount, EndDrop, OnItsWay, running
<1>5. CASE CtrlC
  BY <1>5 DEF CtrlC, Sent, OnItsWay
<1>6. CASE BeginRequest \/ EndRequest
  BY <1>6 DEF BeginRequest, EndRequest, OnItsWay
<1>7. CASE \E offset, length \in U64 : Callback(offset, length)
  BY <1>7 DEF Callback, OnItsWay, running
<1>8. CASE UNCHANGED vars
  BY <1>8 DEF vars, OnItsWay
<1> QED
  BY <1>1, <1>2, <1>3, <1>4, <1>5, <1>6, <1>7, <1>8 DEF Next, Main

LEMMA ApproachesStep == IInv /\ OnItsWay /\ [Next]_vars => [Approaches]_vars
<1> SUFFICES ASSUME IInv, OnItsWay, Next, pressed PROVE Approaches
  BY DEF Approaches
<1>1. phase \in {"waiting", "stopping", "dropping", "reclaiming", "done"} /\ handler
  BY DEF OnItsWay
<1>2. serving \in Nat
  BY BoundsAssumption DEF IInv, TypeOK
<1>3. Main => StagesLeft' = StagesLeft - 1
  <2>1. ASSUME Main
        PROVE  \/ phase = "waiting" /\ phase' = "stopping"
               \/ phase = "stopping" /\ phase' = "dropping"
               \/ phase = "dropping" /\ phase' = "reclaiming"
               \/ phase = "reclaiming" /\ phase' = "done"
    BY <1>1, <2>1
       DEF Main, OpenDirect, OpenPartition, OpenRefused, MountSucceeds, MountFails, CreateHost,
           AttachHost, StartHost, Wake, PrintReady, SetHandler, MainStep, StopHost, RunFails,
           BeginUmount, EndDrop
  <2> QED
    BY <2>1 DEF StagesLeft
<1>4. ~Main => phase' = phase
  BY <1>1 DEF Next, CtrlC, BeginRequest, EndRequest, Callback
<1>5. phase = "stopping" => serving' <= serving
  <2>1. ASSUME phase = "stopping" PROVE serving' = serving \/ serving' = serving - 1
    <3>1. CASE Main
      BY <2>1, <3>1
         DEF Main, OpenDirect, OpenPartition, OpenRefused, MountSucceeds, MountFails, CreateHost,
             AttachHost, StartHost, Wake, PrintReady, SetHandler, MainStep, StopHost, RunFails,
             BeginUmount, EndDrop, running
    <3>2. CASE ~Main
      BY <2>1, <3>2 DEF Next, CtrlC, BeginRequest, EndRequest, Callback, running
    <3> QED
      BY <3>1, <3>2
  <2> QED
    BY <1>2, <2>1
<1> QED
  BY <1>3, <1>4, <1>5 DEF Approaches

\* "Blocks until the user presses Ctrl-C, then unmounts": from a Ctrl-C on, the
\* session only goes towards its end, with four steps of the main thread to go at
\* most, and only the handlers that are still inside keep it waiting.
THEOREM PressedIsHeard == Spec => []OnItsWay /\ [][Approaches]_vars
<1>1. Init => OnItsWay
  BY DEF Init, OnItsWay
<1> QED
  BY <1>1, InitInv, StepInv, OnItsWayStep, ApproachesStep, PTL DEF Spec
=============================================================================
