-------------------------- MODULE ConnectionProofs --------------------------
(***************************************************************************)
(* For any number of connections, slots and failed starts: bodies are      *)
(* never parsed as requests, no slot is lost, and the workers exceed the   *)
(* ceiling by the failed starts at most.                                   *)
(***************************************************************************)
EXTENDS Connections, FiniteSetTheorems, TLAPS

Places == {"off", "accepted", "unstarted", "parse", "handle", "answer", "shut"}

\* The types.
LEMMA TypeInit == Init => ConnectionTypeOK
BY ConnectionConstants DEF Init, ConnectionTypeOK, Request, NoRequest, Methods, Framings

LEMMA TypeStep == ConnectionTypeOK /\ [Next]_vars => ConnectionTypeOK'
<1> SUFFICES ASSUME ConnectionTypeOK, [Next]_vars PROVE ConnectionTypeOK'
  OBVIOUS
<1> USE ConnectionConstants DEF ConnectionTypeOK
<1>1. ASSUME NEW c \in Conns, Worker(c) PROVE ConnectionTypeOK'
  <2>0. NoRequest \in Request
    BY DEF NoRequest, Request, Methods, Framings
  <2>1. CASE HangUp(c)
    BY <2>0, <2>1 DEF HangUp, Quit, FreshHandler, Goto
  <2>2. CASE ReadBody(c)
    BY <2>2 DEF ReadBody, Goto
  <2>3. CASE NoBodyWanted(c)
    BY <2>3 DEF NoBodyWanted, Goto, handler
  <2>4. CASE Send(c)
    BY <2>0, <2>4, ZenonT(30) DEF Send, Quit, FreshHandler, Goto
  <2>5. CASE StoreUnavailable(c)
    BY <2>0, <2>5 DEF StoreUnavailable, Quit, FreshHandler, Goto
  <2>6. CASE Shutdown(c)
    BY <2>6 DEF Shutdown, ReleaseSlot, Release, Releasable, Goto, handler
  <2>7. ASSUME NEW r \in Request, Parse(c, r) PROVE ConnectionTypeOK'
    <3>1. CASE Framed(r) /\ r.method # "other"
      <4>1. (Bodyless(r) /\ Declared(r)) \in BOOLEAN
        BY DEF Bodyless, Declared
      <4>2. closing' \in [Conns -> BOOLEAN]
        BY <2>7, <3>1, <4>1, Zenon DEF Parse
      <4>3. unread' \in [Conns -> BOOLEAN] /\ consumed' \in [Conns -> BOOLEAN]
        BY <2>7, <3>1 DEF Parse, FlagReset, Declared
      <4> QED
        BY <2>7, <3>1, <4>2, <4>3 DEF Parse, Goto
    <3>2. CASE ~(Framed(r) /\ r.method # "other")
      <4>1. Quit(c) /\ UNCHANGED <<slots, unstarted>>
        BY <2>7, <3>2 DEF Parse
      <4> QED
        BY <2>0, <4>1 DEF Quit, FreshHandler, Goto
    <3> QED
      BY <3>1, <3>2
  <2> QED
    BY <1>1, <2>1, <2>2, <2>3, <2>4, <2>5, <2>6, <2>7 DEF Worker
<1>2. ASSUME NEW c \in Conns, Server(c) PROVE ConnectionTypeOK'
  <2>0. NoRequest \in Request
    BY DEF NoRequest, Request, Methods, Framings
  <2>1. CASE Accept(c)
    BY <2>1 DEF Accept, Goto, handler
  <2>2. CASE ThreadStarts(c)
    BY <2>2 DEF ThreadStarts, Goto, handler
  <2>3. CASE StartFails(c)
    BY <2>3 DEF StartFails, Release, Releasable, Goto, handler
  <2>4. CASE ShutUnstarted(c)
    BY <2>4 DEF ShutUnstarted, Release, Releasable, Goto, handler
  <2>5. CASE ServerDies(c)
    BY <2>0, <2>5 DEF ServerDies
  <2> QED
    BY <1>2, <2>1, <2>2, <2>3, <2>4, <2>5 DEF Server
<1>3. CASE UNCHANGED vars
  BY <1>3 DEF vars, handler
<1> QED
  BY <1>1, <1>2, <1>3 DEF Next

\* Types hold for every value of the constants.
THEOREM ConnectionTypes == Spec => []ConnectionTypeOK
BY TypeInit, TypeStep, PTL DEF Spec

-----------------------------------------------------------------------------
(* Framing.  A body is on the socket only while its own request is being    *)
(* handled, and then the flag of that request says it was not read.         *)

BodyOwned ==
  \A c \in Conns : unread[c] =>
    pc[c] \in {"handle", "answer"} /\ Declared(req[c]) /\ ~consumed[c]

LEMMA BodyStep == ConnectionTypeOK /\ BodyOwned /\ [Next]_vars => BodyOwned'
<1> SUFFICES ASSUME ConnectionTypeOK, BodyOwned, [Next]_vars PROVE BodyOwned'
  OBVIOUS
<1> USE DEF ConnectionTypeOK, BodyOwned, Declared
<1>1. ASSUME NEW c \in Conns, Worker(c) PROVE BodyOwned'
  <2>1. CASE HangUp(c)
    BY <2>1 DEF HangUp, Quit, FreshHandler, Goto
  <2>2. CASE ReadBody(c)
    BY <2>2 DEF ReadBody, Goto
  <2>3. CASE NoBodyWanted(c)
    BY <2>3 DEF NoBodyWanted, Goto, handler
  <2>4. CASE Send(c)
    BY <2>4 DEF Send, Quit, FreshHandler, Goto
  <2>5. CASE StoreUnavailable(c)
    BY <2>5 DEF StoreUnavailable, Quit, FreshHandler, Goto
  <2>6. CASE Shutdown(c)
    BY <2>6 DEF Shutdown, Goto, handler
  <2>7. ASSUME NEW r \in Request, Parse(c, r) PROVE BodyOwned'
    BY <2>7 DEF Parse, Quit, FreshHandler, FlagReset, Goto
  <2> QED
    BY <1>1, <2>1, <2>2, <2>3, <2>4, <2>5, <2>6, <2>7 DEF Worker
<1>2. ASSUME NEW c \in Conns, Server(c) PROVE BodyOwned'
  BY <1>2 DEF Server, Accept, ThreadStarts, StartFails, ShutUnstarted, ServerDies, Goto, handler
<1>3. CASE UNCHANGED vars
  BY <1>3 DEF vars, handler
<1> QED
  BY <1>1, <1>2, <1>3 DEF Next

\* The parser never starts inside the body of an earlier request.
THEOREM AlwaysAligned == Spec => []Aligned
<1>1. Init => BodyOwned
  BY DEF Init, BodyOwned
<1>2. BodyOwned => Aligned
  BY DEF BodyOwned, Aligned
<1> QED
  BY <1>1, <1>2, ConnectionTypes, BodyStep, PTL DEF Spec

-----------------------------------------------------------------------------
(* Slots.  Every connection that has not ended its worker is counted: a     *)
(* slot is free or held (from below), and those held, with the connection   *)
(* the server is about to drop, exceed the ceiling by one for every thread  *)
(* that failed to start (from above).                                       *)

Busy     == {c \in Conns : pc[c] # "off"}
Failed   == MaxUnstarted - unstarted
SlotsLow == slots + Cardinality(Holding) >= MaxConnections
SlotsTop == slots + Cardinality(Busy) <= MaxConnections + Failed
SlotInv  == ConnectionTypeOK /\ SlotsLow /\ SlotsTop

\* A set of connections has a size, which one connection changes by one.
LEMMA Sizes ==
  ASSUME NEW S \in SUBSET Conns
  PROVE  /\ IsFiniteSet(S) /\ Cardinality(S) \in Nat
         /\ \A c \in Conns \ S : Cardinality(S \cup {c}) = Cardinality(S) + 1
         /\ \A c \in S : Cardinality(S \ {c}) = Cardinality(S) - 1
<1>1. IsFiniteSet(S)
  BY ConnectionConstants, FS_Subset
<1> QED
  BY <1>1, FS_CardinalityType, FS_AddElement, FS_RemoveElement

LEMMA SizesNow ==
  /\ Holding \in SUBSET Conns /\ Busy \in SUBSET Conns
  /\ Cardinality(Holding) \in Nat /\ Cardinality(Busy) \in Nat
  /\ Cardinality(Holding)' \in Nat /\ Cardinality(Busy)' \in Nat
<1>1. Holding \in SUBSET Conns /\ Busy \in SUBSET Conns
  BY DEF Holding, Started, Busy
<1>2. Holding' \in SUBSET Conns /\ Busy' \in SUBSET Conns
  BY DEF Holding, Started, Busy
<1> QED
  BY <1>1, <1>2, Sizes

\* A step within the worker, or none at all, changes neither set.
LEMMA SlotsSame ==
  ASSUME SlotInv, ConnectionTypeOK', slots' = slots, unstarted' = unstarted,
         Holding' = Holding, Busy' = Busy
  PROVE  SlotInv'
BY DEF SlotInv, SlotsLow, SlotsTop, Failed

LEMMA SlotInit == Init => SlotInv
<1> SUFFICES ASSUME Init PROVE SlotInv
  OBVIOUS
<1>1. Holding = {} /\ Busy = {}
  BY DEF Init, Holding, Started, Busy
<1>2. Cardinality({}) = 0
  BY FS_EmptySet
<1> QED
  BY <1>1, <1>2, TypeInit, ConnectionConstants
  DEF Init, SlotInv, SlotsLow, SlotsTop, Failed

LEMMA SlotStep == SlotInv /\ [Next]_vars => SlotInv'
<1> SUFFICES ASSUME SlotInv, [Next]_vars PROVE SlotInv'
  OBVIOUS
<1>0. ConnectionTypeOK /\ ConnectionTypeOK'
  BY TypeStep DEF SlotInv
<1>1. ASSUME NEW c \in Conns, pc[c] \in {"parse", "handle", "answer"},
             pc'[c] \in {"parse", "handle", "answer", "shut"},
             \A d \in Conns \ {c} : pc'[d] = pc[d], UNCHANGED <<slots, unstarted>>
      PROVE  SlotInv'
  <2>1. Holding' = Holding /\ Busy' = Busy
    BY <1>1 DEF Holding, Started, Busy
  <2> QED
    BY <1>0, <1>1, <2>1, SlotsSame
<1>2. ASSUME NEW c \in Conns, c \in Busy, pc'[c] = "off",
             \A d \in Conns \ {c} : pc'[d] = pc[d], Release, UNCHANGED unstarted,
             pc[c] \in {"shut", "unstarted"}
      PROVE  SlotInv'
  <2>1. Busy' = Busy \ {c}
    BY <1>2 DEF Busy
  <2>2. Cardinality(Busy') = Cardinality(Busy) - 1
    BY <1>2, <2>1, Sizes, SizesNow
  <2>3. Holding' = IF pc[c] = "shut" THEN Holding \ {c} ELSE Holding
    BY <1>2 DEF Holding, Started
  <2>4. Cardinality(Holding') >= Cardinality(Holding) - 1
    <3>1. CASE pc[c] = "shut"
      <4>1. c \in Holding
        BY <3>1 DEF Holding, Started
      <4> QED
        BY <3>1, <4>1, <2>3, Sizes, SizesNow
    <3>2. CASE pc[c] # "shut"
      BY <3>2, <2>3, SizesNow
    <3> QED
      BY <3>1, <3>2
  <2> QED
    BY <1>0, <1>2, <2>2, <2>4, SizesNow, ConnectionConstants
    DEF SlotInv, SlotsLow, SlotsTop, Failed, Release, Releasable, ConnectionTypeOK
<1>3. ASSUME NEW c \in Conns, Accept(c) PROVE SlotInv'
  <2>1. CASE slots > 0
    <3>1. Busy' = Busy \cup {c} /\ c \notin Busy
      BY <1>0, <1>3, <2>1 DEF Accept, Goto, Busy, ConnectionTypeOK
    <3>2. Holding' = Holding \cup {c} /\ c \notin Holding
      BY <1>0, <1>3, <2>1 DEF Accept, Goto, Holding, Started, ConnectionTypeOK
    <3>3. /\ Cardinality(Busy') = Cardinality(Busy) + 1
          /\ Cardinality(Holding') = Cardinality(Holding) + 1
      BY <3>1, <3>2, Sizes, SizesNow
    <3>4. slots' = slots - 1 /\ unstarted' = unstarted
      BY <1>3, <2>1 DEF Accept
    <3> QED
      BY <1>0, <3>3, <3>4, SizesNow, ConnectionConstants
      DEF SlotInv, SlotsLow, SlotsTop, Failed, ConnectionTypeOK
  <2>2. CASE ~(slots > 0)
    <3>1. UNCHANGED <<slots, pc, unstarted>>
      BY <1>3, <2>2 DEF Accept
    <3>2. Holding' = Holding /\ Busy' = Busy
      BY <3>1 DEF Holding, Started, Busy
    <3> QED
      BY <1>0, <3>1, <3>2, SlotsSame
  <2> QED
    BY <2>1, <2>2
<1>4. ASSUME NEW c \in Conns, ThreadStarts(c) PROVE SlotInv'
  <2>1. Holding' = Holding /\ Busy' = Busy
    BY <1>0, <1>4 DEF ThreadStarts, Goto, Holding, Started, Busy, ConnectionTypeOK
  <2> QED
    BY <1>0, <1>4, <2>1, SlotsSame DEF ThreadStarts
<1>5. ASSUME NEW c \in Conns, StartFails(c) PROVE SlotInv'
  <2>1. Busy' = Busy
    BY <1>0, <1>5 DEF StartFails, Goto, Busy, ConnectionTypeOK
  <2>2. Holding' = Holding \ {c} /\ c \in Holding
    BY <1>0, <1>5 DEF StartFails, Goto, Holding, Started, ConnectionTypeOK
  <2>3. Cardinality(Holding') = Cardinality(Holding) - 1
    BY <2>2, Sizes, SizesNow
  <2>4. Release /\ unstarted' = unstarted - 1
    BY <1>5 DEF StartFails
  <2> QED
    BY <1>0, <2>1, <2>3, <2>4, SizesNow, ConnectionConstants
    DEF SlotInv, SlotsLow, SlotsTop, Failed, Release, Releasable, ConnectionTypeOK
<1>6. ASSUME NEW c \in Conns, ServerDies(c) PROVE SlotInv'
  <2>1. Holding' = {} /\ Busy' = {}
    BY <1>6 DEF ServerDies, Holding, Started, Busy
  <2>2. Cardinality({}) = 0
    BY FS_EmptySet
  <2>3. slots' = MaxConnections /\ unstarted' = unstarted
    BY <1>6 DEF ServerDies
  <2> QED
    BY <1>0, <2>1, <2>2, <2>3, ConnectionConstants
    DEF SlotInv, SlotsLow, SlotsTop, Failed, ConnectionTypeOK
<1>7. ASSUME NEW c \in Conns, Worker(c) PROVE SlotInv'
  <2>1. CASE Shutdown(c)
    BY <1>0, <1>2, <2>1 DEF Shutdown, ReleaseSlot, Goto, Busy, ConnectionTypeOK
  <2>2. CASE HangUp(c)
    BY <1>0, <1>1, <2>2 DEF HangUp, Quit, Goto, ConnectionTypeOK
  <2>3. CASE ReadBody(c)
    BY <1>0, <1>1, <2>3 DEF ReadBody, Goto, ConnectionTypeOK
  <2>4. CASE NoBodyWanted(c)
    BY <1>0, <1>1, <2>4 DEF NoBodyWanted, Goto, ConnectionTypeOK
  <2>5. CASE Send(c)
    BY <1>0, <1>1, <2>5 DEF Send, Quit, Goto, ConnectionTypeOK
  <2>6. CASE StoreUnavailable(c)
    BY <1>0, <1>1, <2>6 DEF StoreUnavailable, Quit, Goto, ConnectionTypeOK
  <2>7. ASSUME NEW r \in Request, Parse(c, r) PROVE SlotInv'
    BY <1>0, <1>1, <2>7 DEF Parse, Quit, Goto, ConnectionTypeOK
  <2> QED
    BY <1>7, <2>1, <2>2, <2>3, <2>4, <2>5, <2>6, <2>7 DEF Worker
<1>8. ASSUME NEW c \in Conns, ShutUnstarted(c) PROVE SlotInv'
  BY <1>0, <1>2, <1>8 DEF ShutUnstarted, Goto, Busy, ConnectionTypeOK
<1>9. CASE UNCHANGED vars
  <2>1. Holding' = Holding /\ Busy' = Busy
    BY <1>9 DEF vars, Holding, Started, Busy
  <2> QED
    BY <1>0, <1>9, <2>1, SlotsSame DEF vars
<1> QED
  BY <1>3, <1>4, <1>5, <1>6, <1>7, <1>8, <1>9 DEF Next, Server

\* No ending of a connection costs a slot.
THEOREM SlotsKept == Spec => []NoSlotLost
<1>1. SlotInv => NoSlotLost
  BY DEF SlotInv, SlotsLow, NoSlotLost
<1> QED
  BY <1>1, SlotInit, SlotStep, PTL DEF Spec

\* The ceiling holds up to the threads that could not be started.
THEOREM CeilingKept == Spec => []Ceiling
<1>1. SlotInv => Ceiling
  <2> SUFFICES ASSUME SlotInv PROVE Ceiling
    OBVIOUS
  <2>1. Started \in SUBSET Busy
    BY DEF Started, Busy
  <2>2. IsFiniteSet(Busy) /\ IsFiniteSet(Started)
    BY Sizes, SizesNow, <2>1
  <2>3. Cardinality(Started) \in Nat /\ Cardinality(Started) <= Cardinality(Busy)
    BY <2>1, <2>2, FS_Subset, FS_CardinalityType
  <2> QED
    BY <2>3, SizesNow, ConnectionConstants
    DEF SlotInv, SlotsTop, Ceiling, Failed, ConnectionTypeOK
<1> QED
  BY <1>1, SlotInit, SlotStep, PTL DEF Spec
=============================================================================
