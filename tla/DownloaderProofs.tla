-------------------------- MODULE DownloaderProofs --------------------------
(***************************************************************************)
(* Proofs about the progress reports of a download, for all sizes, numbers *)
(* of bytes and subscriptions.                                             *)
(***************************************************************************)
EXTENDS Downloader, TLAPS

(* The limiter counts the reports of the running transfer and rests at     *)
(* zero, and a body that downloads is the first one of its state object.   *)
InStep ==
    /\ limiter = IF phase = "transfer" THEN 10 * notified ELSE 0
    /\ phase = "waiting" /\ downloadMode => owned = {}

Inv == TypeOK /\ InStep /\ ReportsComeInSteps /\ ListenersLive

(* A percentage is one.                                                    *)
LEMMA PercentageRange ==
    ASSUME NEW n \in Nat, NEW t \in Nat
    PROVE  Percentage(n, t) \in 0 .. 100
<1>1. CASE t = 0
  BY <1>1 DEF Percentage
<1>2. CASE t # 0
  <2> DEFINE p == (100 * n) \div t
  <2>1. p \in Int /\ p >= 0
    BY <1>2, SMT
  <2>2. Percentage(n, t) = IF p > 100 THEN 100 ELSE p
    BY <1>2 DEF Percentage
  <2> HIDE DEF p
  <2> QED BY <2>1, <2>2
<1> QED BY <1>1, <1>2

(* The first states.                                                       *)
LEMMA InitInv == Init => Inv
<1> SUFFICES ASSUME Init PROVE Inv
  OBVIOUS
<1>1. nextId \in 0 .. MaxSubscriptions
  BY MaxSubscriptionsAssumption DEF Init
<1> QED BY <1>1 DEF Init, Inv, TypeOK, InStep, ReportsComeInSteps, ListenersLive

(* An id that is free is one of Ids, and the next one is in its range.     *)
LEMMA FreeId ==
    ASSUME nextId \in 0 .. MaxSubscriptions, nextId < MaxSubscriptions
    PROVE  nextId \in Ids /\ nextId + 1 \in 0 .. MaxSubscriptions
BY MaxSubscriptionsAssumption DEF Ids

(* The steps in which no bytes arrive.                                     *)
LEMMA VisitInv ==
    ASSUME Inv, Enter \/ Rollback \/ CheckStream \/ Open \/ FailToOpen
    PROVE  Inv'
<1> USE DEF Inv, TypeOK, InStep, ReportsComeInSteps, ListenersLive
<1>1. CASE Enter
  BY <1>1 DEF Enter, DestroyObject
<1>2. CASE Rollback
  BY <1>2 DEF Rollback, DestroyObject, progress
<1>3. CASE CheckStream
  <2>1. nextId \in Ids /\ nextId' \in 0 .. MaxSubscriptions
    BY <1>3, FreeId DEF CheckStream, Subscribe
  <2> QED BY <1>3, <2>1 DEF CheckStream, Subscribe, progress
<1>4. CASE Open
  <2>1. nextId \in Ids /\ nextId' \in 0 .. MaxSubscriptions
    BY <1>4, FreeId DEF Open, Subscribe
  <2>2. owned' = {nextId} /\ subscribers' = {nextId}
    BY <1>4 DEF Open, Subscribe
  <2> QED BY <1>4, <2>1, <2>2 DEF Open
<1>5. CASE FailToOpen
  <2>1. nextId' \in 0 .. MaxSubscriptions
    BY <1>5, FreeId DEF FailToOpen
  <2> QED BY <1>5, <2>1 DEF FailToOpen, DestroyObject, progress
<1> QED BY <1>1, <1>2, <1>3, <1>4, <1>5

(* Bytes arrive.  A report is due only up to 99 percent, so the tenth one  *)
(* lifts the limiter out of reach.                                         *)
LEMMA ReceiveInv ==
    ASSUME Inv, NEW t \in Sizes, NEW n \in 0 .. MaxBytes, Receive(t, n)
    PROVE  Inv'
<1> DEFINE p == Percentage(n, t)
<1>1. t \in Nat /\ n \in Nat
  BY SizesAssumption, MaxBytesAssumption
<1>2. p \in 0 .. 100
  BY <1>1, PercentageRange
<1>3. /\ phase = "transfer" /\ total' = t /\ now' = n
      /\ UNCHANGED <<phase, downloadMode, subscribers, owned, nextId, file, result>>
      /\ subscribers # {}
  BY DEF Receive, subscriptions, Inv, ListenersLive
<1>4. CASE Due(p)
  <2>1. p \in 0 .. 99 /\ 10 * notified <= p
    BY <1>2, <1>3, <1>4 DEF Due, Inv, TypeOK, InStep
  <2>2. percent' = p /\ limiter' = limiter + 10 /\ notified' = notified + 1
    BY <1>3, <1>4 DEF Receive
  <2> HIDE DEF p
  <2> QED BY <1>1, <1>3, <2>1, <2>2
          DEF Inv, TypeOK, InStep, ReportsComeInSteps, ListenersLive
<1>5. CASE ~Due(p)
  <2>1. UNCHANGED <<percent, limiter, notified>>
    BY <1>5 DEF Receive
  <2> QED BY <1>1, <1>3, <2>1
          DEF Inv, TypeOK, InStep, ReportsComeInSteps, ListenersLive
<1> QED BY <1>4, <1>5

(* The end of a transfer, and of the process.                              *)
LEMMA EndInv ==
    ASSUME Inv, Finish \/ Crash
    PROVE  Inv'
<1> USE DEF Inv, TypeOK, InStep, ReportsComeInSteps, ListenersLive
<1>1. CASE Finish
  BY <1>1 DEF Finish, Return, DestroyObject, Reset
<1>2. CASE Crash
  <2>1. nextId' \in 0 .. MaxSubscriptions
    BY <1>2, MaxSubscriptionsAssumption DEF Crash
  <2> QED BY <1>2, <2>1 DEF Crash
<1> QED BY <1>1, <1>2

(* Every step keeps Inv.                                                   *)
LEMMA NextInv == Inv /\ [Next]_vars => Inv'
<1> SUFFICES ASSUME Inv, [Next]_vars PROVE Inv'
  OBVIOUS
<1>1. CASE UNCHANGED vars
  BY <1>1 DEF vars, subscriptions, progress, Inv, TypeOK, InStep,
              ReportsComeInSteps, ListenersLive
<1> QED BY <1>1, VisitInv, ReceiveInv, EndInv DEF Next

(* Type correctness: the limiter stays within 0 .. 100, reports below 100. *)
THEOREM DownloadIsTyped == Spec => []TypeOK
<1>1. Inv => TypeOK
  BY DEF Inv
<1> QED BY <1>1, InitInv, NextInv, PTL DEF Spec

(* At most ten reports, the n-th of at least 10 * (n - 1) percent.         *)
THEOREM StepsAreReported == Spec => []ReportsComeInSteps
<1>1. Inv => ReportsComeInSteps
  BY DEF Inv
<1> QED BY <1>1, InitInv, NextInv, PTL DEF Spec

(* No callback of a state object that is gone, one listener per transfer.  *)
THEOREM ListenersAreAlive == Spec => []ListenersLive
<1>1. Inv => ListenersLive
  BY DEF Inv
<1> QED BY <1>1, InitInv, NextInv, PTL DEF Spec

(* Every transfer is reported from its beginning.                          *)
THEOREM BeginningIsReported == Spec => FirstProgressIsReported
<1>1. ASSUME Inv, NEW t \in Sizes, NEW n \in 0 .. MaxBytes,
             Receive(t, n), notified = 0, Percentage(n, t) < 100
      PROVE  notified' = 1
  <2>1. t \in Nat /\ n \in Nat
    BY SizesAssumption, MaxBytesAssumption
  <2>2. Percentage(n, t) \in 0 .. 99
    BY <1>1, <2>1, PercentageRange
  <2>3. limiter = 0
    BY <1>1 DEF Receive, Inv, InStep
  <2>4. Due(Percentage(n, t))
    BY <2>2, <2>3 DEF Due
  <2> QED BY <1>1, <2>4 DEF Receive
<1>2. Inv /\ [Next]_vars =>
        [\A t \in Sizes, n \in 0 .. MaxBytes :
            Receive(t, n) /\ notified = 0 /\ Percentage(n, t) < 100
                => notified' = 1]_vars
  BY <1>1
<1> QED BY <1>2, InitInv, NextInv, PTL DEF Spec, FirstProgressIsReported
=============================================================================
