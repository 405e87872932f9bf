-------------------------- MODULE InstallerProofs --------------------------
(***************************************************************************)
(* Proof that Installer::start reports a success only for its own bundle,  *)
(* for any number of calls, any timeout and all faults, except that of a   *)
(* client that begins to install in the middle of the loop.                *)
(***************************************************************************)
EXTENDS Installer, TLAPS

(* The success that the agent may report, see SuccessIsOurs.               *)
Earned == outcome[call] = "ok" \/ (shared /\ outcome[Others] = "ok")

(* In the loop RAUC has this call's bundle or none, and what waits in the  *)
(* main context or was taken from it is about it, or about the client that *)
(* came in between.  An earlier success that still waits when RAUC takes   *)
(* the bundle is overruled by its announcement.                            *)
LoopIsOurs ==
    pc \in {"poll", "progress"} =>
        /\ raucJob \in {call, NoJob} \/ (shared /\ raucJob = Others)
        /\ pending = "ok" => Earned
        /\ succeeded => Earned

Inv == TypeOK /\ LoopIsOurs /\ SuccessIsOurs

(* The numbers of calls are no NoJob, and every call has an outcome.       *)
LEMMA Jobs ==
    /\ 0 .. MaxCalls = Calls \cup {Others}
    /\ NoJob \notin Calls \cup {Others}
<1>1. ASSUME NEW j PROVE j \in 0 .. MaxCalls <=> j \in Calls \cup {Others}
  BY MaxCallsAssumption DEF Calls, Others
<1>2. NoJob \notin Calls \cup {Others}
  BY MaxCallsAssumption DEF Calls, Others, NoJob
<1> QED BY <1>1, <1>2

(* The first states.                                                       *)
LEMMA InitInv == Init => Inv
<1> SUFFICES ASSUME Init PROVE Inv
  OBVIOUS
<1>1. call \in 0 .. MaxCalls /\ waited \in 0 .. MaxWaits
  BY MaxCallsAssumption, MaxWaitsAssumption DEF Init
<1>2. outcome \in [Calls \cup {Others} -> {"none", "ok", "failed"}]
  BY DEF Init
<1>3. TypeOK
  BY <1>1, <1>2 DEF Init, TypeOK
<1>4. LoopIsOurs /\ SuccessIsOurs
  BY DEF Init, LoopIsOurs, SuccessIsOurs, Earned
<1> QED BY <1>3, <1>4 DEF Inv

(* The steps of installBundle.                                             *)
LEMMA CallInv ==
    ASSUME Inv, GetBundleVersion \/ Begin \/ Drain \/ Query \/ Call
    PROVE  Inv'
<1> USE DEF Inv, TypeOK, LoopIsOurs, SuccessIsOurs, Earned, signals
<1>1. CASE Begin
  <2>1. call' \in 0 .. MaxCalls /\ waited' \in 0 .. MaxWaits
    BY <1>1, MaxCallsAssumption, MaxWaitsAssumption DEF Begin
  <2> QED BY <1>1, <2>1 DEF Begin
<1>2. CASE GetBundleVersion \/ Drain
  BY <1>2 DEF GetBundleVersion, Drain, Iterate, StillInstalling, Succeeded, Believing, FailsByRestart
<1>3. CASE Query
  BY <1>3 DEF Query, Return
<1>4. CASE Call
  BY <1>4, Jobs DEF Call, RaucTakes, Queue, Return
<1> QED BY <1>1, <1>2, <1>3, <1>4

(* The steps of the loop: a success is what was signalled for this call.   *)
LEMMA LoopInv ==
    ASSUME Inv, Poll \/ GetProgress
    PROVE  Inv'
<1> USE DEF Inv, TypeOK, LoopIsOurs, SuccessIsOurs, Earned, signals
<1>1. CASE Poll
  BY <1>1 DEF Poll, Iterate, StillInstalling, Succeeded, Believing, FailsByRestart, Return
<1>2. CASE GetProgress
  <2>1. PICK p : Wait(p)
    BY <1>2 DEF GetProgress
  <2>2. waited' \in 0 .. MaxWaits
    BY <2>1, MaxWaitsAssumption DEF Wait, Return
  <2>3. /\ pc' \in {"out", "poll"} /\ result' \in {"timeout", result}
        /\ installing' \in BOOLEAN /\ succeeded' \in BOOLEAN
        /\ succeeded' => succeeded
    BY <2>1 DEF Wait, Return
  <2>4. pc = "progress" /\ UNCHANGED <<call, signals, raucJob, progress, outcome, exclusive, shared>>
    BY <1>2 DEF GetProgress
  <2>5. TypeOK'
    BY <2>2, <2>3, <2>4
  <2>6. LoopIsOurs'
    BY <2>3, <2>4
  <2>7. SuccessIsOurs'
    BY <2>3, <2>4
  <2> QED BY <2>5, <2>6, <2>7
<1> QED BY <1>1, <1>2

(* A new process waits for nothing.                                        *)
LEMMA CrashInv ==
    ASSUME Inv, Crash
    PROVE  Inv'
<1>1. waited' \in 0 .. MaxWaits
  BY MaxWaitsAssumption DEF Crash
<1>2. TypeOK'
  BY <1>1 DEF Inv, TypeOK, Crash
<1>3. LoopIsOurs' /\ SuccessIsOurs'
  BY DEF LoopIsOurs, SuccessIsOurs, Earned, Crash
<1> QED BY <1>2, <1>3 DEF Inv

(* RAUC never takes a success back, and signals it for the job it has.     *)
LEMMA RaucInv ==
    ASSUME Inv, Rauc
    PROVE  Inv'
<1> USE DEF Inv, TypeOK, LoopIsOurs, SuccessIsOurs, Earned, agent, signals
<1>1. CASE RaucWorks \/ RaucChecksBundle
  BY <1>1 DEF RaucWorks, RaucChecksBundle, Progresses
<1>2. CASE RaucReports
  <2>1. PICK o \in {"ok", "failed"} :
            /\ outcome' = [outcome EXCEPT ![raucJob] = o]
            /\ progress' = IF o = "ok" THEN "done" ELSE "failed"
    BY <1>2 DEF RaucReports
  <2>2. /\ outcome' \in [Calls \cup {Others} -> {"none", "ok", "failed"}]
        /\ progress' \in Progresses
    BY <2>1 DEF Progresses
  <2>3. \A j \in Calls \cup {Others} : outcome[j] = "ok" => outcome'[j] = "ok"
    BY <1>2, <2>1 DEF RaucReports
  <2>4. call \in Calls \cup {Others} /\ Others \in Calls \cup {Others}
    BY Jobs
  <2>5. Earned => Earned'
    BY <1>2, <2>3, <2>4 DEF RaucReports
  <2> QED BY <1>2, <2>2, <2>5 DEF RaucReports
<1>3. CASE RaucCompletes
  <2>1. outcome[raucJob] \in {"ok", "failed"}
    BY <1>3 DEF RaucCompletes
  <2>2. pending' = outcome[raucJob]
    BY <1>3, <2>1 DEF RaucCompletes, Queue
  <2> QED BY <1>3, <2>1, <2>2, Jobs DEF RaucCompletes
<1>4. CASE RaucRestarts
  <2>1. outcome' \in [Calls \cup {Others} -> {"none", "ok", "failed"}]
    BY <1>4 DEF RaucRestarts
  <2>2. Earned => Earned'
    BY <1>4, Jobs DEF RaucRestarts
  <2> QED BY <1>4, <2>1, <2>2 DEF RaucRestarts, Progresses
<1>5. CASE OthersInstall
  BY <1>5 DEF OthersInstall, Queue
<1> QED BY <1>1, <1>2, <1>3, <1>4, <1>5 DEF Rauc

(* Every step of the call, of a crash and of RAUC keeps Inv.               *)
LEMMA NextInv == Inv /\ [Next]_vars => Inv'
<1> SUFFICES ASSUME Inv, [Next]_vars PROVE Inv'
  OBVIOUS
<1>1. CASE UNCHANGED vars
  BY <1>1 DEF vars, agent, signals, Inv, TypeOK, LoopIsOurs, SuccessIsOurs, Earned
<1> QED
  BY <1>1, CallInv, LoopInv, CrashInv, RaucInv DEF Next, Start

(* Type correctness; the waiting time stays within the timeout.            *)
THEOREM InstallerIsTyped == Spec => []TypeOK
<1>1. Inv => TypeOK
  BY DEF Inv
<1> QED BY <1>1, InitInv, NextInv, PTL DEF Spec

(* A success is the success of the bundle of this call, although earlier   *)
(* installations may end and signal at any time, or of a client that came  *)
(* in between.                                                             *)
THEOREM SuccessBelongsToCall == Spec => []SuccessIsOurs
<1>1. Inv => SuccessIsOurs
  BY DEF Inv
<1> QED BY <1>1, InitInv, NextInv, PTL DEF Spec

(* If nobody else installs, it is that of the bundle of this call.         *)
THEOREM AloneSuccessIsExclusive ==
    Spec => [](exclusive /\ result = "ok" => outcome[call] = "ok")
<1>1. Init => (exclusive => ~shared)
  BY DEF Init
<1>2. (exclusive => ~shared) /\ [Next]_vars => (exclusive => ~shared)'
  BY DEF Next, Start, Rauc, GetBundleVersion, Begin, Drain, Query, Call, Poll, GetProgress,
         Crash, RaucWorks, RaucReports, RaucCompletes, RaucChecksBundle, RaucRestarts,
         OthersInstall, vars, agent, signals
<1>3. SuccessIsOurs /\ (exclusive => ~shared)
      => (exclusive /\ result = "ok" => outcome[call] = "ok")
  BY DEF SuccessIsOurs
<1> QED BY <1>1, <1>2, <1>3, SuccessBelongsToCall, PTL DEF Spec

----------------------------------------------------------------------------
(* The contract.  Without another client, a success in the loop is known   *)
(* only when RAUC has ended this call's job and rests.                     *)
LoopIsAlone == exclusive =>
    /\ Polling =>
          /\ raucJob \in {call, NoJob}
          /\ pending = "ok" \/ succeeded => raucJob = NoJob /\ outcome[call] = "ok"
    /\ pc # "out" => result = "none"
    /\ result = "ok" => raucJob = NoJob

(* The steps of Installer::start and the crash keep LoopIsAlone.           *)
LEMMA StartAlone ==
    ASSUME TypeOK, LoopIsAlone, Start \/ Crash
    PROVE  LoopIsAlone'
<1> USE DEF LoopIsAlone, Polling, TypeOK, signals
<1>1. CASE GetBundleVersion \/ Begin \/ Drain \/ Query \/ Crash
  BY <1>1 DEF GetBundleVersion, Begin, Drain, Iterate, Query, Return, Crash
<1>2. CASE Call
  BY <1>2 DEF Call, RaucTakes, Queue, Return
<1>3. CASE Poll
  BY <1>3 DEF Poll, Iterate, StillInstalling, Succeeded, Believing, FailsByRestart, Return
<1>4. CASE GetProgress
  <2>1. PICK p : Wait(p)
    BY <1>4 DEF GetProgress
  <2>2. /\ pc' \in {"out", "poll"} /\ result' \in {"timeout", result}
        /\ pc' = "poll" => result' = result
        /\ succeeded' => succeeded
    BY <2>1 DEF Wait, Return
  <2>3. pc = "progress" /\ UNCHANGED <<call, signals, raucJob, outcome, exclusive>>
    BY <1>4 DEF GetProgress
  <2> QED BY <2>2, <2>3
<1> QED BY <1>1, <1>2, <1>3, <1>4 DEF Start

(* RAUC keeps it: the only job it can end in the loop is the call's.       *)
LEMMA RaucAlone ==
    ASSUME TypeOK, LoopIsAlone, Rauc
    PROVE  LoopIsAlone'
<1> USE DEF LoopIsAlone, Polling, TypeOK, agent, signals
<1>1. CASE RaucWorks \/ RaucChecksBundle
  BY <1>1 DEF RaucWorks, RaucChecksBundle
<1>2. CASE RaucReports
  BY <1>2, Jobs DEF RaucReports
<1>3. CASE RaucCompletes
  BY <1>3 DEF RaucCompletes, Queue
<1>4. CASE RaucRestarts
  BY <1>4, Jobs DEF RaucRestarts
<1>5. CASE OthersInstall
  BY <1>5 DEF OthersInstall
<1> QED BY <1>1, <1>2, <1>3, <1>4, <1>5 DEF Rauc

(* Without another client the loop is alone with RAUC.                     *)
LEMMA AlwaysAlone == Spec => [](TypeOK /\ LoopIsAlone)
<1>1. Init => LoopIsAlone
  BY DEF Init, LoopIsAlone, Polling
<1>2. TypeOK /\ LoopIsAlone /\ [Next]_vars => LoopIsAlone'
  <2> SUFFICES ASSUME TypeOK, LoopIsAlone, [Next]_vars PROVE LoopIsAlone'
    OBVIOUS
  <2>1. CASE UNCHANGED vars
    BY <2>1 DEF vars, agent, signals, LoopIsAlone, Polling
  <2> QED BY <2>1, StartAlone, RaucAlone DEF Next
<1> QED BY <1>1, <1>2, InstallerIsTyped, PTL DEF Spec

(* What the steps of Installer::start are for the contract.                *)
LEMMA StartKeepsContract ==
    ASSUME TypeOK, LoopIsAlone, Start \/ Crash
    PROVE  [Contract!Next]_(Contract!ivars)
<1> USE DEF LoopIsAlone, Polling, TypeOK, signals, Contract!ivars, Contract!Next
<1>0. CASE ~exclusive
  <2>1. ~exclusive'
    BY <1>0 DEF Start, GetBundleVersion, Begin, Drain, Query, Call, Poll, GetProgress, Crash
  <2> QED BY <1>0, <2>1
<1> SUFFICES ASSUME exclusive, exclusive' PROVE [Contract!Next]_(Contract!ivars)
  BY <1>0 DEF Start, GetBundleVersion, Begin, Drain, Query, Call, Poll, GetProgress, Crash
<1>1. CASE Begin \/ Query \/ Crash
  <2>1. Contract!GiveUp
    BY <1>1 DEF Begin, Query, Crash, Return, Contract!GiveUp
  <2> QED BY <2>1
<1>2. CASE GetBundleVersion \/ Drain
  BY <1>2 DEF GetBundleVersion, Drain, Iterate
<1>3. CASE Call
  <2>1. CASE RaucTakes /\ pc' = "poll"
    <3>1. Contract!Ask
      BY <1>3, <2>1, Jobs DEF Call, RaucTakes, Return, Contract!Ask, Calls
    <3> QED BY <3>1
  <2>2. CASE RaucTakes /\ pc' = "out"
    <3>1. Contract!LoseReply
      BY <1>3, <2>2, Jobs DEF Call, RaucTakes, Return, Contract!LoseReply
    <3> QED BY <3>1
  <2>3. CASE UNCHANGED raucJob /\ Return("failed")
    <3>1. Contract!GiveUp
      BY <1>3, <2>3 DEF Call, Return, Contract!GiveUp
    <3> QED BY <3>1
  <2> QED BY <1>3, <2>1, <2>2, <2>3 DEF Call, Return
<1>4. CASE Poll
  <2>1. CASE installing'
    BY <1>4, <2>1 DEF Poll, Iterate
  <2>2. CASE ~installing' /\ succeeded'
    <3>1. raucJob = NoJob /\ outcome[call] = "ok"
      BY <1>4, <2>2 DEF Poll, Iterate, Succeeded
    <3>2. raucJob # call
      BY <3>1, Jobs
    <3>3. pc' = "out" /\ result' = "ok" /\ UNCHANGED raucJob
      BY <1>4, <2>2 DEF Poll, Iterate, Return
    <3>4. Contract!Succeed
      BY <1>4, <3>1, <3>2, <3>3 DEF Poll, Contract!Succeed
    <3> QED BY <3>4
  <2>3. CASE ~installing' /\ ~succeeded'
    <3>1. Contract!GiveUp
      BY <1>4, <2>3 DEF Poll, Iterate, Return, Contract!GiveUp
    <3> QED BY <3>1
  <2> QED BY <2>1, <2>2, <2>3
<1>5. CASE GetProgress
  <2>1. PICK p : Wait(p)
    BY <1>5 DEF GetProgress
  <2>2. pc = "progress" /\ UNCHANGED <<call, raucJob, outcome>>
    BY <1>5 DEF GetProgress
  <2>3. CASE Return("timeout")
    <3>1. Contract!GiveUp
      BY <2>2, <2>3 DEF Return, Contract!GiveUp
    <3> QED BY <3>1
  <2>4. CASE pc' = "poll" /\ UNCHANGED result
    BY <2>2, <2>4
  <2> QED BY <2>1, <2>3, <2>4 DEF Wait
<1> QED BY <1>1, <1>2, <1>3, <1>4, <1>5 DEF Start

(* What the steps of RAUC are for the contract.                            *)
LEMMA RaucKeepsContract ==
    ASSUME TypeOK, LoopIsAlone, Rauc
    PROVE  [Contract!Next]_(Contract!ivars)
<1> USE DEF LoopIsAlone, Polling, TypeOK, agent, signals, Contract!ivars, Contract!Next
<1>0. CASE ~exclusive
  <2>1. ~exclusive'
    BY <1>0 DEF Rauc, RaucWorks, RaucReports, RaucCompletes,
         RaucChecksBundle, RaucRestarts, OthersInstall
  <2> QED BY <1>0, <2>1
<1> SUFFICES ASSUME exclusive, exclusive' PROVE [Contract!Next]_(Contract!ivars)
  BY <1>0 DEF Rauc, RaucWorks, RaucReports, RaucCompletes,
         RaucChecksBundle, RaucRestarts, OthersInstall
<1>1. CASE RaucWorks \/ RaucChecksBundle
  BY <1>1 DEF RaucWorks, RaucChecksBundle
<1>2. CASE RaucReports
  BY <1>2, Jobs DEF RaucReports
<1>3. CASE RaucCompletes
  <2>1. PICK o \in {"ok", "failed"} : outcome[raucJob] = o
    BY <1>3 DEF RaucCompletes
  <2>2. Contract!End(o)
    BY <1>3, <2>1, Jobs DEF RaucCompletes, Contract!End
  <2> QED BY <2>1, <2>2
<1>4. CASE RaucRestarts
  <2>1. CASE raucJob = NoJob
    BY <1>4, <2>1 DEF RaucRestarts
  <2>2. CASE raucJob # NoJob
    <3>1. PICK o \in {"ok", "failed"} : outcome'[raucJob] = o
      BY <1>4, <2>2, Jobs DEF RaucRestarts
    <3>2. Contract!End(o)
      BY <1>4, <2>2, <3>1, Jobs DEF RaucRestarts, Contract!End
    <3> QED BY <3>1, <3>2
  <2> QED BY <2>1, <2>2
<1>5. CASE OthersInstall
  BY <1>5 DEF OthersInstall
<1> QED BY <1>1, <1>2, <1>3, <1>4, <1>5 DEF Rauc

(* Installer::start keeps the contract that the state machine builds on,   *)
(* for any number of calls and any timeout, with crashes, restarts of RAUC *)
(* and calls without an answer.                                            *)
THEOREM InstallerKeepsContract == Spec => KeepsContract
<1>1. Init => Contract!Init
  BY Jobs DEF Init, Contract!Init, Polling
<1>2. TypeOK /\ LoopIsAlone /\ [Next]_vars => [Contract!Next]_(Contract!ivars)
  <2> SUFFICES ASSUME TypeOK, LoopIsAlone, [Next]_vars
               PROVE  [Contract!Next]_(Contract!ivars)
    OBVIOUS
  <2>1. CASE UNCHANGED vars
    BY <2>1 DEF vars, agent, signals, Contract!ivars, Polling
  <2> QED BY <2>1, StartKeepsContract, RaucKeepsContract DEF Next
<1> QED BY <1>1, <1>2, AlwaysAlone, PTL DEF Spec, KeepsContract, Contract!Spec
=============================================================================
